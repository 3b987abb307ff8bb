----------------------------- MODULE ClientState -----------------------------
(***************************************************************************)
(* One session's preferences (ClientState and ClientFilter in filter.go)   *)
(* and the commands that change them (handleCommand and handleDX in        *)
(* commands.go).  The session's goroutine handles commands and decides on  *)
(* spots in one loop, so a spot sees the state between two commands.       *)
(*                                                                         *)
(* A spot has a stream, the values each simple field compares (a set,      *)
(* since a callsign has several prefixes) and an SNR.  A rule of a slot is *)
(* the set of spots its expression matches; module FilterExpr has the      *)
(* expressions themselves.  What a spot submission checks of its arguments *)
(* is abstracted to classes of frequency and of callsign.                  *)
(***************************************************************************)
EXTENDS Integers, Sequences

CONSTANTS Toggled,    \* streams with a toggle: decoder, cwskimmer, voice, ...
          Untoggled,  \* StreamLocalSpot, which has none
          OnAtStart,  \* streams newClientState wants
          Field,      \* the list-valued simple filters: band, mode, type, ...
          Value,      \* values of those
          Level,      \* SNR levels
          Arriving,   \* spots that may arrive
          Rule,       \* the sets of spots that expressions match
          LastSlot,   \* 9
          PassSet,    \* the operator configured a spot password
          Unset,      \* a nil pointer
          MaxSent     \* bound on submissions

ASSUME StateAssumption ==
  /\ Untoggled \notin Toggled /\ OnAtStart \subseteq Toggled
  /\ Level \subseteq Int /\ Unset \notin Level
  /\ \A s \in Arriving : /\ s.stream \in Toggled \cup {Untoggled}
                         /\ s.val \in [Field -> SUBSET Value]
                         /\ s.snr \in Int
  /\ \A r \in Rule : r \subseteq Arriving
  /\ {} \in Rule /\ Unset \notin Rule
  /\ LastSlot \in Nat \ {0} /\ MaxSent \in Nat
  /\ PassSet \in BOOLEAN

Slot == 0..LastSlot

VARIABLES named,    \* Name is set: the login gave a callsign
          wantAll,  \* WantAll
          want,     \* the streams whose toggle is on
          simple,   \* simple[f]: the list of a simple filter, empty = off
          minSNR, maxSNR,
          reject, accept,   \* Slots: the two rules of each slot, or Unset
          canSpot,  \* CanSpot
          proven,   \* history: the client gave the right password
          sent      \* history: submissions handed to the hub

filterVars == <<simple, minSNR, maxSNR, reject, accept>>
spotVars   == <<canSpot, proven, sent>>
clientVars == <<named, wantAll, want, filterVars, spotVars>>

NoRules == [n \in Slot |-> Unset]
NoLists == [f \in Field |-> {}]

\* A login line may carry the password; without a login there is no name.
ClientInit ==
  /\ named \in BOOLEAN
  /\ canSpot \in {FALSE, named /\ PassSet}
  /\ proven = canSpot
  /\ wantAll = TRUE /\ want = OnAtStart
  /\ simple = NoLists /\ minSNR = Unset /\ maxSNR = Unset
  /\ reject = NoRules /\ accept = NoRules
  /\ sent = <<>>

-----------------------------------------------------------------------------
(* Deciding on a spot.                                                     *)

MatchSimple(s) ==
  /\ \A f \in Field : simple[f] = {} \/ simple[f] \cap s.val[f] # {}
  /\ minSNR # Unset => s.snr >= minSNR
  /\ maxSNR # Unset => s.snr <= maxSNR

HasSlots == \E n \in Slot : reject[n] # Unset \/ accept[n] # Unset

\* Faulty: a reject rule that does not match leaves the result as it was.
AfterSlotKeeps(was, n, s) ==
  IF was.out THEN was
  ELSE IF reject[n] # Unset /\ s \in reject[n] THEN [out |-> TRUE, r |-> FALSE]
  ELSE IF accept[n] # Unset /\ s \in accept[n] THEN [out |-> TRUE, r |-> TRUE]
  ELSE [out |-> FALSE, r |-> IF accept[n] # Unset THEN FALSE ELSE was.r]

\* One round of the loop over the slots, with its running result r: a match
\* decides and leaves the loop, a rule that does not match sets the result
\* tentatively.
AfterSlot(was, n, s) ==
  IF was.out THEN was
  ELSE IF reject[n] # Unset /\ s \in reject[n] THEN [out |-> TRUE, r |-> FALSE]
  ELSE IF accept[n] # Unset /\ s \in accept[n] THEN [out |-> TRUE, r |-> TRUE]
  ELSE [out |-> FALSE, r |-> IF accept[n] # Unset THEN FALSE
                             ELSE IF reject[n] # Unset THEN TRUE ELSE was.r]

SlotVerdict(s) ==
  LET after[n \in 0..(LastSlot + 1)] ==
        IF n = 0 THEN [out |-> FALSE, r |-> TRUE] ELSE AfterSlot(after[n - 1], n - 1, s)
  IN  after[LastSlot + 1].r

Match(s) == MatchSimple(s) /\ (HasSlots => SlotVerdict(s))

\* A stream that has no toggle is not gated.
ShouldSend(s) ==
  /\ wantAll
  /\ s.stream \in Toggled => s.stream \in want
  /\ Match(s)

-----------------------------------------------------------------------------
(* Commands.  One that is refused with a message changes nothing and is    *)
(* not an action here.                                                     *)

\* SET/DX and UNSET/DX.
ToggleAll(on) ==
  /\ wantAll' = on
  /\ UNCHANGED <<named, want, filterVars, spotVars>>

\* SET/<stream> and UNSET/<stream>.
Toggle(st, on) ==
  /\ want' = IF on THEN want \cup {st} ELSE want \ {st}
  /\ UNCHANGED <<named, wantAll, filterVars, spotVars>>

\* ACCEPT/SPOTS and REJECT/SPOTS, and their RBN aliases: the text is parsed
\* before the slot is touched.
SetAccept(n, rule) ==
  /\ accept' = [accept EXCEPT ![n] = rule]
  /\ UNCHANGED <<named, wantAll, want, simple, minSNR, maxSNR, reject, spotVars>>

SetReject(n, rule) ==
  /\ reject' = [reject EXCEPT ![n] = rule]
  /\ UNCHANGED <<named, wantAll, want, simple, minSNR, maxSNR, accept, spotVars>>

\* A number that is no slot stays in the expression as a callsign prefix of
\* digits: slot 1 gets a rule that matches nothing.
SetSlotOutOfRange == SetAccept(1, {}) \/ SetReject(1, {})

ClearSlot(n) ==
  /\ reject' = [reject EXCEPT ![n] = Unset]
  /\ accept' = [accept EXCEPT ![n] = Unset]
  /\ UNCHANGED <<named, wantAll, want, simple, minSNR, maxSNR, spotVars>>

ClearSlots ==
  /\ reject' = NoRules /\ accept' = NoRules
  /\ UNCHANGED <<named, wantAll, want, simple, minSNR, maxSNR, spotVars>>

\* SET/FILTER <field> replaces the list; one that splits into nothing, or
\* into unknown types only, switches the filter off, as CLEAR/FILTER does.
SetField(f, vals) ==
  /\ simple' = [simple EXCEPT ![f] = vals]
  /\ UNCHANGED <<named, wantAll, want, minSNR, maxSNR, reject, accept, spotVars>>

SetMinSNR(v) ==
  /\ minSNR' = v
  /\ UNCHANGED <<named, wantAll, want, simple, maxSNR, reject, accept, spotVars>>

SetMaxSNR(v) ==
  /\ maxSNR' = v
  /\ UNCHANGED <<named, wantAll, want, simple, minSNR, reject, accept, spotVars>>

\* CLEAR/FILTER alone: a fresh ClientFilter, slots included; the toggles stay.
ClearFilter ==
  /\ simple' = NoLists /\ minSNR' = Unset /\ maxSNR' = Unset
  /\ reject' = NoRules /\ accept' = NoRules
  /\ UNCHANGED <<named, wantAll, want, spotVars>>

\* SET/SPOTPASS with the right or a wrong password; a wrong one takes nothing
\* back.
SpotPass(right) ==
  /\ PassSet
  /\ canSpot' = (canSpot \/ right)
  /\ proven' = (proven \/ right)
  /\ UNCHANGED <<named, wantAll, want, filterVars, sent>>

\* The classes of the frequency and the callsign of a DX command.  A
\* frequency spelled NaN parses, and compares with neither limit.
FreqClass == {"below", "inside", "above", "nan"}

InRange(freq) == freq \notin {"below", "above"}

\* Faulty: the login's callsign is not asked for.
DXUnnamed(freq, validCall) ==
  /\ PassSet /\ canSpot
  /\ InRange(freq) /\ validCall
  /\ Len(sent) < MaxSent
  /\ sent' = Append(sent, [freq |-> freq, spotter |-> named])
  /\ UNCHANGED <<named, wantAll, want, filterVars, canSpot, proven>>

\* DX: the submission is handed to the hub.
DX(freq, validCall) ==
  /\ PassSet /\ canSpot /\ named
  /\ InRange(freq) /\ validCall
  /\ Len(sent) < MaxSent
  /\ sent' = Append(sent, [freq |-> freq, spotter |-> named])
  /\ UNCHANGED <<named, wantAll, want, filterVars, canSpot, proven>>

ClientNext ==
  \/ \E on \in BOOLEAN : ToggleAll(on) \/ \E st \in Toggled : Toggle(st, on)
  \/ \E n \in Slot :
       \/ \E r \in Rule : SetAccept(n, r) \/ SetReject(n, r)
       \/ ClearSlot(n)
  \/ SetSlotOutOfRange \/ ClearSlots
  \/ \E f \in Field : \E vals \in SUBSET Value : SetField(f, vals)
  \/ \E v \in Level \cup {Unset} : SetMinSNR(v) \/ SetMaxSNR(v)
  \/ ClearFilter
  \/ \E right \in BOOLEAN : SpotPass(right)
  \/ \E freq \in FreqClass : \E valid \in BOOLEAN : DX(freq, valid)

ClientSpec == ClientInit /\ [][ClientNext]_clientVars

-----------------------------------------------------------------------------
(* Properties.                                                             *)

\* Every variable has its type.
TypeOK ==
  /\ named \in BOOLEAN /\ wantAll \in BOOLEAN /\ want \subseteq Toggled
  /\ simple \in [Field -> SUBSET Value]
  /\ minSNR \in Level \cup {Unset} /\ maxSNR \in Level \cup {Unset}
  /\ reject \in [Slot -> Rule \cup {Unset}] /\ accept \in [Slot -> Rule \cup {Unset}]
  /\ canSpot \in BOOLEAN /\ proven \in BOOLEAN
  /\ sent \in Seq([freq : FreqClass, spotter : BOOLEAN])

\* The rules in the order the loop meets them: position 2n is the reject rule
\* of slot n, 2n+1 its accept rule.
RuleAt(p) == IF p % 2 = 0 THEN reject[p \div 2] ELSE accept[p \div 2]
Places == {p \in 0..(2 * LastSlot + 1) : RuleAt(p) # Unset}

\* The first rule that matches decides, a reject rule against the spot and an
\* accept rule for it; when none matches, the kind of the last rule decides
\* the other way round.  This is what the comment at filter.go:544-552 and
\* HELP's SLOT SEMANTICS ask for ("Slots are evaluated in order"), and not
\* what HELP's closing notes do, which AnyRejectDrops states.
FirstMatchDecides ==
  \A s \in Arriving :
    LET hits == {p \in Places : s \in RuleAt(p)}
        first == CHOOSE p \in hits : \A q \in hits : p <= q
        last == CHOOSE p \in Places : \A q \in Places : q <= p
    IN  Match(s) <=> /\ MatchSimple(s)
                     /\ \/ Places = {}
                        \/ hits # {} /\ first % 2 = 1
                        \/ Places # {} /\ hits = {} /\ last % 2 = 0

\* "reject is checked first; if any reject slot matches, the spot is dropped"
\* (helptext.go:214).  It is not when an accept rule of an earlier slot
\* matches too (filter.go:658).
AnyRejectDrops ==
  \A n \in Slot : reject[n] # Unset => \A s \in reject[n] : ~Match(s)

\* A stream's toggle changes what is sent of that stream and of no other, so
\* that a local spot, which has no toggle, reaches a session whatever its
\* stream preferences are (spot.go:20-24).
TogglesKeepToTheirStream ==
  [][\A s \in Arriving, st \in Toggled, on \in BOOLEAN :
       Toggle(st, on) /\ s.stream # st => (ShouldSend(s)' <=> ShouldSend(s))]_clientVars

\* Whatever was typed in between, a spot is submitted only by a client that
\* logged in with a callsign and has given the password (commands.go:401-409).
OnlyProvenClientsSpot ==
  /\ canSpot => proven
  /\ sent # <<>> => proven
  /\ \A i \in 1..Len(sent) : sent[i].spotter
=============================================================================
