------------------------- MODULE ClientStateProofs -------------------------
(***************************************************************************)
(* Theorems about a session's preferences, for any streams, fields, spots, *)
(* rules and number of slots; and about the names of bands in them, for    *)
(* any frequency.                                                          *)
(***************************************************************************)
EXTENDS ClientState, FilterCond, NaturalsInduction, WellFoundedInduction, TLAPS

\* The two halves of the type invariant: what filters hold, and the rest.
FiltersTyped ==
  /\ simple \in [Field -> SUBSET Value]
  /\ minSNR \in Level \cup {Unset} /\ maxSNR \in Level \cup {Unset}
  /\ reject \in [Slot -> Rule \cup {Unset}] /\ accept \in [Slot -> Rule \cup {Unset}]

SessionTyped ==
  /\ named \in BOOLEAN /\ wantAll \in BOOLEAN /\ want \subseteq Toggled
  /\ canSpot \in BOOLEAN /\ proven \in BOOLEAN
  /\ sent \in Seq([freq : FreqClass, spotter : BOOLEAN])

LEMMA TypeParts == TypeOK <=> FiltersTyped /\ SessionTyped
  BY DEF TypeOK, FiltersTyped, SessionTyped

\* The commands, by what they leave alone.
FilterCommand ==
  \/ \E n \in Slot :
       \/ \E r \in Rule : SetAccept(n, r) \/ SetReject(n, r)
       \/ ClearSlot(n)
  \/ SetSlotOutOfRange \/ ClearSlots
  \/ \E f \in Field : \E vals \in SUBSET Value : SetField(f, vals)
  \/ \E v \in Level \cup {Unset} : SetMinSNR(v) \/ SetMaxSNR(v)
  \/ ClearFilter

OtherCommand ==
  \/ \E on \in BOOLEAN : ToggleAll(on) \/ \E st \in Toggled : Toggle(st, on)
  \/ \E right \in BOOLEAN : SpotPass(right)
  \/ \E freq \in FreqClass : \E valid \in BOOLEAN : DX(freq, valid)

LEMMA Commands == ClientNext <=> FilterCommand \/ OtherCommand
  BY DEF ClientNext, FilterCommand, OtherCommand

LEMMA FilterCommandFrame ==
  ASSUME FilterCommand
  PROVE  UNCHANGED <<named, wantAll, want, spotVars>>
  BY DEF FilterCommand, SetAccept, SetReject, ClearSlot, SetSlotOutOfRange, ClearSlots,
         SetField, SetMinSNR, SetMaxSNR, ClearFilter

LEMMA OtherCommandFrame ==
  ASSUME OtherCommand
  PROVE  UNCHANGED filterVars
  BY DEF OtherCommand, ToggleAll, Toggle, SpotPass, DX

-----------------------------------------------------------------------------
(* Type correctness.                                                       *)

LEMMA FreshFilters ==
  /\ NoRules \in [Slot -> Rule \cup {Unset}]
  /\ NoLists \in [Field -> SUBSET Value]
  BY DEF NoRules, NoLists

LEMMA InitType == ClientInit => TypeOK
<1>. SUFFICES ASSUME ClientInit PROVE TypeOK
  OBVIOUS
<1>1. FiltersTyped
  BY FreshFilters DEF ClientInit, FiltersTyped
<1>2. named \in BOOLEAN /\ canSpot \in BOOLEAN /\ proven = canSpot
  BY StateAssumption, Zenon DEF ClientInit
<1>3. sent \in Seq([freq : FreqClass, spotter : BOOLEAN])
  BY DEF ClientInit
<1>4. wantAll \in BOOLEAN /\ want \subseteq Toggled
  BY StateAssumption DEF ClientInit
<1>. QED
  BY <1>1, <1>2, <1>3, <1>4, TypeParts DEF SessionTyped

LEMMA FilterStep ==
  ASSUME FiltersTyped, FilterCommand
  PROVE  FiltersTyped'
<1>. USE DEF FiltersTyped
<1>1. ASSUME NEW n, NEW r \in Rule, SetAccept(n, r) \/ SetReject(n, r)
      PROVE  FiltersTyped'
  BY <1>1 DEF SetAccept, SetReject
<1>2. ASSUME NEW n \in Slot, ClearSlot(n) PROVE FiltersTyped'
  BY <1>2 DEF ClearSlot
<1>3. CASE SetSlotOutOfRange
  BY <1>1, <1>3, StateAssumption DEF SetSlotOutOfRange
<1>4. CASE ClearSlots
  BY <1>4, FreshFilters DEF ClearSlots
<1>5. ASSUME NEW f \in Field, NEW vals \in SUBSET Value, SetField(f, vals)
      PROVE  FiltersTyped'
  BY <1>5 DEF SetField
<1>6. ASSUME NEW v \in Level \cup {Unset}, SetMinSNR(v) \/ SetMaxSNR(v)
      PROVE  FiltersTyped'
  BY <1>6 DEF SetMinSNR, SetMaxSNR
<1>7. CASE ClearFilter
  BY <1>7, FreshFilters DEF ClearFilter
<1>. QED
  BY <1>1, <1>2, <1>3, <1>4, <1>5, <1>6, <1>7 DEF FilterCommand

LEMMA OtherStep ==
  ASSUME SessionTyped, OtherCommand
  PROVE  SessionTyped'
<1>. USE DEF SessionTyped
<1>1. ASSUME NEW on \in BOOLEAN, ToggleAll(on) PROVE SessionTyped'
  BY <1>1 DEF ToggleAll, spotVars
<1>2. ASSUME NEW on \in BOOLEAN, NEW st \in Toggled, Toggle(st, on) PROVE SessionTyped'
  BY <1>2 DEF Toggle, spotVars
<1>3. ASSUME NEW right \in BOOLEAN, SpotPass(right) PROVE SessionTyped'
  BY <1>3 DEF SpotPass
<1>4. ASSUME NEW freq \in FreqClass, NEW valid \in BOOLEAN, DX(freq, valid)
      PROVE  SessionTyped'
  <2>1. [freq |-> freq, spotter |-> named] \in [freq : FreqClass, spotter : BOOLEAN]
    OBVIOUS
  <2>. QED
    BY <1>4, <2>1 DEF DX
<1>. QED
  BY <1>1, <1>2, <1>3, <1>4 DEF OtherCommand

LEMMA TypeStep == TypeOK /\ [ClientNext]_clientVars => TypeOK'
<1>. SUFFICES ASSUME TypeOK, [ClientNext]_clientVars PROVE TypeOK'
  OBVIOUS
<1>1. FiltersTyped /\ SessionTyped
  BY TypeParts
<1>2. CASE FilterCommand
  <2>1. SessionTyped'
    BY <1>1, <1>2, FilterCommandFrame DEF SessionTyped, spotVars
  <2>. QED
    BY <1>1, <1>2, <2>1, FilterStep DEF TypeOK, FiltersTyped, SessionTyped
<1>3. CASE OtherCommand
  <2>1. FiltersTyped'
    BY <1>1, <1>3, OtherCommandFrame DEF FiltersTyped, filterVars
  <2>. QED
    BY <1>1, <1>3, <2>1, OtherStep DEF TypeOK, FiltersTyped, SessionTyped
<1>4. CASE UNCHANGED clientVars
  BY <1>4 DEF TypeOK, clientVars, filterVars, spotVars
<1>. QED
  BY <1>2, <1>3, <1>4, Commands

\* Every variable of a session keeps its type under every command.
THEOREM TypeCorrect == ClientSpec => []TypeOK
  BY InitType, TypeStep, PTL DEF ClientSpec

-----------------------------------------------------------------------------
(* Submissions.                                                            *)

LEMMA ProvenStep == TypeOK /\ OnlyProvenClientsSpot /\ [ClientNext]_clientVars => OnlyProvenClientsSpot'
<1>. SUFFICES ASSUME TypeOK, OnlyProvenClientsSpot, [ClientNext]_clientVars
              PROVE  OnlyProvenClientsSpot'
  OBVIOUS
<1>. USE DEF OnlyProvenClientsSpot
<1>1. CASE UNCHANGED spotVars
  BY <1>1 DEF spotVars
<1>2. ASSUME NEW right \in BOOLEAN, SpotPass(right) PROVE OnlyProvenClientsSpot'
  BY <1>2 DEF SpotPass
<1>3. ASSUME NEW freq \in FreqClass, NEW valid \in BOOLEAN, DX(freq, valid)
      PROVE  OnlyProvenClientsSpot'
  <2>1. sent \in Seq([freq : FreqClass, spotter : BOOLEAN])
    BY DEF TypeOK
  <2>. DEFINE e == [freq |-> freq, spotter |-> named]
  <2>2. /\ sent' = Append(sent, e) /\ e.spotter
        /\ canSpot' = canSpot /\ proven' = proven /\ canSpot
    BY <1>3 DEF DX
  <2>. HIDE DEF e
  <2>3. e \in [freq : FreqClass, spotter : BOOLEAN]
    BY DEF e, TypeOK
  <2>4. \A i \in 1..Len(sent') :
          \/ sent'[i] = e
          \/ i \in 1..Len(sent) /\ sent'[i] = sent[i]
    BY <2>1, <2>2, <2>3
  <2>. QED
    BY <2>2, <2>4
<1>. QED
  BY <1>1, <1>2, <1>3, Commands, FilterCommandFrame
  DEF OtherCommand, ToggleAll, Toggle, clientVars

\* A submission comes from a client with a callsign that gave the password,
\* whatever commands it typed before, between and after.
THEOREM ProvenCorrect == ClientSpec => []OnlyProvenClientsSpot
<1>1. ClientInit => OnlyProvenClientsSpot
  BY DEF ClientInit, OnlyProvenClientsSpot
<1>. QED
  BY <1>1, InitType, TypeStep, ProvenStep, PTL DEF ClientSpec

-----------------------------------------------------------------------------
(* What a command does to the spots that are sent.                         *)

\* The filters' verdict depends on the filters alone.
LEMMA MatchFrame ==
  ASSUME NEW s, UNCHANGED filterVars
  PROVE  Match(s)' = Match(s)
  BY DEF filterVars, Match, MatchSimple, HasSlots, SlotVerdict, AfterSlot

\* A toggle touches its own stream only, and so never a local spot.
THEOREM TogglesCorrect == ClientSpec => TogglesKeepToTheirStream
<1>1. ASSUME NEW s \in Arriving, NEW st \in Toggled, NEW on \in BOOLEAN,
             Toggle(st, on), s.stream # st
      PROVE  ShouldSend(s)' <=> ShouldSend(s)
  <2>1. Match(s)' = Match(s)
    BY <1>1, MatchFrame DEF Toggle
  <2>2. wantAll' = wantAll /\ (s.stream \in want' <=> s.stream \in want)
    BY <1>1 DEF Toggle
  <2>. QED
    BY <2>1, <2>2 DEF ShouldSend
<1>2. [ClientNext]_clientVars =>
        [\A s \in Arriving, st \in Toggled, on \in BOOLEAN :
           Toggle(st, on) /\ s.stream # st => (ShouldSend(s)' <=> ShouldSend(s))]_clientVars
  BY <1>1
<1>. QED
  BY <1>2, PTL DEF ClientSpec, TogglesKeepToTheirStream

-----------------------------------------------------------------------------
(* The loop over the slots.                                                *)

\* Induction over the rounds: a set of numbers that has one has a least one.
LEMMA Least ==
  ASSUME NEW S \in SUBSET Nat, S # {}
  PROVE  \E n \in S : \A m \in S : n <= m
<1>1. PICK n \in S : \A m \in S : ~(<<m, n>> \in OpToRel(<, Nat))
  BY NatLessThanWellFounded, WFMin
<1>2. \A m \in S : ~(m < n)
  BY <1>1 DEF OpToRel
<1>. QED
  BY <1>2

Start == [out |-> FALSE, r |-> TRUE]

\* What the loop has computed before each round.
Computes(v, s, n) ==
  v = [i \in 0..n |-> IF i = 0 THEN Start ELSE AfterSlot(v[i - 1], i - 1, s)]

\* The definition of the loop is met by a function.
LEMMA LoopIsDefined ==
  ASSUME NEW s
  PROVE  \E v : Computes(v, s, LastSlot + 1)
<1>. DEFINE Undefined == {n \in Nat : ~\E v : Computes(v, s, n)}
<1>1. SUFFICES Undefined = {}
  <2>1. LastSlot + 1 \in Nat
    BY StateAssumption
  <2>. QED
    BY <2>1
<1>2. SUFFICES ASSUME Undefined # {} PROVE FALSE
  OBVIOUS
<1>3. PICK n \in Undefined : \A m \in Undefined : n <= m
  BY <1>2, Least
<1>4. n # 0
  <2>. DEFINE v == [i \in 0..0 |-> Start]
  <2>1. Computes(v, s, 0)
    BY DEF Computes
  <2>. QED
    BY <2>1
<1>5. PICK v : Computes(v, s, n - 1)
  BY <1>3, <1>4
<1>. DEFINE w == [i \in 0..n |-> IF i = n THEN AfterSlot(v[i - 1], i - 1, s) ELSE v[i]]
<1>6. Computes(w, s, n)
  <2>1. \A i \in 0..(n - 1) : w[i] = v[i]
    BY <1>3
  <2>2. ASSUME NEW i \in 0..n
        PROVE  w[i] = IF i = 0 THEN Start ELSE AfterSlot(w[i - 1], i - 1, s)
    <3>1. CASE i = n
      <4>1. w[i] = AfterSlot(v[i - 1], i - 1, s) /\ i - 1 \in 0..(n - 1)
        BY <3>1, <1>3, <1>4
      <4>2. w[i - 1] = v[i - 1]
        BY <4>1, <2>1
      <4>. QED
        BY <4>1, <4>2, <3>1, <1>4
    <3>2. CASE i # n
      <4>1. i \in 0..(n - 1) /\ w[i] = v[i] /\ (i # 0 => i - 1 \in 0..(n - 1))
        BY <3>2, <2>1, <1>3
      <4>2. v[i] = IF i = 0 THEN Start ELSE AfterSlot(v[i - 1], i - 1, s)
        BY <4>1, <1>5 DEF Computes
      <4>. QED
        BY <4>1, <4>2, <2>1
    <3>. QED
      BY <3>1, <3>2
  <2>3. w = [i \in 0..n |-> w[i]]
    OBVIOUS
  <2>. HIDE DEF w
  <2>. QED
    BY <2>2, <2>3 DEF Computes
<1>. QED
  BY <1>6

LEMMA VerdictIsComputed ==
  ASSUME NEW s
  PROVE  \E v : Computes(v, s, LastSlot + 1) /\ SlotVerdict(s) = v[LastSlot + 1].r
<1>. DEFINE v == CHOOSE v : Computes(v, s, LastSlot + 1)
<1>1. Computes(v, s, LastSlot + 1)
  BY LoopIsDefined
<1>2. SlotVerdict(s) = v[LastSlot + 1].r
  BY DEF SlotVerdict, Computes, Start
<1>. HIDE DEF v
<1>. QED
  BY <1>1, <1>2

-----------------------------------------------------------------------------

\* The places of one slot.
LEMMA PlacesOfSlot ==
  ASSUME NEW n \in Slot
  PROVE  /\ 2 * n \in Places <=> reject[n] # Unset
         /\ 2 * n + 1 \in Places <=> accept[n] # Unset
         /\ RuleAt(2 * n) = reject[n] /\ RuleAt(2 * n + 1) = accept[n]
         /\ (2 * n) % 2 = 0 /\ (2 * n + 1) % 2 = 1
<1>1. n \in Int /\ 0 <= n /\ n <= LastSlot /\ LastSlot \in Int
  BY StateAssumption DEF Slot
<1>2. /\ (2 * n) % 2 = 0 /\ (2 * n + 1) % 2 = 1
      /\ (2 * n) \div 2 = n /\ (2 * n + 1) \div 2 = n
  BY <1>1
<1>3. RuleAt(2 * n) = reject[n] /\ RuleAt(2 * n + 1) = accept[n]
  BY <1>2 DEF RuleAt
<1>. QED
  BY <1>1, <1>2, <1>3 DEF Places

\* A slot that is used has a place, and every place is one of a slot.
LEMMA PlaceHasSlot ==
  ASSUME NEW p \in Places
  PROVE  \E n \in Slot : p = 2 * n \/ p = 2 * n + 1
<1>1. p \in Int /\ 0 <= p /\ p <= 2 * LastSlot + 1 /\ LastSlot \in Int
  BY StateAssumption DEF Places
<1>2. /\ p \div 2 \in Int /\ 0 <= p \div 2 /\ p \div 2 <= LastSlot
      /\ p = 2 * (p \div 2) \/ p = 2 * (p \div 2) + 1
  BY <1>1
<1>3. p \div 2 \in Slot
  BY <1>1, <1>2 DEF Slot
<1>. QED
  BY <1>2, <1>3

\* Outcome r is the truth value of the condition.
Holds(r, cond) == IF cond THEN r = TRUE ELSE r = FALSE

\* What the running result x says of spot s before round n: the first rule
\* that matches has decided, or none did and the last one decides.
Decided(s, n, x) ==
  \/ /\ x.out = TRUE
     /\ \E p \in Places : /\ p < 2 * n /\ s \in RuleAt(p)
                          /\ \A q \in Places : q < p => s \notin RuleAt(q)
                          /\ Holds(x.r, p % 2 = 1)
  \/ /\ x.out = FALSE
     /\ \A q \in Places : q < 2 * n => s \notin RuleAt(q)
     /\ \/ (\A q \in Places : ~(q < 2 * n)) /\ x.r = TRUE
        \/ \E p \in Places : /\ p < 2 * n /\ \A q \in Places : q < 2 * n => q <= p
                             /\ Holds(x.r, p % 2 = 0)

LEMMA RoundDecides ==
  ASSUME NEW s, NEW n \in Slot, NEW was, Decided(s, n, was)
  PROVE  Decided(s, n + 1, AfterSlot(was, n, s))
<1>. DEFINE e == 2 * n
            x == AfterSlot(was, n, s)
<1>1. /\ e \in Int /\ 2 * (n + 1) = e + 2
      /\ \A q \in Places : q \in Int
      /\ \A q \in Places : q < e + 2 => q < e \/ q = e \/ q = e + 1
  <2>1. n \in Int
    BY StateAssumption DEF Slot
  <2>2. \A q \in Places : q \in Int
    BY StateAssumption DEF Places
  <2>. QED
    BY <2>1, <2>2
<1>2. /\ e \in Places <=> reject[n] # Unset
      /\ e + 1 \in Places <=> accept[n] # Unset
      /\ RuleAt(e) = reject[n] /\ RuleAt(e + 1) = accept[n]
      /\ e % 2 = 0 /\ (e + 1) % 2 = 1
  BY PlacesOfSlot
<1>. HIDE DEF e
<1>3. CASE was.out = TRUE
  <2>1. x = was
    BY <1>3 DEF AfterSlot
  <2>2. PICK p \in Places : /\ p < e /\ s \in RuleAt(p)
                            /\ \A q \in Places : q < p => s \notin RuleAt(q)
                            /\ Holds(was.r, p % 2 = 1)
    BY <1>3 DEF Decided, e
  <2>3. p < e + 2
    BY <2>2, <1>1
  <2>. QED
    BY <1>1, <1>3, <2>1, <2>2, <2>3 DEF Decided
<1>4. CASE was.out = FALSE
  <2>0. /\ \A q \in Places : q < e => s \notin RuleAt(q)
        /\ \/ (\A q \in Places : ~(q < e)) /\ was.r = TRUE
           \/ \E p \in Places : /\ p < e /\ \A q \in Places : q < e => q <= p
                                /\ Holds(was.r, p % 2 = 0)
    BY <1>4 DEF Decided, e
  <2>1. CASE reject[n] # Unset /\ s \in reject[n]
    <3>1. x.out = TRUE /\ x.r = FALSE
      BY <1>4, <2>1 DEF AfterSlot
    <3>. HIDE DEF x
    <3>2. e \in Places /\ s \in RuleAt(e)
      BY <2>1, <1>2
    <3>3. Holds(x.r, e % 2 = 1)
      BY <3>1, <1>2 DEF Holds
    <3>4. e < e + 2
      BY <1>1
    <3>5. Decided(s, n + 1, x)
      BY <2>0, <3>1, <3>2, <3>3, <3>4, <1>1 DEF Decided
    <3>. QED
      BY <3>5 DEF x
  <2>2. CASE ~(reject[n] # Unset /\ s \in reject[n]) /\ accept[n] # Unset /\ s \in accept[n]
    <3>1. x.out = TRUE /\ x.r = TRUE
      BY <1>4, <2>2 DEF AfterSlot
    <3>. HIDE DEF x
    <3>2. e + 1 \in Places /\ s \in RuleAt(e + 1)
      BY <2>2, <1>2
    <3>3. Holds(x.r, (e + 1) % 2 = 1)
      BY <3>1, <1>2 DEF Holds
    <3>4. e + 1 < e + 2
      BY <1>1
    <3>5. \A q \in Places : q < e + 1 => s \notin RuleAt(q)
      <4>1. \A q \in Places : q < e + 1 => q < e \/ q = e
        BY <1>1
      <4>. QED
        BY <4>1, <2>0, <2>2, <1>2
    <3>6. Decided(s, n + 1, x)
      BY <3>1, <3>2, <3>3, <3>4, <3>5, <1>1 DEF Decided
    <3>. QED
      BY <3>6 DEF x
  <2>3. CASE /\ ~(reject[n] # Unset /\ s \in reject[n])
             /\ ~(accept[n] # Unset /\ s \in accept[n])
    <3>1. x.out = FALSE /\ x.r = IF accept[n] # Unset THEN FALSE
                                 ELSE IF reject[n] # Unset THEN TRUE ELSE was.r
      BY <1>4, <2>3 DEF AfterSlot
    <3>. HIDE DEF x
    <3>2. \A q \in Places : q < e + 2 => s \notin RuleAt(q)
      BY <2>0, <2>3, <1>1, <1>2
    <3>3. CASE accept[n] # Unset
      <4>1. e + 1 \in Places /\ e + 1 < e + 2
        BY <3>3, <1>1, <1>2
      <4>2. Holds(x.r, (e + 1) % 2 = 0)
        BY <3>1, <3>3, <1>2 DEF Holds
      <4>3. \A q \in Places : q < e + 2 => q <= e + 1
        BY <1>1
      <4>4. Decided(s, n + 1, x)
        BY <3>1, <3>2, <4>1, <4>2, <4>3, <1>1 DEF Decided
      <4>. QED
        BY <4>4 DEF x
    <3>4. CASE accept[n] = Unset /\ reject[n] # Unset
      <4>1. e \in Places /\ e + 1 \notin Places /\ e < e + 2
        BY <3>4, <1>1, <1>2
      <4>2. Holds(x.r, e % 2 = 0)
        BY <3>1, <3>4, <1>2 DEF Holds
      <4>3. \A q \in Places : q < e + 2 => q <= e
        BY <4>1, <1>1
      <4>4. Decided(s, n + 1, x)
        BY <3>1, <3>2, <4>1, <4>2, <4>3, <1>1 DEF Decided
      <4>. QED
        BY <4>4 DEF x
    <3>5. CASE accept[n] = Unset /\ reject[n] = Unset
      <4>0. x.r = was.r
        BY <3>1, <3>5
      <4>1. x.r = was.r /\ \A q \in Places : q < e + 2 <=> q < e
        BY <4>0, <3>5, <1>1, <1>2
      <4>2. \/ (\A q \in Places : ~(q < e + 2)) /\ x.r = TRUE
            \/ \E p \in Places : /\ p < e + 2 /\ \A q \in Places : q < e + 2 => q <= p
                                 /\ Holds(x.r, p % 2 = 0)
        BY <2>0, <4>1
      <4>. QED
        BY <3>1, <3>2, <4>2, <1>1 DEF Decided, x
    <3>. QED
      BY <3>3, <3>4, <3>5
  <2>. QED
    BY <2>1, <2>2, <2>3
<1>. QED
  BY <1>3, <1>4 DEF Decided

LEMMA LoopDecides ==
  ASSUME NEW s, NEW v, Computes(v, s, LastSlot + 1)
  PROVE  Decided(s, LastSlot + 1, v[LastSlot + 1])
<1>. DEFINE Undecided == {n \in 0..(LastSlot + 1) : ~Decided(s, n, v[n])}
<1>0. LastSlot \in Nat
  BY StateAssumption
<1>1. SUFFICES Undecided = {}
  BY <1>0
<1>2. SUFFICES ASSUME Undecided # {} PROVE FALSE
  OBVIOUS
<1>3. PICK n \in Undecided : \A m \in Undecided : n <= m
  <2>1. Undecided \in SUBSET Nat
    BY <1>0
  <2>. HIDE DEF Undecided
  <2>. QED
    BY <1>2, <2>1, Least
<1>4. n \in 0..(LastSlot + 1) /\ ~Decided(s, n, v[n])
  OBVIOUS
<1>5. \A i \in 0..(LastSlot + 1) :
        v[i] = IF i = 0 THEN Start ELSE AfterSlot(v[i - 1], i - 1, s)
  BY DEF Computes
<1>6. CASE n = 0
  <2>1. v[0] = Start
    BY <1>0, <1>5
  <2>2. \A q \in Places : ~(q < 2 * 0)
    BY <1>0 DEF Places
  <2>3. Decided(s, 0, Start)
    BY <2>2 DEF Decided, Start
  <2>. QED
    BY <1>4, <1>6, <2>1, <2>3
<1>7. CASE n # 0
  <2>. DEFINE m == n - 1
  <2>1. m \in Slot /\ m + 1 = n /\ m \in 0..(LastSlot + 1) /\ ~(n <= m)
    BY <1>0, <1>4, <1>7 DEF Slot
  <2>2. v[n] = AfterSlot(v[m], m, s)
    BY <1>4, <1>5, <1>7
  <2>. HIDE DEF m
  <2>3. Decided(s, m, v[m])
    BY <2>1, <1>3
  <2>4. Decided(s, m + 1, AfterSlot(v[m], m, s))
    BY <2>1, <2>3, RoundDecides
  <2>. QED
    BY <2>1, <2>2, <2>4, <1>4
<1>. QED
  BY <1>6, <1>7

\* The first rule that matches decides, whatever the rules and slots.
THEOREM FirstMatchCorrect == ClientSpec => []FirstMatchDecides
<1>1. ASSUME NEW s \in Arriving
      PROVE  LET hits == {p \in Places : s \in RuleAt(p)}
                 first == CHOOSE p \in hits : \A q \in hits : p <= q
                 last == CHOOSE p \in Places : \A q \in Places : q <= p
             IN  Match(s) <=> /\ MatchSimple(s)
                              /\ \/ Places = {}
                                 \/ hits # {} /\ first % 2 = 1
                                 \/ Places # {} /\ hits = {} /\ last % 2 = 0
  <2>. DEFINE hits == {p \in Places : s \in RuleAt(p)}
              first == CHOOSE p \in hits : \A q \in hits : p <= q
              last == CHOOSE p \in Places : \A q \in Places : q <= p
              decides == \/ Places = {}
                         \/ hits # {} /\ first % 2 = 1
                         \/ Places # {} /\ hits = {} /\ last % 2 = 0
  <2>0. SUFFICES Match(s) <=> MatchSimple(s) /\ decides
    OBVIOUS
  <2>1. PICK v : Computes(v, s, LastSlot + 1) /\ SlotVerdict(s) = v[LastSlot + 1].r
    BY VerdictIsComputed
  <2>. DEFINE x == v[LastSlot + 1]
  <2>2. Decided(s, LastSlot + 1, x)
    BY <2>1, LoopDecides
  <2>. HIDE DEF x
  <2>3. \A p \in Places : p \in Int /\ p < 2 * (LastSlot + 1)
    BY StateAssumption DEF Places
  <2>4. HasSlots <=> Places # {}
    <3>1. \A n \in Slot : reject[n] # Unset \/ accept[n] # Unset => Places # {}
      BY PlacesOfSlot
    <3>2. ASSUME NEW p \in Places PROVE HasSlots
      <4>1. PICK n \in Slot : p = 2 * n \/ p = 2 * n + 1
        BY PlaceHasSlot
      <4>. QED
        BY <4>1, PlacesOfSlot DEF HasSlots
    <3>. QED
      BY <3>1, <3>2 DEF HasSlots
  <2>5. CASE Places = {}
    BY <2>4, <2>5 DEF Match
  <2>6. CASE Places # {} /\ hits # {}
    <3>1. PICK p \in hits : (\A q \in hits : p <= q) /\ Holds(x.r, p % 2 = 1)
      BY <2>2, <2>3, <2>6 DEF Decided
    <3>2. first \in hits /\ \A q \in hits : first <= q
      BY <3>1
    <3>3. first = p
      BY <2>3, <3>1, <3>2
    <3>. HIDE DEF first
    <3>4. Holds(x.r, first % 2 = 1)
      BY <3>1, <3>3
    <3>5. x.r <=> first % 2 = 1
      BY <3>4 DEF Holds
    <3>6. decides <=> first % 2 = 1
      BY <2>6
    <3>. HIDE DEF decides
    <3>7. SlotVerdict(s) <=> decides
      BY <2>1, <3>5, <3>6 DEF x
    <3>. QED
      BY <2>4, <2>6, <3>7 DEF Match
  <2>7. CASE Places # {} /\ hits = {}
    <3>1. PICK p \in Places : (\A q \in Places : q <= p) /\ Holds(x.r, p % 2 = 0)
      BY <2>2, <2>3, <2>7 DEF Decided
    <3>2. last \in Places /\ \A q \in Places : q <= last
      BY <3>1
    <3>3. last = p
      BY <2>3, <3>1, <3>2
    <3>. HIDE DEF last
    <3>4. Holds(x.r, last % 2 = 0)
      BY <3>1, <3>3
    <3>5. x.r <=> last % 2 = 0
      BY <3>4 DEF Holds
    <3>6. decides <=> last % 2 = 0
      BY <2>7
    <3>. HIDE DEF decides
    <3>7. SlotVerdict(s) <=> decides
      BY <2>1, <3>5, <3>6 DEF x
    <3>. QED
      BY <2>4, <2>7, <3>7 DEF Match
  <2>. QED
    BY <2>5, <2>6, <2>7
<1>2. FirstMatchDecides
  BY <1>1 DEF FirstMatchDecides
<1>. QED
  BY <1>2, PTL

-----------------------------------------------------------------------------
(* The names of bands.                                                     *)

\* What the band at place i of spot.go's table is.
NameAt(i) == SpotBands[i][1]
EdgesAt(i) == <<SpotBands[i][2], SpotBands[i][3]>>

LEMMA BandPlaces == DOMAIN SpotBands = 1..15
  BY DEF SpotBands

\* filter.go has every band of spot.go, with the same edges.
LEMMA SameEdges ==
  ASSUME NEW i \in 1..15
  PROVE  NameAt(i) \in DOMAIN BandRange /\ BandRange[NameAt(i)] = EdgesAt(i)
  BY SMT DEF SpotBands, BandRange, NameAt, EdgesAt

\* No frequency is in two bands of spot.go.
LEMMA BandsAreDisjoint ==
  ASSUME NEW i \in 1..15, NEW j \in 1..15, NEW f \in Int,
         Within(f, EdgesAt(i)), Within(f, EdgesAt(j))
  PROVE  i = j
  BY SMT DEF SpotBands, EdgesAt, Within

LEMMA NamesDiffer ==
  ASSUME NEW i \in 1..15, NEW j \in 1..15, NameAt(i) = NameAt(j)
  PROVE  i = j
  BY SMT DEF SpotBands, NameAt

\* The desktop client names no other band for a frequency of this one.
LEMMA ClientNamesNoOther ==
  ASSUME NEW i \in 1..15, NEW f \in Int, Within(f, EdgesAt(i)),
         NEW b \in DOMAIN ClientBand, Within(f, ClientBand[b])
  PROVE  b = NameAt(i)
<1>1. /\ b \in DOMAIN BandRange \ {"b600m", "b11m", "hf", "vhf", "uhf"}
      /\ ClientBand[b] = CASE b = "b160m" -> <<18000, 20000>>
                           [] b = "b60m"  -> <<52580, 54500>>
                           [] OTHER       -> BandRange[b]
  BY DEF ClientBand
<1>2. b \in {"b2200m", "b630m", "b160m", "b80m", "b60m", "b40m", "b30m", "b20m",
             "b17m", "b15m", "b12m", "b10m", "b6m"}
  BY <1>1 DEF BandRange
<1>. QED
  BY <1>1, <1>2, SMTT(60) DEF SpotBands, EdgesAt, NameAt, Within, BandRange

\* spot.go's name of a frequency.
LEMMA BandOfFrequency ==
  ASSUME NEW i \in 1..15, NEW f \in Int
  PROVE  FreqToBand(f) = NameAt(i) <=> Within(f, EdgesAt(i))
<1>. DEFINE hits == {j \in DOMAIN SpotBands : Within(f, <<SpotBands[j][2], SpotBands[j][3]>>)}
<1>1. hits = {j \in 1..15 : Within(f, EdgesAt(j))}
  BY BandPlaces DEF EdgesAt
<1>2. FreqToBand(f) = IF hits = {} THEN "" ELSE NameAt(CHOOSE j \in hits : \A k \in hits : j <= k)
  BY DEF FreqToBand, NameAt
<1>. HIDE DEF hits
<1>3. CASE hits = {}
  <2>1. NameAt(i) # ""
    <3>1. NameAt(i) \in {"b2200m", "b630m", "b600m", "b160m", "b80m", "b60m", "b40m", "b30m",
                         "b20m", "b17m", "b15m", "b12m", "b11m", "b10m", "b6m"}
      BY SMT DEF SpotBands, NameAt
    <3>. QED
      BY <3>1, Zenon
  <2>. QED
    BY <1>1, <1>2, <1>3, <2>1
<1>4. ASSUME NEW j \in hits
      PROVE  FreqToBand(f) = NameAt(i) <=> Within(f, EdgesAt(i))
  <2>1. j \in 1..15 /\ hits = {j}
    BY <1>1, <1>4, BandsAreDisjoint
  <2>2. (CHOOSE m \in hits : \A k \in hits : m <= k) = j
    BY <2>1
  <2>3. FreqToBand(f) = NameAt(j)
    BY <1>2, <2>1, <2>2
  <2>4. Within(f, EdgesAt(i)) <=> i = j
    BY <1>1, <2>1
  <2>. QED
    BY <2>1, <2>3, <2>4, NamesDiffer
<1>. QED
  BY <1>3, <1>4

\* What ON with a band's name lets through.
LEMMA OnABand ==
  ASSUME toks = <<"on">>, NEW i \in 1..15, NEW f \in Int
  PROVE  f \in Passes(NameAt(i)) <=> f \in Probe /\ Within(f, EdgesAt(i))
<1>. DEFINE band == NameAt(i)
            leaf == BuildLeaf(1, FieldKeyword[toks[Len(toks)]], band).node
<1>1. FieldKeyword[toks[Len(toks)]] = "freq"
  BY DEF FieldKeyword
<1>2. SplitComma(band) = {band}
  BY SameEdges, CondAssumption DEF SplitComma
<1>3. DecodeFreqTerm(band) = {EdgesAt(i)}
  BY SameEdges, TermAssumption DEF DecodeFreqTerm, Whole
<1>4. leaf = Leaf("freq", {EdgesAt(i)})
  <2>1. UNION {DecodeFreqTerm(x) : x \in {band}} = {EdgesAt(i)}
    BY <1>3
  <2>2. ~\E x \in {band} : DecodeFreqTerm(x) = {}
    BY <1>3
  <2>. QED
    BY <1>1, <1>2, <2>1, <2>2 DEF BuildLeaf, Done
<1>5. leaf.cond = "freq" /\ leaf.vals = {EdgesAt(i)}
  BY <1>4 DEF Leaf
<1>. HIDE DEF leaf
<1>6. ASSUME NEW s \in Sample
      PROVE  EvalCond(leaf, [s EXCEPT !.freq = f]) <=> Within(f, EdgesAt(i))
  <2>. DEFINE t == [s EXCEPT !.freq = f]
  <2>1. t.freq = f
    BY CondAssumption
  <2>. HIDE DEF t
  <2>2. EvalCond(leaf, t) <=> \E r \in leaf.vals : r[1] <= t.freq /\ t.freq <= r[2]
    BY <1>5 DEF EvalCond
  <2>. QED
    BY <1>5, <2>1, <2>2 DEF Within, t
<1>7. Sample # {}
  BY CondAssumption
<1>. QED
  BY <1>6, <1>7 DEF Passes, leaf

\* Every name of a band means the same frequencies behind ON as behind
\* SET/FILTER BAND, whatever frequency is asked for, and the desktop client's
\* menu names no other band for them.
THEOREM BandNamesAgree == TextSpec => []BandsAgree
<1>1. BandsAgree
  <2>. SUFFICES ASSUME toks = <<"on">>, NEW i \in 1..15
                PROVE  /\ Passes(NameAt(i)) = {f \in Probe : FreqToBand(f) = NameAt(i)}
                       /\ \A f \in Passes(NameAt(i)) : FreqKHzToBand(f) \subseteq {NameAt(i)}
    BY BandPlaces DEF BandsAgree, NameAt
  <2>1. Probe \subseteq Int /\ Passes(NameAt(i)) \subseteq Probe
    BY TermAssumption DEF Passes
  <2>2. \A f \in Probe : f \in Passes(NameAt(i)) <=> FreqToBand(f) = NameAt(i)
    BY <2>1, OnABand, BandOfFrequency
  <2>3. ASSUME NEW f \in Passes(NameAt(i)), NEW b \in FreqKHzToBand(f)
        PROVE  b = NameAt(i)
    BY <2>1, <2>3, OnABand, ClientNamesNoOther DEF FreqKHzToBand
  <2>. QED
    BY <2>1, <2>2, <2>3
<1>. QED
  BY <1>1, PTL
=============================================================================
