---------------------------- MODULE IngestProofs ----------------------------
(***************************************************************************)
(* Machine-checked proofs about Ingest, for every set of callsigns and     *)
(* bands, every window and every capacity of the hub's input: a station is *)
(* spotted once per band and window and never held back without cause, and *)
(* the echo of a submission is absorbed.                                   *)
(***************************************************************************)
EXTENDS Ingest, TLAPS

-----------------------------------------------------------------------------
(* The inductive invariant, first the parsers.                             *)

Looked == {"asked", "spotted", "unknown"}

Picture == [station : Station \cup {<<BadCall, None>>},
            at      : 0..MaxTime,
            fate    : Looked \cup {"ignored", "held"}]

ParsersTyped ==
  /\ now \in 0..MaxTime
  /\ lastSeen \in [Station -> Nat]
  /\ pictures \in Seq(Picture)
  /\ asking \in 0..Len(pictures)

\* No picture is from the future, only stations are looked up, and the one
\* whose answer is due was asked for.
PicturesPast ==
  /\ \A i \in Pictures : pictures[i].at <= now
  /\ \A i \in Pictures : pictures[i].fate \in Looked => pictures[i].station \in Station
  /\ asking > 0 => pictures[asking].fate = "asked"

\* A mark is the time of a picture that was looked up.
MarksWitnessed ==
  \A s \in Station : lastSeen[s] # Never =>
    \E i \in Pictures : /\ pictures[i].station = s /\ pictures[i].at = lastSeen[s]
                        /\ pictures[i].fate \in Looked

\* The sweep has left the mark of every picture whose window is not over.
MarksKept ==
  Window > 0 => \A i \in Pictures :
    pictures[i].fate \in Looked /\ now < pictures[i].at + Window =>
      /\ lastSeen[pictures[i].station] # Never
      /\ pictures[i].at <= lastSeen[pictures[i].station]

\* Pictures of one station that were looked up are a window apart.
LookedSpaced ==
  \A i, j \in Pictures :
    pictures[i].fate \in Looked /\ pictures[j].fate \in Looked => ~Near(i, j)

HeldForCause ==
  \A j \in Pictures : pictures[j].fate = "held" =>
    \E i \in Pictures : Near(i, j) /\ pictures[i].fate \in Looked

ParsersInv ==
  /\ ParsersTyped /\ PicturesPast /\ MarksWitnessed /\ MarksKept
  /\ LookedSpaced /\ HeldForCause

-----------------------------------------------------------------------------
(* The spots offered to the hub, taken or waiting, stand in one line.      *)

Offer == [key : Key, stream : Stream \cup {Local, "sstv"}, of : Nat]

LineLen == Len(taken) + Len(in)
At(p) == IF p <= Len(taken) THEN taken[p].spot ELSE in[p - Len(taken)]

LineTyped ==
  /\ in \in Seq(Offer)
  /\ taken \in Seq([spot : Offer, at : Nat, accepted : BOOLEAN])
  /\ dedup \in [Key -> Nat]
  /\ inject \in Seq([key : Key, state : {"due", "sent", "failed"}])
  /\ lost \in SUBSET Nat

Taken == 1..Len(taken)

\* What the hub took is past, and the dedup map still knows every accepted
\* spot whose window is not over.
Known ==
  \A i \in Taken :
    /\ taken[i].at <= now
    /\ taken[i].accepted /\ now < taken[i].at + HubWindow
         => taken[i].at + HubWindow <= dedup[taken[i].spot.key]

\* An entry of the dedup map is the end of an accepted spot's window.
Backed ==
  \A k \in Key : dedup[k] # 0 =>
    \E i \in Taken : /\ taken[i].accepted /\ taken[i].spot.key = k
                     /\ dedup[k] = taken[i].at + HubWindow

\* Accepted spots of one key are a window apart.
Spaced ==
  \A i, j \in Taken :
    i < j /\ taken[i].accepted /\ taken[j].accepted /\ taken[i].spot.key = taken[j].spot.key
      => taken[i].at + HubWindow <= taken[j].at

Stood == \A j \in Taken : \E i \in 1..j : StandsFor(i, j)

WindowInv == Known /\ Backed /\ Spaced /\ Stood

\* A submission and its echo have the key that was submitted; a submission
\* that was not lost is in the line, and its echo behind it.
OffersOf ==
  \A p \in 1..LineLen : At(p).of # 0 =>
    At(p).of \in 1..Len(inject) /\ At(p).key = inject[At(p).of].key

Submitted ==
  \A n \in (1..Len(inject)) \ lost : \E p \in 1..LineLen : At(p).of = n

EchoBehind ==
  \A p \in 1..LineLen : At(p).stream = "dxcluster" /\ At(p).of \notin lost \cup {0} =>
    \E q \in 1..(p - 1) : At(q).of = At(p).of

LineInv == OffersOf /\ Submitted /\ EchoBehind

Inv == ParsersInv /\ LineTyped /\ WindowInv /\ LineInv

-----------------------------------------------------------------------------
(* The parsers keep their part.                                            *)

\* A picture that arrives is added behind the others, with the present time.
LEMMA ArrivalFacts ==
  ASSUME ParsersTyped, NEW st \in Station \cup {<<BadCall, None>>},
         NEW f \in Looked \cup {"ignored", "held"}, Arrives(st, f)
  PROVE  /\ pictures' \in Seq(Picture)
         /\ Len(pictures') = Len(pictures) + 1
         /\ \A i \in Pictures : pictures'[i] = pictures[i]
         /\ pictures'[Len(pictures) + 1] = [station |-> st, at |-> now, fate |-> f]
<1>. DEFINE x == [station |-> st, at |-> now, fate |-> f]
<1>1. x \in Picture /\ pictures \in Seq(Picture) /\ pictures' = Append(pictures, x)
  BY DEF ParsersTyped, Picture, Arrives
<1>. HIDE DEF x
<1>. QED
  BY <1>1 DEF Pictures, x

\* Adding a picture keeps what was said of the earlier ones.
LEMMA EarlierKept ==
  ASSUME ParsersInv, now' = now, lastSeen' = lastSeen, asking' = asking, asking = 0,
         NEW st \in Station \cup {<<BadCall, None>>},
         NEW f \in {"ignored", "held"}, Arrives(st, f),
         f = "held" => \E i \in Pictures : /\ pictures[i].station = st
                                           /\ now < pictures[i].at + Window
                                           /\ pictures[i].fate \in Looked
  PROVE  ParsersInv'
<1>. DEFINE n == Len(pictures) + 1
<1>1. /\ pictures' \in Seq(Picture) /\ Len(pictures') = n
      /\ \A i \in Pictures : pictures'[i] = pictures[i]
      /\ pictures'[n] = [station |-> st, at |-> now, fate |-> f]
  BY ArrivalFacts DEF ParsersInv
<1>2. n \in Nat /\ n > 0 /\ Pictures = 1..(n - 1) /\ Pictures' = 1..n
  BY <1>1 DEF ParsersInv, ParsersTyped, Pictures
<1>3. /\ pictures'[n].station = st /\ pictures'[n].at = now /\ pictures'[n].fate = f
      /\ f \notin Looked
  BY <1>1 DEF Looked
<1>. HIDE DEF n
<1>4. ParsersTyped'
  BY <1>1, <1>2 DEF ParsersInv, ParsersTyped
<1>5. PicturesPast'
  <2>1. ASSUME NEW i \in 1..n
        PROVE  /\ pictures'[i].at <= now
               /\ pictures'[i].fate \in Looked => pictures'[i].station \in Station
    <3>1. CASE i = n
      BY <3>1, <1>3 DEF ParsersInv, ParsersTyped
    <3>2. CASE i \in Pictures
      BY <3>2, <1>1 DEF ParsersInv, PicturesPast
    <3>. QED
      BY <3>1, <3>2, <1>2
  <2>. QED
    BY <1>2, <2>1 DEF PicturesPast
<1>6. MarksWitnessed'
  BY <1>1, <1>2 DEF ParsersInv, MarksWitnessed
<1>7. MarksKept'
  BY <1>1, <1>2, <1>3 DEF ParsersInv, MarksKept
<1>8. LookedSpaced'
  BY <1>1, <1>2, <1>3 DEF ParsersInv, LookedSpaced, Near
<1>9. HeldForCause'
  <2>. SUFFICES ASSUME NEW j \in 1..n, pictures'[j].fate = "held"
                PROVE  \E i \in 1..n : Near(i, j)' /\ pictures'[i].fate \in Looked
    BY <1>2 DEF HeldForCause
  <2>1. CASE j = n
    BY <2>1, <1>1, <1>2, <1>3 DEF Near
  <2>2. CASE j # n
    BY <2>2, <1>1, <1>2 DEF ParsersInv, HeldForCause, Near
  <2>. QED
    BY <2>1, <2>2
<1>. QED
  BY <1>4, <1>5, <1>6, <1>7, <1>8, <1>9 DEF ParsersInv

\* A picture that is looked up is marked, and the sweep spares what is needed.
LEMMA AskedKept ==
  ASSUME ParsersInv, NEW s \in Station, ~Held(s), Arrives(s, "asked"), now' = now,
         lastSeen' = IF Window > 0 THEN Marked(s) ELSE lastSeen,
         asking' = Len(pictures) + 1, asking = 0
  PROVE  ParsersInv'
<1>. DEFINE n == Len(pictures) + 1
<1>1. /\ pictures' \in Seq(Picture) /\ Len(pictures') = n
      /\ \A i \in Pictures : pictures'[i] = pictures[i]
      /\ pictures'[n] = [station |-> s, at |-> now, fate |-> "asked"]
  BY ArrivalFacts DEF ParsersInv, Looked
<1>2. /\ n \in Nat /\ n > 0 /\ Pictures = 1..(n - 1) /\ Pictures' = 1..n
      /\ asking' = n
  BY <1>1 DEF ParsersInv, ParsersTyped, Pictures
<1>3. /\ pictures'[n].station = s /\ pictures'[n].at = now /\ pictures'[n].fate = "asked"
      /\ "asked" \in Looked /\ "asked" # "held"
  BY <1>1 DEF Looked
<1>4. now \in 0..MaxTime /\ Window \in Nat /\ MaxTime \in Nat /\ now # Never
  BY ParserAssumption DEF ParsersInv, ParsersTyped, Never
<1>5. lastSeen \in [Station -> Nat] /\ Never \in Nat
  BY <1>4 DEF ParsersInv, ParsersTyped, Never
<1>6. \A i \in Pictures : pictures[i].at \in Nat
  <2>1. \A i \in Pictures : pictures[i] \in Picture
    BY DEF ParsersInv, ParsersTyped, Pictures
  <2>. QED
    BY <2>1, <1>4 DEF Picture
<1>. HIDE DEF n
<1>7. lastSeen' \in [Station -> Nat]
  BY <1>4, <1>5 DEF Marked
<1>8. \A t \in Station : lastSeen'[t] # Never =>
        \/ t = s /\ lastSeen'[t] = now
        \/ lastSeen'[t] = lastSeen[t] /\ lastSeen[t] # Never
  BY <1>4, <1>5 DEF Marked
<1>9. ParsersTyped'
  BY <1>1, <1>2, <1>7 DEF ParsersInv, ParsersTyped
<1>10. PicturesPast'
  BY <1>1, <1>2, <1>3, <1>4 DEF ParsersInv, PicturesPast
<1>11. MarksWitnessed'
  <2>. SUFFICES ASSUME NEW t \in Station, lastSeen'[t] # Never
                PROVE  \E i \in 1..n : /\ pictures'[i].station = t
                                       /\ pictures'[i].at = lastSeen'[t]
                                       /\ pictures'[i].fate \in Looked
    BY <1>2 DEF MarksWitnessed, Never
  <2>1. CASE t = s /\ lastSeen'[t] = now
    BY <2>1, <1>2, <1>3
  <2>2. CASE lastSeen'[t] = lastSeen[t] /\ lastSeen[t] # Never
    BY <2>2, <1>1, <1>2 DEF ParsersInv, MarksWitnessed
  <2>. QED
    BY <2>1, <2>2, <1>8
<1>12. MarksKept'
  <2>. SUFFICES ASSUME Window > 0, NEW i \in 1..n, pictures'[i].fate \in Looked,
                       now < pictures'[i].at + Window
                PROVE  /\ lastSeen'[pictures'[i].station] # Never
                       /\ pictures'[i].at <= lastSeen'[pictures'[i].station]
    BY <1>2 DEF MarksKept, Never
  <2>1. lastSeen' = Marked(s)
    OBVIOUS
  <2>2. CASE i = n
    BY <2>1, <2>2, <1>3, <1>4 DEF Marked
  <2>3. CASE i # n
    <3>. DEFINE t == pictures[i].station
    <3>1. /\ i \in Pictures /\ pictures'[i] = pictures[i] /\ t \in Station
          /\ lastSeen[t] # Never /\ pictures[i].at <= lastSeen[t]
      BY <2>3, <1>1, <1>2 DEF ParsersInv, MarksKept, PicturesPast
    <3>2. lastSeen[t] \in Nat /\ pictures[i].at \in Nat /\ pictures[i].at <= now
      BY <3>1, <1>5, <1>6 DEF ParsersInv, PicturesPast
    <3>3. lastSeen[t] <= now
      BY <3>1 DEF ParsersInv, MarksWitnessed, PicturesPast
    <3>. HIDE DEF t
    <3>4. now - lastSeen[t] < Window
      BY <3>1, <3>2, <3>3, <1>4
    <3>5. lastSeen'[t] = IF t = s THEN now ELSE lastSeen[t]
      BY <2>1, <3>1, <3>4 DEF Marked
    <3>6. lastSeen'[t] # Never /\ pictures[i].at <= lastSeen'[t]
      BY <3>1, <3>2, <3>5, <1>4
    <3>. QED
      BY <3>1, <3>6 DEF t
  <2>. QED
    BY <2>2, <2>3
<1>13. LookedSpaced'
  <2>1. ASSUME NEW i \in Pictures, pictures[i].fate \in Looked, pictures[i].station = s
        PROVE  pictures[i].at + Window <= now
    <3>1. pictures[i].at \in Nat /\ pictures[i].at <= now
      BY <2>1, <1>6 DEF ParsersInv, PicturesPast
    <3>2. CASE Window = 0
      BY <3>1, <3>2, <1>4
    <3>3. CASE Window > 0 /\ now < pictures[i].at + Window
      <4>1. lastSeen[s] # Never /\ pictures[i].at <= lastSeen[s]
        BY <2>1, <3>3 DEF ParsersInv, MarksKept
      <4>2. lastSeen[s] \in Nat /\ lastSeen[s] <= now
        BY <4>1, <1>5 DEF ParsersInv, MarksWitnessed, PicturesPast
      <4>3. now - lastSeen[s] < Window
        BY <4>1, <4>2, <3>1, <3>3, <1>4
      <4>. QED
        BY <4>1, <4>3, <3>3 DEF Held
    <3>. QED
      BY <3>1, <3>2, <3>3, <1>4
  <2>. SUFFICES ASSUME NEW i \in 1..n, NEW j \in 1..n, pictures'[i].fate \in Looked,
                       pictures'[j].fate \in Looked, i < j,
                       pictures'[i].station = pictures'[j].station,
                       pictures'[j].at < pictures'[i].at + Window
                PROVE  FALSE
    BY <1>2 DEF LookedSpaced, Near
  <2>2. i \in Pictures /\ pictures'[i] = pictures[i]
    BY <1>1, <1>2
  <2>3. CASE j = n
    BY <2>1, <2>2, <2>3, <1>3, <1>4, <1>6
  <2>4. CASE j # n
    BY <2>2, <2>4, <1>1, <1>2 DEF ParsersInv, LookedSpaced, Near
  <2>. QED
    BY <2>3, <2>4
<1>14. HeldForCause'
  BY <1>1, <1>2, <1>3 DEF ParsersInv, HeldForCause, Near
<1>. QED
  BY <1>9, <1>10, <1>11, <1>12, <1>13, <1>14 DEF ParsersInv

\* The answer of the lookup settles the picture and touches no mark.
LEMMA AnswerKept ==
  ASSUME ParsersInv, asking > 0, NEW f \in {"spotted", "unknown"},
         pictures' = [pictures EXCEPT ![asking].fate = f],
         asking' = 0, now' = now, lastSeen' = lastSeen
  PROVE  ParsersInv'
<1>1. asking \in Pictures /\ pictures \in Seq(Picture) /\ pictures[asking] \in Picture
  BY DEF ParsersInv, ParsersTyped, Pictures
<1>2. [pictures[asking] EXCEPT !.fate = f] \in Picture
  BY <1>1 DEF Picture, Looked
<1>3. /\ pictures' \in Seq(Picture) /\ Len(pictures') = Len(pictures)
      /\ \A i \in Pictures : /\ pictures'[i].station = pictures[i].station
                             /\ pictures'[i].at = pictures[i].at
                             /\ i # asking => pictures'[i] = pictures[i]
      /\ pictures'[asking].fate = f
  BY <1>1, <1>2 DEF Pictures, Picture
<1>4. Pictures' = Pictures
  BY <1>3 DEF Pictures
<1>5. pictures[asking].fate = "asked" /\ f \in Looked /\ "asked" \in Looked
      /\ f # "held" /\ "asked" # "held"
  BY DEF ParsersInv, PicturesPast, Looked
<1>6. \A i \in Pictures : /\ pictures'[i].fate \in Looked <=> pictures[i].fate \in Looked
                          /\ pictures'[i].fate = "held" <=> pictures[i].fate = "held"
  BY <1>3, <1>5
<1>7. \A i, j \in Pictures : Near(i, j)' <=> Near(i, j)
  BY <1>3 DEF Near
<1>8. ParsersTyped'
  BY <1>3 DEF ParsersInv, ParsersTyped
<1>9. PicturesPast'
  BY <1>3, <1>4, <1>6 DEF ParsersInv, PicturesPast
<1>10. MarksWitnessed'
  BY <1>3, <1>4, <1>6 DEF ParsersInv, MarksWitnessed
<1>11. MarksKept'
  BY <1>3, <1>4, <1>6 DEF ParsersInv, MarksKept
<1>12. LookedSpaced'
  BY <1>4, <1>6, <1>7 DEF ParsersInv, LookedSpaced
<1>13. HeldForCause'
  BY <1>4, <1>6, <1>7 DEF ParsersInv, HeldForCause
<1>. QED
  BY <1>8, <1>9, <1>10, <1>11, <1>12, <1>13 DEF ParsersInv

LEMMA ParsersStep == ParsersInv /\ [Next]_vars => ParsersInv'
<1>. SUFFICES ASSUME ParsersInv, [Next]_vars PROVE ParsersInv'
  OBVIOUS
<1>1. ASSUME UNCHANGED <<now, sstvVars>> PROVE ParsersInv'
  BY <1>1
  DEF sstvVars, ParsersInv, ParsersTyped, PicturesPast, MarksWitnessed, MarksKept,
      LookedSpaced, HeldForCause, Near, Pictures
<1>2. CASE Tick
  <2>1. /\ now' = now + 1 /\ now < MaxTime /\ now \in Nat /\ MaxTime \in Nat
        /\ lastSeen' = lastSeen /\ asking' = asking /\ pictures' = pictures
    BY <1>2, ParserAssumption DEF Tick, sstvVars, ParsersInv, ParsersTyped
  <2>2. \A i \in Pictures : pictures[i].at \in Nat /\ pictures[i].at <= now
    <3>1. \A i \in Pictures : pictures[i] \in Picture
      BY DEF ParsersInv, ParsersTyped, Pictures
    <3>. QED
      BY <3>1, ParserAssumption DEF Picture, ParsersInv, PicturesPast
  <2>3. ParsersTyped' /\ PicturesPast'
    BY <2>1, <2>2 DEF ParsersInv, ParsersTyped, PicturesPast, Pictures
  <2>4. MarksWitnessed' /\ LookedSpaced' /\ HeldForCause'
    BY <2>1 DEF ParsersInv, MarksWitnessed, LookedSpaced, HeldForCause, Near, Pictures
  <2>5. MarksKept'
    BY <2>1, <2>2, ParserAssumption DEF ParsersInv, MarksKept, Pictures
  <2>. QED
    BY <2>3, <2>4, <2>5 DEF ParsersInv
<1>3. CASE ReadBadPicture
  BY <1>3, EarlierKept DEF ReadBadPicture
<1>4. CASE ReadRepeat
  <2>1. PICK s \in Station : /\ asking = 0 /\ Held(s) /\ Arrives(s, "held")
                             /\ now' = now /\ lastSeen' = lastSeen /\ asking' = asking
    BY <1>4 DEF ReadRepeat
  <2>2. PICK i \in Pictures : /\ pictures[i].station = s /\ pictures[i].at = lastSeen[s]
                              /\ pictures[i].fate \in Looked
    BY <2>1 DEF Held, ParsersInv, MarksWitnessed
  <2>3. now < pictures[i].at + Window
    <3>1. now \in Nat /\ lastSeen[s] \in Nat /\ Window \in Nat
      BY <2>1, ParserAssumption DEF ParsersInv, ParsersTyped
    <3>. QED
      BY <3>1, <2>1, <2>2 DEF Held, ParsersInv, PicturesPast
  <2>. QED
    BY <2>1, <2>2, <2>3, EarlierKept
<1>5. CASE ReadPicture
  BY <1>5, AskedKept DEF ReadPicture
<1>6. CASE NotPlaced
  BY <1>6, AnswerKept DEF NotPlaced
<1>7. CASE ReadPlaced
  BY <1>7, AnswerKept DEF ReadPlaced, Placed
<1>8. CASE ReadEvent
  BY <1>1, <1>8 DEF ReadEvent, Publish, TheHub!Publish
<1>9. ASSUME NEW key, SubmitSpot(key) PROVE ParsersInv'
  BY <1>1, <1>9 DEF SubmitSpot, Publish, TheHub!Publish
<1>10. ASSUME NEW n, InjectSpot(n) PROVE ParsersInv'
  BY <1>1, <1>10 DEF InjectSpot
<1>11. ASSUME NEW n, EchoArrives(n) PROVE ParsersInv'
  BY <1>1, <1>11 DEF EchoArrives, Publish, TheHub!Publish
<1>12. ASSUME NEW a \in BOOLEAN, Take(a) PROVE ParsersInv'
  BY <1>1, <1>12 DEF Take, TheHub!AcceptSpot, TheHub!DropDup
<1>13. CASE UNCHANGED vars
  BY <1>1, <1>13 DEF vars
<1>. QED
  BY <1>2, <1>3, <1>4, <1>5, <1>6, <1>7, <1>8, <1>9, <1>10, <1>11, <1>12, <1>13 DEF Next

-----------------------------------------------------------------------------
(* The line of offered spots and what was taken from it.                   *)

\* What a step of a producer does to the line: one more spot at its end,
\* unless the hub is full; nobody else adds one.
Offered(x) ==
  /\ IF Len(in) < InCap THEN in' = Append(in, x) ELSE in' = in
  /\ dedup' = dedup /\ now' = now /\ taken' = taken

LEMMA PublishOffers ==
  ASSUME NEW key, NEW stream, NEW of, Publish(key, stream, of), taken' = taken
  PROVE  Offered([key |-> key, stream |-> stream, of |-> of])
  BY DEF Publish, TheHub!Publish, TheHub!hubVars, Offered

\* A longer line ends in the new spot and begins like the old one.
LEMMA LineGrows ==
  ASSUME LineTyped, NEW x \in Offer, in' = Append(in, x), taken' = taken,
         NEW n, n = LineLen + 1
  PROVE  /\ LineLen \in Nat /\ LineLen' = n
         /\ \A p \in 1..LineLen : At(p)' = At(p)
         /\ At(n)' = x
<1>1. /\ Len(in) \in Nat /\ Len(taken) \in Nat /\ Len(in') = Len(in) + 1
      /\ in'[Len(in) + 1] = x
      /\ \A i \in 1..Len(in) : in'[i] = in[i]
  BY DEF LineTyped
<1>2. LineLen \in Nat /\ LineLen' = n
  BY <1>1 DEF LineLen
<1>3. ASSUME NEW p \in 1..LineLen PROVE At(p)' = At(p)
  <2>1. CASE p <= Len(taken)
    BY <2>1 DEF At
  <2>2. CASE p > Len(taken)
    <3>1. p - Len(taken) \in 1..Len(in)
      BY <2>2, <1>1 DEF LineLen
    <3>. QED
      BY <2>2, <3>1, <1>1 DEF At
  <2>. QED
    BY <2>1, <2>2, <1>1
<1>4. At(n)' = x
  <2>1. n > Len(taken) /\ n - Len(taken) = Len(in) + 1
    BY <1>1 DEF LineLen
  <2>. QED
    BY <2>1, <1>1 DEF At
<1>. QED
  BY <1>2, <1>3, <1>4

\* Taking the next spot does not change the line.
LEMMA LineMoves ==
  ASSUME LineTyped, in # <<>>, in' = Tail(in), NEW r, r.spot = Head(in),
         taken' = Append(taken, r)
  PROVE  LineLen' = LineLen /\ \A p \in 1..LineLen : At(p)' = At(p)
<1>1. /\ Len(in) \in Nat /\ Len(taken) \in Nat /\ Len(in) > 0 /\ Len(in') = Len(in) - 1
      /\ \A i \in 1..Len(in') : in'[i] = in[i + 1]
      /\ Head(in) = in[1]
  BY DEF LineTyped
<1>2. /\ Len(taken') = Len(taken) + 1 /\ taken'[Len(taken) + 1] = r
      /\ \A i \in 1..Len(taken) : taken'[i] = taken[i]
  BY DEF LineTyped
<1>3. LineLen' = LineLen
  BY <1>1, <1>2 DEF LineLen
<1>4. ASSUME NEW p \in 1..LineLen PROVE At(p)' = At(p)
  <2>0. p \in Nat /\ p > 0 /\ p <= Len(taken) + Len(in)
    BY <1>1 DEF LineLen
  <2>1. CASE p <= Len(taken)
    BY <2>0, <2>1, <1>1, <1>2 DEF At
  <2>2. CASE p = Len(taken) + 1
    BY <2>2, <1>1, <1>2 DEF At
  <2>3. CASE p > Len(taken) + 1
    <3>1. /\ p - Len(taken') \in 1..Len(in')
          /\ (p - Len(taken')) + 1 = p - Len(taken)
      BY <2>0, <2>3, <1>1, <1>2
    <3>2. in'[p - Len(taken')] = in[p - Len(taken)]
      BY <3>1, <1>1
    <3>. QED
      BY <2>0, <2>3, <3>2, <1>1, <1>2 DEF At
  <2>. QED
    BY <2>0, <2>1, <2>2, <2>3, <1>1
<1>. QED
  BY <1>3, <1>4

\* The types.
LEMMA OfferTyped ==
  ASSUME LineTyped, NEW x \in Offer, Offered(x)
  PROVE  in' \in Seq(Offer) /\ taken' = taken /\ dedup' \in [Key -> Nat]
<1>1. in \in Seq(Offer) /\ dedup \in [Key -> Nat]
  BY DEF LineTyped
<1>2. in' = Append(in, x) \/ in' = in
  BY DEF Offered
<1>3. in' \in Seq(Offer)
  BY <1>1, <1>2
<1>. QED
  BY <1>1, <1>3 DEF Offered

Injection == [key : Key, state : {"due", "sent", "failed"}]

\* What a producer offers is a spot.
LEMMA ParserOffers ==
  ASSUME NEW stream \in Stream, NEW e \in Event, NEW spot \in Parse(stream, e)
  PROVE  spot.stream \in Stream /\ spot.call \in Call \cup {"N0CALL"}
<1>1. e.call \in Call \cup {None}
  BY DEF Event
<1>2. CASE stream = "dxcluster"
  BY <1>1, <1>2 DEF Parse, parseDXSpot, SpotOf, Stream
<1>3. CASE stream = "decoder"
  BY <1>1, <1>3 DEF Parse, parseDecoder, SpotOf, Stream
<1>4. CASE stream = "cwskimmer"
  BY <1>1, <1>4 DEF Parse, parseCWSpot, SpotOf, Stream
<1>5. CASE stream = "voice"
  BY <1>1, <1>5 DEF Parse, parseVoiceActivity, SpotOf, Stream
<1>. QED
  BY <1>2, <1>3, <1>4, <1>5 DEF Stream

LEMMA KeysAre ==
  /\ \A c \in Call \cup {"N0CALL"}, place \in Place : <<c, place>> \in Key
  /\ \A s \in Station : s \in Key
  /\ \A key \in Key : key = <<key[1], key[2]>>
  BY DEF Key, Station

\* An echo is the spot that was submitted, behind its submission.
LEMMA EchoOffers ==
  ASSUME LineTyped, NEW n \in 1..Len(inject), EchoArrives(n)
  PROVE  /\ Offered([key |-> inject[n].key, stream |-> "dxcluster", of |-> n])
         /\ inject[n].key \in Key
<1>1. inject[n] \in Injection /\ inject[n].key \in Key
  <2>1. inject \in Seq(Injection)
    BY DEF LineTyped, Injection
  <2>2. inject[n] \in Injection
    BY <2>1
  <2>. QED
    BY <2>2 DEF Injection
<1>2. PICK spot \in parseDXSpot([own |-> TRUE, call |-> inject[n].key[1]]) :
        Publish(<<spot.call, inject[n].key[2]>>, spot.stream, n)
  BY DEF EchoArrives
<1>3. spot.call = inject[n].key[1] /\ spot.stream = "dxcluster"
  BY <1>2 DEF parseDXSpot, SpotOf
<1>4. <<spot.call, inject[n].key[2]>> = inject[n].key
  BY <1>1, <1>3, KeysAre
<1>5. Publish(inject[n].key, "dxcluster", n)
  BY <1>2, <1>3, <1>4
<1>. QED
  BY <1>1, <1>5, PublishOffers DEF EchoArrives

\* The fate of an injection is noted and nothing else.
LEMMA InjectionSettles ==
  ASSUME LineTyped, NEW n \in 1..Len(inject), NEW st \in {"sent", "failed"},
         inject' = [inject EXCEPT ![n].state = st]
  PROVE  /\ inject' \in Seq(Injection) /\ Len(inject') = Len(inject)
         /\ \A i \in 1..Len(inject) : inject'[i].key = inject[i].key
<1>1. inject \in Seq(Injection)
  BY DEF LineTyped, Injection
<1>2. inject[n] \in Injection
  BY <1>1
<1>3. [inject[n] EXCEPT !.state = st] \in Injection
  BY <1>2 DEF Injection
<1>. QED
  BY <1>1, <1>2, <1>3 DEF Injection

\* What Run takes is noted with its time.
LEMMA TakeFacts ==
  ASSUME LineTyped, NEW a \in BOOLEAN, Take(a)
  PROVE  /\ in # <<>> /\ in' = Tail(in) /\ Head(in) \in Offer
         /\ taken' = Append(taken, [spot |-> Head(in), at |-> now, accepted |-> a])
         /\ now' = now /\ lost' = lost /\ inject' = inject /\ UNCHANGED sstvVars
         /\ a <=> ~TheHub!IsDup(Head(in).key)
         /\ dedup' = IF a THEN TheHub!Remember(Head(in).key) ELSE dedup
<1>1. in # <<>>
  BY DEF Take, TheHub!AcceptSpot, TheHub!DropDup
<1>2. Head(in) \in Offer
  BY <1>1 DEF LineTyped
<1>3. CASE a = TRUE
  BY <1>1, <1>2, <1>3 DEF Take, TheHub!AcceptSpot
<1>4. CASE a = FALSE
  BY <1>1, <1>2, <1>4 DEF Take, TheHub!DropDup, TheHub!hubVars
<1>. QED
  BY <1>3, <1>4

LEMMA LineTypedStep == ParsersInv /\ LineTyped /\ [Next]_vars => LineTyped'
<1>. SUFFICES ASSUME ParsersInv, LineTyped, [Next]_vars PROVE LineTyped'
  OBVIOUS
<1>1. /\ in \in Seq(Offer) /\ dedup \in [Key -> Nat] /\ inject \in Seq(Injection)
      /\ taken \in Seq([spot : Offer, at : Nat, accepted : BOOLEAN])
      /\ lost \in SUBSET Nat
  BY DEF LineTyped, Injection
<1>2. now \in Nat /\ HubWindow \in Nat
  BY IngestAssumption, ParserAssumption DEF ParsersInv, ParsersTyped
<1>3. ASSUME NEW x \in Offer, Offered(x), inject' \in Seq(Injection), lost' \in SUBSET Nat
      PROVE  LineTyped'
  BY <1>1, <1>3, OfferTyped DEF LineTyped, Injection
<1>4. CASE UNCHANGED <<hubVars, ingestVars>>
  <2>1. in' = in /\ dedup' = dedup /\ inject' = inject /\ taken' = taken /\ lost' = lost
    BY <1>4 DEF hubVars, ingestVars
  <2>. QED
    BY <1>1, <2>1 DEF LineTyped, Injection
<1>5. CASE ReadPlaced
  <2>. DEFINE key == pictures[asking].station
  <2>1. key \in Key
    <3>1. asking \in Pictures /\ pictures[asking].fate \in Looked
      BY <1>5 DEF ReadPlaced, Placed, ParsersInv, ParsersTyped, PicturesPast, Pictures, Looked
    <3>. QED
      BY <3>1, KeysAre DEF ParsersInv, PicturesPast
  <2>. HIDE DEF key
  <2>2. [key |-> key, stream |-> "sstv", of |-> 0] \in Offer
    BY <2>1 DEF Offer
  <2>3. Offered([key |-> key, stream |-> "sstv", of |-> 0])
    BY <1>5, PublishOffers DEF ReadPlaced, ingestVars, key
  <2>4. inject' = inject /\ lost' = lost
    BY <1>5 DEF ReadPlaced, ingestVars
  <2>. QED
    BY <1>1, <1>3, <2>2, <2>3, <2>4
<1>6. CASE ReadEvent
  <2>0. PICK stream \in Stream, e \in Event, place \in Place : \E spot \in Parse(stream, e) :
          Publish(<<spot.call, place>>, spot.stream, 0) /\ UNCHANGED <<inject, lost, taken>>
    BY <1>6 DEF ReadEvent
  <2>1. PICK spot \in Parse(stream, e) :
          Publish(<<spot.call, place>>, spot.stream, 0) /\ UNCHANGED <<inject, lost, taken>>
    BY <2>0
  <2>2. [key |-> <<spot.call, place>>, stream |-> spot.stream, of |-> 0] \in Offer
    BY ParserOffers, KeysAre DEF Offer
  <2>3. Offered([key |-> <<spot.call, place>>, stream |-> spot.stream, of |-> 0])
    BY <2>1, PublishOffers
  <2>. QED
    BY <1>1, <1>3, <2>1, <2>2, <2>3
<1>7. ASSUME NEW key \in Call \X Place, SubmitSpot(key) PROVE LineTyped'
  <2>. DEFINE n == Len(inject) + 1
  <2>1. n \in Nat /\ key \in Key
    BY <1>1, <1>7, KeysAre DEF Station
  <2>2. /\ Publish(key, Local, n) /\ taken' = taken
        /\ inject' = Append(inject, [key |-> key, state |-> "due"])
        /\ lost' = IF Len(in) < InCap THEN lost ELSE lost \cup {n}
    BY <1>7 DEF SubmitSpot
  <2>. HIDE DEF n
  <2>3. [key |-> key, stream |-> Local, of |-> n] \in Offer
    BY <2>1 DEF Offer
  <2>4. Offered([key |-> key, stream |-> Local, of |-> n])
    BY <2>2, PublishOffers
  <2>5. [key |-> key, state |-> "due"] \in Injection
    BY <2>1 DEF Injection
  <2>6. inject' \in Seq(Injection) /\ lost' \in SUBSET Nat
    BY <1>1, <2>1, <2>2, <2>5
  <2>. QED
    BY <1>3, <2>3, <2>4, <2>6
<1>8. ASSUME NEW n \in 1..Len(inject), InjectSpot(n) PROVE LineTyped'
  <2>1. inject' \in Seq(Injection)
    BY <1>8, InjectionSettles DEF InjectSpot
  <2>2. in' = in /\ dedup' = dedup /\ taken' = taken /\ lost' = lost
    BY <1>8 DEF InjectSpot, hubVars
  <2>. QED
    BY <1>1, <2>1, <2>2 DEF LineTyped, Injection
<1>9. ASSUME NEW n \in 1..Len(inject), EchoArrives(n) PROVE LineTyped'
  <2>1. /\ inject' \in Seq(Injection) /\ lost' = lost
    BY <1>1, <1>9 DEF EchoArrives
  <2>2. /\ Offered([key |-> inject[n].key, stream |-> "dxcluster", of |-> n])
        /\ [key |-> inject[n].key, stream |-> "dxcluster", of |-> n] \in Offer
    BY <1>9, EchoOffers DEF Offer, Stream
  <2>. QED
    BY <1>1, <1>3, <2>1, <2>2
<1>10. ASSUME NEW a \in BOOLEAN, Take(a) PROVE LineTyped'
  <2>1. /\ in # <<>> /\ in' = Tail(in) /\ Head(in) \in Offer
        /\ taken' = Append(taken, [spot |-> Head(in), at |-> now, accepted |-> a])
        /\ lost' = lost /\ inject' = inject
        /\ dedup' = IF a THEN TheHub!Remember(Head(in).key) ELSE dedup
    BY <1>10, TakeFacts
  <2>2. [spot |-> Head(in), at |-> now, accepted |-> a]
          \in [spot : Offer, at : Nat, accepted : BOOLEAN]
    BY <2>1, <1>2
  <2>3. in' \in Seq(Offer)
    BY <1>1, <2>1
  <2>4. taken' \in Seq([spot : Offer, at : Nat, accepted : BOOLEAN])
    BY <1>1, <2>1, <2>2
  <2>5. dedup' \in [Key -> Nat]
    BY <1>1, <1>2, <2>1 DEF TheHub!Remember, TheHub!Absent
  <2>. QED
    BY <1>1, <2>1, <2>3, <2>4, <2>5 DEF LineTyped, Injection
<1>11. CASE UNCHANGED vars
  BY <1>4, <1>11 DEF vars
<1>. QED
  BY <1>4, <1>5, <1>6, <1>7, <1>8, <1>9, <1>10, <1>11 DEF Next, Quiet

-----------------------------------------------------------------------------
(* The hub's window over what Run takes.                                   *)

LEMMA TakenTypes ==
  ASSUME ParsersInv, LineTyped
  PROVE  /\ now \in Nat /\ HubWindow \in Nat /\ HubWindow > 0
         /\ dedup \in [Key -> Nat] /\ Len(taken) \in Nat
         /\ \A i \in Taken : /\ taken[i].at \in Nat /\ taken[i].spot \in Offer
                             /\ taken[i].spot.key \in Key
                             /\ taken[i].accepted \in BOOLEAN
<1>1. now \in Nat /\ HubWindow \in Nat /\ HubWindow > 0
  BY IngestAssumption, ParserAssumption DEF ParsersInv, ParsersTyped
<1>. DEFINE Record == [spot : Offer, at : Nat, accepted : BOOLEAN]
<1>2. \A i \in Taken : taken[i] \in Record
  <2>1. taken \in Seq(Record)
    BY DEF LineTyped
  <2>. HIDE DEF Record
  <2>. QED
    BY <2>1 DEF Taken
<1>3. \A i \in Taken : taken[i].spot \in Offer
  BY <1>2
<1>4. \A i \in Taken : taken[i].spot.key \in Key
  BY <1>3 DEF Offer
<1>5. \A i \in Taken : taken[i].at \in Nat /\ taken[i].accepted \in BOOLEAN
  BY <1>2
<1>. QED
  BY <1>1, <1>3, <1>4, <1>5 DEF LineTyped

\* A step of anybody but Run at most lets time pass.
LEMMA WindowKept ==
  ASSUME ParsersInv, LineTyped, WindowInv, taken' = taken, dedup' = dedup,
         now' \in Nat, now <= now'
  PROVE  WindowInv'
<1>1. Known'
  BY TakenTypes DEF WindowInv, Known, Taken
<1>2. Backed' /\ Spaced'
  BY DEF WindowInv, Backed, Spaced, Taken
<1>3. Stood'
  BY DEF WindowInv, Stood, StandsFor, Taken
<1>. QED
  BY <1>1, <1>2, <1>3 DEF WindowInv

\* One record more.
LEMMA OneMoreTaken ==
  ASSUME LineTyped, NEW a \in BOOLEAN, Take(a), NEW n, n = Len(taken) + 1
  PROVE  /\ Taken = 1..(n - 1) /\ Taken' = 1..n /\ n \in Nat /\ n > 0
         /\ \A i \in Taken : taken'[i] = taken[i]
         /\ taken'[n].spot = Head(in) /\ taken'[n].at = now /\ taken'[n].accepted = a
         /\ Head(in).key \in Key
<1>. DEFINE r == [spot |-> Head(in), at |-> now, accepted |-> a]
<1>1. taken' = Append(taken, r) /\ Head(in) \in Offer
  BY TakeFacts
<1>2. r.spot = Head(in) /\ r.at = now /\ r.accepted = a
  OBVIOUS
<1>. HIDE DEF r
<1>. QED
  BY <1>1, <1>2 DEF LineTyped, Taken, Offer

\* A spot is accepted only when the window of every earlier one is over.
LEMMA AcceptKeepsWindow ==
  ASSUME ParsersInv, LineTyped, WindowInv, Take(TRUE)
  PROVE  WindowInv'
<1>. DEFINE n == Len(taken) + 1
            k == Head(in).key
<1>1. /\ Taken = 1..(n - 1) /\ Taken' = 1..n /\ n \in Nat /\ n > 0
      /\ \A i \in Taken : taken'[i] = taken[i]
      /\ taken'[n].spot = Head(in) /\ taken'[n].at = now /\ taken'[n].accepted = TRUE
      /\ k \in Key
  BY OneMoreTaken
<1>2. taken'[n].spot.key = k /\ now' = now
  BY <1>1, TakeFacts
<1>. HIDE DEF n
<1>3. dedup[k] = 0 \/ ~(now < dedup[k])
  BY TakeFacts DEF TheHub!IsDup, TheHub!Absent
<1>4. dedup' = [x \in Key |-> LET exp == IF x = k THEN now + HubWindow ELSE dedup[x]
                              IN  IF now > exp THEN 0 ELSE exp]
  BY TakeFacts DEF TheHub!Remember, TheHub!Absent
<1>. HIDE DEF k
<1>5. /\ dedup'[k] = now + HubWindow
      /\ \A x \in Key : x # k => dedup'[x] = IF now > dedup[x] THEN 0 ELSE dedup[x]
  <2>1. /\ now \in Nat /\ HubWindow \in Nat /\ k \in Key
    BY <1>1, TakenTypes
  <2>. QED
    BY <1>4, <2>1
<1>6. ASSUME NEW i \in Taken, taken[i].accepted, taken[i].spot.key = k
      PROVE  taken[i].at + HubWindow <= now
  <2>1. /\ taken[i].at <= now
        /\ now < taken[i].at + HubWindow => taken[i].at + HubWindow <= dedup[k]
    BY <1>6 DEF WindowInv, Known
  <2>2. /\ taken[i].at \in Nat /\ HubWindow \in Nat /\ HubWindow > 0
        /\ now \in Nat /\ dedup[k] \in Nat
    BY <1>1, TakenTypes
  <2>. QED
    BY <1>3, <2>1, <2>2
<1>7. Known'
  <2>. SUFFICES ASSUME NEW i \in 1..n
                PROVE  /\ taken'[i].at <= now
                       /\ taken'[i].accepted /\ now < taken'[i].at + HubWindow
                            => taken'[i].at + HubWindow <= dedup'[taken'[i].spot.key]
    BY <1>1, <1>2 DEF Known
  <2>1. CASE i = n
    <3>1. taken'[i].at = now /\ taken'[i].spot.key = k /\ dedup'[k] = now + HubWindow
      BY <2>1, <1>1, <1>2, <1>5
    <3>. QED
      BY <3>1, TakenTypes
  <2>2. CASE i # n
    <3>1. i \in Taken /\ taken'[i] = taken[i]
      BY <2>2, <1>1
    <3>2. /\ taken[i].at <= now
          /\ taken[i].accepted /\ now < taken[i].at + HubWindow
               => taken[i].at + HubWindow <= dedup[taken[i].spot.key]
      BY <3>1 DEF WindowInv, Known
    <3>3. CASE taken[i].accepted /\ now < taken[i].at + HubWindow
      <4>1. taken[i].spot.key # k
        BY <1>6, <3>1, <3>3, TakenTypes
      <4>2. now < dedup[taken[i].spot.key]
        BY <3>1, <3>2, <3>3, TakenTypes
      <4>3. dedup'[taken[i].spot.key] = dedup[taken[i].spot.key]
        BY <1>5, <3>1, <4>1, <4>2, TakenTypes
      <4>. QED
        BY <3>1, <3>2, <4>3
    <3>4. CASE ~(taken[i].accepted /\ now < taken[i].at + HubWindow)
      BY <3>1, <3>2, <3>4
    <3>. QED
      BY <3>3, <3>4
  <2>. QED
    BY <2>1, <2>2
<1>8. Backed'
  <2>. SUFFICES ASSUME NEW x \in Key, dedup'[x] # 0
                PROVE  \E i \in 1..n : /\ taken'[i].accepted /\ taken'[i].spot.key = x
                                       /\ dedup'[x] = taken'[i].at + HubWindow
    BY <1>1 DEF Backed
  <2>1. CASE x = k
    BY <2>1, <1>1, <1>2, <1>5
  <2>2. CASE x # k
    <3>1. dedup'[x] = dedup[x] /\ dedup[x] # 0
      BY <2>2, <1>5
    <3>2. PICK i \in Taken : /\ taken[i].accepted /\ taken[i].spot.key = x
                             /\ dedup[x] = taken[i].at + HubWindow
      BY <3>1 DEF WindowInv, Backed
    <3>. QED
      BY <3>1, <3>2, <1>1
  <2>. QED
    BY <2>1, <2>2
<1>9. Spaced'
  <2>. SUFFICES ASSUME NEW i \in 1..n, NEW j \in 1..n, i < j, taken'[i].accepted,
                       taken'[j].accepted, taken'[i].spot.key = taken'[j].spot.key
                PROVE  taken'[i].at + HubWindow <= taken'[j].at
    BY <1>1 DEF Spaced
  <2>1. i \in Taken /\ taken'[i] = taken[i]
    BY <1>1
  <2>2. CASE j = n
    BY <2>1, <2>2, <1>1, <1>2, <1>6
  <2>3. CASE j # n
    BY <2>1, <2>3, <1>1 DEF WindowInv, Spaced
  <2>. QED
    BY <2>2, <2>3
<1>10. Stood'
  <2>. SUFFICES ASSUME NEW j \in 1..n PROVE \E i \in 1..j : StandsFor(i, j)'
    BY <1>1 DEF Stood
  <2>1. CASE j = n
    BY <2>1, <1>1 DEF StandsFor
  <2>2. CASE j # n
    <3>1. PICK i \in 1..j : StandsFor(i, j)
      BY <2>2, <1>1 DEF WindowInv, Stood
    <3>. QED
      BY <3>1, <2>2, <1>1 DEF StandsFor
  <2>. QED
    BY <2>1, <2>2
<1>. QED
  BY <1>7, <1>8, <1>9, <1>10 DEF WindowInv

\* A spot is dropped only when an accepted one stands for it.
LEMMA DropKeepsWindow ==
  ASSUME ParsersInv, LineTyped, WindowInv, Take(FALSE)
  PROVE  WindowInv'
<1>. DEFINE n == Len(taken) + 1
            k == Head(in).key
<1>1. /\ Taken = 1..(n - 1) /\ Taken' = 1..n /\ n \in Nat /\ n > 0
      /\ \A i \in Taken : taken'[i] = taken[i]
      /\ taken'[n].spot = Head(in) /\ taken'[n].at = now /\ taken'[n].accepted = FALSE
      /\ k \in Key
  BY OneMoreTaken
<1>2. taken'[n].spot.key = k /\ now' = now /\ dedup' = dedup
  BY <1>1, TakeFacts
<1>. HIDE DEF n
<1>3. dedup[k] # 0 /\ now < dedup[k]
  BY TakeFacts DEF TheHub!IsDup, TheHub!Absent
<1>. HIDE DEF k
<1>4. Known' /\ Backed' /\ Spaced'
  <2>1. Known'
    <3>. SUFFICES ASSUME NEW i \in 1..n
                  PROVE  /\ taken'[i].at <= now
                         /\ taken'[i].accepted /\ now < taken'[i].at + HubWindow
                              => taken'[i].at + HubWindow <= dedup[taken'[i].spot.key]
      BY <1>1, <1>2 DEF Known
    <3>1. CASE i = n
      BY <3>1, <1>1, TakenTypes
    <3>2. CASE i \in Taken
      BY <3>2, <1>1 DEF WindowInv, Known
    <3>. QED
      BY <3>1, <3>2, <1>1
  <2>2. Backed'
    BY <1>1, <1>2 DEF WindowInv, Backed
  <2>3. Spaced'
    BY <1>1, <1>2 DEF WindowInv, Spaced
  <2>. QED
    BY <2>1, <2>2, <2>3
<1>5. Stood'
  <2>. SUFFICES ASSUME NEW j \in 1..n PROVE \E i \in 1..j : StandsFor(i, j)'
    BY <1>1 DEF Stood
  <2>1. CASE j = n
    <3>1. PICK i \in Taken : /\ taken[i].accepted /\ taken[i].spot.key = k
                             /\ dedup[k] = taken[i].at + HubWindow
      BY <1>1, <1>3 DEF WindowInv, Backed
    <3>. QED
      BY <3>1, <2>1, <1>1, <1>2, <1>3 DEF StandsFor
  <2>2. CASE j # n
    <3>1. PICK i \in 1..j : StandsFor(i, j)
      BY <2>2, <1>1 DEF WindowInv, Stood
    <3>. QED
      BY <3>1, <2>2, <1>1 DEF StandsFor
  <2>. QED
    BY <2>1, <2>2
<1>. QED
  BY <1>4, <1>5 DEF WindowInv

LEMMA WindowStep == ParsersInv /\ LineTyped /\ WindowInv /\ [Next]_vars => WindowInv'
<1>. SUFFICES ASSUME ParsersInv, LineTyped, WindowInv, [Next]_vars PROVE WindowInv'
  OBVIOUS
<1>1. now \in Nat
  BY TakenTypes
<1>2. ASSUME taken' = taken, dedup' = dedup, now' = now PROVE WindowInv'
  BY <1>1, <1>2, WindowKept
<1>3. CASE Tick /\ Quiet
  BY <1>1, <1>3, WindowKept DEF Tick, Quiet, hubVars, ingestVars
<1>4. CASE (ReadBadPicture \/ ReadRepeat \/ ReadPicture \/ NotPlaced) /\ Quiet
  BY <1>2, <1>4
  DEF ReadBadPicture, ReadRepeat, ReadPicture, NotPlaced, Quiet, hubVars, ingestVars
<1>5. CASE ReadPlaced
  BY <1>2, <1>5 DEF ReadPlaced, Publish, TheHub!Publish, TheHub!hubVars, ingestVars
<1>6. CASE ReadEvent
  BY <1>2, <1>6 DEF ReadEvent, Publish, TheHub!Publish, TheHub!hubVars
<1>7. ASSUME NEW key, SubmitSpot(key) PROVE WindowInv'
  BY <1>2, <1>7 DEF SubmitSpot, Publish, TheHub!Publish, TheHub!hubVars
<1>8. ASSUME NEW n, InjectSpot(n) PROVE WindowInv'
  BY <1>2, <1>8 DEF InjectSpot, hubVars
<1>9. ASSUME NEW n, EchoArrives(n) PROVE WindowInv'
  BY <1>2, <1>9 DEF EchoArrives, Publish, TheHub!Publish, TheHub!hubVars
<1>10. ASSUME NEW a \in BOOLEAN, Take(a) PROVE WindowInv'
  BY <1>10, AcceptKeepsWindow, DropKeepsWindow
<1>11. CASE UNCHANGED vars
  BY <1>2, <1>11 DEF vars, hubVars, ingestVars
<1>. QED
  BY <1>3, <1>4, <1>5, <1>6, <1>7, <1>8, <1>9, <1>10, <1>11 DEF Next

-----------------------------------------------------------------------------
(* Submissions and their echoes in the line.                               *)

\* What LineInv says of a position depends on its spot and on the submissions,
\* so a line that is only moved along keeps it.
LEMMA LineKept ==
  ASSUME LineInv, LineLen' = LineLen, \A p \in 1..LineLen : At(p)' = At(p),
         lost' = lost, Len(inject') = Len(inject), LineLen \in Nat,
         \A n \in 1..Len(inject) : inject'[n].key = inject[n].key
  PROVE  LineInv'
<1>1. OffersOf'
  BY DEF LineInv, OffersOf
<1>2. Submitted'
  BY DEF LineInv, Submitted
<1>3. EchoBehind'
  <2>. SUFFICES ASSUME NEW p \in 1..LineLen, At(p).stream = "dxcluster",
                       At(p).of \notin lost \cup {0}
                PROVE  \E q \in 1..(p - 1) : At(q)' = At(q) /\ At(q).of = At(p).of
    BY DEF EchoBehind
  <2>1. PICK q \in 1..(p - 1) : At(q).of = At(p).of
    BY DEF LineInv, EchoBehind
  <2>. QED
    BY <2>1
<1>. QED
  BY <1>1, <1>2, <1>3 DEF LineInv

\* A line that grows by one spot keeps it when the new spot obeys it.
LEMMA LineExtended ==
  ASSUME LineTyped, LineInv, NEW x \in Offer, Offered(x), lost \subseteq lost',
         Len(inject) \in Nat, Len(inject') \in Nat, Len(inject) <= Len(inject'),
         \A n \in 1..Len(inject) : inject'[n].key = inject[n].key,
         x.of # 0 => x.of \in 1..Len(inject') /\ x.key = inject'[x.of].key,
         x.stream = "dxcluster" /\ x.of \notin lost' \cup {0}
           => \E p \in 1..LineLen : At(p).of = x.of,
         \A n \in (1..Len(inject')) \ lost' :
           n \in 1..Len(inject) \/ (Len(in) < InCap /\ n = x.of)
  PROVE  LineInv'
<1>1. LineLen \in Nat
  BY DEF LineTyped, LineLen
<1>2. CASE Len(in) < InCap
  <2>1. in' = Append(in, x) /\ taken' = taken
    BY <1>2 DEF Offered
  <2>2. PICK m : m = LineLen + 1
    OBVIOUS
  <2>3. /\ LineLen' = m /\ At(m)' = x
        /\ \A p \in 1..LineLen : At(p)' = At(p)
    BY <2>1, <2>2, LineGrows
  <2>4. OffersOf'
    <3>. SUFFICES ASSUME NEW p \in 1..m, At(p)'.of # 0
                  PROVE  At(p)'.of \in 1..Len(inject') /\ At(p)'.key = inject'[At(p)'.of].key
      BY <2>3 DEF OffersOf
    <3>1. CASE p = m
      BY <3>1, <2>3
    <3>2. CASE p # m
      <4>1. p \in 1..LineLen /\ At(p)' = At(p)
        BY <3>2, <2>2, <2>3, <1>1
      <4>. QED
        BY <4>1 DEF LineInv, OffersOf
    <3>. QED
      BY <3>1, <3>2
  <2>5. Submitted'
    <3>. SUFFICES ASSUME NEW n \in (1..Len(inject')) \ lost'
                  PROVE  \E p \in 1..m : At(p)'.of = n
      BY <2>3 DEF Submitted
    <3>1. CASE n = x.of
      <4>1. m \in 1..m
        BY <2>2, <1>1
      <4>. QED
        BY <3>1, <4>1, <2>3
    <3>2. CASE n \in 1..Len(inject)
      <4>1. PICK p \in 1..LineLen : At(p).of = n
        BY <3>2 DEF LineInv, Submitted
      <4>. QED
        BY <4>1, <2>2, <2>3, <1>1
    <3>. QED
      BY <3>1, <3>2
  <2>6. EchoBehind'
    <3>. SUFFICES ASSUME NEW p \in 1..m, At(p)'.stream = "dxcluster",
                         At(p)'.of \notin lost' \cup {0}
                  PROVE  \E q \in 1..LineLen : /\ q \in 1..(p - 1) /\ At(q)' = At(q)
                                               /\ At(q).of = At(p)'.of
      BY <2>3 DEF EchoBehind
    <3>1. CASE p = m
      <4>1. PICK q \in 1..LineLen : At(q).of = x.of
        BY <3>1, <2>3
      <4>. QED
        BY <4>1, <3>1, <2>2, <2>3, <1>1
    <3>2. CASE p # m
      <4>1. p \in 1..LineLen /\ At(p)' = At(p)
        BY <3>2, <2>2, <2>3, <1>1
      <4>2. PICK q \in 1..(p - 1) : At(q).of = At(p).of
        BY <4>1 DEF LineInv, EchoBehind
      <4>. QED
        BY <4>1, <4>2, <2>3, <1>1
    <3>. QED
      BY <3>1, <3>2
  <2>. QED
    BY <2>4, <2>5, <2>6 DEF LineInv
<1>3. CASE ~(Len(in) < InCap)
  <2>1. in' = in /\ taken' = taken
    BY <1>3 DEF Offered
  <2>2. LineLen' = LineLen /\ \A p \in 1..LineLen : At(p)' = At(p)
    BY <2>1 DEF LineLen, At
  <2>3. OffersOf'
    BY <2>2 DEF LineInv, OffersOf
  <2>4. Submitted'
    BY <2>2, <1>3 DEF LineInv, Submitted
  <2>5. EchoBehind'
    <3>. SUFFICES ASSUME NEW p \in 1..LineLen, At(p).stream = "dxcluster",
                         At(p).of \notin lost \cup {0}
                  PROVE  \E q \in 1..(p - 1) : At(q)' = At(q) /\ At(q).of = At(p).of
      BY <2>2 DEF EchoBehind
    <3>1. PICK q \in 1..(p - 1) : At(q).of = At(p).of
      BY DEF LineInv, EchoBehind
    <3>. QED
      BY <3>1, <2>2, <1>1
  <2>. QED
    BY <2>3, <2>4, <2>5 DEF LineInv
<1>. QED
  BY <1>2, <1>3

LEMMA LineStep == ParsersInv /\ LineTyped /\ LineInv /\ [Next]_vars => LineInv'
<1>. SUFFICES ASSUME ParsersInv, LineTyped, LineInv, [Next]_vars PROVE LineInv'
  OBVIOUS
<1>1. inject \in Seq(Injection) /\ Len(inject) \in Nat /\ LineLen \in Nat
  BY DEF LineTyped, Injection, LineLen
<1>2. ASSUME in' = in, taken' = taken, lost' = lost, Len(inject') = Len(inject),
             \A n \in 1..Len(inject) : inject'[n].key = inject[n].key
      PROVE  LineInv'
  <2>1. LineLen' = LineLen /\ \A p \in 1..LineLen : At(p)' = At(p)
    BY <1>2 DEF LineLen, At
  <2>. QED
    BY <1>1, <1>2, <2>1, LineKept
<1>3. ASSUME NEW x \in Offer, x.of = 0, Offered(x), inject' = inject, lost' = lost
      PROVE  LineInv'
  BY <1>1, <1>3, LineExtended
<1>4. CASE ReadPlaced
  <2>. DEFINE key == pictures[asking].station
  <2>1. key \in Key
    <3>1. asking \in Pictures /\ pictures[asking].fate \in Looked
      BY <1>4 DEF ReadPlaced, Placed, ParsersInv, ParsersTyped, PicturesPast, Pictures, Looked
    <3>. QED
      BY <3>1, KeysAre DEF ParsersInv, PicturesPast
  <2>. HIDE DEF key
  <2>2. [key |-> key, stream |-> "sstv", of |-> 0] \in Offer
    BY <2>1 DEF Offer
  <2>3. Offered([key |-> key, stream |-> "sstv", of |-> 0])
    BY <1>4, PublishOffers DEF ReadPlaced, ingestVars, key
  <2>. QED
    BY <1>3, <1>4, <2>2, <2>3 DEF ReadPlaced, ingestVars
<1>5. CASE ReadEvent
  <2>0. PICK stream \in Stream, e \in Event, place \in Place : \E spot \in Parse(stream, e) :
          Publish(<<spot.call, place>>, spot.stream, 0) /\ UNCHANGED <<inject, lost, taken>>
    BY <1>5 DEF ReadEvent
  <2>1. PICK spot \in Parse(stream, e) :
          Publish(<<spot.call, place>>, spot.stream, 0) /\ UNCHANGED <<inject, lost, taken>>
    BY <2>0
  <2>2. [key |-> <<spot.call, place>>, stream |-> spot.stream, of |-> 0] \in Offer
    BY ParserOffers, KeysAre DEF Offer
  <2>3. Offered([key |-> <<spot.call, place>>, stream |-> spot.stream, of |-> 0])
    BY <2>1, PublishOffers
  <2>. QED
    BY <1>3, <2>1, <2>2, <2>3
<1>6. ASSUME NEW key \in Call \X Place, SubmitSpot(key) PROVE LineInv'
  <2>. DEFINE n == Len(inject) + 1
              x == [key |-> key, stream |-> Local, of |-> n]
  <2>1. n \in Nat /\ n > 0 /\ key \in Key
    BY <1>1, <1>6, KeysAre DEF Station
  <2>2. /\ Publish(key, Local, n) /\ taken' = taken
        /\ inject' = Append(inject, [key |-> key, state |-> "due"])
        /\ lost' = IF Len(in) < InCap THEN lost ELSE lost \cup {n}
    BY <1>6 DEF SubmitSpot
  <2>3. /\ Len(inject') = n /\ inject'[n].key = key
        /\ \A i \in 1..Len(inject) : inject'[i] = inject[i]
    BY <1>1, <2>2
  <2>4. x \in Offer /\ x.of = n /\ x.key = key /\ x.stream # "dxcluster"
    BY <2>1 DEF Offer, Local
  <2>5. Offered(x)
    BY <2>2, PublishOffers
  <2>6. Len(inject) <= n /\ n \in 1..n /\ \A i \in 1..n : i \in 1..Len(inject) \/ i = n
    BY <1>1
  <2>. HIDE DEF n, x
  <2>7. lost \subseteq lost'
    BY <2>2
  <2>8. \A i \in (1..Len(inject')) \ lost' :
          i \in 1..Len(inject) \/ (Len(in) < InCap /\ i = x.of)
    BY <2>2, <2>3, <2>4, <2>6
  <2>. QED
    BY <1>1, <2>1, <2>3, <2>4, <2>5, <2>6, <2>7, <2>8, LineExtended
<1>7. ASSUME NEW n \in 1..Len(inject), InjectSpot(n) PROVE LineInv'
  BY <1>2, <1>7, InjectionSettles DEF InjectSpot, hubVars
<1>8. ASSUME NEW n \in 1..Len(inject), EchoArrives(n) PROVE LineInv'
  <2>. DEFINE x == [key |-> inject[n].key, stream |-> "dxcluster", of |-> n]
  <2>1. /\ Len(inject') = Len(inject) /\ lost' = lost
        /\ \A i \in 1..Len(inject) : inject'[i].key = inject[i].key
    BY <1>8 DEF EchoArrives
  <2>2. Offered(x) /\ x \in Offer /\ x.of = n /\ x.key = inject[n].key
    BY <1>8, EchoOffers DEF Offer, Stream
  <2>3. n \notin lost => \E p \in 1..LineLen : At(p).of = n
    BY DEF LineInv, Submitted
  <2>. HIDE DEF x
  <2>. QED
    BY <1>1, <2>1, <2>2, <2>3, LineExtended
<1>9. ASSUME NEW a \in BOOLEAN, Take(a) PROVE LineInv'
  <2>. DEFINE r == [spot |-> Head(in), at |-> now, accepted |-> a]
  <2>1. /\ in # <<>> /\ in' = Tail(in) /\ taken' = Append(taken, r)
        /\ lost' = lost /\ inject' = inject /\ r.spot = Head(in)
    BY <1>9, TakeFacts
  <2>. HIDE DEF r
  <2>2. LineLen' = LineLen /\ \A p \in 1..LineLen : At(p)' = At(p)
    BY <2>1, LineMoves
  <2>. QED
    BY <1>1, <2>1, <2>2, LineKept
<1>10. CASE Quiet
  BY <1>2, <1>10 DEF Quiet, hubVars, ingestVars
<1>11. CASE UNCHANGED vars
  BY <1>2, <1>11 DEF vars, hubVars, ingestVars
<1>. QED
  BY <1>4, <1>5, <1>6, <1>7, <1>8, <1>9, <1>10, <1>11 DEF Next

-----------------------------------------------------------------------------
(* The theorems.                                                           *)

LEMMA InvInit == Init => Inv
<1>. SUFFICES ASSUME Init PROVE Inv
  OBVIOUS
<1>1. /\ now = 0 /\ lastSeen = [s \in Station |-> Never] /\ asking = 0 /\ pictures = <<>>
      /\ in = <<>> /\ dedup = [k \in Key |-> 0]
      /\ inject = <<>> /\ lost = {} /\ taken = <<>>
  BY DEF Init, ParsersInit, TheHub!Init, TheHub!Absent
<1>2. Len(pictures) = 0 /\ Pictures = {} /\ Taken = {} /\ LineLen = 0
  BY <1>1 DEF Pictures, Taken, LineLen
<1>3. Never \in Nat
  BY ParserAssumption DEF Never
<1>4. ParsersTyped
  BY <1>1, <1>3, ParserAssumption DEF ParsersTyped
<1>5. ParsersInv
  BY <1>1, <1>2, <1>4
  DEF ParsersInv, PicturesPast, MarksWitnessed, MarksKept, LookedSpaced, HeldForCause
<1>6. LineTyped
  BY <1>1 DEF LineTyped
<1>7. WindowInv
  BY <1>1, <1>2 DEF WindowInv, Known, Backed, Spaced, Stood
<1>8. LineInv
  BY <1>1, <1>2 DEF LineInv, OffersOf, Submitted, EchoBehind
<1>. QED
  BY <1>5, <1>6, <1>7, <1>8 DEF Inv

LEMMA InvStep == Inv /\ [Next]_vars => Inv'
  BY ParsersStep, LineTypedStep, WindowStep, LineStep DEF Inv

\* A callsign is spotted at most once per band and window, however long its
\* lookups take and whatever the sweep drops, and is held back only for a
\* picture less than a window old that was looked up (sstv.go:42-117).
THEOREM PicturesSpacedOut == Spec => []OneSpotPerWindow
<1>1. Inv => OneSpotPerWindow
  BY DEF Inv, ParsersInv, LookedSpaced, HeldForCause, Looked, OneSpotPerWindow
<1>. QED
  BY <1>1, InvInit, InvStep, PTL DEF Spec

\* Every spot the hub takes is shown or stands behind one that is, and the
\* echo of a submission is shown as upstream's only when the submission was
\* lost at a full hub or its window is over (hub.go:95-106, commands.go:498).
THEOREM EchoesAbsorbed == Spec => []EchoAbsorbed
<1>1. ASSUME Inv PROVE EchoAbsorbed
  <2>1. /\ Len(taken) \in Nat /\ Len(in) \in Nat /\ LineLen = Len(taken) + Len(in)
        /\ \A p \in Taken : p \in 1..LineLen /\ At(p) = taken[p].spot
    BY <1>1 DEF Inv, LineTyped, LineLen, At, Taken
  <2>. SUFFICES ASSUME NEW j \in Taken, taken[j].accepted, taken[j].spot.stream = "dxcluster",
                       taken[j].spot.of \notin lost \cup {0}
                PROVE  \E i, s \in 1..(j - 1) :
                         /\ taken[i].spot.of = taken[j].spot.of
                         /\ StandsFor(s, i)
                         /\ taken[s].at + HubWindow <= taken[j].at
    BY <1>1 DEF Inv, WindowInv, Stood, Taken, EchoAbsorbed
  <2>2. PICK i \in 1..(j - 1) : At(i).of = At(j).of
    BY <1>1, <2>1 DEF Inv, LineInv, EchoBehind
  <2>3. i \in Taken /\ i < j /\ taken[i].spot.of = taken[j].spot.of
    BY <2>1, <2>2 DEF Taken
  <2>4. taken[i].spot.key = taken[j].spot.key
    <3>1. \A p \in Taken : taken[p].spot.of # 0
            => taken[p].spot.key = inject[taken[p].spot.of].key
      BY <1>1, <2>1 DEF Inv, LineInv, OffersOf
    <3>. QED
      BY <3>1, <2>3
  <2>5. PICK s \in 1..i : StandsFor(s, i)
    BY <1>1, <2>3 DEF Inv, WindowInv, Stood
  <2>6. s \in Taken /\ s \in 1..(j - 1) /\ s < j
    BY <2>1, <2>3, <2>5 DEF Taken
  <2>7. taken[s].accepted /\ taken[s].spot.key = taken[j].spot.key
    BY <2>4, <2>5 DEF StandsFor
  <2>8. taken[s].at + HubWindow <= taken[j].at
    BY <1>1, <2>6, <2>7 DEF Inv, WindowInv, Spaced
  <2>. QED
    BY <2>2, <2>3, <2>5, <2>6, <2>8
<1>. QED
  BY <1>1, InvInit, InvStep, PTL DEF Spec
=============================================================================
