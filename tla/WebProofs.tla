---------------------------- MODULE WebProofs ----------------------------
(***************************************************************************)
(* Theorems about the two web handlers that ration what they give out:     *)
(* the admission of terminal sessions, for any requests, addresses and     *)
(* caps; and the searches over the stored spots, for any rows, requests,   *)
(* page sizes and bounds, with their query slots.                          *)
(***************************************************************************)
EXTENDS TerminalProxy, SearchPaging, FiniteSetTheorems, SequenceTheorems, TLAPS

(***************************************************************************)
(*                           Terminal sessions                             *)
(***************************************************************************)

\* The places in which a request is in the global count, and in the count of
\* its address; and the ones in which it is past a check and not yet counted.
Counted == {"countIp", "session", "uncountIp", "uncount"}
Listed == {"session", "uncountIp"}
Admitted == {"checkIp", "upgrade", "count"}
AdmittedIp == {"upgrade", "count", "countIp"}

LEMMA Places ==
  /\ Counted \subseteq Place /\ Listed \subseteq Place /\ Entering \subseteq Place
  /\ Admitted \subseteq Place /\ AdmittedIp \subseteq Place
  BY DEF Counted, Listed, Entering, Admitted, AdmittedIp, Place

-----------------------------------------------------------------------------
(* Counting requests.                                                      *)

\* How the size of a set of requests changes with one of them.
LEMMA OneMore ==
  ASSUME NEW S \in SUBSET Req, NEW r \in Req
  PROVE  /\ IsFiniteSet(S) /\ Cardinality(S) \in Nat
         /\ Cardinality(S \cup {r}) = IF r \in S THEN Cardinality(S) ELSE Cardinality(S) + 1
         /\ Cardinality(S \ {r}) = IF r \in S THEN Cardinality(S) - 1 ELSE Cardinality(S)
         /\ r \in S => Cardinality(S) >= 1
<1>1. IsFiniteSet(S) /\ Cardinality(S) \in Nat
  BY FS_Subset, FS_CardinalityType, ProxyAssumption
<1>2. /\ Cardinality(S \cup {r}) = IF r \in S THEN Cardinality(S) ELSE Cardinality(S) + 1
      /\ Cardinality(S \ {r}) = IF r \in S THEN Cardinality(S) - 1 ELSE Cardinality(S)
  BY <1>1, FS_AddElement, FS_RemoveElement
<1>3. r \in S => Cardinality(S) # 0
  BY <1>1, FS_EmptySet
<1>. QED
  BY <1>1, <1>2, <1>3

LEMMA Monotone ==
  ASSUME NEW S \in SUBSET Req, NEW T \in SUBSET S
  PROVE  Cardinality(T) <= Cardinality(S)
<1>1. IsFiniteSet(S)
  BY FS_Subset, ProxyAssumption
<1>. QED
  BY <1>1, FS_Subset

\* A request that is the only one of its kind is counted as one.
LEMMA Alone ==
  ASSUME NEW S \in SUBSET Req, NEW r \in S
  PROVE  Cardinality(S) <= 1 <=> S = {r}
<1>1. Cardinality(S \ {r}) = Cardinality(S) - 1 /\ Cardinality(S) \in Nat
  BY OneMore
<1>2. IsFiniteSet(S \ {r}) /\ Cardinality(S \ {r}) \in Nat
  BY OneMore
<1>3. Cardinality(S \ {r}) = 0 <=> S \ {r} = {}
  BY <1>2, FS_EmptySet
<1>4. S \ {r} = {} <=> S = {r}
  OBVIOUS
<1>. QED
  BY <1>1, <1>2, <1>3, <1>4

-----------------------------------------------------------------------------
(* A step of one request.                                                  *)

\* Request r, of address a from now on, goes to place.
Moves(r, a, place) == Goto(r, place) /\ ip' = [ip EXCEPT ![r] = a]

\* The same step, counted: a request joins a set, leaves it, or does neither.
LEMMA Recount ==
  ASSUME NEW S \in SUBSET Req, NEW T, NEW r \in Req, NEW before \in BOOLEAN,
         NEW after \in BOOLEAN, before <=> r \in S,
         T = IF after THEN S \cup {r} ELSE S \ {r}
  PROVE  /\ Cardinality(S) \in Nat
         /\ Cardinality(T) = Cardinality(S) + (IF after THEN 1 ELSE 0)
                                            - (IF before THEN 1 ELSE 0)
<1>1. Cardinality(S) \in Nat
  BY OneMore
<1>2. Cardinality(S \cup {r}) = IF r \in S THEN Cardinality(S) ELSE Cardinality(S) + 1
  BY OneMore
<1>3. Cardinality(S \ {r}) = IF r \in S THEN Cardinality(S) - 1 ELSE Cardinality(S)
  BY OneMore
<1>. QED
  BY <1>1, <1>2, <1>3

\* What the step does to the number of requests in some places.
LEMMA NumberMoves ==
  ASSUME NEW r \in Req, NEW a \in Ip, NEW place \in Place, TypeOK, Moves(r, a, place),
         NEW S \in SUBSET Place
  PROVE  /\ Cardinality(At(S)) \in Nat
         /\ Cardinality(At(S)') = Cardinality(At(S))
              + (IF place \in S THEN 1 ELSE 0) - (IF pc[r] \in S THEN 1 ELSE 0)
<1>1. /\ At(S) \in SUBSET Req
      /\ At(S)' = IF place \in S THEN At(S) \cup {r} ELSE At(S) \ {r}
  BY DEF Moves, Goto, TypeOK, At
<1>2. pc[r] \in S <=> r \in At(S)
  BY DEF At
<1>. QED
  BY <1>1, <1>2, Recount

\* The same for the requests of one address.
LEMMA NumberMovesFrom ==
  ASSUME NEW r \in Req, NEW a \in Ip, NEW place \in Place, TypeOK, Moves(r, a, place),
         NEW S \in SUBSET Place, NEW b \in Ip
  PROVE  /\ Cardinality(AtFrom(S, b)) \in Nat
         /\ Cardinality(AtFrom(S, b)') = Cardinality(AtFrom(S, b))
              + (IF place \in S /\ a = b THEN 1 ELSE 0)
              - (IF pc[r] \in S /\ ip[r] = b THEN 1 ELSE 0)
<1>1. /\ AtFrom(S, b) \in SUBSET Req
      /\ AtFrom(S, b)' = IF place \in S /\ a = b THEN AtFrom(S, b) \cup {r}
                         ELSE AtFrom(S, b) \ {r}
  BY DEF Moves, Goto, TypeOK, At, AtFrom
<1>2. (pc[r] \in S /\ ip[r] = b) <=> r \in AtFrom(S, b)
  BY DEF At, AtFrom
<1>. DEFINE after == place \in S /\ a = b
            before == pc[r] \in S /\ ip[r] = b
<1>3. after \in BOOLEAN /\ before \in BOOLEAN
  OBVIOUS
<1>4. AtFrom(S, b)' = IF after THEN AtFrom(S, b) \cup {r} ELSE AtFrom(S, b) \ {r}
  BY <1>1
<1>5. before <=> r \in AtFrom(S, b)
  BY <1>2
<1>. HIDE DEF after, before
<1>6. /\ Cardinality(AtFrom(S, b)) \in Nat
      /\ Cardinality(AtFrom(S, b)') = Cardinality(AtFrom(S, b))
           + (IF after THEN 1 ELSE 0) - (IF before THEN 1 ELSE 0)
  BY <1>1, <1>3, <1>4, <1>5, Recount
<1>. QED
  BY <1>6 DEF after, before


\* Each action as a move of one request.
LEMMA ActionsMove ==
  ASSUME TypeOK, NEW r \in Req
  PROVE  /\ ip[r] \in Ip
         /\ \A a \in Ip : Arrive(r, a) => Moves(r, a, "checkIp")
         /\ CheckIp(r) => Moves(r, ip[r], IF IpCount(ip[r]) >= MaxPerIp THEN "idle" ELSE "upgrade")
         /\ Upgrade(r) => \E place \in {"idle", "count"} : Moves(r, ip[r], place)
         /\ CountConn(r) => Moves(r, ip[r], "countIp")
         /\ CountIp(r) => Moves(r, ip[r], "session")
         /\ SessionEnds(r) => Moves(r, ip[r], "uncountIp")
         /\ UncountIp(r) => Moves(r, ip[r], "uncount")
         /\ UncountConn(r) => Moves(r, ip[r], "idle")
  BY DEF TypeOK, Moves, Arrive, CheckIp, Upgrade, CountConn, CountIp, SessionEnds,
         UncountIp, UncountConn

-----------------------------------------------------------------------------
(* The two counts.                                                         *)

GlobalExact == conns = Cardinality(At(Counted))
AddressExact == \A a \in Ip : IpCount(a) = Cardinality(AtFrom(Listed, a))

\* An address is listed exactly when its count is not zero, so that the keys
\* of the map follow from the numbers.
LEMMA CountsParts == CountsExact <=> TypeOK /\ GlobalExact /\ AddressExact
<1>1. ASSUME TypeOK, NEW a \in Ip
      PROVE  /\ AtFrom(Listed, a) \in SUBSET Req
             /\ Cardinality(AtFrom(Listed, a)) = 0 <=> AtFrom(Listed, a) = {}
             /\ a \in DOMAIN ipConns <=> IpCount(a) # 0
             /\ AtFrom(Listed, a) # {} <=> a \in {ip[r] : r \in At(Listed)}
  <2>1. AtFrom(Listed, a) \in SUBSET Req
    BY DEF At, AtFrom
  <2>2. Cardinality(AtFrom(Listed, a)) = 0 <=> AtFrom(Listed, a) = {}
    BY <2>1, FS_Subset, FS_EmptySet, ProxyAssumption
  <2>3. a \in DOMAIN ipConns <=> IpCount(a) # 0
    BY <1>1 DEF TypeOK, IpCount
  <2>4. AtFrom(Listed, a) # {} <=> a \in {ip[r] : r \in At(Listed)}
    BY DEF AtFrom
  <2>. QED
    BY <2>1, <2>2, <2>3, <2>4
<1>2. TypeOK => {ip[r] : r \in At(Listed)} \subseteq Ip /\ DOMAIN ipConns \subseteq Ip
  BY DEF TypeOK, At
<1>3. ASSUME TypeOK
      PROVE  (/\ DOMAIN ipConns = {ip[r] : r \in At(Listed)}
              /\ \A a \in DOMAIN ipConns : ipConns[a] = Cardinality(AtFrom(Listed, a)))
             <=> AddressExact
  BY <1>1, <1>2, <1>3 DEF AddressExact, IpCount
<1>. QED
  BY <1>3 DEF CountsExact, GlobalExact, Counted, Listed

LEMMA ReqSets ==
  ASSUME NEW S, NEW a
  PROVE  /\ At(S) \in SUBSET Req /\ AtFrom(S, a) \in SUBSET Req
         /\ Cardinality(At(S)) \in Nat /\ Cardinality(AtFrom(S, a)) \in Nat
<1>1. At(S) \in SUBSET Req /\ AtFrom(S, a) \in SUBSET Req
  BY DEF At, AtFrom
<1>. QED
  BY <1>1, FS_Subset, FS_CardinalityType, ProxyAssumption

LEMMA InitCounts == Init => TypeOK /\ GlobalExact /\ AddressExact
<1>. SUFFICES ASSUME Init PROVE TypeOK /\ GlobalExact /\ AddressExact
  OBVIOUS
<1>1. TypeOK
  BY DEF Init, TypeOK, Place
<1>2. At(Counted) = {} /\ \A a \in Ip : AtFrom(Listed, a) = {}
  BY DEF Init, At, AtFrom, Counted, Listed
<1>3. \A a \in Ip : IpCount(a) = 0
  BY DEF Init, IpCount
<1>. QED
  BY <1>1, <1>2, <1>3, FS_EmptySet DEF GlobalExact, AddressExact, Init

\* Someone in a set of places makes its count positive.
LEMMA SomeoneThere ==
  ASSUME NEW r \in Req, NEW S, pc[r] \in S
  PROVE  Cardinality(At(S)) >= 1 /\ Cardinality(AtFrom(S, ip[r])) >= 1
<1>1. /\ r \in At(S) /\ At(S) \in SUBSET Req
      /\ r \in AtFrom(S, ip[r]) /\ AtFrom(S, ip[r]) \in SUBSET Req
  BY DEF At, AtFrom
<1>. QED
  BY <1>1, OneMore

LEMMA TypeStep ==
  ASSUME TypeOK, GlobalExact, [Next]_vars
  PROVE  TypeOK'
<1>. USE DEF TypeOK
<1>1. ASSUME NEW r \in Req, NEW a \in Ip, Arrive(r, a)
      PROVE  TypeOK'
  <2>1. /\ Larger(peak, Cardinality(At(Entering)) + 1) \in Nat
        /\ Larger(peakIp[a], Cardinality(AtFrom(Entering, a)) + 1) \in Nat
    BY ReqSets DEF Larger
  <2>2. "checkIp" \in Place
    BY DEF Place
  <2>. HIDE DEF TypeOK
  <2>3. peak' \in Nat /\ peakIp' \in [Ip -> Nat]
    BY <1>1, <2>1 DEF TypeOK, Arrive
  <2>. QED
    BY <1>1, <2>2, <2>3 DEF TypeOK, Arrive, Goto
<1>2. ASSUME NEW r \in Req, CheckIp(r) \/ Upgrade(r) \/ CountConn(r) \/ SessionEnds(r)
      PROVE  TypeOK'
  BY <1>2 DEF CheckIp, Upgrade, CountConn, SessionEnds, Goto, Place
<1>3. ASSUME NEW r \in Req, CountIp(r)
      PROVE  TypeOK'
  <2>1. DOMAIN ipConns' = DOMAIN ipConns \cup {ip[r]}
    BY <1>3 DEF CountIp
  <2>2. \A a \in DOMAIN ipConns' : ipConns'[a] \in Nat \ {0}
    BY <1>3 DEF CountIp, IpCount
  <2>. QED
    BY <1>3, <2>1, <2>2 DEF CountIp, Goto, Place
<1>4. ASSUME NEW r \in Req, UncountIp(r)
      PROVE  TypeOK'
  BY <1>4 DEF UncountIp, IpCount, Goto, Place
<1>5. ASSUME NEW r \in Req, UncountConn(r)
      PROVE  TypeOK'
  <2>1. conns >= 1
    BY <1>5, SomeoneThere DEF UncountConn, GlobalExact, Counted
  <2>. QED
    BY <1>5, <2>1 DEF UncountConn, Goto, Place
<1>6. CASE UNCHANGED vars
  BY <1>6 DEF vars
<1>. QED
  BY <1>1, <1>2, <1>3, <1>4, <1>5, <1>6 DEF Next

LEMMA GlobalStep ==
  ASSUME TypeOK, GlobalExact, [Next]_vars
  PROVE  GlobalExact'
<1>. DEFINE held == Cardinality(At(Counted))  then == Cardinality(At(Counted)')
<1>1. ASSUME NEW r \in Req, NEW a \in Ip, NEW place \in Place, Moves(r, a, place)
      PROVE  then = held + (IF place \in Counted THEN 1 ELSE 0)
                        - (IF pc[r] \in Counted THEN 1 ELSE 0)
  BY <1>1, NumberMoves, Places
<1>2. held \in Nat /\ conns = held
  BY ReqSets DEF GlobalExact
<1>3. SUFFICES conns' = then
  BY DEF GlobalExact
<1>. HIDE DEF held, then
<1>4. ASSUME NEW r \in Req, NEW a \in Ip, Arrive(r, a)
      PROVE  conns' = then
  <2>1. Moves(r, a, "checkIp")
    BY <1>4, ActionsMove
  <2>2. pc[r] = "idle" /\ conns' = conns
    BY <1>4 DEF Arrive
  <2>. QED
    BY <1>1, <1>2, <2>1, <2>2 DEF Counted, Place
<1>5. ASSUME NEW r \in Req, CheckIp(r)
      PROVE  conns' = then
  BY <1>1, <1>2, <1>5, ActionsMove DEF CheckIp, Counted, Place
<1>6. ASSUME NEW r \in Req, Upgrade(r)
      PROVE  conns' = then
  BY <1>1, <1>2, <1>6, ActionsMove DEF Upgrade, Counted, Place
<1>7. ASSUME NEW r \in Req, CountConn(r)
      PROVE  conns' = then
  BY <1>1, <1>2, <1>7, ActionsMove DEF CountConn, Counted, Place
<1>8. ASSUME NEW r \in Req, CountIp(r) \/ SessionEnds(r) \/ UncountIp(r)
      PROVE  conns' = then
  <2>1. \E place \in Counted : Moves(r, ip[r], place)
    BY <1>8, ActionsMove DEF Counted
  <2>2. pc[r] \in Counted /\ conns' = conns
    BY <1>8 DEF CountIp, SessionEnds, UncountIp, Counted
  <2>. QED
    BY <1>1, <1>2, <2>1, <2>2, ActionsMove, Places
<1>9. ASSUME NEW r \in Req, UncountConn(r)
      PROVE  conns' = then
  BY <1>1, <1>2, <1>9, ActionsMove DEF UncountConn, Counted, Place
<1>10. CASE UNCHANGED vars
  BY <1>2, <1>10 DEF vars, held, then, At
<1>. QED
  BY <1>4, <1>5, <1>6, <1>7, <1>8, <1>9, <1>10 DEF Next

LEMMA AddressStep ==
  ASSUME TypeOK, AddressExact, [Next]_vars
  PROVE  AddressExact'
<1>. SUFFICES ASSUME NEW b \in Ip
              PROVE  IpCount(b)' = Cardinality(AtFrom(Listed, b)')
  BY DEF AddressExact
<1>. DEFINE held == Cardinality(AtFrom(Listed, b))  then == Cardinality(AtFrom(Listed, b)')
<1>1. ASSUME NEW r \in Req, NEW a \in Ip, NEW place \in Place, Moves(r, a, place)
      PROVE  then = held + (IF place \in Listed /\ a = b THEN 1 ELSE 0)
                        - (IF pc[r] \in Listed /\ ip[r] = b THEN 1 ELSE 0)
  BY <1>1, NumberMovesFrom, Places
<1>2. held \in Nat /\ IpCount(b) = held
  BY ReqSets DEF AddressExact
<1>3. ASSUME NEW r \in Req, pc[r] \in Listed, ip[r] = b
      PROVE  held >= 1
  BY <1>3, SomeoneThere
<1>. HIDE DEF held, then
<1>4. ASSUME NEW r \in Req, NEW a \in Ip, Arrive(r, a)
      PROVE  IpCount(b)' = then
  <2>1. Moves(r, a, "checkIp")
    BY <1>4, ActionsMove
  <2>2. pc[r] = "idle" /\ IpCount(b)' = IpCount(b)
    BY <1>4 DEF Arrive, IpCount
  <2>. QED
    BY <1>1, <1>2, <2>1, <2>2 DEF Listed, Place
<1>5. ASSUME NEW r \in Req,
             CheckIp(r) \/ Upgrade(r) \/ CountConn(r) \/ SessionEnds(r) \/ UncountConn(r)
      PROVE  IpCount(b)' = then
  <2>1. ipConns' = ipConns
    BY <1>5 DEF CheckIp, Upgrade, CountConn, SessionEnds, UncountConn
  <2>2. then = held
    <3>1. CASE SessionEnds(r)
      BY <1>1, <1>2, <3>1, ActionsMove DEF SessionEnds, Listed, Place
    <3>2. CASE ~SessionEnds(r)
      <4>1. pc[r] \notin Listed
        BY <1>5, <3>2 DEF CheckIp, Upgrade, CountConn, UncountConn, Listed
      <4>2. \E place \in {"idle", "upgrade", "count", "countIp"} : Moves(r, ip[r], place)
        BY <1>5, <3>2, ActionsMove
      <4>. QED
        BY <1>1, <1>2, <4>1, <4>2, ActionsMove DEF Listed, Place
    <3>. QED
      BY <3>1, <3>2
  <2>. QED
    BY <1>2, <2>1, <2>2 DEF IpCount
<1>6. ASSUME NEW r \in Req, CountIp(r)
      PROVE  IpCount(b)' = then
  <2>1. IpCount(b)' = IpCount(b) + (IF ip[r] = b THEN 1 ELSE 0)
    BY <1>2, <1>6 DEF CountIp, IpCount
  <2>2. then = held + (IF ip[r] = b THEN 1 ELSE 0)
    BY <1>1, <1>2, <1>6, ActionsMove DEF CountIp, Listed, Place
  <2>. QED
    BY <1>2, <2>1, <2>2
<1>7. ASSUME NEW r \in Req, UncountIp(r)
      PROVE  IpCount(b)' = then
  <2>1. then = held - (IF ip[r] = b THEN 1 ELSE 0)
    <3>1. Moves(r, ip[r], "uncount") /\ ip[r] \in Ip
      BY <1>7, ActionsMove
    <3>2. pc[r] = "uncountIp"
      BY <1>7 DEF UncountIp
    <3>. QED
      BY <1>1, <1>2, <3>1, <3>2 DEF Listed, Place
  <2>2. CASE ip[r] = b
    <3>1. held >= 1
      BY <1>3, <1>7, <2>2 DEF UncountIp, Listed
    <3>. QED
      BY <1>2, <1>7, <2>1, <2>2, <3>1 DEF UncountIp, IpCount
  <2>3. CASE ip[r] # b
    BY <1>2, <1>7, <2>1, <2>3 DEF UncountIp, IpCount
  <2>. QED
    BY <2>2, <2>3
<1>8. CASE UNCHANGED vars
  BY <1>2, <1>8 DEF vars, held, then, At, AtFrom, IpCount
<1>. QED
  BY <1>4, <1>5, <1>6, <1>7, <1>8 DEF Next, then


\* Both counts tell exactly the sessions that are in them, and the map has a
\* key for exactly the addresses with one, whatever number of requests enter
\* and leave at once (ServeHTTP, ipAdd, ipRemove: terminal.go:143-158, 205-210).
THEOREM CountsAreExact == Spec => []CountsExact
<1>. DEFINE Inv == TypeOK /\ GlobalExact /\ AddressExact
<1>1. Init => Inv
  BY InitCounts
<1>2. Inv /\ [Next]_vars => Inv'
  BY TypeStep, GlobalStep, AddressStep
<1>3. Inv => CountsExact
  BY CountsParts
<1>. QED
  BY <1>1, <1>2, <1>3, PTL DEF Spec

-----------------------------------------------------------------------------
(* The caps.                                                               *)

GlobalCap == conns + Cardinality(At(Admitted)) <= MaxConns + Race(peak)

AddressCap ==
  \A a \in Ip : IpCount(a) + Cardinality(AtFrom(AdmittedIp, a)) <= MaxPerIp + Race(peakIp[a])

\* What the cap of an address needs beside the counts: the history has seen
\* everyone who is past the first check now.
PeakIsSeen == \A a \in Ip : Cardinality(AtFrom(Entering, a)) <= peakIp[a]

LEMMA CapParts == OvershootBounded <=> GlobalCap /\ AddressCap
  BY DEF OvershootBounded, GlobalCap, AddressCap, Admitted, AdmittedIp

LEMMA RaceNumber ==
  ASSUME NEW m \in Nat, NEW n \in Nat
  PROVE  /\ Race(m) \in Nat /\ Larger(m, n) \in Nat
         /\ Larger(m, n) >= m /\ Larger(m, n) >= n
         /\ m <= n => Race(m) <= Race(n)
         /\ m + 1 <= n => m <= Race(n)
  BY DEF Race, Larger

LEMMA InitCaps == Init => GlobalCap /\ AddressCap /\ PeakIsSeen
<1>. SUFFICES ASSUME Init PROVE GlobalCap /\ AddressCap /\ PeakIsSeen
  OBVIOUS
<1>1. /\ At(Admitted) = {}
      /\ \A a \in Ip : AtFrom(AdmittedIp, a) = {} /\ AtFrom(Entering, a) = {}
  BY DEF Init, At, AtFrom, Admitted, AdmittedIp, Entering
<1>2. \A a \in Ip : IpCount(a) = 0 /\ peakIp[a] = 0
  BY DEF Init, IpCount
<1>3. conns = 0 /\ peak = 0 /\ Race(0) = 0
  BY DEF Init, Race
<1>. QED
  BY <1>1, <1>2, <1>3, FS_EmptySet, ProxyAssumption DEF GlobalCap, AddressCap, PeakIsSeen

LEMMA GlobalCapStep ==
  ASSUME TypeOK, GlobalExact, GlobalCap, [Next]_vars
  PROVE  GlobalCap'
<1>. DEFINE held == Cardinality(At(Admitted))  then == Cardinality(At(Admitted)')
<1>1. ASSUME NEW r \in Req, NEW a \in Ip, NEW place \in Place, Moves(r, a, place)
      PROVE  then = held + (IF place \in Admitted THEN 1 ELSE 0)
                        - (IF pc[r] \in Admitted THEN 1 ELSE 0)
  BY <1>1, NumberMoves, Places
<1>2. /\ held \in Nat /\ conns \in Nat /\ peak \in Nat /\ MaxConns \in Nat
      /\ conns + held <= MaxConns + Race(peak) /\ Race(peak) \in Nat
  BY ReqSets, RaceNumber, ProxyAssumption DEF GlobalCap, TypeOK
<1>3. SUFFICES conns' + then <= MaxConns + Race(peak')
  BY DEF GlobalCap, Race
<1>. HIDE DEF held, then
<1>4. ASSUME NEW r \in Req, NEW a \in Ip, Arrive(r, a)
      PROVE  conns' + then <= MaxConns + Race(peak')
  <2>1. Moves(r, a, "checkIp") /\ pc[r] = "idle"
    BY <1>4, ActionsMove DEF Arrive
  <2>2. then = held + 1
    BY <1>1, <1>2, <2>1 DEF Admitted, Place
  <2>3. held <= Cardinality(At(Entering)) /\ Cardinality(At(Entering)) \in Nat
    <3>1. At(Admitted) \subseteq At(Entering) /\ At(Entering) \in SUBSET Req
      BY DEF At, Admitted, Entering
    <3>. QED
      BY <3>1, Monotone, ReqSets DEF held
  <2>4. /\ peak' = Larger(peak, Cardinality(At(Entering)) + 1)
        /\ conns' = conns /\ conns + 1 <= MaxConns
    BY <1>2, <1>4 DEF Arrive
  <2>5. peak' \in Nat /\ Cardinality(At(Entering)) + 1 <= peak'
    BY <1>2, <2>3, <2>4, RaceNumber
  <2>6. Cardinality(At(Entering)) <= Race(peak') /\ Race(peak') \in Nat
    BY <2>3, <2>5, RaceNumber
  <2>. QED
    BY <1>2, <2>2, <2>3, <2>4, <2>6
<1>5. ASSUME NEW r \in Req, CheckIp(r) \/ Upgrade(r)
      PROVE  conns' + then <= MaxConns + Race(peak')
  <2>1. \E place \in Place : Moves(r, ip[r], place)
    BY <1>5, ActionsMove DEF Place
  <2>2. pc[r] \in Admitted /\ conns' = conns /\ peak' = peak
    BY <1>5 DEF CheckIp, Upgrade, Admitted
  <2>. QED
    BY <1>1, <1>2, <2>1, <2>2, ActionsMove
<1>6. ASSUME NEW r \in Req, CountConn(r)
      PROVE  conns' + then <= MaxConns + Race(peak')
  <2>1. Moves(r, ip[r], "countIp") /\ ip[r] \in Ip
    BY <1>6, ActionsMove
  <2>2. pc[r] = "count" /\ conns' = conns + 1 /\ peak' = peak
    BY <1>6 DEF CountConn
  <2>3. then = held - 1
    BY <1>1, <1>2, <2>1, <2>2 DEF Admitted, Place
  <2>. QED
    BY <1>2, <2>2, <2>3
<1>7. ASSUME NEW r \in Req,
             CountIp(r) \/ SessionEnds(r) \/ UncountIp(r) \/ UncountConn(r)
      PROVE  conns' + then <= MaxConns + Race(peak')
  <2>1. \E place \in Place \ Admitted : Moves(r, ip[r], place)
    BY <1>7, ActionsMove DEF Place, Admitted
  <2>2. pc[r] \notin Admitted /\ conns' <= conns /\ conns' \in Int /\ peak' = peak
    BY <1>2, <1>7 DEF CountIp, SessionEnds, UncountIp, UncountConn, Admitted
  <2>3. then = held
    BY <1>1, <1>2, <2>1, <2>2, ActionsMove
  <2>. QED
    BY <1>2, <2>2, <2>3
<1>8. CASE UNCHANGED vars
  BY <1>2, <1>8 DEF vars, held, then, At
<1>. QED
  BY <1>4, <1>5, <1>6, <1>7, <1>8 DEF Next

LEMMA PeakStep ==
  ASSUME TypeOK, PeakIsSeen, [Next]_vars
  PROVE  PeakIsSeen'
<1>. SUFFICES ASSUME NEW b \in Ip
              PROVE  Cardinality(AtFrom(Entering, b)') <= peakIp'[b]
  BY DEF PeakIsSeen
<1>. DEFINE held == Cardinality(AtFrom(Entering, b))  then == Cardinality(AtFrom(Entering, b)')
<1>1. ASSUME NEW r \in Req, NEW a \in Ip, NEW place \in Place, Moves(r, a, place)
      PROVE  then = held + (IF place \in Entering /\ a = b THEN 1 ELSE 0)
                        - (IF pc[r] \in Entering /\ ip[r] = b THEN 1 ELSE 0)
  BY <1>1, NumberMovesFrom, Places
<1>2. held \in Nat /\ peakIp[b] \in Nat /\ held <= peakIp[b]
  BY ReqSets DEF PeakIsSeen, TypeOK
<1>3. ASSUME NEW r \in Req, NEW a \in Ip, Arrive(r, a)
      PROVE  then <= peakIp'[b]
  <2>1. Moves(r, a, "checkIp") /\ pc[r] = "idle"
    BY <1>3, ActionsMove DEF Arrive
  <2>2. then = held + (IF a = b THEN 1 ELSE 0)
    <3>. HIDE DEF held, then
    <3>. QED
      BY <1>1, <1>2, <2>1 DEF Entering, Place
  <2>3. peakIp'[b] = IF a = b THEN Larger(peakIp[b], held + 1) ELSE peakIp[b]
    BY <1>3 DEF Arrive, TypeOK
  <2>. HIDE DEF held, then
  <2>4. Larger(peakIp[b], held + 1) >= held + 1
    BY <1>2 DEF Larger
  <2>. QED
    BY <1>2, <2>2, <2>3, <2>4
<1>. HIDE DEF held, then
<1>4. ASSUME NEW r \in Req, CheckIp(r) \/ Upgrade(r) \/ CountConn(r) \/ CountIp(r)
      PROVE  then <= peakIp'[b]
  <2>1. \E place \in Place : Moves(r, ip[r], place)
    BY <1>4, ActionsMove DEF Place
  <2>2. pc[r] \in Entering /\ peakIp' = peakIp
    BY <1>4 DEF CheckIp, Upgrade, CountConn, CountIp, Entering
  <2>. QED
    BY <1>1, <1>2, <2>1, <2>2, ActionsMove
<1>5. ASSUME NEW r \in Req, SessionEnds(r) \/ UncountIp(r) \/ UncountConn(r)
      PROVE  then <= peakIp'[b]
  <2>1. \E place \in Place \ Entering : Moves(r, ip[r], place)
    BY <1>5, ActionsMove DEF Place, Entering
  <2>2. pc[r] \notin Entering /\ peakIp' = peakIp
    BY <1>5 DEF SessionEnds, UncountIp, UncountConn, Entering
  <2>. QED
    BY <1>1, <1>2, <2>1, <2>2, ActionsMove
<1>6. CASE UNCHANGED vars
  BY <1>2, <1>6 DEF vars, held, then, At, AtFrom
<1>. QED
  BY <1>3, <1>4, <1>5, <1>6 DEF Next, then

LEMMA AddressCapStep ==
  ASSUME TypeOK, PeakIsSeen, AddressCap, [Next]_vars
  PROVE  AddressCap'
<1>. SUFFICES ASSUME NEW b \in Ip
              PROVE  IpCount(b)' + Cardinality(AtFrom(AdmittedIp, b)')
                       <= MaxPerIp + Race(peakIp'[b])
  BY DEF AddressCap, Race
<1>. DEFINE held == Cardinality(AtFrom(AdmittedIp, b))
            then == Cardinality(AtFrom(AdmittedIp, b)')
            bound == MaxPerIp + Race(peakIp'[b])
<1>1. ASSUME NEW r \in Req, NEW a \in Ip, NEW place \in Place, Moves(r, a, place)
      PROVE  then = held + (IF place \in AdmittedIp /\ a = b THEN 1 ELSE 0)
                        - (IF pc[r] \in AdmittedIp /\ ip[r] = b THEN 1 ELSE 0)
  BY <1>1, NumberMovesFrom, Places
<1>2. /\ held \in Nat /\ IpCount(b) \in Nat /\ MaxPerIp \in Nat
      /\ peakIp[b] \in Nat /\ Race(peakIp[b]) \in Nat
      /\ IpCount(b) + held <= MaxPerIp + Race(peakIp[b])
  BY ReqSets, RaceNumber, ProxyAssumption DEF AddressCap, TypeOK, IpCount
<1>3. ASSUME NEW r \in Req, NEW a \in Ip, Arrive(r, a)
      PROVE  IpCount(b)' + then <= bound
  <2>1. Moves(r, a, "checkIp") /\ pc[r] = "idle" /\ IpCount(b)' = IpCount(b)
    BY <1>3, ActionsMove DEF Arrive, IpCount
  <2>2. then = held
    <3>. HIDE DEF held, then
    <3>. QED
      BY <1>1, <1>2, <2>1 DEF AdmittedIp, Place
  <2>3. /\ peakIp'[b] \in Nat /\ Race(peakIp'[b]) \in Nat
        /\ Race(peakIp[b]) <= Race(peakIp'[b])
    <3>1. \/ peakIp'[b] = peakIp[b]
          \/ peakIp'[b] = Larger(peakIp[b], Cardinality(AtFrom(Entering, a)) + 1)
      BY <1>3 DEF Arrive, TypeOK
    <3>2. Cardinality(AtFrom(Entering, a)) + 1 \in Nat
      BY ReqSets
    <3>3. peakIp[b] \in Nat /\ Race(peakIp[b]) \in Nat
      BY <1>2
    <3>. DEFINE upTo == Cardinality(AtFrom(Entering, a)) + 1
    <3>. HIDE DEF upTo
    <3>4. upTo \in Nat /\ (peakIp'[b] = peakIp[b] \/ peakIp'[b] = Larger(peakIp[b], upTo))
      BY <3>1, <3>2 DEF upTo
    <3>5. peakIp'[b] \in Nat /\ peakIp[b] <= peakIp'[b]
      BY <3>3, <3>4 DEF Larger
    <3>. QED
      BY <3>3, <3>5, RaceNumber
  <2>. HIDE DEF held, then
  <2>. QED
    BY <1>2, <2>1, <2>2, <2>3
<1>4. ASSUME NEW r \in Req, CheckIp(r)
      PROVE  IpCount(b)' + then <= bound
  <2>1. /\ Moves(r, ip[r], IF IpCount(ip[r]) >= MaxPerIp THEN "idle" ELSE "upgrade")
        /\ ip[r] \in Ip
    BY <1>4, ActionsMove
  <2>2. pc[r] = "checkIp" /\ IpCount(b)' = IpCount(b) /\ peakIp' = peakIp
    BY <1>4 DEF CheckIp, IpCount
  <2>3. CASE IpCount(b) < MaxPerIp /\ ip[r] = b
    <3>1. then = held + 1
      <4>. HIDE DEF held, then
      <4>. QED
        BY <1>1, <1>2, <2>1, <2>2, <2>3 DEF AdmittedIp, Place
    <3>2. held + 1 <= Cardinality(AtFrom(Entering, b))
      <4>1. /\ AtFrom(AdmittedIp, b) \cup {r} \subseteq AtFrom(Entering, b)
            /\ r \notin AtFrom(AdmittedIp, b)
            /\ AtFrom(Entering, b) \in SUBSET Req /\ AtFrom(AdmittedIp, b) \in SUBSET Req
        BY <2>2, <2>3 DEF At, AtFrom, AdmittedIp, Entering
      <4>2. Cardinality(AtFrom(AdmittedIp, b) \cup {r}) = held + 1
        BY <4>1, OneMore
      <4>. QED
        BY <4>1, <4>2, Monotone
    <3>3. held <= Race(peakIp[b])
      <4>1. held + 1 <= peakIp[b]
        <5>1. /\ Cardinality(AtFrom(Entering, b)) <= peakIp[b]
              /\ Cardinality(AtFrom(Entering, b)) \in Nat
          BY ReqSets DEF PeakIsSeen
        <5>. HIDE DEF held
        <5>. QED
          BY <1>2, <3>2, <5>1
      <4>. HIDE DEF held
      <4>. QED
        BY <1>2, <4>1, RaceNumber
    <3>. HIDE DEF held, then
    <3>. QED
      BY <1>2, <2>2, <2>3, <3>1, <3>3
  <2>4. CASE ~(IpCount(b) < MaxPerIp /\ ip[r] = b)
    <3>. HIDE DEF held, then
    <3>1. then = held
      <4>1. CASE ip[r] = b
        BY <1>1, <1>2, <2>1, <2>2, <2>4, <4>1 DEF AdmittedIp, Place
      <4>2. CASE ip[r] # b
        BY <1>1, <1>2, <2>1, <4>2 DEF Place
      <4>. QED
        BY <4>1, <4>2
    <3>. QED
      BY <1>2, <2>2, <3>1
  <2>. QED
    BY <2>3, <2>4
<1>. HIDE DEF held, then
<1>5. ASSUME NEW r \in Req, Upgrade(r) \/ CountConn(r)
      PROVE  IpCount(b)' + then <= bound
  <2>1. \E place \in Place : Moves(r, ip[r], place)
    BY <1>5, ActionsMove DEF Place
  <2>2. pc[r] \in AdmittedIp /\ IpCount(b)' = IpCount(b) /\ peakIp' = peakIp
    BY <1>5 DEF Upgrade, CountConn, AdmittedIp, IpCount
  <2>3. then <= held /\ then \in Int
    BY <1>1, <1>2, <2>1, <2>2, ActionsMove
  <2>. QED
    BY <1>2, <2>2, <2>3
<1>6. ASSUME NEW r \in Req, CountIp(r)
      PROVE  IpCount(b)' + then <= bound
  <2>1. Moves(r, ip[r], "session") /\ ip[r] \in Ip /\ pc[r] = "countIp" /\ peakIp' = peakIp
    BY <1>6, ActionsMove DEF CountIp
  <2>2. IpCount(b)' = IpCount(b) + (IF ip[r] = b THEN 1 ELSE 0)
    BY <1>2, <1>6 DEF CountIp, IpCount
  <2>3. then = held - (IF ip[r] = b THEN 1 ELSE 0)
    BY <1>1, <1>2, <2>1 DEF AdmittedIp, Place
  <2>. QED
    BY <1>2, <2>1, <2>2, <2>3
<1>7. ASSUME NEW r \in Req, SessionEnds(r) \/ UncountIp(r) \/ UncountConn(r)
      PROVE  IpCount(b)' + then <= bound
  <2>1. \E place \in Place \ AdmittedIp : Moves(r, ip[r], place)
    BY <1>7, ActionsMove DEF Place, AdmittedIp
  <2>2. pc[r] \notin AdmittedIp /\ peakIp' = peakIp
    BY <1>7 DEF SessionEnds, UncountIp, UncountConn, AdmittedIp
  <2>3. then = held
    BY <1>1, <1>2, <2>1, <2>2, ActionsMove
  <2>4. IpCount(b)' <= IpCount(b) /\ IpCount(b)' \in Int
    <3>1. CASE UncountIp(r)
      BY <1>2, <3>1 DEF UncountIp, IpCount, TypeOK
    <3>2. CASE ipConns' = ipConns
      BY <1>2, <3>2 DEF IpCount
    <3>. QED
      BY <1>7, <3>1, <3>2 DEF SessionEnds, UncountConn
  <2>. QED
    BY <1>2, <2>2, <2>3, <2>4
<1>8. CASE UNCHANGED vars
  BY <1>2, <1>8 DEF vars, held, then, At, AtFrom, IpCount
<1>. QED
  BY <1>3, <1>4, <1>5, <1>6, <1>7, <1>8 DEF Next, then

\* The caps are exceeded by no more than the requests that raced each other
\* between check and count: never, when requests come one at a time. The check
\* and the count it guards are separate steps (terminal.go:143-158, 205-210).
THEOREM CapsHoldUpToTheRace == Spec => []OvershootBounded
<1>. DEFINE Inv == /\ TypeOK /\ GlobalExact /\ AddressExact
                   /\ GlobalCap /\ AddressCap /\ PeakIsSeen
<1>1. Init => Inv
  BY InitCounts, InitCaps
<1>2. Inv /\ [Next]_vars => Inv'
  BY TypeStep, GlobalStep, AddressStep, GlobalCapStep, PeakStep, AddressCapStep
<1>3. Inv => OvershootBounded
  BY CapParts
<1>. QED
  BY <1>1, <1>2, <1>3, PTL DEF Spec

(***************************************************************************)
(*                         Searching the spots                             *)
(***************************************************************************)
-----------------------------------------------------------------------------
(* The table.                                                              *)

\* The rows that can ever be in the table.
AnyRow == {Row(k, id, ts) : k \in Kinds, id \in Nat, ts \in Int}

\* What the order of a search can sort: finitely many rows, of distinct ids.
Sortable(T) ==
  /\ T \in SUBSET AnyRow /\ IsFiniteSet(T)
  /\ \A r, s \in T : r.id = s.id => r = s

LEMMA RowFields ==
  ASSUME NEW r \in AnyRow
  PROVE  r.id \in Nat /\ r.ts \in Int /\ r.band \in Nat /\ r.wpm \in Nat
  BY PagingAssumption DEF AnyRow, Row

\* Any finite set of rows has ids below some number: else take a smallest
\* one that has not, and leave out one of its rows.
LEMMA IdsAreBounded ==
  ASSUME NEW T \in SUBSET AnyRow, IsFiniteSet(T)
  PROVE  \E m \in Nat : \A r \in T : r.id <= m
<1>. DEFINE Unbounded == {S \in FiniteSubsetsOf(T) : ~\E m \in Nat : \A r \in S : r.id <= m}
<1>1. SUFFICES Unbounded = {}
  <2>1. T \in FiniteSubsetsOf(T)
    BY DEF FiniteSubsetsOf
  <2>. QED
    BY <1>1, <2>1
<1>2. SUFFICES ASSUME Unbounded # {} PROVE FALSE
  OBVIOUS
<1>3. PICK S \in Unbounded : \A U \in Unbounded : ~(<<U, S>> \in StrictSubsetOrdering(T))
  <2>1. Unbounded \subseteq FiniteSubsetsOf(T)
    OBVIOUS
  <2>2. IsWellFoundedOn(StrictSubsetOrdering(T), FiniteSubsetsOf(T))
    BY FS_StrictSubsetOrderingWellFounded
  <2>. HIDE DEF Unbounded
  <2>. QED
    BY <1>2, <2>1, <2>2, WFMin
<1>4. S \in SUBSET T /\ IsFiniteSet(S) /\ ~\E m \in Nat : \A r \in S : r.id <= m
  BY DEF FiniteSubsetsOf
<1>5. PICK x \in S : TRUE
  BY <1>4
<1>6. /\ S \ {x} \in FiniteSubsetsOf(T)
      /\ <<S \ {x}, S>> \in StrictSubsetOrdering(T)
  BY <1>4, <1>5, FS_RemoveElement DEF FiniteSubsetsOf, StrictSubsetOrdering
<1>7. PICK m \in Nat : \A r \in S \ {x} : r.id <= m
  BY <1>3, <1>6
<1>8. x.id \in Nat /\ \A r \in S : r.id \in Nat
  BY <1>4, <1>5, RowFields
<1>9. \A r \in S : r.id <= m + x.id
  BY <1>7, <1>8
<1>. QED
  BY <1>4, <1>8, <1>9

\* A new row has an id that no row of the table has.
LEMMA NextIdIsNew ==
  ASSUME Sortable(table)
  PROVE  NextId \in Nat /\ \A r \in table : r.id < NextId
<1>. DEFINE Bounds == {m \in Nat : \A r \in table : r.id <= m}
            Ids == {r.id : r \in table} \cup {0}
<1>1. \A r \in table : r.id \in Nat
  BY RowFields DEF Sortable
<1>2. PICK m \in Bounds : \A n \in Bounds : m <= n
  <2>1. Bounds # {}
    BY IdsAreBounded DEF Sortable
  <2>2. PICK m \in Bounds : \A n \in Bounds : ~(<<n, m>> \in OpToRel(<, Nat))
    BY <2>1, NatLessThanWellFounded, WFMin
  <2>3. \A n \in Bounds : ~(n < m)
    BY <2>2 DEF OpToRel
  <2>. QED
    BY <2>3
<1>3. m \in Ids
  <2>1. CASE m = 0
    BY <2>1
  <2>2. CASE m # 0
    <3>1. m - 1 \in Nat /\ m - 1 \notin Bounds
      BY <1>2, <2>2
    <3>2. PICK r \in table : ~(r.id <= m - 1)
      BY <3>1
    <3>3. r.id = m
      BY <1>1, <1>2, <3>2
    <3>. QED
      BY <3>3
  <2>. QED
    BY <2>1, <2>2
<1>4. (CHOOSE n \in Ids : \A r \in table : r.id <= n) \in Ids
      /\ \A r \in table : r.id <= (CHOOSE n \in Ids : \A r2 \in table : r2.id <= n)
  BY <1>2, <1>3
<1>5. PICK n \in Ids : NextId = 1 + n /\ \A r \in table : r.id <= n
  BY <1>4 DEF NextId
<1>6. n \in Nat
  BY <1>1
<1>. QED
  BY <1>1, <1>5, <1>6

-----------------------------------------------------------------------------
(* The slots.                                                              *)

\* One element joins a finite set, leaves it, or does neither.
LEMMA RecountSet ==
  ASSUME NEW S, IsFiniteSet(S), NEW T, NEW r, NEW before \in BOOLEAN,
         NEW after \in BOOLEAN, before <=> r \in S,
         T = IF after THEN S \cup {r} ELSE S \ {r}
  PROVE  /\ IsFiniteSet(T) /\ Cardinality(S) \in Nat
         /\ Cardinality(T) = Cardinality(S) + (IF after THEN 1 ELSE 0)
                                            - (IF before THEN 1 ELSE 0)
<1>1. Cardinality(S) \in Nat
  BY FS_CardinalityType
<1>2. CASE after
  BY <1>1, <1>2, FS_AddElement
<1>3. CASE ~after
  BY <1>1, <1>3, FS_RemoveElement
<1>. QED
  BY <1>1, <1>2, <1>3

\* The places in which a request holds a slot.
Holding == {"query", "answered", "finished"}
Holders == {w \in Client : stage[w] \in Holding}

TableTyped ==
  /\ Sortable(table) /\ Cardinality(table) <= MaxRows /\ now \in Start..MaxNow
  /\ query \in [Walker -> Queries]
  /\ steady \in [Walker -> SUBSET AnyRow] /\ all \in [Walker -> SUBSET AnyRow]
  /\ \A w \in Walker : steady[w] \subseteq all[w]

SlotsCounted ==
  /\ stage \in [Client -> RequestPlace]
  /\ IsFiniteSet(Holders) /\ slots = Cardinality(Holders) /\ slots <= MaxSlots

LEMMA PagingStarts == PagingInit => TableTyped /\ SlotsCounted
<1>. SUFFICES ASSUME PagingInit PROVE TableTyped /\ SlotsCounted
  OBVIOUS
<1>1. TableTyped
  BY PagingAssumption DEF PagingInit, TableTyped, Sortable, AnyRow
<1>2. Holders = {}
  BY DEF PagingInit, Holders, Holding
<1>3. SlotsCounted
  BY <1>2, FS_EmptySet, PagingAssumption DEF PagingInit, SlotsCounted, RequestPlace
<1>. QED
  BY <1>1, <1>3

LEMMA TableStep ==
  ASSUME TableTyped, [PagingNext]_pagingVars
  PROVE  TableTyped'
<1>. USE DEF TableTyped
<1>1. ASSUME NEW k \in Kinds, NEW ts \in (now - MaxLate)..now, Insert(k, ts)
      PROVE  TableTyped'
  <2>1. NextId \in Nat /\ \A r \in table : r.id < NextId
    BY NextIdIsNew
  <2>2. ts \in Int
    BY PagingAssumption
  <2>. DEFINE new == Row(k, NextId, ts)
  <2>3. new \in AnyRow /\ new.id = NextId
    BY <2>1, <2>2 DEF AnyRow, Row
  <2>4. new \notin table /\ \A r \in table : r.id # new.id
    BY <2>1, <2>3, RowFields DEF Sortable
  <2>. HIDE DEF new
  <2>5. table' = table \cup {new} /\ Cardinality(table) < MaxRows
    BY <1>1 DEF Insert, new
  <2>6. IsFiniteSet(table') /\ Cardinality(table') <= MaxRows
    <3>1. IsFiniteSet(table) /\ Cardinality(table) \in Nat
      BY FS_CardinalityType DEF Sortable
    <3>2. IsFiniteSet(table') /\ Cardinality(table') = Cardinality(table) + 1
      BY <2>4, <2>5, <3>1, FS_AddElement
    <3>. QED
      BY <2>5, <3>1, <3>2, PagingAssumption
  <2>7. Sortable(table)'
    BY <2>3, <2>4, <2>5, <2>6 DEF Sortable
  <2>. QED
    BY <1>1, <2>6, <2>7 DEF Insert, walk
<1>2. ASSUME Purge
      PROVE  TableTyped'
  <2>1. table' \in SUBSET table
    BY <1>2 DEF Purge
  <2>2. /\ IsFiniteSet(table') /\ Cardinality(table') <= Cardinality(table)
        /\ Cardinality(table) \in Nat /\ Cardinality(table') \in Nat
    BY <2>1, FS_Subset, FS_CardinalityType DEF Sortable
  <2>3. Sortable(table)'
    BY <2>1, <2>2 DEF Sortable
  <2>. QED
    BY <1>2, <2>2, <2>3, PagingAssumption DEF Purge, walk
<1>3. CASE Tick
  BY <1>3, PagingAssumption DEF Tick, walk, Sortable
<1>4. ASSUME NEW w \in Walker, RunQuery(w)
      PROVE  TableTyped'
  <2>. DEFINE wanted == Wanted(query[w], win[w])
              first == cursor[w] = <<>> /\ offset[w] = 0
  <2>1. wanted \in SUBSET AnyRow
    BY DEF Wanted, Sortable
  <2>. HIDE DEF wanted, first
  <2>2. /\ steady' = [steady EXCEPT ![w] = IF first THEN wanted ELSE @ \cap wanted]
        /\ all' = [all EXCEPT ![w] = IF first THEN wanted ELSE @]
        /\ UNCHANGED <<table, now, query>>
    BY <1>4 DEF RunQuery, wanted, first, data
  <2>3. /\ steady' \in [Walker -> SUBSET AnyRow] /\ all' \in [Walker -> SUBSET AnyRow]
        /\ \A v \in Walker : steady'[v] \subseteq all'[v]
    BY <2>1, <2>2
  <2>. QED
    BY <2>2, <2>3 DEF Sortable
<1>5. ASSUME UNCHANGED <<data, walk>>
      PROVE  TableTyped'
  BY <1>5 DEF data, walk, Sortable
<1>. QED
  BY <1>1, <1>2, <1>3, <1>4, <1>5
  DEF PagingNext, Ask, AskOnce, AnswerOnce, Request, GetSlot, WaitExpires, QueryFails,
      ClientGone, Release, pagingVars

\* The request of client w goes to a place, and the slots are counted.
Goes(w, place) ==
  /\ stage' = [stage EXCEPT ![w] = place]
  /\ slots' = slots + (IF place \in Holding THEN 1 ELSE 0)
                    - (IF stage[w] \in Holding THEN 1 ELSE 0)
  /\ slots < MaxSlots \/ place \notin Holding \/ stage[w] \in Holding

LEMMA SlotMoves ==
  ASSUME SlotsCounted, NEW w \in Client, NEW place \in RequestPlace, Goes(w, place)
  PROVE  SlotsCounted'
<1>. USE DEF Goes
<1>. DEFINE before == stage[w] \in Holding  after == place \in Holding
<1>1. Holders' = IF after THEN Holders \cup {w} ELSE Holders \ {w}
  BY DEF SlotsCounted, Holders
<1>2. before \in BOOLEAN /\ after \in BOOLEAN /\ (before <=> w \in Holders)
  BY DEF Holders
<1>. HIDE DEF before, after
<1>3. /\ IsFiniteSet(Holders') /\ Cardinality(Holders) \in Nat
      /\ Cardinality(Holders') = Cardinality(Holders) + (IF after THEN 1 ELSE 0)
                                                     - (IF before THEN 1 ELSE 0)
  BY <1>1, <1>2, RecountSet DEF SlotsCounted
<1>4. slots' = Cardinality(Holders') /\ slots' <= MaxSlots
  BY <1>3, PagingAssumption DEF SlotsCounted, before, after
<1>. QED
  BY <1>3, <1>4 DEF SlotsCounted

LEMMA SlotsStep ==
  ASSUME SlotsCounted, [PagingNext]_pagingVars
  PROVE  SlotsCounted'
<1>0. slots \in Nat
  BY FS_CardinalityType DEF SlotsCounted
<1>1. ASSUME NEW w \in Client, stage[w] = "idle", Admit(w)
      PROVE  \E place \in RequestPlace : Goes(w, place)
  <2>1. CASE slots < MaxSlots
    <3>1. Goes(w, "query")
      BY <1>0, <1>1, <2>1 DEF Admit, Goes, Holding
    <3>. QED
      BY <3>1 DEF RequestPlace
  <2>2. CASE ~(slots < MaxSlots)
    <3>1. Goes(w, "wait")
      BY <1>0, <1>1, <2>2 DEF Admit, Goes, Holding
    <3>. QED
      BY <3>1 DEF RequestPlace
  <2>. QED
    BY <2>1, <2>2
<1>2. ASSUME NEW w \in Client, GetSlot(w)
      PROVE  Goes(w, "query")
  BY <1>0, <1>2 DEF GetSlot, Goes, Holding
<1>3. ASSUME NEW w \in Client, WaitExpires(w)
      PROVE  Goes(w, "idle")
  BY <1>0, <1>3 DEF WaitExpires, Goes, Holding
<1>4. ASSUME NEW w \in Client, QueryFails(w)
      PROVE  Goes(w, "idle")
  BY <1>0, <1>4 DEF QueryFails, Goes, Holding
<1>5. ASSUME NEW w \in Client, ClientGone(w)
      PROVE  Goes(w, "idle") \/ Goes(w, "done")
  <2>1. CASE w \in Rival
    BY <1>0, <1>5, <2>1 DEF ClientGone, Goes, Holding
  <2>2. CASE w \notin Rival
    BY <1>0, <1>5, <2>2 DEF ClientGone, Goes, Holding
  <2>. QED
    BY <2>1, <2>2
<1>6. ASSUME NEW w \in Walker, RunQuery(w)
      PROVE  Goes(w, "answered") \/ Goes(w, "finished")
  <2>1. PICK place \in {"answered", "finished"} : stage' = [stage EXCEPT ![w] = place]
    BY <1>6 DEF RunQuery
  <2>2. stage[w] = "query" /\ slots' = slots
    BY <1>6 DEF RunQuery
  <2>3. ASSUME place = "answered" PROVE Goes(w, "answered")
    BY <1>0, <2>1, <2>2, <2>3 DEF Goes, Holding
  <2>4. ASSUME place = "finished" PROVE Goes(w, "finished")
    BY <1>0, <2>1, <2>2, <2>4 DEF Goes, Holding
  <2>. QED
    BY <2>3, <2>4
<1>7. ASSUME NEW w \in Client, AnswerOnce(w)
      PROVE  Goes(w, "answered")
  BY <1>0, <1>7 DEF AnswerOnce, Goes, Holding
<1>8. ASSUME NEW w \in Client, Release(w)
      PROVE  Goes(w, "idle") \/ Goes(w, "done")
  <2>1. CASE stage[w] = "answered"
    BY <1>0, <1>8, <2>1 DEF Release, Goes, Holding
  <2>2. CASE stage[w] # "answered"
    BY <1>0, <1>8, <2>2 DEF Release, Goes, Holding
  <2>. QED
    BY <2>1, <2>2
<1>9. {"query", "idle", "done", "answered", "finished"} \subseteq RequestPlace
  BY DEF RequestPlace
<1>10. Walker \subseteq Client /\ Rival \subseteq Client
  BY DEF Client
<1>11. ASSUME NEW w \in Client, NEW place \in RequestPlace, Goes(w, place)
       PROVE  SlotsCounted'
  BY <1>11, SlotMoves
<1>12. ASSUME UNCHANGED <<slots, stage>>
       PROVE  SlotsCounted'
  BY <1>12 DEF SlotsCounted, Holders
<1>13. ASSUME NEW w \in Client, Request(w)
       PROVE  SlotsCounted'
  BY <1>2, <1>3, <1>4, <1>5, <1>8, <1>9, <1>11, <1>13 DEF Request
<1>14. ASSUME NEW w \in Walker, Ask(w) \/ RunQuery(w)
       PROVE  SlotsCounted'
  BY <1>1, <1>6, <1>9, <1>10, <1>11, <1>14 DEF Ask
<1>15. ASSUME NEW w \in Rival, AskOnce(w) \/ AnswerOnce(w)
       PROVE  SlotsCounted'
  BY <1>1, <1>7, <1>9, <1>10, <1>11, <1>15 DEF AskOnce
<1>. QED
  BY <1>12, <1>13, <1>14, <1>15 DEF PagingNext, Insert, Purge, Tick, pagingVars

\* The semaphore holds exactly the searches that run or answer, however many
\* requests arrive, wait, fail, time out or go away, and never more than
\* MaxSlots; the table stays one of distinct ids (acquireSearchSlot and the
\* deferred release, web_search.go).
THEOREM SearchSlots == PagingSpec => []SlotsExact
<1>1. PagingInit => TableTyped /\ SlotsCounted
  BY PagingStarts
<1>2. TableTyped /\ SlotsCounted /\ [PagingNext]_pagingVars => (TableTyped /\ SlotsCounted)'
  BY TableStep, SlotsStep
<1>3. TableTyped /\ SlotsCounted => SlotsExact
  BY DEF TableTyped, SlotsCounted, SlotsExact, PagingTypeOK, Sortable, Holders, Holding
<1>. QED
  BY <1>1, <1>2, <1>3, PTL DEF PagingSpec

-----------------------------------------------------------------------------
(* Sorting by counting what comes before (Sorted, SpotQuery).              *)

\* R is a strict order of all of S.
OrdersAll(R, S) ==
  /\ \A a, b \in S : ~(<<a, b>> \in R /\ <<b, a>> \in R)
  /\ \A a, b \in S : a # b => <<a, b>> \in R \/ <<b, a>> \in R
  /\ \A a, b, c \in S : <<a, b>> \in R /\ <<b, c>> \in R => <<a, c>> \in R

Rank(S, R, r) == Cardinality({x \in S : <<x, r>> \in R})

RankedBy(s, n, S, R) ==
  /\ s \in [1..n -> S]
  /\ \A i, j \in 1..n : i < j => <<s[i], s[j]>> \in R
  /\ \A r \in S : \E i \in 1..n : s[i] = r

\* The rank grows along the order, so that it tells elements apart and takes
\* each of the values 0 .. n - 1.
LEMMA RanksAreAll ==
  ASSUME NEW S, IsFiniteSet(S), NEW R, OrdersAll(R, S), NEW n, n = Cardinality(S)
  PROVE  /\ \A r \in S : Rank(S, R, r) \in 0..(n - 1)
         /\ \A a, b \in S : <<a, b>> \in R => Rank(S, R, a) < Rank(S, R, b)
         /\ \A i \in 1..n : \E r \in S : Rank(S, R, r) = i - 1
<1>. DEFINE rank == [r \in S |-> Rank(S, R, r)]
            Below(r) == {x \in S : <<x, r>> \in R}
<1>1. n \in Nat
  BY FS_CardinalityType
<1>2. \A r \in S : <<r, r>> \notin R
  BY DEF OrdersAll
<1>3. ASSUME NEW r \in S
      PROVE  /\ IsFiniteSet(Below(r)) /\ Cardinality(Below(r)) \in 0..(n - 1)
             /\ Rank(S, R, r) = Cardinality(Below(r))
  <2>1. Below(r) \in SUBSET S /\ r \notin Below(r)
    BY <1>2
  <2>. HIDE DEF Below
  <2>2. /\ IsFiniteSet(Below(r)) /\ Cardinality(Below(r)) \in Nat
        /\ Cardinality(Below(r)) <= n /\ Cardinality(Below(r)) # n
    BY <2>1, FS_Subset, FS_CardinalityType
  <2>. QED
    BY <1>1, <2>2 DEF Rank, Below
<1>4. ASSUME NEW a \in S, NEW b \in S, <<a, b>> \in R
      PROVE  Rank(S, R, a) < Rank(S, R, b)
  <2>1. Below(a) \in SUBSET Below(b) /\ a \in Below(b) /\ a \notin Below(a)
    BY <1>2, <1>4 DEF OrdersAll
  <2>. HIDE DEF Below
  <2>2. /\ IsFiniteSet(Below(b)) /\ Cardinality(Below(a)) \in Int /\ Cardinality(Below(b)) \in Int
        /\ Rank(S, R, a) = Cardinality(Below(a)) /\ Rank(S, R, b) = Cardinality(Below(b))
    BY <1>1, <1>3
  <2>3. Cardinality(Below(a)) <= Cardinality(Below(b)) /\ Cardinality(Below(a)) # Cardinality(Below(b))
    BY <2>1, <2>2, FS_Subset
  <2>. QED
    BY <2>2, <2>3
<1>5. rank \in Injection(S, 0..(n - 1))
  <2>. HIDE DEF Below
  <2>0. \A r \in S : Rank(S, R, r) \in 0..(n - 1)
    BY <1>3
  <2>1. rank \in [S -> 0..(n - 1)] /\ \A r \in S : rank[r] \in Int
    BY <1>1, <2>0
  <2>2. \A a, b \in S : <<a, b>> \in R => rank[a] < rank[b]
    BY <1>4
  <2>. HIDE DEF rank
  <2>3. ASSUME NEW a \in S, NEW b \in S, rank[a] = rank[b]
        PROVE  a = b
    <3>1. ~(rank[a] < rank[b]) /\ ~(rank[b] < rank[a])
      BY <2>1, <2>3
    <3>2. <<a, b>> \notin R /\ <<b, a>> \notin R
      BY <2>2, <3>1
    <3>. QED
      BY <3>2 DEF OrdersAll
  <2>. QED
    BY <2>1, <2>3 DEF Injection, IsInjective
<1>6. rank \in Surjection(S, 0..(n - 1))
  <2>1. IsFiniteSet(0..(n - 1)) /\ Cardinality(0..(n - 1)) = n
    <3>. DEFINE m == n - 1
    <3>1. m \in Int /\ m + 1 = n /\ (0 > m <=> n = 0)
      BY <1>1
    <3>. HIDE DEF m
    <3>2. IsFiniteSet(0..m) /\ Cardinality(0..m) = IF 0 > m THEN 0 ELSE m - 0 + 1
      BY <3>1, FS_Interval
    <3>3. IsFiniteSet(0..m) /\ Cardinality(0..m) = n
      BY <1>1, <3>1, <3>2
    <3>. QED
      BY <3>3 DEF m
  <2>. HIDE DEF rank
  <2>. QED
    BY <1>5, <2>1, FS_Injection
<1>7. \A i \in 1..n : \E r \in S : Rank(S, R, r) = i - 1
  <2>1. \A m \in 0..(n - 1) : \E r \in S : rank[r] = m
    BY <1>6 DEF Surjection
  <2>2. \A i \in 1..n : i - 1 \in 0..(n - 1)
    BY <1>1
  <2>. QED
    BY <2>1, <2>2
<1>. QED
  BY <1>3, <1>4, <1>7

\* A function that has at each place what has as many before it is sorted.
LEMMA SortingRanks ==
  ASSUME NEW S, IsFiniteSet(S), NEW R, OrdersAll(R, S), NEW n, n = Cardinality(S),
         NEW s, s = [i \in 1..n |-> s[i]],
         \A i \in 1..n : (\E r \in S : Rank(S, R, r) = i - 1) =>
           s[i] \in S /\ Rank(S, R, s[i]) = i - 1
  PROVE  RankedBy(s, n, S, R)
<1>1. /\ \A r \in S : Rank(S, R, r) \in 0..(n - 1)
      /\ \A a, b \in S : <<a, b>> \in R => Rank(S, R, a) < Rank(S, R, b)
      /\ \A i \in 1..n : \E r \in S : Rank(S, R, r) = i - 1
      /\ n \in Nat
  BY RanksAreAll, FS_CardinalityType
<1>2. \A i \in 1..n : s[i] \in S /\ Rank(S, R, s[i]) = i - 1
  BY <1>1
<1>3. s \in [1..n -> S]
  BY <1>2
<1>4. ASSUME NEW i \in 1..n, NEW j \in 1..n, i < j
      PROVE  <<s[i], s[j]>> \in R
  <2>1. s[i] \in S /\ s[j] \in S /\ Rank(S, R, s[i]) = i - 1 /\ Rank(S, R, s[j]) = j - 1
    BY <1>2
  <2>2. <<s[j], s[i]>> \notin R /\ s[i] # s[j]
    BY <1>1, <1>4, <2>1
  <2>. QED
    BY <2>1, <2>2 DEF OrdersAll
<1>5. ASSUME NEW r \in S
      PROVE  \E i \in 1..n : s[i] = r
  <2>. DEFINE i == Rank(S, R, r) + 1
  <2>1. i \in 1..n /\ i - 1 = Rank(S, R, r) /\ Rank(S, R, r) \in Int
    BY <1>1
  <2>. HIDE DEF i
  <2>2. s[i] \in S /\ Rank(S, R, s[i]) = Rank(S, R, r)
    BY <1>2, <2>1
  <2>3. <<s[i], r>> \notin R /\ <<r, s[i]>> \notin R
    BY <1>1, <2>1, <2>2
  <2>4. s[i] = r
    BY <2>2, <2>3 DEF OrdersAll
  <2>. QED
    BY <2>1, <2>4
<1>. QED
  BY <1>3, <1>4, <1>5 DEF RankedBy

-----------------------------------------------------------------------------
(* The order of a search.                                                  *)

SortColumn == {"ts", "band", "wpm"}

\* NULLs last, then the column, then the id: rows of distinct ids are never
\* equal in the order, and it has no cycles.
LEMMA BeforeOrders ==
  ASSUME NEW sort \in SortColumn, NEW order, NEW a \in AnyRow, NEW b \in AnyRow
  PROVE  /\ ~(Before(sort, order, a, b) /\ Before(sort, order, b, a))
         /\ a.id # b.id => Before(sort, order, a, b) \/ Before(sort, order, b, a)
<1>. DEFINE x == a[sort]  y == b[sort]
<1>1. x \in Int /\ y \in Int /\ a.id \in Int /\ b.id \in Int
  BY RowFields DEF SortColumn
<1>. HIDE DEF x, y
<1>2. /\ Before(sort, order, a, b) <=>
           IF sort # "ts" /\ (x = 0) # (y = 0) THEN y = 0
           ELSE IF order = "desc" THEN x > y \/ (x = y /\ a.id > b.id)
                                  ELSE x < y \/ (x = y /\ a.id < b.id)
      /\ Before(sort, order, b, a) <=>
           IF sort # "ts" /\ (y = 0) # (x = 0) THEN x = 0
           ELSE IF order = "desc" THEN y > x \/ (y = x /\ b.id > a.id)
                                  ELSE y < x \/ (y = x /\ b.id < a.id)
  BY DEF Before, x, y
<1>. QED
  BY <1>1, <1>2

LEMMA BeforeIsTransitive ==
  ASSUME NEW sort \in SortColumn, NEW order,
         NEW a \in AnyRow, NEW b \in AnyRow, NEW c \in AnyRow,
         Before(sort, order, a, b), Before(sort, order, b, c)
  PROVE  Before(sort, order, a, c)
<1>. DEFINE x == a[sort]  y == b[sort]  z == c[sort]
            Prec(u, i, v, j) == IF sort # "ts" /\ (u = 0) # (v = 0) THEN v = 0
                                ELSE IF order = "desc" THEN u > v \/ (u = v /\ i > j)
                                                       ELSE u < v \/ (u = v /\ i < j)
<1>1. /\ x \in Int /\ y \in Int /\ z \in Int
      /\ a.id \in Int /\ b.id \in Int /\ c.id \in Int
  BY RowFields DEF SortColumn
<1>2. /\ Before(sort, order, a, b) <=> Prec(x, a.id, y, b.id)
      /\ Before(sort, order, b, c) <=> Prec(y, b.id, z, c.id)
      /\ Before(sort, order, a, c) <=> Prec(x, a.id, z, c.id)
  BY DEF Before
<1>. HIDE DEF x, y, z
<1>3. Prec(x, a.id, y, b.id) /\ Prec(y, b.id, z, c.id) => Prec(x, a.id, z, c.id)
  BY <1>1
<1>. QED
  BY <1>2, <1>3

Ahead(S, sort, order, r) == {x \in S : Before(sort, order, x, r)}

\* What Sorted makes of rows in the order of a search.
InTurn(S, sort, order) ==
  [i \in 1..Cardinality(S) |->
     CHOOSE r \in S : Cardinality(Ahead(S, sort, order, r)) = i - 1]

Enumerates(s, n, S, sort, order) ==
  /\ n \in Nat /\ s \in Seq(AnyRow) /\ Len(s) = n
  /\ \A i \in 1..n : s[i] \in S
  /\ \A i, j \in 1..n : i < j => Before(sort, order, s[i], s[j])
  /\ \A r \in S : \E i \in 1..n : s[i] = r

\* Every place has one row and every row one place, in order.
LEMMA Turns ==
  ASSUME NEW S, Sortable(S), NEW sort \in SortColumn, NEW order,
         NEW n, n = Cardinality(S), NEW s, s = InTurn(S, sort, order)
  PROVE  Enumerates(s, n, S, sort, order)
<1>. DEFINE R == {p \in S \X S : Before(sort, order, p[1], p[2])}
<1>1. S \in SUBSET AnyRow /\ IsFiniteSet(S) /\ n \in Nat
  BY FS_CardinalityType DEF Sortable
<1>2. \A a, b \in S : <<a, b>> \in R <=> Before(sort, order, a, b)
  OBVIOUS
<1>. HIDE DEF R
<1>3. OrdersAll(R, S)
  <2>1. \A a, b \in S : ~(<<a, b>> \in R /\ <<b, a>> \in R)
    BY <1>1, <1>2, BeforeOrders
  <2>2. \A a, b \in S : a # b => <<a, b>> \in R \/ <<b, a>> \in R
    BY <1>1, <1>2, BeforeOrders DEF Sortable
  <2>3. \A a, b, c \in S : <<a, b>> \in R /\ <<b, c>> \in R => <<a, c>> \in R
    BY <1>1, <1>2, BeforeIsTransitive
  <2>. QED
    BY <2>1, <2>2, <2>3 DEF OrdersAll
<1>4. \A r \in S : Rank(S, R, r) = Cardinality(Ahead(S, sort, order, r))
  <2>1. \A r \in S : {x \in S : <<x, r>> \in R} = Ahead(S, sort, order, r)
    BY <1>2 DEF Ahead
  <2>. QED
    BY <2>1 DEF Rank
<1>5. s = [i \in 1..n |-> s[i]]
  BY DEF InTurn
<1>6. ASSUME NEW i \in 1..n, \E r \in S : Rank(S, R, r) = i - 1
      PROVE  s[i] \in S /\ Rank(S, R, s[i]) = i - 1
  <2>1. \E r \in S : Cardinality(Ahead(S, sort, order, r)) = i - 1
    BY <1>4, <1>6
  <2>2. s[i] \in S /\ Cardinality(Ahead(S, sort, order, s[i])) = i - 1
    BY <2>1 DEF InTurn
  <2>. QED
    BY <1>4, <2>2
<1>7. RankedBy(s, n, S, R)
  BY <1>1, <1>3, <1>5, <1>6, SortingRanks
<1>8. s \in Seq(AnyRow) /\ Len(s) = n
  <2>1. s \in [1..n -> AnyRow]
    BY <1>1, <1>7 DEF RankedBy
  <2>. QED
    BY <1>1, <2>1
<1>. QED
  BY <1>1, <1>2, <1>7, <1>8 DEF RankedBy, Enumerates

-----------------------------------------------------------------------------
(* One page.                                                               *)

LEMMA SliceElements ==
  ASSUME NEW W, NEW s \in Seq(W), NEW lo \in Nat \ {0}, NEW hi \in Nat,
         NEW t, t = Slice(s, lo, hi)
  PROVE  /\ t \in Seq(W)
         /\ Len(t) = IF hi < lo \/ Len(s) < lo THEN 0
                     ELSE IF hi < Len(s) THEN hi - lo + 1 ELSE Len(s) - lo + 1
         /\ \A i \in 1..Len(t) : t[i] = s[lo + i - 1]
<1>. DEFINE to == IF hi < Len(s) THEN hi ELSE Len(s)
<1>1. Len(s) \in Nat /\ to \in Int /\ to <= Len(s) /\ \A i \in lo..to : s[i] \in W
  <2>1. Len(s) \in Nat /\ s \in [1..Len(s) -> W]
    BY LenProperties
  <2>. QED
    BY <2>1
<1>2. t = SubSeq(s, lo, to)
  BY DEF Slice
<1>. HIDE DEF to
<1>3. /\ t \in Seq(W) /\ Len(t) = IF lo <= to THEN to - lo + 1 ELSE 0
      /\ \A i \in 1..(to - lo + 1) : t[i] = s[lo + i - 1]
  BY <1>1, <1>2, SubSeqProperties
<1>4. \A i \in 1..Len(t) : t[i] = s[lo + i - 1]
  BY <1>1, <1>3
<1>5. Len(t) = IF hi < lo \/ Len(s) < lo THEN 0
               ELSE IF hi < Len(s) THEN hi - lo + 1 ELSE Len(s) - lo + 1
  BY <1>1, <1>3 DEF to
<1>. QED
  BY <1>3, <1>4, <1>5

\* The rows behind the first o of the n rows of s, at most L of them, and
\* where the next page starts.
IsPage(res, sort, s, n, o, L) ==
  LET p == res.rows IN
  /\ p \in Seq(AnyRow)
  /\ Len(p) = IF n > o + L THEN L ELSE IF n > o THEN n - o ELSE 0
  /\ \A i \in 1..Len(p) : o + i \in 1..n /\ p[i] = s[o + i]
  /\ res.hasMore <=> n > o + L
  /\ res.nextOffset = IF n > o + L THEN o + L ELSE 0
  /\ res.nextCursor = IF n > o + L /\ sort = "ts" THEN <<p[L].ts, p[L].id>> ELSE <<>>

\* The rows of table T that a page can have.
Found(T, q, window, cur) ==
  {r \in T : Matches(q.filter, window, r) /\ BeyondCursor(q.order, cur, r)}

LEMMA PageRows ==
  ASSUME NEW T, Sortable(T), NEW q, ParsedQuery(q), NEW window, NEW o \in Nat, NEW cur,
         NEW R, R = Found(T, q, window, cur), NEW n, n = Cardinality(R), NEW s, s = InTurn(R, q.sort, q.order),
         NEW L, L = Limit(q.limit), NEW res, res = Search(T, q, window, o, cur)
  PROVE  L \in Nat \ {0} /\ Sortable(R) /\ n \in Nat /\ IsPage(res, q.sort, s, n, o, L)
<1>1. L \in Nat \ {0}
  BY QueryAssumption DEF Limit, ParsedQuery
<1>2. Sortable(R) /\ q.sort \in SortColumn
  <2>1. R \in SUBSET T /\ IsFiniteSet(T)
    BY DEF Sortable, Found
  <2>2. IsFiniteSet(R)
    BY <2>1, FS_Subset
  <2>. QED
    BY <2>1, <2>2 DEF Sortable, ParsedQuery, SortColumn
<1>3. n \in Nat /\ s \in Seq(AnyRow) /\ Len(s) = n
  <2>1. Enumerates(s, n, R, q.sort, q.order)
    BY <1>2, Turns
  <2>. QED
    BY <2>1 DEF Enumerates
<1>4. Sorted(R, LAMBDA a, b : Before(q.sort, q.order, a, b)) = s
  BY DEF Sorted, InTurn, Ahead
<1>. DEFINE fetched == Slice(s, o + 1, o + L + 1)
            page == Slice(fetched, 1, L)
            more == Len(fetched) > L
<1>5. /\ res.rows = page /\ res.hasMore = more
      /\ res.nextCursor = IF more /\ q.sort = "ts"
                          THEN <<page[Len(page)].ts, page[Len(page)].id>> ELSE <<>>
      /\ res.nextOffset = IF more THEN o + Len(page) ELSE 0
  BY <1>4 DEF Search, Found
<1>6. /\ fetched \in Seq(AnyRow)
      /\ Len(fetched) = IF n < o + 1 THEN 0 ELSE IF o + L + 1 < n THEN L + 1 ELSE n - o
      /\ \A i \in 1..Len(fetched) : fetched[i] = s[o + i]
  <2>. DEFINE lo == o + 1  hi == o + L + 1
  <2>1. lo \in Nat \ {0} /\ hi \in Nat
    BY <1>1
  <2>2. fetched = Slice(s, lo, hi)
    OBVIOUS
  <2>3. hi = o + L + 1 /\ lo = o + 1
    OBVIOUS
  <2>. HIDE DEF lo, hi, fetched
  <2>5. /\ fetched \in Seq(AnyRow)
        /\ Len(fetched) = IF hi < lo \/ Len(s) < lo THEN 0
                          ELSE IF hi < Len(s) THEN hi - lo + 1 ELSE Len(s) - lo + 1
        /\ \A i \in 1..Len(fetched) : fetched[i] = s[lo + i - 1]
    <3>1. s \in Seq(AnyRow) /\ Len(s) \in Nat
      BY <1>3
    <3>2. fetched \in Seq(AnyRow)
      BY <2>1, <2>2, <3>1, SliceElements
    <3>3. Len(fetched) = IF hi < lo \/ Len(s) < lo THEN 0
                        ELSE IF hi < Len(s) THEN hi - lo + 1 ELSE Len(s) - lo + 1
      BY <2>1, <2>2, <3>1, SliceElements
    <3>4. \A i \in 1..Len(fetched) : fetched[i] = s[lo + i - 1]
      BY <2>1, <2>2, <3>1, SliceElements
    <3>. QED
      BY <3>2, <3>3, <3>4
  <2>6. Len(fetched) = IF n < o + 1 THEN 0 ELSE IF o + L + 1 < n THEN L + 1 ELSE n - o
    <3>1. Len(s) = n /\ n \in Nat /\ L \in Nat \ {0}
      BY <1>1, <1>3
    <3>2. Len(fetched) = IF hi < lo \/ n < lo THEN 0
                        ELSE IF hi < n THEN hi - lo + 1 ELSE n - lo + 1
      BY <2>5, <3>1
    <3>3. o \in Nat
      OBVIOUS
    <3>4. CASE n < o + 1
      <4>1. n < lo
        BY <2>3, <3>4
      <4>. QED
        BY <3>2, <3>4, <4>1
    <3>5. CASE ~(n < o + 1)
      <4>1. ~(hi < lo) /\ ~(n < lo) /\ hi - lo + 1 = L + 1 /\ n - lo + 1 = n - o
        BY <2>3, <3>1, <3>3, <3>5
      <4>. QED
        BY <2>3, <3>2, <3>5, <4>1
    <3>. QED
      BY <3>4, <3>5
  <2>7. Len(fetched) \in Nat
    BY <2>5
  <2>8. ASSUME NEW i \in 1..Len(fetched)
        PROVE  fetched[i] = s[o + i]
    <3>1. lo + i - 1 = o + i
      BY <2>3, <2>7
    <3>. QED
      BY <2>5, <3>1
  <2>. QED
    BY <2>5, <2>6, <2>8
<1>. HIDE DEF fetched
<1>7. /\ page \in Seq(AnyRow)
      /\ Len(page) = IF Len(fetched) < 1 THEN 0 ELSE IF L < Len(fetched) THEN L ELSE Len(fetched)
      /\ \A i \in 1..Len(page) : page[i] = fetched[i]
  <2>1. /\ page \in Seq(AnyRow)
        /\ Len(page) = IF L < 1 \/ Len(fetched) < 1 THEN 0
                       ELSE IF L < Len(fetched) THEN L - 1 + 1 ELSE Len(fetched) - 1 + 1
        /\ \A i \in 1..Len(page) : page[i] = fetched[1 + i - 1]
    <3>1. L \in Nat /\ 1 \in Nat \ {0} /\ fetched \in Seq(AnyRow)
      BY <1>1, <1>6
    <3>2. page \in Seq(AnyRow)
      BY <3>1, SliceElements
    <3>3. Len(page) = IF L < 1 \/ Len(fetched) < 1 THEN 0
                      ELSE IF L < Len(fetched) THEN L - 1 + 1 ELSE Len(fetched) - 1 + 1
      BY <3>1, SliceElements
    <3>4. \A i \in 1..Len(page) : page[i] = fetched[1 + i - 1]
      BY <3>1, SliceElements
    <3>. QED
      BY <3>2, <3>3, <3>4
  <2>2. Len(fetched) \in Nat
    BY <1>6
  <2>. HIDE DEF page
  <2>. QED
    BY <1>1, <2>1, <2>2
<1>. HIDE DEF page
<1>8. /\ more <=> n > o + L
      /\ Len(page) = IF n > o + L THEN L ELSE IF n > o THEN n - o ELSE 0
  BY <1>1, <1>3, <1>6, <1>7
<1>9. ASSUME NEW i \in 1..Len(page)
      PROVE  o + i \in 1..n /\ page[i] = s[o + i]
  <2>1. i \in 1..Len(fetched) /\ o + i \in 1..n
    BY <1>1, <1>3, <1>6, <1>7, <1>8
  <2>. QED
    BY <1>6, <1>7, <2>1
<1>. HIDE DEF more
<1>10. res.hasMore <=> n > o + L
  BY <1>5, <1>8
<1>. QED
  BY <1>1, <1>2, <1>3, <1>5, <1>7, <1>8, <1>9, <1>10 DEF IsPage

-----------------------------------------------------------------------------
(* What a filter asks for.                                                 *)

LEMMA HourOnTheWay ==
  ASSUME NEW x \in Int, NEW a \in 0..23, NEW b \in 0..23
  PROVE  (x - a) % 24 <= (b - a) % 24 <=>
           IF a > b THEN x % 24 >= a \/ x % 24 <= b ELSE a <= x % 24 /\ x % 24 <= b
<1>. DEFINE h == x % 24  d == x \div 24
<1>1. h \in 0..23 /\ d \in Int /\ x = 24 * d + h
  OBVIOUS
<1>. HIDE DEF h, d
<1>2. (x - a) % 24 = IF h >= a THEN h - a ELSE h - a + 24
  BY <1>1
<1>3. (b - a) % 24 = IF b >= a THEN b - a ELSE b - a + 24
  OBVIOUS
<1>4. (x - a) % 24 <= (b - a) % 24 <=> IF a > b THEN h >= a \/ h <= b ELSE a <= h /\ h <= b
  BY <1>1, <1>2, <1>3
<1>. QED
  BY <1>4 DEF h

LEMMA HoursAgree ==
  ASSUME NEW f, f.hourMin \in {None} \cup 0..23, f.hourMax \in {None} \cup 0..23, NEW x \in Int,
         NEW lo, lo = IF f.hourMin = None THEN 0 ELSE f.hourMin,
         NEW hi, hi = IF f.hourMax = None THEN 23 ELSE f.hourMax
  PROVE  InHours(f, x % 24) <=> (x - lo) % 24 <= (hi - lo) % 24
<1>. DEFINE h == x % 24
<1>1. lo \in 0..23 /\ hi \in 0..23 /\ h \in 0..23
  BY DEF None
<1>2. (x - lo) % 24 <= (hi - lo) % 24 <=>
        IF lo > hi THEN h >= lo \/ h <= hi ELSE lo <= h /\ h <= hi
  BY <1>1, HourOnTheWay
<1>. HIDE DEF h
<1>3. InHours(f, h) <=> IF lo > hi THEN h >= lo \/ h <= hi ELSE lo <= h /\ h <= hi
  <2>1. CASE f.hourMin = None
    BY <1>1, <2>1 DEF InHours
  <2>2. CASE f.hourMin # None /\ f.hourMax = None
    BY <1>1, <2>2 DEF InHours
  <2>3. CASE f.hourMin # None /\ f.hourMax # None
    BY <1>1, <2>3 DEF InHours
  <2>. QED
    BY <2>1, <2>2, <2>3
<1>. QED
  BY <1>2, <1>3 DEF h

\* The query of the handler finds the rows that the request asks for.
LEMMA FilterFinds ==
  ASSUME Sortable(table), NEW q, ParsedQuery(q), NEW window,
         window.from \in Int, window.to \in Int
  PROVE  Wanted(q, window) = {r \in table : Matches(q.filter, window, r)}
<1>. DEFINE f == q.filter
            lo == IF f.hourMin = None THEN 0 ELSE f.hourMin
            hi == IF f.hourMax = None THEN 23 ELSE f.hourMax
            Sought(r) ==
              /\ r.ts \in window.from..(window.to - 1)
              /\ ((r.ts \div Hour) - lo) % 24 <= (hi - lo) % 24
              /\ \A c \in DOMAIN f.in : f.in[c] # {} => Column(r, c) \in f.in[c]
              /\ \A c \in DOMAIN f.notIn : ~(r[c] \in f.notIn[c])
              /\ \A c \in DOMAIN f.range : r[c] \in (f.range[c][1]..f.range[c][2]) \ {0}
<1>1. Wanted(q, window) = {r \in table : Sought(r)}
  BY DEF Wanted
<1>2. ASSUME NEW r \in table
      PROVE  Sought(r) <=> Matches(f, window, r)
  <2>1. r.ts \in Int /\ r.wpm \in Int /\ r.ts \div Hour \in Int
    BY RowFields, QueryAssumption DEF Sortable
  <2>2. r.ts \in window.from..(window.to - 1) <=> window.from <= r.ts /\ r.ts < window.to
    BY <2>1
  <2>3. ((r.ts \div Hour) - lo) % 24 <= (hi - lo) % 24 <=> InHours(f, HourOf(r.ts))
    <3>1. f.hourMin \in {None} \cup 0..23 /\ f.hourMax \in {None} \cup 0..23
      BY DEF ParsedQuery
    <3>. QED
      BY <2>1, <3>1, HoursAgree DEF HourOf
  <2>4. ASSUME NEW c \in DOMAIN f.range
        PROVE  r[c] \in (f.range[c][1]..f.range[c][2]) \ {0} <=>
                 r[c] # 0 /\ f.range[c][1] <= r[c] /\ r[c] <= f.range[c][2]
    <3>1. c = "wpm" /\ f.range[c] \in Int \X Int
      BY DEF ParsedQuery
    <3>. DEFINE lim == f.range[c]  x == r[c]
    <3>2. lim[1] \in Int /\ lim[2] \in Int /\ x \in Int
      BY <2>1, <3>1
    <3>. HIDE DEF lim, x
    <3>3. x \in (lim[1]..lim[2]) \ {0} <=> x # 0 /\ lim[1] <= x /\ x <= lim[2]
      BY <3>2
    <3>. QED
      BY <3>3 DEF lim, x
  <2>. HIDE DEF f, lo, hi
  <2>. QED
    BY <2>2, <2>3, <2>4 DEF Matches
<1>. QED
  BY <1>1, <1>2

LEMMA WindowTyped ==
  ASSUME NEW q, ParsedQuery(q), now \in Int
  PROVE  Window(q.filter, now) \in [ok : BOOLEAN, from : Int, to : Int]
<1>1. q.filter.from \in Int /\ q.filter.to \in Int /\ q.filter.lookback \in Int
  BY DEF ParsedQuery
<1>2. MaxWindow \in Int
  BY QueryAssumption
<1>. QED
  BY <1>1, <1>2 DEF Window

-----------------------------------------------------------------------------
(* The walk.                                                               *)

WalkTyped ==
  /\ win \in [Walker -> [ok : BOOLEAN, from : Int, to : Int]]
  /\ cursor \in [Walker -> {<<>>} \cup (Int \X Nat)] /\ offset \in [Walker -> Nat]
  /\ got \in [Walker -> Seq(AnyRow)] /\ still \in [Walker -> BOOLEAN]
  /\ \A w \in Walker : Sortable(all[w])

\* The places of a request that goes on with its walk.
Under == {"idle", "wait", "query", "answered"}

LastSeen(g) == <<g[Len(g)].ts, g[Len(g)].id>>

\* A walk by cursor stands behind the last row it got, and every steady row
\* is behind or ahead of it.
CursorWalk(w) ==
  /\ offset[w] = 0
  /\ InOrder(w, query[w])
  /\ stage[w] \in Under =>
       IF cursor[w] = <<>> THEN got[w] = <<>>
       ELSE /\ got[w] # <<>> /\ cursor[w] = LastSeen(got[w])
            /\ \A r \in steady[w] :
                 r \in GotRows(w) \/ BeyondCursor(query[w].order, cursor[w], r)
            /\ still[w] => steady[w] = all[w] /\ GotRows(w) \subseteq all[w]
  /\ stage[w] = "finished" =>
       /\ steady[w] \subseteq GotRows(w)
       /\ still[w] => steady[w] = all[w] /\ GotRows(w) \subseteq all[w]

\* A walk by offset stands behind as many rows as it got; while they stay the
\* same these are the first ones of all.
OffsetWalk(w) ==
  /\ cursor[w] = <<>>
  /\ stage[w] \in Under => offset[w] = Len(got[w])
  /\ still[w] =>
       /\ Len(got[w]) <= Cardinality(all[w])
       /\ \A i \in 1..Len(got[w]) :
            got[w][i] = InTurn(all[w], query[w].sort, query[w].order)[i]
       /\ stage[w] = "finished" => Len(got[w]) = Cardinality(all[w])

Walks(w) == IF query[w].page = "cursor" THEN CursorWalk(w) ELSE OffsetWalk(w)

\* The cursor of a row leaves the rows behind it.
LEMMA BeyondMeansBefore ==
  ASSUME NEW a \in AnyRow, NEW r \in AnyRow, NEW order
  PROVE  BeyondCursor(order, <<a.ts, a.id>>, r) <=> Before("ts", order, a, r)
<1>1. a.ts \in Int /\ a.id \in Int /\ r.ts \in Int /\ r.id \in Int
  BY RowFields
<1>2. a["ts"] = a.ts /\ r["ts"] = r.ts
  OBVIOUS
<1>3. <<a.ts, a.id>> # <<>>
  OBVIOUS
<1>. DEFINE c == <<a.ts, a.id>>
<1>4. c[1] = a.ts /\ c[2] = a.id /\ c # <<>>
  BY <1>3
<1>. HIDE DEF c
<1>5. BeyondCursor(order, c, r) <=> Before("ts", order, a, r)
  BY <1>1, <1>2, <1>4 DEF BeyondCursor, Before
<1>. QED
  BY <1>5 DEF c

\* What a query leaves behind, with its page p of the rows R.
Ran(w, R, n, L, p) ==
  /\ stage[w] = "query"
  /\ stage' = [stage EXCEPT ![w] = IF n > offset[w] + L THEN "answered" ELSE "finished"]
  /\ got' = [got EXCEPT ![w] = got[w] \o p]
  /\ UNCHANGED <<query, win>>
  /\ p \in Seq(AnyRow)
  /\ Len(p) = IF n > offset[w] + L THEN L ELSE IF n > offset[w] THEN n - offset[w] ELSE 0
  /\ \A i \in 1..Len(p) :
       /\ offset[w] + i \in 1..n
       /\ p[i] = InTurn(R, query[w].sort, query[w].order)[offset[w] + i]

Onward(w, n, L, p) ==
  /\ cursor' = [cursor EXCEPT ![w] = IF query[w].page = "cursor" /\ n > offset[w] + L
                                     THEN <<p[L].ts, p[L].id>> ELSE <<>>]
  /\ offset' = [offset EXCEPT ![w] = IF query[w].page = "offset" /\ n > offset[w] + L
                                     THEN offset[w] + L ELSE 0]

Noted(w, wanted) ==
  LET first == cursor[w] = <<>> /\ offset[w] = 0 IN
  /\ steady' = [steady EXCEPT ![w] = IF first THEN wanted ELSE steady[w] \cap wanted]
  /\ all' = [all EXCEPT ![w] = IF first THEN wanted ELSE all[w]]
  /\ still' = [still EXCEPT ![w] = first \/ (still[w] /\ wanted = all[w])]

LEMMA QueryTyped ==
  ASSUME TableTyped, NEW w \in Walker
  PROVE  /\ ParsedQuery(query[w]) /\ query[w].sort \in SortColumn
         /\ query[w].page = "cursor" => query[w].sort = "ts"
         /\ query[w].page # "cursor" => query[w].page = "offset"
<1>1. ParsedQuery(query[w])
  BY PagingAssumption DEF TableTyped
<1>. QED
  BY <1>1 DEF ParsedQuery, SortColumn

LEMMA QueryRuns ==
  ASSUME TableTyped, WalkTyped, NEW w \in Walker, RunQuery(w),
         NEW wanted, wanted = Wanted(query[w], win[w]),
         NEW R, R = {r \in wanted : BeyondCursor(query[w].order, cursor[w], r)},
         NEW n, n = Cardinality(R), NEW L, L = Limit(query[w].limit)
  PROVE  /\ L \in Nat \ {0} /\ n \in Nat /\ Sortable(R) /\ Sortable(wanted)
         /\ \E p \in Seq(AnyRow) : Ran(w, R, n, L, p) /\ Onward(w, n, L, p)
         /\ Noted(w, wanted)
<1>. DEFINE q == query[w]
            res == Search(table, q, win[w], offset[w], cursor[w])
            p == res.rows
<1>1. /\ ParsedQuery(q) /\ Sortable(table) /\ offset[w] \in Nat
      /\ win[w].from \in Int /\ win[w].to \in Int
      /\ q.page = "cursor" => q.sort = "ts"
  BY QueryTyped DEF TableTyped, WalkTyped
<1>2. wanted = {r \in table : Matches(q.filter, win[w], r)}
  BY <1>1, FilterFinds
<1>3. R = Found(table, q, win[w], cursor[w])
  BY <1>2 DEF Found
<1>4. Sortable(wanted)
  <2>1. wanted \in SUBSET table /\ IsFiniteSet(table)
    BY <1>1, <1>2 DEF Sortable
  <2>2. IsFiniteSet(wanted)
    BY <2>1, FS_Subset
  <2>. QED
    BY <1>1, <2>1, <2>2 DEF Sortable
<1>5. /\ stage[w] = "query"
      /\ stage' = [stage EXCEPT ![w] = IF res.hasMore THEN "answered" ELSE "finished"]
      /\ cursor' = [cursor EXCEPT ![w] = IF q.page = "cursor" THEN res.nextCursor ELSE <<>>]
      /\ offset' = [offset EXCEPT ![w] = IF q.page = "offset" THEN res.nextOffset ELSE 0]
      /\ got' = [got EXCEPT ![w] = got[w] \o p]
      /\ UNCHANGED <<query, win>>
  BY DEF RunQuery
<1>6. Noted(w, wanted)
  BY DEF RunQuery, Noted, WalkTyped, TableTyped
<1>. DEFINE s == InTurn(R, q.sort, q.order)
<1>. HIDE DEF q, res, p, s
<1>7. /\ L \in Nat \ {0} /\ Sortable(R) /\ n \in Nat
      /\ p \in Seq(AnyRow)
      /\ Len(p) = IF n > offset[w] + L THEN L ELSE IF n > offset[w] THEN n - offset[w] ELSE 0
      /\ \A i \in 1..Len(p) : offset[w] + i \in 1..n /\ p[i] = s[offset[w] + i]
      /\ res.hasMore <=> n > offset[w] + L
      /\ res.nextOffset = IF n > offset[w] + L THEN offset[w] + L ELSE 0
      /\ res.nextCursor = IF n > offset[w] + L /\ q.sort = "ts" THEN <<p[L].ts, p[L].id>>
                          ELSE <<>>
  <2>1. /\ res = Search(table, q, win[w], offset[w], cursor[w]) /\ p = res.rows
        /\ s = InTurn(R, q.sort, q.order) /\ L = Limit(q.limit)
    BY DEF q, res, p, s
  <2>2. Sortable(table) /\ ParsedQuery(q) /\ offset[w] \in Nat
    BY <1>1
  <2>3. /\ L \in Nat \ {0} /\ Sortable(R) /\ n \in Nat
        /\ IsPage(res, q.sort, s, n, offset[w], L)
    BY <1>3, <2>1, <2>2, PageRows
  <2>. QED
    BY <2>1, <2>3 DEF IsPage
<1>8. Ran(w, R, n, L, p)
  BY <1>5, <1>7 DEF Ran, s, q
<1>9. Onward(w, n, L, p)
  BY <1>1, <1>5, <1>7 DEF Onward, q
<1>. QED
  BY <1>4, <1>6, <1>7, <1>8, <1>9


\* A page joins the rows that the client has.
LEMMA PageJoins ==
  ASSUME WalkTyped, NEW w \in Walker, NEW R, NEW n, NEW L, NEW p, Ran(w, R, n, L, p)
  PROVE  /\ got[w] \in Seq(AnyRow) /\ got'[w] \in Seq(AnyRow)
         /\ Len(got[w]) \in Nat /\ Len(p) \in Nat /\ Len(got'[w]) = Len(got[w]) + Len(p)
         /\ \A i \in 1..Len(got[w]) : got[w][i] \in AnyRow /\ got'[w][i] = got[w][i]
         /\ \A i \in 1..Len(p) : p[i] \in AnyRow /\ got'[w][Len(got[w]) + i] = p[i]
         /\ GotRows(w)' = GotRows(w) \cup {p[i] : i \in 1..Len(p)}
<1>. DEFINE g == got[w]  both == got'[w]
<1>1. g \in Seq(AnyRow) /\ p \in Seq(AnyRow) /\ both = g \o p
  BY DEF Ran, WalkTyped
<1>2. /\ GotRows(w)' = {both[i] : i \in 1..Len(both)} /\ GotRows(w) = {g[i] : i \in 1..Len(g)}
  BY DEF GotRows
<1>. HIDE DEF g, both
<1>3. Len(g) \in Nat /\ Len(p) \in Nat
  BY <1>1
<1>4. /\ both \in Seq(AnyRow) /\ Len(both) = Len(g) + Len(p)
      /\ \A i \in 1..(Len(g) + Len(p)) : both[i] = IF i <= Len(g) THEN g[i] ELSE p[i - Len(g)]
  BY <1>1, ConcatProperties
<1>5. \A i \in 1..Len(g) : i \in 1..Len(both) /\ g[i] \in AnyRow /\ both[i] = g[i]
  BY <1>1, <1>3, <1>4
<1>6. ASSUME NEW i \in 1..Len(p)
      PROVE  Len(g) + i \in 1..Len(both) /\ p[i] \in AnyRow /\ both[Len(g) + i] = p[i]
  <2>1. /\ Len(g) + i \in 1..(Len(g) + Len(p)) /\ ~(Len(g) + i <= Len(g))
        /\ (Len(g) + i) - Len(g) = i
    BY <1>3
  <2>2. both[Len(g) + i] = p[(Len(g) + i) - Len(g)]
    BY <1>4, <2>1
  <2>. QED
    BY <1>1, <1>4, <2>1, <2>2
<1>7. ASSUME NEW i \in 1..Len(both)
      PROVE  i \in 1..Len(g) \/ \E j \in 1..Len(p) : i = Len(g) + j
  <2>1. CASE i <= Len(g)
    BY <1>3, <2>1
  <2>2. CASE ~(i <= Len(g))
    <3>1. i - Len(g) \in 1..Len(p) /\ i = Len(g) + (i - Len(g))
      BY <1>3, <1>4, <2>2
    <3>. QED
      BY <3>1
  <2>. QED
    BY <2>1, <2>2
<1>8. GotRows(w)' = GotRows(w) \cup {p[i] : i \in 1..Len(p)}
  <2>1. ASSUME NEW i \in 1..Len(both)
        PROVE  both[i] \in GotRows(w) \cup {p[j] : j \in 1..Len(p)}
    <3>1. CASE i \in 1..Len(g)
      BY <1>2, <1>5, <3>1
    <3>2. ASSUME NEW j \in 1..Len(p), i = Len(g) + j
          PROVE  both[i] = p[j]
      BY <1>6, <3>2
    <3>. QED
      BY <1>7, <3>1, <3>2
  <2>2. \A i \in 1..Len(g) : g[i] \in GotRows(w)'
    BY <1>2, <1>5
  <2>3. \A i \in 1..Len(p) : p[i] \in GotRows(w)'
    BY <1>2, <1>6
  <2>. QED
    BY <1>2, <2>1, <2>2, <2>3
<1>9. /\ g \in Seq(AnyRow) /\ both \in Seq(AnyRow)
      /\ Len(g) \in Nat /\ Len(p) \in Nat /\ Len(both) = Len(g) + Len(p)
      /\ \A i \in 1..Len(g) : g[i] \in AnyRow /\ both[i] = g[i]
      /\ \A i \in 1..Len(p) : p[i] \in AnyRow /\ both[Len(g) + i] = p[i]
  BY <1>1, <1>3, <1>4, <1>5, <1>6
<1>. QED
  BY <1>8, <1>9 DEF g, both

\* One page of a walk by cursor: it starts behind the last row, and what is
\* behind the page's own last row is the rest.
LEMMA CursorRuns ==
  ASSUME TableTyped, SlotsCounted, WalkTyped, NEW w \in Walker, query[w].page = "cursor", CursorWalk(w),
         NEW wanted, Sortable(wanted),
         NEW R, R = {r \in wanted : BeyondCursor(query[w].order, cursor[w], r)},
         Sortable(R), NEW n, n = Cardinality(R), NEW L \in Nat \ {0},
         NEW p, Ran(w, R, n, L, p), Onward(w, n, L, p), Noted(w, wanted)
  PROVE  CursorWalk(w)'
<1>. DEFINE order == query[w].order
            g == got[w]
            both == got'[w]
            cur == cursor[w]
            s == InTurn(R, "ts", order)
            page == {p[i] : i \in 1..Len(p)}
            last == g[Len(g)]
<1>1. /\ query[w].sort = "ts" /\ "ts" \in SortColumn /\ offset[w] = 0 /\ InOrder(w, query[w])
      /\ IF cur = <<>> THEN g = <<>>
         ELSE /\ g # <<>> /\ cur = LastSeen(g)
              /\ \A r \in steady[w] : r \in GotRows(w) \/ BeyondCursor(order, cur, r)
              /\ still[w] => steady[w] = all[w] /\ GotRows(w) \subseteq all[w]
  BY QueryTyped DEF CursorWalk, Under, Ran, SortColumn
<1>2. /\ g \in Seq(AnyRow) /\ both \in Seq(AnyRow)
      /\ Len(g) \in Nat /\ Len(p) \in Nat /\ Len(both) = Len(g) + Len(p)
      /\ \A i \in 1..Len(g) : g[i] \in AnyRow /\ both[i] = g[i]
      /\ \A i \in 1..Len(p) : p[i] \in AnyRow /\ both[Len(g) + i] = p[i]
      /\ GotRows(w)' = GotRows(w) \cup page
  BY PageJoins
<1>3. /\ n \in Nat /\ \A i \in 1..n : s[i] \in R
      /\ \A i, j \in 1..n : i < j => Before("ts", order, s[i], s[j])
      /\ \A r \in R : \E i \in 1..n : s[i] = r
  <2>1. Enumerates(s, n, R, "ts", order)
    BY <1>1, Turns
  <2>. QED
    BY <2>1 DEF Enumerates
<1>4. /\ Len(p) = IF n > L THEN L ELSE n
      /\ \A i \in 1..Len(p) : i \in 1..n /\ p[i] = s[i]
  <2>1. Len(p) = IF n > 0 + L THEN L ELSE IF n > 0 THEN n - 0 ELSE 0
    BY <1>1 DEF Ran
  <2>2. \A i \in 1..Len(p) : 0 + i \in 1..n /\ p[i] = s[0 + i]
    BY <1>1 DEF Ran
  <2>. HIDE DEF s
  <2>. QED
    BY <1>2, <1>3, <2>1, <2>2
<1>5. query' = query /\ stage[w] = "query" /\ still[w] \in BOOLEAN
  BY DEF Ran, WalkTyped
<1>6. /\ cursor'[w] = IF n > L THEN <<p[L].ts, p[L].id>> ELSE <<>>
      /\ offset'[w] = 0
  BY <1>1, <1>3 DEF Onward, WalkTyped
<1>7. stage'[w] = IF n > L THEN "answered" ELSE "finished"
  BY <1>1, <1>3 DEF Ran, SlotsCounted, Client
<1>8. /\ steady'[w] = IF cur = <<>> THEN wanted ELSE steady[w] \cap wanted
      /\ all'[w] = IF cur = <<>> THEN wanted ELSE all[w]
      /\ still'[w] = (cur = <<>> \/ (still[w] /\ wanted = all[w]))
  BY <1>1 DEF Noted, TableTyped, WalkTyped
<1>9. cur # <<>> => g # <<>> /\ cur = <<last.ts, last.id>> /\ Len(g) >= 1 /\ last \in AnyRow
  <2>1. ASSUME g # <<>> PROVE Len(g) >= 1
    BY <1>2, <2>1, EmptySeq
  <2>. QED
    BY <1>1, <1>2, <2>1 DEF LastSeen
<1>10. R \subseteq AnyRow /\ wanted \subseteq AnyRow /\ R \subseteq wanted
  BY DEF Sortable
<1>11. ASSUME NEW r \in R, cur # <<>>
       PROVE  Before("ts", order, last, r)
  <2>1. BeyondCursor(order, cur, r)
    OBVIOUS
  <2>. HIDE DEF cur, last, order
  <2>. QED
    BY <1>9, <1>10, <1>11, <2>1, BeyondMeansBefore
<1>12. InOrder(w, query[w]) <=> \A i, j \in 1..Len(g) : i < j => Before("ts", order, g[i], g[j])
  BY <1>1 DEF InOrder
<1>13. InOrder(w, query[w])' <=>
         \A i, j \in 1..Len(both) : i < j => Before("ts", order, both[i], both[j])
  BY <1>1, <1>5 DEF InOrder
<1>14. CursorWalk(w)' <=>
         /\ offset'[w] = 0
         /\ InOrder(w, query[w])'
         /\ stage'[w] \in Under =>
              IF cursor'[w] = <<>> THEN both = <<>>
              ELSE /\ both # <<>> /\ cursor'[w] = LastSeen(both)
                   /\ \A r \in steady'[w] :
                        r \in GotRows(w)' \/ BeyondCursor(order, cursor'[w], r)
                   /\ still'[w] => steady'[w] = all'[w] /\ GotRows(w)' \subseteq all'[w]
         /\ stage'[w] = "finished" =>
              /\ steady'[w] \subseteq GotRows(w)'
              /\ still'[w] => steady'[w] = all'[w] /\ GotRows(w)' \subseteq all'[w]
  BY <1>5 DEF CursorWalk
<1>15. GotRows(w) = {g[i] : i \in 1..Len(g)}
  BY DEF GotRows
<1>. HIDE DEF order, g, both, cur, s, page, last
<1>16. \A i, j \in 1..Len(both) : i < j => Before("ts", order, both[i], both[j])
  <2>. SUFFICES ASSUME NEW i \in 1..Len(both), NEW j \in 1..Len(both), i < j
                PROVE  Before("ts", order, both[i], both[j])
    OBVIOUS
  <2>1. ASSUME NEW k \in 1..Len(both), ~(k <= Len(g))
        PROVE  k - Len(g) \in 1..Len(p) /\ both[k] = p[k - Len(g)]
    <3>1. k - Len(g) \in 1..Len(p) /\ k = Len(g) + (k - Len(g))
      BY <1>2, <2>1
    <3>. QED
      BY <1>2, <3>1
  <2>2. CASE j <= Len(g)
    <3>1. i \in 1..Len(g) /\ j \in 1..Len(g)
      BY <1>2, <2>2
    <3>. QED
      BY <1>1, <1>2, <1>12, <3>1
  <2>3. CASE ~(i <= Len(g))
    <3>. DEFINE k == i - Len(g)  m == j - Len(g)
    <3>1. ~(j <= Len(g)) /\ k < m
      BY <1>2, <2>3
    <3>2. k \in 1..Len(p) /\ m \in 1..Len(p) /\ both[i] = p[k] /\ both[j] = p[m]
      BY <2>1, <2>3, <3>1
    <3>. HIDE DEF k, m
    <3>. QED
      BY <1>3, <1>4, <3>1, <3>2
  <2>4. CASE i <= Len(g) /\ ~(j <= Len(g))
    <3>1. i \in 1..Len(g) /\ both[i] = g[i] /\ g[i] \in AnyRow
      BY <1>2, <2>4
    <3>2. PICK m \in 1..Len(p) : both[j] = p[m]
      BY <2>1, <2>4
    <3>3. p[m] \in R /\ p[m] \in AnyRow
      BY <1>3, <1>4, <1>10
    <3>4. cur # <<>>
      <4>1. g # <<>>
        BY <1>2, <3>1, EmptySeq
      <4>. QED
        BY <1>1, <4>1
    <3>5. Before("ts", order, last, p[m]) /\ Len(g) \in 1..Len(g) /\ last \in AnyRow
      BY <1>2, <1>9, <1>11, <3>3, <3>4
    <3>6. CASE i = Len(g)
      BY <3>1, <3>2, <3>5, <3>6 DEF last
    <3>7. CASE i # Len(g)
      <4>1. Before("ts", order, g[i], last)
        <5>1. i < Len(g)
          BY <1>2, <3>1, <3>7
        <5>. QED
          BY <1>1, <1>12, <3>1, <3>5, <5>1 DEF last
      <4>2. Before("ts", order, g[i], p[m])
        BY <1>1, <3>1, <3>3, <3>5, <4>1, BeforeIsTransitive
      <4>. QED
        BY <3>1, <3>2, <4>2
    <3>. QED
      BY <3>6, <3>7
  <2>. QED
    BY <2>2, <2>3, <2>4
\* The rows of R are in the page or behind its last one.
<1>17. /\ page \subseteq R
       /\ n > L => p[L] \in R /\ both # <<>> /\ LastSeen(both) = <<p[L].ts, p[L].id>>
  <2>1. page \subseteq R
    BY <1>3, <1>4 DEF page
  <2>2. ASSUME n > L
        PROVE  p[L] \in R /\ both # <<>> /\ LastSeen(both) = <<p[L].ts, p[L].id>>
    <3>1. Len(p) = L /\ L \in 1..Len(p)
      BY <1>4, <2>2
    <3>2. p[L] \in R
      BY <1>3, <1>4, <3>1
    <3>3. both[Len(both)] = p[L] /\ Len(both) # 0
      BY <1>2, <3>1
    <3>4. both # <<>>
      BY <1>2, <3>3, EmptySeq
    <3>. QED
      BY <3>2, <3>3, <3>4 DEF LastSeen
  <2>. QED
    BY <2>1, <2>2
<1>18. ASSUME NEW r \in R
       PROVE  r \in page \/ (n > L /\ BeyondCursor(order, <<p[L].ts, p[L].id>>, r))
  <2>1. PICK i \in 1..n : s[i] = r
    BY <1>3
  <2>2. CASE i <= L
    <3>1. i \in 1..Len(p)
      BY <1>3, <1>4, <2>2
    <3>. QED
      BY <1>4, <2>1, <3>1 DEF page
  <2>3. CASE ~(i <= L)
    <3>1. n > L /\ L \in 1..n /\ L < i /\ L \in 1..Len(p)
      BY <1>3, <1>4, <2>3
    <3>2. Before("ts", order, p[L], r)
      BY <1>3, <1>4, <2>1, <3>1
    <3>3. p[L] \in AnyRow /\ r \in AnyRow
      BY <1>2, <1>10, <3>1
    <3>. QED
      BY <3>1, <3>2, <3>3, BeyondMeansBefore
  <2>. QED
    BY <2>2, <2>3
<1>19. ASSUME NEW r \in steady'[w]
       PROVE  r \in GotRows(w) \/ r \in R
  <2>1. CASE cur = <<>>
    <3>1. BeyondCursor(order, cur, r)
      BY <2>1 DEF BeyondCursor
    <3>. QED
      BY <1>8, <1>19, <2>1, <3>1 DEF order, cur
  <2>2. CASE cur # <<>>
    <3>1. r \in wanted /\ (r \in GotRows(w) \/ BeyondCursor(order, cur, r))
      BY <1>1, <1>8, <1>19, <2>2
    <3>. QED
      BY <3>1 DEF order, cur
  <2>. QED
    BY <2>1, <2>2
<1>20. still'[w] => steady'[w] = all'[w] /\ GotRows(w)' \subseteq all'[w]
  <2>1. CASE cur = <<>>
    <3>1. GotRows(w) = {}
      <4>1. g = <<>> /\ Len(g) = 0
        BY <1>1, <1>2, <2>1, EmptySeq
      <4>. QED
        BY <1>15, <4>1
    <3>. QED
      BY <1>2, <1>8, <1>10, <1>17, <2>1, <3>1
  <2>2. CASE cur # <<>>
    BY <1>1, <1>2, <1>8, <1>10, <1>17, <2>2
  <2>. QED
    BY <2>1, <2>2
<1>21. CASE n > L
  <2>1. cursor'[w] = <<p[L].ts, p[L].id>> /\ cursor'[w] # <<>> /\ stage'[w] = "answered"
    BY <1>6, <1>7, <1>21
  <2>2. \A r \in steady'[w] : r \in GotRows(w)' \/ BeyondCursor(order, cursor'[w], r)
    BY <1>2, <1>18, <1>19, <2>1
  <2>. QED
    BY <1>6, <1>13, <1>14, <1>16, <1>17, <1>20, <1>21, <2>1, <2>2
<1>22. CASE ~(n > L)
  <2>1. stage'[w] = "finished" /\ "finished" \notin Under
    BY <1>7, <1>22 DEF Under
  <2>2. steady'[w] \subseteq GotRows(w)'
    BY <1>2, <1>18, <1>19, <1>22
  <2>. QED
    BY <1>6, <1>13, <1>14, <1>16, <1>20, <2>1, <2>2
<1>. QED
  BY <1>21, <1>22


\* One page of a walk by offset: while the rows stay the same it is the next
\* part of the whole.
LEMMA OffsetRuns ==
  ASSUME TableTyped, SlotsCounted, WalkTyped, NEW w \in Walker, query[w].page # "cursor",
         OffsetWalk(w), NEW wanted, Sortable(wanted),
         NEW R, R = {r \in wanted : BeyondCursor(query[w].order, cursor[w], r)},
         NEW n, n = Cardinality(R), NEW L \in Nat \ {0},
         NEW p, Ran(w, R, n, L, p), Onward(w, n, L, p), Noted(w, wanted)
  PROVE  OffsetWalk(w)'
<1>. DEFINE sort == query[w].sort
            order == query[w].order
            g == got[w]
            both == got'[w]
            o == offset[w]
            s == InTurn(wanted, sort, order)
<1>1. /\ cursor[w] = <<>> /\ o = Len(g) /\ o \in Nat
      /\ query[w].page = "offset" /\ sort \in SortColumn
      /\ still[w] =>
           /\ Len(g) <= Cardinality(all[w])
           /\ \A i \in 1..Len(g) : g[i] = InTurn(all[w], sort, order)[i]
  BY QueryTyped DEF OffsetWalk, Under, Ran, WalkTyped
<1>2. R = wanted
  <2>1. \A r \in wanted : BeyondCursor(query[w].order, cursor[w], r)
    BY <1>1 DEF BeyondCursor
  <2>. QED
    BY <2>1
<1>3. n \in Nat /\ n = Cardinality(wanted)
  BY <1>2, FS_CardinalityType DEF Sortable
<1>4. /\ g \in Seq(AnyRow) /\ both \in Seq(AnyRow)
      /\ Len(g) \in Nat /\ Len(p) \in Nat /\ Len(both) = Len(g) + Len(p)
      /\ \A i \in 1..Len(g) : g[i] \in AnyRow /\ both[i] = g[i]
      /\ \A i \in 1..Len(p) : p[i] \in AnyRow /\ both[Len(g) + i] = p[i]
  BY PageJoins
<1>5. /\ Len(p) = IF n > o + L THEN L ELSE IF n > o THEN n - o ELSE 0
      /\ \A i \in 1..Len(p) : o + i \in 1..n /\ p[i] = s[o + i]
  BY <1>2 DEF Ran
<1>6. query' = query /\ stage[w] = "query" /\ still[w] \in BOOLEAN
  BY DEF Ran, WalkTyped
<1>7. /\ cursor'[w] = <<>>
      /\ offset'[w] = IF n > o + L THEN o + L ELSE 0
  BY <1>1 DEF Onward, WalkTyped
<1>8. stage'[w] = IF n > o + L THEN "answered" ELSE "finished"
  BY DEF Ran, SlotsCounted, Client
<1>9. /\ all'[w] = IF o = 0 THEN wanted ELSE all[w]
      /\ still'[w] = (o = 0 \/ (still[w] /\ wanted = all[w]))
  BY <1>1 DEF Noted, TableTyped, WalkTyped
<1>10. OffsetWalk(w)' <=>
         /\ cursor'[w] = <<>>
         /\ stage'[w] \in Under => offset'[w] = Len(both)
         /\ still'[w] =>
              /\ Len(both) <= Cardinality(all'[w])
              /\ \A i \in 1..Len(both) : both[i] = InTurn(all'[w], sort, order)[i]
              /\ stage'[w] = "finished" => Len(both) = Cardinality(all'[w])
  BY <1>6 DEF OffsetWalk
<1>. HIDE DEF sort, order, g, both, o, s
<1>11. stage'[w] \in Under => offset'[w] = Len(both)
  <2>1. CASE n > o + L
    BY <1>1, <1>4, <1>5, <1>7, <2>1
  <2>2. CASE ~(n > o + L)
    BY <1>8, <2>2 DEF Under
  <2>. QED
    BY <2>1, <2>2
<1>12. ASSUME still'[w]
       PROVE  /\ all'[w] = wanted
              /\ o <= n /\ \A i \in 1..Len(g) : g[i] = s[i]
  <2>1. CASE o = 0
    <3>1. Len(g) = 0
      BY <1>1, <2>1
    <3>. QED
      BY <1>3, <1>9, <2>1, <3>1
  <2>2. CASE o # 0
    <3>1. still[w] /\ wanted = all[w] /\ all'[w] = wanted
      BY <1>9, <1>12, <2>2
    <3>. QED
      BY <1>1, <1>3, <3>1 DEF s
  <2>. QED
    BY <2>1, <2>2
<1>13. ASSUME still'[w], NEW i \in 1..Len(both)
       PROVE  both[i] = s[i]
  <2>1. CASE i <= Len(g)
    <3>1. i \in 1..Len(g)
      BY <1>4, <2>1
    <3>. QED
      BY <1>4, <1>12, <1>13, <3>1
  <2>2. CASE ~(i <= Len(g))
    <3>. DEFINE j == i - Len(g)
    <3>1. j \in 1..Len(p) /\ i = Len(g) + j
      BY <1>4, <2>2
    <3>. HIDE DEF j
    <3>2. both[i] = p[j]
      BY <1>4, <3>1
    <3>3. p[j] = s[o + j] /\ o = Len(g)
      BY <1>1, <1>5, <3>1
    <3>. QED
      BY <3>1, <3>2, <3>3
  <2>. QED
    BY <2>1, <2>2
<1>14. ASSUME still'[w]
       PROVE  Len(both) <= n /\ (stage'[w] = "finished" => Len(both) = n)
  BY <1>1, <1>3, <1>4, <1>5, <1>8, <1>12, <1>14
<1>15. ASSUME still'[w]
       PROVE  /\ Len(both) <= Cardinality(all'[w])
              /\ \A i \in 1..Len(both) : both[i] = InTurn(all'[w], sort, order)[i]
              /\ stage'[w] = "finished" => Len(both) = Cardinality(all'[w])
  BY <1>3, <1>12, <1>13, <1>14, <1>15 DEF s
<1>. QED
  BY <1>7, <1>10, <1>11, <1>15

\* A step that leaves the walk of w alone and does not let it go on.
LEMMA WalkStays ==
  ASSUME NEW w, Walks(w),
         query'[w] = query[w], cursor'[w] = cursor[w], offset'[w] = offset[w],
         got'[w] = got[w], steady'[w] = steady[w], all'[w] = all[w], still'[w] = still[w],
         stage'[w] \in Under => stage[w] \in Under,
         stage'[w] = "finished" => stage[w] = "finished"
  PROVE  Walks(w)'
<1>1. GotRows(w)' = GotRows(w) /\ InOrder(w, query[w])' = InOrder(w, query[w])
  BY DEF GotRows, InOrder
<1>2. CASE query[w].page = "cursor"
  <2>1. CursorWalk(w)
    BY <1>2 DEF Walks
  <2>2. CursorWalk(w)'
    BY <1>1, <2>1 DEF CursorWalk
  <2>. QED
    BY <1>2, <2>2 DEF Walks
<1>3. CASE query[w].page # "cursor"
  <2>1. OffsetWalk(w)
    BY <1>3 DEF Walks
  <2>2. OffsetWalk(w)'
    BY <2>1 DEF OffsetWalk
  <2>. QED
    BY <1>3, <2>2 DEF Walks
<1>. QED
  BY <1>2, <1>3


LEMMA WalkTypeStep ==
  ASSUME TableTyped, WalkTyped, [PagingNext]_pagingVars
  PROVE  WalkTyped'
<1>1. ASSUME NEW w \in Walker, Ask(w)
      PROVE  WalkTyped'
  <2>1. Window(query[w].filter, now) \in [ok : BOOLEAN, from : Int, to : Int]
    <3>1. now \in Int
      BY PagingAssumption DEF TableTyped
    <3>. QED
      BY <3>1, QueryTyped, WindowTyped
  <2>. QED
    BY <1>1, <2>1 DEF Ask, walk, WalkTyped
<1>2. ASSUME NEW w \in Walker, RunQuery(w)
      PROVE  WalkTyped'
  <2>. DEFINE wanted == Wanted(query[w], win[w])
              R == {r \in wanted : BeyondCursor(query[w].order, cursor[w], r)}
              n == Cardinality(R)
              L == Limit(query[w].limit)
  <2>1. /\ L \in Nat \ {0} /\ n \in Nat /\ Sortable(R) /\ Sortable(wanted)
        /\ \E p \in Seq(AnyRow) : Ran(w, R, n, L, p) /\ Onward(w, n, L, p)
        /\ Noted(w, wanted)
    BY <1>2, QueryRuns
  <2>. HIDE DEF wanted, R, n, L
  <2>2. PICK p \in Seq(AnyRow) : Ran(w, R, n, L, p) /\ Onward(w, n, L, p)
    BY <2>1
  <2>3. got' \in [Walker -> Seq(AnyRow)] /\ win' = win
    <3>1. got'[w] \in Seq(AnyRow)
      BY <2>2, PageJoins
    <3>. QED
      BY <2>2, <3>1 DEF Ran, WalkTyped
  <2>4. offset' \in [Walker -> Nat]
    BY <2>1, <2>2 DEF Onward, WalkTyped
  <2>5. cursor' \in [Walker -> {<<>>} \cup (Int \X Nat)]
    <3>1. ASSUME n > offset[w] + L PROVE <<p[L].ts, p[L].id>> \in Int \X Nat
      <4>1. L \in 1..Len(p)
        BY <2>1, <2>2, <3>1 DEF Ran
      <4>2. p[L] \in AnyRow
        BY <4>1
      <4>. QED
        BY <4>2, RowFields
    <3>. QED
      BY <2>2, <3>1 DEF Onward, WalkTyped
  <2>6. still' \in [Walker -> BOOLEAN]
    <3>. DEFINE first == cursor[w] = <<>> /\ offset[w] = 0
                b == first \/ (still[w] /\ wanted = all[w])
    <3>1. b \in BOOLEAN
      OBVIOUS
    <3>2. still' = [still EXCEPT ![w] = b]
      BY <2>1 DEF Noted
    <3>. HIDE DEF b
    <3>. QED
      BY <3>1, <3>2 DEF WalkTyped
  <2>7. \A v \in Walker : Sortable(all'[v])
    BY <2>1 DEF Noted, WalkTyped, TableTyped
  <2>. QED
    BY <2>3, <2>4, <2>5, <2>6, <2>7 DEF WalkTyped
<1>3. ASSUME UNCHANGED <<win, walk>>
      PROVE  WalkTyped'
  BY <1>3 DEF walk, WalkTyped
<1>. QED
  BY <1>1, <1>2, <1>3
  DEF PagingNext, Insert, Purge, Tick, AskOnce, AnswerOnce, Request, GetSlot, WaitExpires,
      QueryFails, ClientGone, Release, pagingVars

LEMMA WalksStep ==
  ASSUME TableTyped, SlotsCounted, WalkTyped, \A w \in Walker : Walks(w),
         [PagingNext]_pagingVars
  PROVE  \A w \in Walker : Walks(w)'
<1>. SUFFICES ASSUME NEW v \in Walker PROVE Walks(v)'
  OBVIOUS
<1>0. Walks(v) /\ v \in Client /\ stage \in [Client -> RequestPlace]
  BY DEF Client, SlotsCounted
<1>1. ASSUME UNCHANGED walk, stage' = stage
      PROVE  Walks(v)'
  BY <1>0, <1>1, WalkStays DEF walk
<1>2. ASSUME UNCHANGED walk, NEW w \in Client, NEW place, stage' = [stage EXCEPT ![w] = place],
             place \in Under => stage[w] \in Under, place # "finished"
      PROVE  Walks(v)'
  <2>1. /\ stage'[v] \in Under => stage[v] \in Under
        /\ stage'[v] = "finished" => stage[v] = "finished"
    BY <1>0, <1>2
  <2>. QED
    BY <1>0, <1>2, <2>1, WalkStays DEF walk
<1>3. ASSUME NEW w \in Client, stage[w] = "idle", Admit(w), UNCHANGED walk
      PROVE  Walks(v)'
  <2>1. PICK place \in {"query", "wait"} : stage' = [stage EXCEPT ![w] = place]
    BY <1>3 DEF Admit
  <2>. QED
    BY <1>2, <1>3, <2>1 DEF Under
<1>4. ASSUME NEW w \in Client, Request(w)
      PROVE  Walks(v)'
  <2>1. UNCHANGED walk
    BY <1>4 DEF Request, GetSlot, WaitExpires, QueryFails, ClientGone, Release
  <2>2. /\ GetSlot(w) => stage' = [stage EXCEPT ![w] = "query"] /\ stage[w] = "wait"
        /\ WaitExpires(w) => stage' = [stage EXCEPT ![w] = "idle"] /\ stage[w] = "wait"
        /\ QueryFails(w) => stage' = [stage EXCEPT ![w] = "idle"] /\ stage[w] = "query"
    BY DEF GetSlot, WaitExpires, QueryFails
  <2>3. ASSUME ClientGone(w)
        PROVE  \E place \in {"idle", "done"} :
                 stage' = [stage EXCEPT ![w] = place] /\ stage[w] \in {"wait", "query"}
    BY <2>3 DEF ClientGone
  <2>4. ASSUME Release(w)
        PROVE  \/ stage' = [stage EXCEPT ![w] = "idle"] /\ stage[w] = "answered"
               \/ stage' = [stage EXCEPT ![w] = "done"]
    <3>1. CASE stage[w] = "answered"
      BY <2>4, <3>1 DEF Release
    <3>2. CASE stage[w] # "answered"
      BY <2>4, <3>2 DEF Release
    <3>. QED
      BY <3>1, <3>2
  <2>. QED
    BY <1>2, <1>4, <2>1, <2>2, <2>3, <2>4 DEF Request, Under
<1>5. ASSUME NEW w \in Walker, RunQuery(w)
      PROVE  Walks(v)'
  <2>. DEFINE wanted == Wanted(query[w], win[w])
              R == {r \in wanted : BeyondCursor(query[w].order, cursor[w], r)}
              n == Cardinality(R)
              L == Limit(query[w].limit)
  <2>1. /\ L \in Nat \ {0} /\ n \in Nat /\ Sortable(R) /\ Sortable(wanted)
        /\ \E p \in Seq(AnyRow) : Ran(w, R, n, L, p) /\ Onward(w, n, L, p)
        /\ Noted(w, wanted)
    BY <1>5, QueryRuns
  <2>2. R = {r \in wanted : BeyondCursor(query[w].order, cursor[w], r)} /\ n = Cardinality(R)
    OBVIOUS
  <2>. HIDE DEF wanted, R, n, L
  <2>3. PICK p \in Seq(AnyRow) : Ran(w, R, n, L, p) /\ Onward(w, n, L, p)
    BY <2>1
  <2>4. CASE v # w
    <3>1. /\ query'[v] = query[v] /\ cursor'[v] = cursor[v] /\ offset'[v] = offset[v]
          /\ got'[v] = got[v] /\ steady'[v] = steady[v] /\ all'[v] = all[v]
          /\ still'[v] = still[v] /\ stage'[v] = stage[v]
      BY <1>0, <2>1, <2>3, <2>4 DEF Ran, Onward, Noted, WalkTyped, TableTyped
    <3>. QED
      BY <1>0, <3>1, WalkStays
  <2>5. CASE v = w /\ query[w].page = "cursor"
    <3>1. CursorWalk(w) /\ query' = query
      BY <1>0, <2>3, <2>5 DEF Walks, Ran
    <3>2. CursorWalk(w)'
      BY <2>1, <2>2, <2>3, <2>5, <3>1, CursorRuns
    <3>. QED
      BY <2>5, <3>1, <3>2 DEF Walks
  <2>6. CASE v = w /\ query[w].page # "cursor"
    <3>1. OffsetWalk(w) /\ query' = query
      BY <1>0, <2>3, <2>6 DEF Walks, Ran
    <3>2. OffsetWalk(w)'
      BY <2>1, <2>2, <2>3, <2>6, <3>1, OffsetRuns
    <3>. QED
      BY <2>6, <3>1, <3>2 DEF Walks
  <2>. QED
    BY <2>4, <2>5, <2>6
<1>6. ASSUME NEW w \in Rival, AnswerOnce(w)
      PROVE  Walks(v)'
  BY <1>2, <1>6 DEF AnswerOnce, Client, Under
<1>7. ASSUME NEW w \in Client, Ask(w) \/ AskOnce(w)
      PROVE  Walks(v)'
  BY <1>3, <1>7 DEF Ask, AskOnce
<1>8. Walker \subseteq Client /\ Rival \subseteq Client
  BY DEF Client
<1>9. ASSUME Purge \/ Tick \/ UNCHANGED pagingVars
      PROVE  Walks(v)'
  BY <1>1, <1>9 DEF Purge, Tick, pagingVars
<1>10. ASSUME NEW k \in Kinds, NEW ts, Insert(k, ts)
       PROVE  Walks(v)'
  BY <1>1, <1>10 DEF Insert
<1>. QED
  BY <1>4, <1>5, <1>6, <1>7, <1>8, <1>9, <1>10 DEF PagingNext

LEMMA WalksStart == PagingInit => WalkTyped /\ \A w \in Walker : Walks(w)
<1>. SUFFICES ASSUME PagingInit PROVE WalkTyped /\ \A w \in Walker : Walks(w)
  OBVIOUS
<1>1. WalkTyped
  <2>1. NoWindow \in [ok : BOOLEAN, from : Int, to : Int] /\ <<>> \in Seq(AnyRow)
    BY DEF NoWindow
  <2>2. Sortable({})
    BY FS_EmptySet DEF Sortable
  <2>. QED
    BY <2>1, <2>2 DEF PagingInit, WalkTyped
<1>2. ASSUME NEW w \in Walker
      PROVE  Walks(w)
  <2>1. /\ offset[w] = 0 /\ cursor[w] = <<>> /\ got[w] = <<>> /\ all[w] = {}
        /\ stage[w] # "finished"
    BY <1>2 DEF PagingInit, Client
  <2>2. Len(got[w]) = 0 /\ Cardinality(all[w]) = 0
    BY <2>1, FS_EmptySet
  <2>3. CursorWalk(w)
    BY <2>1, <2>2 DEF CursorWalk, InOrder
  <2>4. OffsetWalk(w)
    BY <2>1, <2>2 DEF OffsetWalk
  <2>. QED
    BY <2>3, <2>4 DEF Walks
<1>. QED
  BY <1>1, <1>2

\* A walk that stands where its places say delivers what is promised.
LEMMA WalksDeliver ==
  ASSUME TableTyped, WalkTyped, \A w \in Walker : Walks(w)
  PROVE  WalkIsExact
<1>. SUFFICES ASSUME NEW w \in Walker
              PROVE  LET q == query[w] IN
                       /\ q.page = "cursor" \/ still[w] => InOrder(w, q)
                       /\ stage[w] = "finished" =>
                            /\ q.page = "cursor" => steady[w] \subseteq GotRows(w)
                            /\ still[w] => GotRows(w) = all[w]
  BY DEF WalkIsExact
<1>1. CASE query[w].page = "cursor"
  <2>1. CursorWalk(w)
    BY <1>1 DEF Walks
  <2>. QED
    BY <1>1, <2>1 DEF CursorWalk
<1>2. CASE query[w].page # "cursor"
  <2>. DEFINE s == InTurn(all[w], query[w].sort, query[w].order)
              n == Cardinality(all[w])
              g == got[w]
  <2>1. OffsetWalk(w)
    BY <1>2 DEF Walks
  <2>2. Enumerates(s, n, all[w], query[w].sort, query[w].order)
    BY QueryTyped, Turns DEF WalkTyped
  <2>3. /\ still[w] => /\ Len(g) <= n /\ \A i \in 1..Len(g) : g[i] = s[i]
                       /\ stage[w] = "finished" => Len(g) = n
        /\ GotRows(w) = {g[i] : i \in 1..Len(g)} /\ Len(g) \in Nat
        /\ InOrder(w, query[w]) <=>
             \A i, j \in 1..Len(g) : i < j => Before(query[w].sort, query[w].order, g[i], g[j])
    BY <2>1 DEF OffsetWalk, GotRows, WalkTyped, InOrder
  <2>. HIDE DEF s, n, g
  <2>4. ASSUME still[w]
        PROVE  InOrder(w, query[w])
    <3>1. \A i \in 1..Len(g) : i \in 1..n /\ g[i] = s[i]
      BY <2>2, <2>3, <2>4 DEF Enumerates
    <3>. QED
      BY <2>2, <2>3, <3>1 DEF Enumerates
  <2>5. ASSUME still[w], stage[w] = "finished"
        PROVE  GotRows(w) = all[w]
    BY <2>2, <2>3, <2>5 DEF Enumerates
  <2>. QED
    BY <1>2, <2>4, <2>5
<1>. QED
  BY <1>1, <1>2

\* A client that follows the cursor gets its rows in order, none twice and
\* every one that was there for all of its pages, whatever is inserted late,
\* purged or given a used id in between; one that counts an offset gets the
\* same when the rows stay (Search, search.go).
THEOREM WalkDelivers == PagingSpec => []WalkIsExact
<1>. DEFINE Inv == TableTyped /\ SlotsCounted /\ WalkTyped /\ \A w \in Walker : Walks(w)
<1>1. PagingInit => Inv
  BY PagingStarts, WalksStart
<1>2. Inv /\ [PagingNext]_pagingVars => Inv'
  <2>. SUFFICES ASSUME Inv, [PagingNext]_pagingVars PROVE Inv'
    OBVIOUS
  <2>1. TableTyped' /\ SlotsCounted'
    BY TableStep, SlotsStep
  <2>2. WalkTyped'
    BY WalkTypeStep
  <2>3. \A w \in Walker : Walks(w)'
    BY WalksStep
  <2>. QED
    BY <2>1, <2>2, <2>3
<1>3. Inv => WalkIsExact
  BY WalksDeliver
<1>. HIDE DEF Inv
<1>. QED
  BY <1>1, <1>2, <1>3, PTL DEF PagingSpec

-----------------------------------------------------------------------------
(* Adding up the series of a chart.                                        *)

\* Entry b of each count is the number of the things in X that have its key.
Counts(count, b, D, X, key) ==
  /\ \A x \in X : key[x] \in D
  /\ \A k \in D : count[k][b] = Cardinality({x \in X : key[x] = k})

\* Counts of disjoint sets of things add up to the count of all of them: the
\* sum is what its definition says (a function that meets it is the number of
\* things with one of the keys, and there is no other).
LEMMA TotalCounts ==
  ASSUME NEW X, IsFiniteSet(X), NEW D, IsFiniteSet(D), NEW key, NEW count, NEW b,
         Counts(count, b, D, X, key)
  PROVE  Total(count, D, b) = Cardinality(X)
<1>. DEFINE First(S) == CHOOSE k \in S : TRUE
            IsSum(f) == f = [S \in SUBSET D |->
              IF S = {} THEN 0 ELSE count[First(S)][b] + f[S \ {First(S)}]]
            Having(S) == {x \in X : key[x] \in S}
            g == [S \in SUBSET D |-> Cardinality(Having(S))]
            sum == CHOOSE f : IsSum(f)
<1>. USE DEF Counts
<1>1. Total(count, D, b) = sum[D]
  BY DEF Total
<1>2. ASSUME NEW S
      PROVE  IsFiniteSet(Having(S)) /\ Cardinality(Having(S)) \in Nat
  <2>1. Having(S) \in SUBSET X
    OBVIOUS
  <2>. HIDE DEF Having
  <2>. QED
    BY <2>1, FS_Subset, FS_CardinalityType
<1>3. Having({}) = {} /\ Having(D) = X
  OBVIOUS
<1>4. Cardinality(Having({})) = 0
  BY <1>3, FS_EmptySet
<1>5. ASSUME NEW S \in SUBSET D, S # {}
      PROVE  /\ First(S) \in S
             /\ Cardinality(Having(S)) = count[First(S)][b] + Cardinality(Having(S \ {First(S)}))
  <2>. DEFINE k == First(S)
              T == Having(S \ {k})
              U == {x \in X : key[x] = k}
  <2>1. k \in S
    BY <1>5
  <2>. HIDE DEF k
  <2>2. Having(S) = T \cup U /\ T \cap U = {} /\ U \in SUBSET X
    BY <2>1
  <2>3. IsFiniteSet(T) /\ IsFiniteSet(U) /\ Cardinality(T) \in Nat /\ Cardinality(U) \in Nat
    <3>1. IsFiniteSet(T) /\ Cardinality(T) \in Nat
      BY <1>2
    <3>. HIDE DEF U, T
    <3>. QED
      BY <2>2, <3>1, FS_Subset, FS_CardinalityType
  <2>4. count[k][b] = Cardinality(U)
    BY <2>1
  <2>. HIDE DEF T, U, Having
  <2>5. Cardinality(T \cup U) = Cardinality(T) + Cardinality(U) - Cardinality({})
    BY <2>2, <2>3, FS_Union
  <2>6. Cardinality(Having(S)) = Cardinality(U) + Cardinality(T)
    <3>1. Cardinality({}) = 0
      BY FS_EmptySet
    <3>. QED
      BY <2>2, <2>3, <2>5, <3>1
  <2>. QED
    BY <2>1, <2>4, <2>6 DEF T, k
<1>. HIDE DEF First, Having
<1>6. IsSum(g)
  <2>1. \A S \in SUBSET D : g[S] = Cardinality(Having(S)) /\ S \ {First(S)} \in SUBSET D
    OBVIOUS
  <2>2. \A S \in SUBSET D :
          Cardinality(Having(S)) = IF S = {} THEN 0 ELSE count[First(S)][b] + g[S \ {First(S)}]
    BY <1>4, <1>5, <2>1
  <2>. QED
    BY <2>2
<1>7. IsSum(sum)
  <2>. HIDE DEF IsSum, g
  <2>. QED
    BY <1>6
<1>. HIDE DEF sum, g
<1>8. \A S \in SUBSET D :
        sum[S] = IF S = {} THEN 0 ELSE count[First(S)][b] + sum[S \ {First(S)}]
  BY <1>7
<1>. DEFINE Wrong == {S \in FiniteSubsetsOf(D) : sum[S] # Cardinality(Having(S))}
<1>9. Wrong = {}
  <2>. SUFFICES ASSUME Wrong # {} PROVE FALSE
    OBVIOUS
  <2>1. PICK S \in Wrong : \A U \in Wrong : ~(<<U, S>> \in StrictSubsetOrdering(D))
    <3>1. Wrong \subseteq FiniteSubsetsOf(D)
      OBVIOUS
    <3>2. IsWellFoundedOn(StrictSubsetOrdering(D), FiniteSubsetsOf(D))
      BY FS_StrictSubsetOrderingWellFounded
    <3>. HIDE DEF Wrong
    <3>. QED
      BY <3>1, <3>2, WFMin
  <2>2. S \in SUBSET D /\ IsFiniteSet(S) /\ sum[S] # Cardinality(Having(S))
    BY DEF FiniteSubsetsOf
  <2>3. S # {}
    BY <1>4, <1>8, <2>2
  <2>. DEFINE U == S \ {First(S)}
  <2>4. U \in FiniteSubsetsOf(D) /\ <<U, S>> \in StrictSubsetOrdering(D)
    BY <1>5, <2>2, <2>3, FS_RemoveElement DEF FiniteSubsetsOf, StrictSubsetOrdering
  <2>5. sum[U] = Cardinality(Having(U))
    BY <2>1, <2>4
  <2>. QED
    BY <1>5, <1>8, <2>2, <2>3, <2>5
<1>10. D \in FiniteSubsetsOf(D)
  BY DEF FiniteSubsetsOf
<1>. QED
  BY <1>1, <1>3, <1>9, <1>10

Weight(rows, k) == Cardinality({r \in rows : r.band = k})

\* The bands of a chart in the order of their weight, and of their name.
Heavier(rows, B, k) ==
  {j \in B : \/ Weight(rows, j) > Weight(rows, k)
             \/ Weight(rows, j) = Weight(rows, k) /\ j < k}

ByWeight(rows, B) ==
  [i \in 1..Cardinality(B) |-> CHOOSE k \in B : Cardinality(Heavier(rows, B, k)) = i - 1]

LEMMA BandsRanked ==
  ASSUME NEW rows \in SUBSET AnyRow, IsFiniteSet(rows), NEW B, B = {r.band : r \in rows},
         NEW n, n = Cardinality(B), NEW s, s = ByWeight(rows, B)
  PROVE  B \in SUBSET Nat /\ IsFiniteSet(B) /\ n \in Nat /\ s \in [1..n -> B]
<1>. DEFINE R == {p \in B \X B : \/ Weight(rows, p[1]) > Weight(rows, p[2])
                                 \/ Weight(rows, p[1]) = Weight(rows, p[2]) /\ p[1] < p[2]}
<1>1. B \in SUBSET Nat /\ IsFiniteSet(B) /\ n \in Nat
  <2>. DEFINE band == [r \in rows |-> r.band]
  <2>1. band \in Surjection(rows, B) /\ B \in SUBSET Nat
    BY RowFields DEF Surjection
  <2>. HIDE DEF band
  <2>. QED
    BY <2>1, FS_Surjection, FS_CardinalityType
<1>2. \A k \in B : Weight(rows, k) \in Int /\ k \in Int
  <2>1. ASSUME NEW k \in B PROVE Cardinality({r \in rows : r.band = k}) \in Nat
    <3>. DEFINE S == {r \in rows : r.band = k}
    <3>1. S \in SUBSET rows
      OBVIOUS
    <3>. HIDE DEF S
    <3>2. Cardinality(S) \in Nat
      BY <3>1, FS_Subset, FS_CardinalityType
    <3>. QED
      BY <3>2 DEF S
  <2>. QED
    BY <1>1, <2>1 DEF Weight
<1>3. \A j, k \in B : <<j, k>> \in R <=> Weight(rows, j) > Weight(rows, k) \/ (Weight(rows, j) = Weight(rows, k) /\ j < k)
  OBVIOUS
<1>. HIDE DEF R
<1>4. \A k \in B : Heavier(rows, B, k) = {j \in B : <<j, k>> \in R}
  BY <1>3 DEF Heavier
<1>5. s = [i \in 1..n |-> CHOOSE k \in B : Cardinality(Heavier(rows, B, k)) = i - 1]
  BY DEF ByWeight
<1>6. OrdersAll(R, B)
  <2>. DEFINE wt == [k \in B |-> Weight(rows, k)]
  <2>1. /\ \A j, k \in B : <<j, k>> \in R <=> wt[j] > wt[k] \/ (wt[j] = wt[k] /\ j < k)
        /\ \A k \in B : wt[k] \in Int /\ k \in Int
    BY <1>2, <1>3
  <2>. HIDE DEF wt
  <2>2. ASSUME NEW a \in B, NEW b \in B
        PROVE  /\ ~(<<a, b>> \in R /\ <<b, a>> \in R)
               /\ a # b => <<a, b>> \in R \/ <<b, a>> \in R
    BY <2>1
  <2>3. ASSUME NEW a \in B, NEW b \in B, NEW c \in B, <<a, b>> \in R, <<b, c>> \in R
        PROVE  <<a, c>> \in R
    BY <2>1, <2>3
  <2>. QED
    BY <2>2, <2>3 DEF OrdersAll
<1>7. \A k \in B : Rank(B, R, k) = Cardinality(Heavier(rows, B, k))
  BY <1>4 DEF Rank
<1>8. ASSUME NEW i \in 1..n, \E k \in B : Rank(B, R, k) = i - 1
      PROVE  s[i] \in B /\ Rank(B, R, s[i]) = i - 1
  <2>1. \E k \in B : Cardinality(Heavier(rows, B, k)) = i - 1
    BY <1>7, <1>8
  <2>2. s[i] \in B /\ Cardinality(Heavier(rows, B, s[i])) = i - 1
    BY <1>5, <2>1
  <2>. QED
    BY <1>7, <2>2
<1>9. s = [i \in 1..n |-> s[i]]
  BY <1>5
<1>10. RankedBy(s, n, B, R)
  BY <1>1, <1>6, <1>8, <1>9, SortingRanks
<1>. QED
  BY <1>1, <1>10 DEF RankedBy

Leading(s, n, m) == {s[i] : i \in (1..n) \cap (1..m)}

\* The first places of a sequence are few.
LEMMA FewAreKept ==
  ASSUME NEW B, NEW n \in Nat, NEW s \in [1..n -> B], NEW m \in Nat,
         NEW K, K = Leading(s, n, m)
  PROVE  K \subseteq B /\ IsFiniteSet(K) /\ Cardinality(K) <= m
<1>. DEFINE I == (1..n) \cap (1..m)
            f == [i \in I |-> s[i]]
<1>. USE DEF Leading
<1>1. IsFiniteSet(I) /\ Cardinality(I) \in Nat /\ Cardinality(I) <= m
  <2>1. IsFiniteSet(1..m) /\ Cardinality(1..m) = m
    <3>1. Cardinality(1..m) = IF 1 > m THEN 0 ELSE m - 1 + 1
      BY FS_Interval
    <3>. QED
      BY <3>1, FS_Interval
  <2>2. I \in SUBSET (1..m)
    OBVIOUS
  <2>. HIDE DEF I
  <2>3. IsFiniteSet(I) /\ Cardinality(I) <= Cardinality(1..m)
    BY <2>1, <2>2, FS_Subset
  <2>. QED
    BY <2>1, <2>3, FS_CardinalityType
<1>2. f \in Surjection(I, K)
  BY DEF Surjection
<1>3. K \subseteq B
  OBVIOUS
<1>. HIDE DEF I, f
<1>4. IsFiniteSet(K) /\ Cardinality(K) <= Cardinality(I)
  BY <1>1, <1>2, FS_Surjection
<1>5. Cardinality(K) \in Nat
  BY <1>4, FS_CardinalityType
<1>. QED
  BY <1>1, <1>3, <1>4, <1>5

\* A chart has few series, and they count each row of the query once.
LEMMA ChartAddsUp ==
  ASSUME NEW T, Sortable(T), NEW f, NEW window, window.from \in Int, window.to \in Int,
         NEW rows, rows = {r \in T : Matches(f, window, r)},
         NEW series, series = TimeSeries(T, f, window, Hour)
  PROVE  /\ Cardinality(DOMAIN series) <= MaxSeries + 1
         /\ \A b \in Buckets(window, Hour) :
              Total(series, DOMAIN series, b) = Cardinality({r \in rows : r.ts \div Hour = b})
<1>. DEFINE keys == {r.band : r \in rows}
            In(k, b) == {r \in rows : r.band = k /\ r.ts \div Hour = b}
            buckets == Buckets(window, Hour)
            count == [k \in keys |-> [b \in buckets |-> Cardinality(In(k, b))]]
            n == Cardinality(keys)
            ranked == ByWeight(rows, keys)
            kept == {ranked[i] : i \in (1..Len(ranked)) \cap (1..MaxSeries)}
            dropped == keys \ kept
            D == kept \cup (IF dropped = {} THEN {} ELSE {OtherSeries})
            rest == [b \in UNION {DOMAIN count[x] : x \in dropped} |-> Total(count, dropped, b)]
<1>1. series = [k \in D |-> IF k = OtherSeries THEN rest ELSE count[k]]
  <2>1. series = FoldTail(count, kept, dropped)
    BY DEF TimeSeries, Sorted, ByWeight, Heavier, Weight
  <2>. QED
    BY <2>1 DEF FoldTail
<1>2. rows \in SUBSET AnyRow /\ IsFiniteSet(rows)
  <2>1. rows \in SUBSET T /\ IsFiniteSet(T) /\ T \in SUBSET AnyRow
    BY DEF Sortable
  <2>. QED
    BY <2>1, FS_Subset
<1>3. keys \in SUBSET Nat /\ IsFiniteSet(keys) /\ n \in Nat /\ ranked \in [1..n -> keys]
  BY <1>2, BandsRanked
<1>4. Len(ranked) = n
  <2>. HIDE DEF ranked, keys
  <2>. QED
    BY <1>3
<1>. HIDE DEF ranked, n
<1>5. kept \subseteq keys /\ IsFiniteSet(kept) /\ Cardinality(kept) <= MaxSeries
  <2>1. MaxSeries \in Nat
    BY QueryAssumption
  <2>2. kept = Leading(ranked, n, MaxSeries)
    BY <1>4 DEF Leading
  <2>. HIDE DEF keys, kept
  <2>. QED
    BY <1>3, <2>1, <2>2, FewAreKept
<1>6. OtherSeries \notin keys /\ OtherSeries \notin kept
  <2>1. OtherSeries \notin Nat
    BY DEF OtherSeries, None
  <2>. HIDE DEF keys, kept
  <2>. QED
    BY <1>3, <1>5, <2>1
<1>7. DOMAIN series = D
  BY <1>1
<1>8. ASSUME NEW k \in keys, NEW b \in buckets
      PROVE  count[k][b] = Cardinality(In(k, b))
  <2>. HIDE DEF keys, In, buckets
  <2>. QED
    OBVIOUS
<1>9. \A k \in dropped : DOMAIN count[k] = buckets
  <2>. HIDE DEF keys, In, buckets, kept
  <2>. QED
    OBVIOUS
<1>10. \A r \in rows : r.band \in keys
  OBVIOUS
<1>11. dropped \subseteq keys /\ keys = kept \cup dropped /\ kept \cap dropped = {}
  BY <1>5
<1>. HIDE DEF keys, buckets, count, kept, dropped
<1>12. IsFiniteSet(D) /\ Cardinality(D) <= MaxSeries + 1
  <2>1. /\ Cardinality(kept) \in Nat /\ MaxSeries \in Nat
        /\ IsFiniteSet(kept \cup {OtherSeries})
        /\ Cardinality(kept \cup {OtherSeries}) = Cardinality(kept) + 1
    BY <1>5, <1>6, FS_AddElement, FS_CardinalityType, QueryAssumption
  <2>2. D = kept \/ D = kept \cup {OtherSeries}
    OBVIOUS
  <2>. HIDE DEF D
  <2>. QED
    BY <1>5, <2>1, <2>2
<1>13. IsFiniteSet(dropped)
  BY <1>3, <1>11, FS_Subset
<1>14. ASSUME NEW b \in buckets
       PROVE  Total(series, D, b) = Cardinality({r \in rows : r.ts \div Hour = b})
  <2>. DEFINE X == {r \in rows : r.ts \div Hour = b}
              Y == {r \in X : r.band \in dropped}
              keyY == [r \in Y |-> r.band]
              keyX == [r \in X |-> IF r.band \in kept THEN r.band ELSE OtherSeries]
  <2>1. X \in SUBSET rows /\ Y \in SUBSET rows
    OBVIOUS
  <2>2. IsFiniteSet(X) /\ IsFiniteSet(Y)
    <3>. HIDE DEF X, Y
    <3>. QED
      BY <1>2, <2>1, FS_Subset
  <2>3. ASSUME dropped # {}
        PROVE  rest[b] = Cardinality(Y)
    <3>1. \A y \in Y : keyY[y] \in dropped
      OBVIOUS
    <3>2. ASSUME NEW k \in dropped
          PROVE  count[k][b] = Cardinality({y \in Y : keyY[y] = k})
      <4>1. {y \in Y : keyY[y] = k} = In(k, b)
        OBVIOUS
      <4>2. count[k][b] = Cardinality(In(k, b))
        BY <1>8, <1>11
      <4>. QED
        BY <4>1, <4>2
    <3>3. Counts(count, b, dropped, Y, keyY)
      BY <3>1, <3>2 DEF Counts
    <3>. HIDE DEF X, Y, keyY
    <3>4. Total(count, dropped, b) = Cardinality(Y)
      BY <1>13, <2>2, <3>3, TotalCounts
    <3>5. b \in UNION {DOMAIN count[x] : x \in dropped}
      BY <1>9, <2>3
    <3>. QED
      BY <3>4, <3>5
  <2>4. \A x \in X : keyX[x] \in D
    BY <1>10, <1>11
  <2>5. ASSUME NEW k \in D
        PROVE  series[k][b] = Cardinality({x \in X : keyX[x] = k})
    <3>1. CASE k = OtherSeries
      <4>1. dropped # {} /\ series[k] = rest
        BY <1>1, <1>6, <2>5, <3>1
      <4>2. {x \in X : keyX[x] = k} = Y
        <5>1. \A x \in X : x.band \in keys /\ (x.band \in kept <=> x.band \notin dropped)
          BY <1>10, <1>11
        <5>. QED
          BY <1>6, <3>1, <5>1
      <4>. HIDE DEF rest, Y, keyX, X
      <4>. QED
        BY <2>3, <4>1, <4>2
    <3>2. CASE k # OtherSeries
      <4>1. k \in kept /\ k \in keys /\ series[k] = count[k]
        BY <1>1, <1>11, <2>5, <3>2
      <4>2. {x \in X : keyX[x] = k} = In(k, b)
        BY <3>2, <4>1
      <4>3. count[k][b] = Cardinality(In(k, b))
        BY <1>8, <4>1
      <4>. HIDE DEF keyX, X, In
      <4>. QED
        BY <4>1, <4>2, <4>3
    <3>. QED
      BY <3>1, <3>2
  <2>. HIDE DEF X, Y, keyX, keyY, D
  <2>6. Counts(series, b, D, X, keyX)
    BY <2>4, <2>5 DEF Counts
  <2>7. Total(series, D, b) = Cardinality(X)
    BY <1>12, <2>2, <2>6, TotalCounts
  <2>. QED
    BY <2>7 DEF X
<1>. HIDE DEF D
<1>. QED
  BY <1>7, <1>12, <1>14 DEF buckets

\* Whatever the table holds and the request asks for, a chart has at most
\* MaxSeries series and the one of the rest, and together they count every
\* row of the window in its hour, and once (TimeSeries and foldTail, stats.go).
THEOREM ChartsAddUp == PagingSpec => []SeriesAddUp
<1>1. TableTyped => SeriesAddUp
  <2>. SUFFICES ASSUME TableTyped, NEW q \in Queries
                PROVE  LET window == Window(q.filter, now)
                           rows == Wanted(q, window)
                           series == TimeSeries(table, q.filter, window, Hour)
                       IN  /\ Cardinality(DOMAIN series) <= MaxSeries + 1
                           /\ \A b \in Buckets(window, Hour) :
                                Total(series, DOMAIN series, b)
                                  = Cardinality({r \in rows : r.ts \div Hour = b})
    BY DEF SeriesAddUp
  <2>. DEFINE window == Window(q.filter, now)
              rows == Wanted(q, window)
              series == TimeSeries(table, q.filter, window, Hour)
  <2>1. ParsedQuery(q) /\ Sortable(table) /\ now \in Int
    BY PagingAssumption DEF TableTyped
  <2>2. window.from \in Int /\ window.to \in Int
    BY <2>1, WindowTyped
  <2>. HIDE DEF window
  <2>3. rows = {r \in table : Matches(q.filter, window, r)}
    BY <2>1, <2>2, FilterFinds
  <2>. HIDE DEF rows
  <2>4. series = TimeSeries(table, q.filter, window, Hour)
    OBVIOUS
  <2>. HIDE DEF series
  <2>5. /\ Cardinality(DOMAIN series) <= MaxSeries + 1
        /\ \A b \in Buckets(window, Hour) :
             Total(series, DOMAIN series, b) = Cardinality({r \in rows : r.ts \div Hour = b})
    BY <2>1, <2>2, <2>3, <2>4, ChartAddsUp
  <2>. QED
    BY <2>5 DEF window, rows, series
<1>2. PagingInit => TableTyped
  BY PagingStarts
<1>3. TableTyped /\ [PagingNext]_pagingVars => TableTyped'
  BY TableStep
<1>. QED
  BY <1>1, <1>2, <1>3, PTL DEF PagingSpec
=============================================================================
