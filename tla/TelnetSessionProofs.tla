------------------------ MODULE TelnetSessionProofs ------------------------
(***************************************************************************)
(* Theorems about the connections of the telnet server, for any number of  *)
(* connections, any capacity of cmdCh and any number of lines typed.       *)
(***************************************************************************)
EXTENDS TelnetSession, SequenceTheorems, FiniteSetTheorems, TLAPS

Number == 1..MaxLines
Line == [n : Number, kind : LineKind]

\* A connection before its session streams, while it does, and after.
Early == {"accepted", "counted", "login", "endlogin", "subscribe"}
Streaming == {"loop", "unsubscribe"}
Leaving == {"uncount", "unregister", "done"}
Where == Early \cup Streaming \cup Leaving

-----------------------------------------------------------------------------
(* The way of a line from the wire to the handler.                         *)

\* The last command handled, the commands that wait and the lines on the wire
\* have ever higher numbers, none higher than the number t of lines typed.
Ordered(h, q, w, t) ==
  /\ h <= t
  /\ \A i \in 1..Len(q) : h < q[i] /\ q[i] <= t
  /\ \A i \in 1..Len(w) : h < w[i].n /\ w[i].n <= t
  /\ \A i, j \in 1..Len(q) : i < j => q[i] < q[j]
  /\ \A i, j \in 1..Len(w) : i < j => w[i].n < w[j].n
  /\ \A i \in 1..Len(q) : \A j \in 1..Len(w) : q[i] < w[j].n

LEMMA Numbered ==
  /\ \A i \in Number : i \in Nat
  /\ \A l \in Line : l.n \in Number /\ l.n \in Nat /\ l.kind \in LineKind
  BY DEF Number, Line

\* A line typed goes on the wire behind the others.
LEMMA TypedLast ==
  ASSUME NEW h \in Nat, NEW q \in Seq(Number), NEW w \in Seq(Line), NEW t \in Nat,
         NEW l \in Line, l.n = t + 1, Ordered(h, q, w, t)
  PROVE  Append(w, l) \in Seq(Line) /\ Ordered(h, q, Append(w, l), t + 1)
<1>. DEFINE v == Append(w, l)
<1>1. /\ v \in Seq(Line) /\ Len(v) = Len(w) + 1 /\ Len(w) \in Nat
      /\ \A i \in 1..Len(w) : v[i] = w[i]
      /\ v[Len(w) + 1] = l
  BY AppendProperties, LenProperties
<1>2. \A i \in 1..Len(w) : w[i].n \in Nat
  BY ElementOfSeq, Numbered
<1>3. Len(q) \in Nat /\ \A i \in 1..Len(q) : q[i] \in Nat
  BY ElementOfSeq, LenProperties, Numbered
<1>. HIDE DEF v
<1>4. \A i \in 1..Len(v) : v[i] = IF i <= Len(w) THEN w[i] ELSE l
  BY <1>1
<1>5. h <= t + 1 /\ \A i \in 1..Len(q) : h < q[i] /\ q[i] <= t + 1
  BY <1>3 DEF Ordered
<1>6. ASSUME NEW i \in 1..Len(v) PROVE h < v[i].n /\ v[i].n <= t + 1
  <2>1. CASE i <= Len(w)
    BY <1>1, <1>2, <1>4, <2>1 DEF Ordered
  <2>2. CASE ~(i <= Len(w))
    BY <1>1, <1>4, <2>2 DEF Ordered
  <2>. QED
    BY <2>1, <2>2
<1>7. \A i, j \in 1..Len(q) : i < j => q[i] < q[j]
  BY DEF Ordered
<1>0. \A i \in 1..Len(v) : i \in 1..Len(w) \/ i = Len(w) + 1
  BY <1>1
<1>8. ASSUME NEW i \in 1..Len(v), NEW j \in 1..Len(v), i < j
      PROVE  v[i].n < v[j].n
  <2>1. i \in 1..Len(w) /\ v[i] = w[i] /\ w[i].n \in Nat /\ w[i].n <= t
    BY <1>0, <1>1, <1>2, <1>8 DEF Ordered
  <2>2. CASE j \in 1..Len(w)
    <3>1. w[i].n < w[j].n
      BY <1>8, <2>1, <2>2 DEF Ordered
    <3>. QED
      BY <1>1, <2>1, <2>2, <3>1
  <2>3. CASE j = Len(w) + 1
    BY <1>1, <2>1, <2>3
  <2>. QED
    BY <1>0, <2>2, <2>3
<1>9. ASSUME NEW i \in 1..Len(q), NEW j \in 1..Len(v)
      PROVE  q[i] < v[j].n
  <2>1. CASE j \in 1..Len(w)
    BY <1>1, <2>1 DEF Ordered
  <2>2. CASE j = Len(w) + 1
    <3>1. q[i] \in Nat /\ q[i] <= t
      BY <1>3 DEF Ordered
    <3>. QED
      BY <1>1, <2>2, <3>1
  <2>. QED
    BY <1>0, <2>1, <2>2
<1>10. Ordered(h, q, v, t + 1)
  BY <1>5, <1>6, <1>7, <1>8, <1>9 DEF Ordered
<1>. QED
  BY <1>1, <1>10 DEF v

\* Lines lost from the front of the wire disturb nothing.
LEMMA DroppedFirst ==
  ASSUME NEW h, NEW q, NEW w \in Seq(Line), NEW t,
         NEW k \in 1..Len(w), Ordered(h, q, w, t)
  PROVE  LET v == SubSeq(w, k + 1, Len(w)) IN v \in Seq(Line) /\ Ordered(h, q, v, t)
<1>. DEFINE v == SubSeq(w, k + 1, Len(w))
<1>1. Len(w) \in Nat /\ \A i \in 1..Len(w) : w[i] \in Line
  BY ElementOfSeq, LenProperties
<1>2. /\ k + 1 \in Int /\ Len(w) \in Int
      /\ \A i \in (k + 1)..Len(w) : w[i] \in Line
  BY <1>1
<1>3. /\ v \in Seq(Line)
      /\ Len(v) = IF k + 1 <= Len(w) THEN Len(w) - (k + 1) + 1 ELSE 0
      /\ \A i \in 1..(Len(w) - (k + 1) + 1) : v[i] = w[k + 1 + i - 1]
  BY <1>2, SubSeqProperties
<1>. HIDE DEF v
<1>4. \A i \in 1..Len(v) : v[i] = w[i + k] /\ i + k \in 1..Len(w)
  BY <1>1, <1>3
<1>5. Len(v) = Len(w) - k
  BY <1>1, <1>3
<1>6. \A i \in 1..Len(v) : h < v[i].n /\ v[i].n <= t
  BY <1>4 DEF Ordered
<1>7. ASSUME NEW i \in 1..Len(v), NEW j \in 1..Len(v), i < j
      PROVE  v[i].n < v[j].n
  <2>1. i + k < j + k
    BY <1>1, <1>5, <1>7
  <2>2. w[i + k].n < w[j + k].n
    BY <1>4, <2>1 DEF Ordered
  <2>. QED
    BY <1>4, <2>2
<1>8. \A i \in 1..Len(q) : \A j \in 1..Len(v) : q[i] < v[j].n
  BY <1>4 DEF Ordered
<1>9. Ordered(h, q, v, t)
  BY <1>6, <1>7, <1>8 DEF Ordered
<1>. QED
  BY <1>3, <1>9 DEF v

\* The first line of the wire may become the last command that waits.
LEMMA TakenLast ==
  ASSUME NEW h \in Nat, NEW q \in Seq(Number), NEW w \in Seq(Line), NEW t \in Nat,
         w # <<>>, Ordered(h, q, w, t)
  PROVE  /\ Head(w) \in Line
         /\ Tail(w) \in Seq(Line) /\ Ordered(h, q, Tail(w), t)
         /\ LET p == Append(q, Head(w).n)
            IN  p \in Seq(Number) /\ Len(p) = Len(q) + 1 /\ Ordered(h, p, Tail(w), t)
<1>. DEFINE v == Tail(w)  l == Head(w)  p == Append(q, l.n)
<1>1. /\ l \in Line /\ v \in Seq(Line) /\ Len(v) = Len(w) - 1
      /\ \A i \in 1..Len(v) : v[i] = w[i + 1]
  BY HeadTailProperties
<1>2. Len(w) \in Nat \ {0} /\ l = w[1]
  BY EmptySeq
<1>3. l.n \in Number /\ l.n \in Nat
  BY <1>1, Numbered
<1>4. /\ p \in Seq(Number) /\ Len(p) = Len(q) + 1 /\ Len(q) \in Nat
      /\ \A i \in 1..Len(q) : p[i] = q[i]
      /\ p[Len(q) + 1] = l.n
  BY <1>3, AppendProperties, LenProperties
<1>5. \A i \in 1..Len(q) : q[i] \in Nat
  BY ElementOfSeq, Numbered
<1>. HIDE DEF v, l, p
<1>6. Ordered(h, q, v, t)
  <2>1. l = w[1] /\ v = SubSeq(w, 2, Len(w)) /\ 1 \in 1..Len(w) /\ 1 + 1 = 2
    BY <1>2, TailIsSubSeq DEF v
  <2>. QED
    BY <2>1, DroppedFirst
<1>7. /\ h < l.n /\ l.n <= t
      /\ \A i \in 1..Len(q) : q[i] < l.n
      /\ \A j \in 1..Len(v) : l.n < v[j].n
  <2>1. \A j \in 1..Len(v) : v[j] = w[j + 1] /\ j + 1 \in 1..Len(w) /\ 1 < j + 1
    BY <1>1, <1>2
  <2>2. l = w[1] /\ 1 \in 1..Len(w)
    BY <1>2
  <2>3. h < l.n /\ l.n <= t
    BY <2>2 DEF Ordered
  <2>4. \A i \in 1..Len(q) : q[i] < l.n
    BY <2>2 DEF Ordered
  <2>5. ASSUME NEW j \in 1..Len(v) PROVE l.n < v[j].n
    <3>1. w[1].n < w[j + 1].n
      BY <2>1, <2>2 DEF Ordered
    <3>. QED
      BY <2>1, <2>2, <3>1
  <2>. QED
    BY <2>3, <2>4, <2>5
<1>8. \A i \in 1..Len(p) : p[i] = IF i <= Len(q) THEN q[i] ELSE l.n
  BY <1>4
<1>9. Ordered(h, p, v, t)
  <2>0. \A i \in 1..Len(p) : i \in 1..Len(q) \/ i = Len(q) + 1
    BY <1>4
  <2>1. ASSUME NEW i \in 1..Len(p) PROVE h < p[i] /\ p[i] <= t
    <3>1. CASE i \in 1..Len(q)
      BY <1>4, <3>1 DEF Ordered
    <3>2. CASE i = Len(q) + 1
      BY <1>4, <1>7, <3>2
    <3>. QED
      BY <2>0, <3>1, <3>2
  <2>2. ASSUME NEW i \in 1..Len(p), NEW j \in 1..Len(p), i < j
        PROVE  p[i] < p[j]
    <3>1. i \in 1..Len(q) /\ p[i] = q[i]
      BY <1>4, <2>0, <2>2
    <3>2. CASE j \in 1..Len(q)
      <4>1. q[i] < q[j]
        BY <2>2, <3>1, <3>2 DEF Ordered
      <4>. QED
        BY <1>4, <3>1, <3>2, <4>1
    <3>3. CASE j = Len(q) + 1
      BY <1>4, <1>7, <3>1, <3>3
    <3>. QED
      BY <2>0, <3>2, <3>3
  <2>3. \A i \in 1..Len(p) : \A j \in 1..Len(v) : p[i] < v[j].n
    BY <1>4, <1>6, <1>7, <1>8 DEF Ordered
  <2>. QED
    BY <1>6, <2>1, <2>2, <2>3 DEF Ordered
<1>. QED
  BY <1>1, <1>4, <1>6, <1>9 DEF v, l, p

\* The first command that waits becomes the last one handled.
LEMMA HandledNext ==
  ASSUME NEW h \in Nat, NEW q \in Seq(Number), NEW w, NEW t,
         q # <<>>, Ordered(h, q, w, t)
  PROVE  /\ Head(q) \in Number
         /\ Tail(q) \in Seq(Number) /\ Len(Tail(q)) = Len(q) - 1
         /\ Ordered(Head(q), Tail(q), w, t)
<1>. DEFINE p == Tail(q)  g == Head(q)
<1>1. /\ g \in Number /\ p \in Seq(Number) /\ Len(p) = Len(q) - 1
      /\ \A i \in 1..Len(p) : p[i] = q[i + 1]
  BY HeadTailProperties
<1>2. Len(q) \in Nat \ {0} /\ g = q[1]
  BY EmptySeq
<1>. HIDE DEF p, g
<1>3. \A i \in 1..Len(p) : p[i] = q[i + 1] /\ i + 1 \in 1..Len(q) /\ 1 < i + 1
  BY <1>1, <1>2
<1>4. g <= t /\ 1 \in 1..Len(q)
  BY <1>1, <1>2 DEF Ordered
<1>5. \A i \in 1..Len(p) : g < p[i] /\ p[i] <= t
  BY <1>2, <1>3 DEF Ordered
<1>6. \A i \in 1..Len(w) : g < w[i].n /\ w[i].n <= t
  BY <1>2, <1>4 DEF Ordered
<1>7. \A i, j \in 1..Len(p) : i < j => p[i] < p[j]
  BY <1>2, <1>3 DEF Ordered
<1>8. \A i \in 1..Len(p) : \A j \in 1..Len(w) : p[i] < w[j].n
  BY <1>3 DEF Ordered
<1>9. Ordered(g, p, w, t)
  BY <1>4, <1>5, <1>6, <1>7, <1>8 DEF Ordered
<1>. QED
  BY <1>1, <1>9 DEF p, g

-----------------------------------------------------------------------------
(* Type correctness, all but the number of clients.                        *)

PlainTyped ==
  /\ pc \in [Conn -> Where]
  /\ open \in [Conn -> BOOLEAN] /\ peer \in [Conn -> BOOLEAN]
  /\ timer \in [Conn -> {"off", "armed", "stopped", "fired", "closing", "over"}]
  /\ loginDone \in [Conn -> BOOLEAN] /\ name \in [Conn -> BOOLEAN]
  /\ line \in [Conn -> LineKind \cup {"none"}]
  /\ sub \in [Conn -> {"none", "on", "off"}]
  /\ reader \in [Conn -> {"off", "run", "over"}]
  /\ quit \in [Conn -> BOOLEAN] /\ listening \in [Conn -> BOOLEAN]
  /\ lookup \in [Conn -> {"off", "asking", "sending", "over"}]
  /\ limit \in [Conn -> {"off", "asleep", "over"}]
  /\ clientMap \subseteq Conn
  /\ answers \in [Conn -> Nat]
  /\ crashed \in BOOLEAN

\* The channels and the wire; typed and handled count lines.
QueuesTyped ==
  /\ wire \in [Conn -> Seq(Line)] /\ cmdCh \in [Conn -> Seq(Number)]
  /\ typed \in [Conn -> 0..MaxLines] /\ handled \in [Conn -> 0..MaxLines]
  /\ \A c \in Conn : Len(cmdCh[c]) <= CmdCap
  /\ qrz \in [Conn -> Seq({"nil", "found"})]
  /\ \A c \in Conn : Len(qrz[c]) <= 1

InOrder == \A c \in Conn : Ordered(handled[c], cmdCh[c], wire[c], typed[c])

LEMMA HeadOfWire ==
  ASSUME QueuesTyped, NEW c \in Conn, wire[c] # <<>>
  PROVE  Head(wire[c]) \in Line /\ Head(wire[c]).kind \in LineKind
<1>1. wire[c] \in Seq(Line)
  BY DEF QueuesTyped
<1>2. Head(wire[c]) \in Line
  BY <1>1, HeadTailProperties
<1>. QED
  BY <1>2, Numbered

LEMMA PlainStep ==
  ASSUME PlainTyped, QueuesTyped, [Next]_vars
  PROVE  PlainTyped'
<1>. USE DEF PlainTyped, netVars, loginVars, readVars, qrzVars, countVars
<1>1. ASSUME NEW c \in Conn, NEW kind, TypeLine(c, kind)
      PROVE  PlainTyped'
  BY <1>1 DEF TypeLine
<1>2. ASSUME NEW c \in Conn, HangUp(c) \/ Timer(c)
      PROVE  PlainTyped'
  BY ZenonT(40), <1>2 DEF HangUp, Timer, TimerFires, TimerChecks, TimerCloses
<1>3. ASSUME NEW c \in Conn, Count(c) \/ Register(c)
      PROVE  PlainTyped'
  BY <1>3 DEF Count, Register, Where, Early
<1>4. ASSUME NEW c \in Conn, LoginScan(c)
      PROVE  PlainTyped'
  <2>1. Head(wire[c]).kind \in LineKind
    BY <1>4, HeadOfWire DEF LoginScan
  <2>. QED
    BY <1>4, <2>1 DEF LoginScan, Where, Early
<1>5. ASSUME NEW c \in Conn, LoginFails(c) \/ EndLogin(c)
      PROVE  PlainTyped'
  <2>1. CASE LoginFails(c)
    BY <2>1 DEF LoginFails, Where, Early
  <2>2. CASE EndLogin(c)
    <3>. DEFINE called == line[c] = "call"
    <3>1. pc' \in [Conn -> Where]
      BY <2>2 DEF EndLogin, Where, Early, Leaving
    <3>2. timer' \in [Conn -> {"off", "armed", "stopped", "fired", "closing", "over"}]
      BY <2>2 DEF EndLogin
    <3>3. called \in BOOLEAN /\ crashed' \in BOOLEAN /\ name' = [name EXCEPT ![c] = called]
      BY <2>2, Zenon DEF EndLogin
    <3>. HIDE DEF called
    <3>4. name' \in [Conn -> BOOLEAN]
      BY <3>3
    <3>5. loginDone' \in [Conn -> BOOLEAN]
      BY <2>2 DEF EndLogin
    <3>. QED
      BY <2>2, <3>1, <3>2, <3>3, <3>4, <3>5 DEF EndLogin
  <2>. QED
    BY <1>5, <2>1, <2>2
<1>6. ASSUME NEW c \in Conn, StartStreaming(c)
      PROVE  PlainTyped'
  BY ZenonT(40), <1>6 DEF StartStreaming, Where, Streaming
<1>7. ASSUME NEW c \in Conn, Welcome(c) \/ LoopQrz(c)
      PROVE  PlainTyped'
  <2>1. CASE LookupReturns(c) \/ LookupSends(c)
    BY ZenonT(40), <2>1 DEF LookupReturns, LookupSends
  <2>2. CASE LimitPasses(c)
    BY <2>2 DEF LimitPasses
  <2>3. CASE LoopQrz(c)
    BY <2>3 DEF LoopQrz
  <2>. QED
    BY <1>7, <2>1, <2>2, <2>3 DEF Welcome
<1>8. ASSUME NEW c \in Conn, ReaderTakes(c)
      PROVE  PlainTyped'
  BY <1>8 DEF ReaderTakes
<1>9. ASSUME NEW c \in Conn, ReaderEnds(c) \/ LoopCmd(c)
      PROVE  PlainTyped'
  BY ZenonT(40), <1>9 DEF ReaderEnds, LoopCmd
<1>10. ASSUME NEW c \in Conn, LoopQuit(c) \/ LoopSpotFails(c) \/ LeaveHub(c)
      PROVE  PlainTyped'
  BY ZenonT(40), <1>10 DEF LoopQuit, LoopSpotFails, LeaveHub, Where, Streaming, Leaving
<1>11. ASSUME NEW c \in Conn, Uncount(c) \/ Unregister(c)
      PROVE  PlainTyped'
  BY ZenonT(40), <1>11 DEF Uncount, Unregister, Where, Leaving
<1>12. CASE UNCHANGED vars
  BY <1>12 DEF vars
<1>. HIDE DEF PlainTyped
<1>. QED
  BY <1>1, <1>2, <1>3, <1>4, <1>5, <1>6, <1>7, <1>8, <1>9, <1>10, <1>11, <1>12
  DEF Next, Handler, Reader

\* One connection's numbers and queues become h, q, w and t.
LEMMA OneConnection ==
  ASSUME QueuesTyped, InOrder, NEW c \in Conn,
         NEW h \in 0..MaxLines, NEW q \in Seq(Number), NEW w \in Seq(Line),
         NEW t \in 0..MaxLines,
         Ordered(h, q, w, t), Len(q) <= CmdCap,
         handled' = [handled EXCEPT ![c] = h], cmdCh' = [cmdCh EXCEPT ![c] = q],
         wire' = [wire EXCEPT ![c] = w], typed' = [typed EXCEPT ![c] = t],
         qrz' = qrz
  PROVE  QueuesTyped' /\ InOrder'
<1>1. QueuesTyped'
  BY DEF QueuesTyped
<1>2. ASSUME NEW d \in Conn
      PROVE  Ordered(handled'[d], cmdCh'[d], wire'[d], typed'[d])
  <2>1. CASE d = c
    <3>1. handled'[d] = h /\ cmdCh'[d] = q /\ wire'[d] = w /\ typed'[d] = t
      BY <2>1 DEF QueuesTyped
    <3>. QED
      BY <3>1
  <2>2. CASE d # c
    <3>1. /\ handled'[d] = handled[d] /\ cmdCh'[d] = cmdCh[d]
          /\ wire'[d] = wire[d] /\ typed'[d] = typed[d]
      BY <2>2 DEF QueuesTyped
    <3>. QED
      BY <3>1 DEF InOrder
  <2>. QED
    BY <2>1, <2>2
<1>3. InOrder'
  BY <1>2 DEF InOrder, Ordered
<1>. QED
  BY <1>1, <1>3

\* What the other actions leave alone.
LEMMA QueueFrame ==
  ASSUME NEW c \in Conn,
         \/ HangUp(c) \/ Timer(c) \/ Count(c) \/ Register(c) \/ LoginFails(c)
         \/ EndLogin(c) \/ StartStreaming(c) \/ Welcome(c) \/ ReaderEnds(c)
         \/ LoopQuit(c) \/ LoopQrz(c) \/ LoopSpotFails(c) \/ LeaveHub(c)
         \/ Uncount(c) \/ Unregister(c)
  PROVE  /\ UNCHANGED <<wire, typed, cmdCh, handled>>
         /\ qrz' = qrz \/ LookupSends(c) \/ LimitPasses(c) \/ LoopQrz(c)
<1>. USE DEF netVars, readVars, qrzVars
<1>1. CASE \/ HangUp(c) \/ Timer(c) \/ Count(c) \/ Register(c) \/ LoginFails(c) \/ EndLogin(c)
  BY <1>1 DEF HangUp, Timer, TimerFires, TimerChecks, TimerCloses, Count, Register,
              LoginFails, EndLogin
<1>2. CASE StartStreaming(c) \/ Welcome(c) \/ ReaderEnds(c)
  BY <1>2 DEF StartStreaming, Welcome, LookupReturns, LookupSends, LimitPasses, ReaderEnds
<1>3. CASE \/ LoopQuit(c) \/ LoopQrz(c) \/ LoopSpotFails(c) \/ LeaveHub(c)
           \/ Uncount(c) \/ Unregister(c)
  BY <1>3 DEF LoopQuit, LoopQrz, LoopSpotFails, LeaveHub, Uncount, Unregister
<1>. QED
  BY <1>1, <1>2, <1>3

LEMMA QueuesStep ==
  ASSUME PlainTyped, QueuesTyped, InOrder, [Next]_vars
  PROVE  QueuesTyped' /\ InOrder'
<1>0. ASSUME NEW c \in Conn
      PROVE  /\ handled[c] \in 0..MaxLines /\ cmdCh[c] \in Seq(Number)
             /\ wire[c] \in Seq(Line) /\ typed[c] \in 0..MaxLines
             /\ Len(cmdCh[c]) <= CmdCap /\ Len(cmdCh[c]) \in Nat
             /\ Ordered(handled[c], cmdCh[c], wire[c], typed[c])
             /\ handled[c] \in Nat /\ typed[c] \in Nat
             /\ handled = [handled EXCEPT ![c] = handled[c]]
             /\ cmdCh = [cmdCh EXCEPT ![c] = cmdCh[c]]
             /\ typed = [typed EXCEPT ![c] = typed[c]]
  BY SessionAssumption, LenProperties DEF QueuesTyped, InOrder
<1>1. ASSUME NEW c \in Conn, NEW kind \in LineKind, TypeLine(c, kind)
      PROVE  QueuesTyped' /\ InOrder'
  <2>. DEFINE l == [n |-> typed[c] + 1, kind |-> kind]  w == Append(wire[c], l)
  <2>1. typed[c] + 1 \in 0..MaxLines /\ l \in Line /\ l.n = typed[c] + 1
    BY <1>0, <1>1, SessionAssumption DEF TypeLine, Line, Number
  <2>2. /\ wire' = [wire EXCEPT ![c] = w] /\ typed' = [typed EXCEPT ![c] = typed[c] + 1]
        /\ cmdCh' = cmdCh /\ handled' = handled /\ qrz' = qrz
    BY <1>1 DEF TypeLine, readVars, qrzVars
  <2>. HIDE DEF l
  <2>3. w \in Seq(Line) /\ Ordered(handled[c], cmdCh[c], w, typed[c] + 1)
    BY <1>0, <2>1, TypedLast
  <2>. HIDE DEF w
  <2>. QED
    BY <1>0, <2>1, <2>2, <2>3, OneConnection
<1>2. ASSUME NEW c \in Conn, LoginScan(c)
      PROVE  QueuesTyped' /\ InOrder'
  <2>1. PICK k \in 1..Len(wire[c]) :
          wire' = [wire EXCEPT ![c] = SubSeq(wire[c], k + 1, Len(wire[c]))]
    BY <1>2 DEF LoginScan
  <2>. DEFINE w == SubSeq(wire[c], k + 1, Len(wire[c]))
  <2>2. typed' = typed /\ cmdCh' = cmdCh /\ handled' = handled /\ qrz' = qrz
    BY <1>2 DEF LoginScan, readVars, qrzVars
  <2>3. w \in Seq(Line) /\ Ordered(handled[c], cmdCh[c], w, typed[c])
    BY <1>0, DroppedFirst
  <2>4. wire' = [wire EXCEPT ![c] = w]
    BY <2>1
  <2>. HIDE DEF w
  <2>. QED
    BY <1>0, <2>2, <2>3, <2>4, OneConnection
<1>3. ASSUME NEW c \in Conn, ReaderTakes(c)
      PROVE  QueuesTyped' /\ InOrder'
  <2>. DEFINE w == Tail(wire[c])  q == Append(cmdCh[c], Head(wire[c]).n)
  <2>1. /\ w \in Seq(Line) /\ Ordered(handled[c], cmdCh[c], w, typed[c])
        /\ q \in Seq(Number) /\ Len(q) = Len(cmdCh[c]) + 1
        /\ Ordered(handled[c], q, w, typed[c])
    BY <1>0, <1>3, TakenLast DEF ReaderTakes, Readable
  <2>2. /\ typed' = typed /\ handled' = handled /\ qrz' = qrz
        /\ wire' = [wire EXCEPT ![c] = w]
        /\ \/ cmdCh' = cmdCh
           \/ cmdCh' = [cmdCh EXCEPT ![c] = q] /\ Len(cmdCh[c]) < CmdCap
    BY <1>3 DEF ReaderTakes, qrzVars
  <2>. HIDE DEF w, q
  <2>3. CASE cmdCh' = cmdCh
    BY <1>0, <2>1, <2>2, <2>3, OneConnection
  <2>4. CASE cmdCh' = [cmdCh EXCEPT ![c] = q] /\ Len(cmdCh[c]) < CmdCap
    <3>1. Len(q) <= CmdCap
      BY <1>0, <2>1, <2>4, SessionAssumption
    <3>. QED
      BY <1>0, <2>1, <2>2, <2>4, <3>1, OneConnection
  <2>. QED
    BY <2>2, <2>3, <2>4
<1>4. ASSUME NEW c \in Conn, LoopCmd(c)
      PROVE  QueuesTyped' /\ InOrder'
  <2>. DEFINE h == Head(cmdCh[c])  q == Tail(cmdCh[c])
  <2>1. /\ h \in Number /\ q \in Seq(Number) /\ Len(q) = Len(cmdCh[c]) - 1
        /\ Ordered(h, q, wire[c], typed[c])
    BY <1>0, <1>4, HandledNext DEF LoopCmd
  <2>2. /\ typed' = typed /\ wire' = wire /\ qrz' = qrz
        /\ cmdCh' = [cmdCh EXCEPT ![c] = q] /\ handled' = [handled EXCEPT ![c] = h]
    BY <1>4 DEF LoopCmd, netVars, qrzVars
  <2>. HIDE DEF h, q
  <2>3. h \in 0..MaxLines /\ Len(q) <= CmdCap
    BY <1>0, <2>1, SessionAssumption DEF Number
  <2>4. wire' = [wire EXCEPT ![c] = wire[c]]
    BY <2>2 DEF QueuesTyped
  <2>. QED
    BY <1>0, <2>1, <2>2, <2>3, <2>4, OneConnection
<1>5. ASSUME UNCHANGED <<wire, typed, cmdCh, handled, qrz>>
      PROVE  QueuesTyped' /\ InOrder'
  BY <1>5 DEF QueuesTyped, InOrder, Ordered
<1>6. ASSUME NEW c \in Conn, LookupSends(c) \/ LimitPasses(c) \/ LoopQrz(c),
             UNCHANGED <<wire, typed, cmdCh, handled>>
      PROVE  QueuesTyped' /\ InOrder'
  <2>1. PICK a \in {<<>>, <<"nil">>, <<"found">>} : qrz' = [qrz EXCEPT ![c] = a] \/ qrz' = qrz
    BY <1>6 DEF LookupSends, LimitPasses, LoopQrz
  <2>2. a \in Seq({"nil", "found"}) /\ Len(a) <= 1
    <3>1. <<>> \in Seq({"nil", "found"}) /\ Len(<<>>) = 0
      BY EmptySeq
    <3>2. <<"nil">> \in Seq({"nil", "found"}) /\ Len(<<"nil">>) = 1
      OBVIOUS
    <3>3. <<"found">> \in Seq({"nil", "found"}) /\ Len(<<"found">>) = 1
      OBVIOUS
    <3>4. a = <<>> \/ a = <<"nil">> \/ a = <<"found">>
      OBVIOUS
    <3>5. CASE a = <<>>
      BY <3>1, <3>5
    <3>6. CASE a = <<"nil">>
      BY <3>2, <3>6
    <3>7. CASE a = <<"found">>
      BY <3>3, <3>7
    <3>. QED
      BY <3>4, <3>5, <3>6, <3>7
  <2>3. /\ qrz' \in [Conn -> Seq({"nil", "found"})]
        /\ \A d \in Conn : Len(qrz'[d]) <= 1
    BY <2>1, <2>2 DEF QueuesTyped
  <2>4. QueuesTyped'
    BY <1>6, <2>3 DEF QueuesTyped
  <2>5. InOrder'
    BY <1>6 DEF InOrder, Ordered
  <2>. QED
    BY <2>4, <2>5
<1>7. ASSUME NEW c \in Conn,
             \/ HangUp(c) \/ Timer(c) \/ Count(c) \/ Register(c) \/ LoginFails(c)
             \/ EndLogin(c) \/ StartStreaming(c) \/ Welcome(c) \/ ReaderEnds(c)
             \/ LoopQuit(c) \/ LoopQrz(c) \/ LoopSpotFails(c) \/ LeaveHub(c)
             \/ Uncount(c) \/ Unregister(c)
      PROVE  QueuesTyped' /\ InOrder'
  BY <1>5, <1>6, <1>7, QueueFrame
<1>8. CASE UNCHANGED vars
  BY <1>5, <1>8 DEF vars, netVars, readVars, qrzVars
<1>. QED
  BY <1>1, <1>2, <1>3, <1>4, <1>7, <1>8 DEF Next, Handler, Reader

-----------------------------------------------------------------------------
(* What a connection holds in each phase.                                  *)

\* It is subscribed while it streams and only then, and its reader was started.
SubscribedWhileStreaming ==
  \A c \in Conn :
    /\ pc[c] \in Early => sub[c] = "none"
    /\ pc[c] \in Streaming => sub[c] = "on" /\ reader[c] # "off"
    /\ pc[c] \in Leaving => sub[c] # "on"
    /\ sub[c] = "off" => reader[c] # "off"

\* It listens for one answer from the moment it streams, until it takes it.
ListensUntilAnswered ==
  \A c \in Conn :
    /\ pc[c] \in Early => ~listening[c] /\ answers[c] = 0
    /\ listening[c] => answers[c] = 0
    /\ answers[c] <= 1

LEMMA PhasesApart ==
  /\ Early \cap Streaming = {} /\ Early \cap Leaving = {} /\ Streaming \cap Leaving = {}
  /\ "loop" \in Streaming /\ "unsubscribe" \in Streaming
  /\ "uncount" \in Leaving /\ "unregister" \in Leaving /\ "done" \in Leaving
  /\ {"accepted", "counted", "login", "endlogin", "subscribe"} \subseteq Early
  BY DEF Early, Streaming, Leaving

\* How a step moves the handler of a connection between the phases.
LEMMA PhaseSteps ==
  ASSUME PlainTyped, NEW c \in Conn
  PROVE  /\ \A kind \in LineKind : TypeLine(c, kind) => pc' = pc
         /\ HangUp(c) \/ Timer(c) \/ Reader(c) \/ Welcome(c) => pc' = pc
         /\ LoopQrz(c) \/ LoopCmd(c) => pc' = pc
         /\ Count(c) \/ Register(c) \/ LoginScan(c) \/ LoginFails(c) =>
              /\ pc[c] \in Early
              /\ \E place \in Early : pc' = [pc EXCEPT ![c] = place]
         /\ EndLogin(c) =>
              /\ pc[c] \in Early
              /\ \E place \in Early \cup Leaving : pc' = [pc EXCEPT ![c] = place]
         /\ StartStreaming(c) => pc[c] \in Early /\ pc' = [pc EXCEPT ![c] = "loop"]
         /\ LoopQuit(c) \/ LoopSpotFails(c) =>
              /\ pc[c] \in Streaming
              /\ pc' = [pc EXCEPT ![c] = "unsubscribe"]
         /\ LeaveHub(c) => pc[c] \in Streaming /\ pc' = [pc EXCEPT ![c] = "uncount"]
         /\ Uncount(c) \/ Unregister(c) =>
              /\ pc[c] \in Leaving
              /\ \E place \in Leaving : pc' = [pc EXCEPT ![c] = place]
<1>1. /\ \A kind \in LineKind : TypeLine(c, kind) => pc' = pc
      /\ HangUp(c) \/ Timer(c) \/ Reader(c) \/ Welcome(c) => pc' = pc
      /\ LoopQrz(c) \/ LoopCmd(c) => pc' = pc
  BY DEF TypeLine, HangUp, Timer, TimerFires, TimerChecks, TimerCloses, Reader,
         ReaderTakes, ReaderEnds, Welcome, LookupReturns, LookupSends, LimitPasses,
         LoopQrz, LoopCmd
<1>2. Count(c) \/ Register(c) \/ LoginScan(c) \/ LoginFails(c) =>
        /\ pc[c] \in Early
        /\ \E place \in Early : pc' = [pc EXCEPT ![c] = place]
  BY DEF Count, Register, LoginScan, LoginFails, Early
<1>3. EndLogin(c) =>
        /\ pc[c] \in Early
        /\ \E place \in Early \cup Leaving : pc' = [pc EXCEPT ![c] = place]
  BY DEF EndLogin, Early, Leaving
<1>4. /\ StartStreaming(c) => pc[c] \in Early /\ pc' = [pc EXCEPT ![c] = "loop"]
      /\ LoopQuit(c) \/ LoopSpotFails(c) =>
           /\ pc[c] \in Streaming
           /\ pc' = [pc EXCEPT ![c] = "unsubscribe"]
      /\ LeaveHub(c) => pc[c] \in Streaming /\ pc' = [pc EXCEPT ![c] = "uncount"]
  BY DEF StartStreaming, LoopQuit, LoopSpotFails, LeaveHub, Early, Streaming
<1>5. Uncount(c) \/ Unregister(c) =>
        /\ pc[c] \in Leaving
        /\ \E place \in Leaving : pc' = [pc EXCEPT ![c] = place]
  BY DEF Uncount, Unregister, Leaving
<1>. QED
  BY <1>1, <1>2, <1>3, <1>4, <1>5

\* Which actions change what the phases are about.
LEMMA PhaseFrame ==
  ASSUME NEW c \in Conn,
         \/ \E kind \in LineKind : TypeLine(c, kind)
         \/ HangUp(c) \/ Handler(c) \/ LoopSpotFails(c) \/ Timer(c) \/ Reader(c)
         \/ Welcome(c)
  PROVE  /\ sub' = sub \/ StartStreaming(c) \/ LeaveHub(c)
         /\ reader' = reader \/ StartStreaming(c) \/ Reader(c)
         /\ listening' = listening \/ StartStreaming(c) \/ LoopQrz(c)
         /\ answers' = answers \/ LoopQrz(c)
<1>. USE DEF readVars, qrzVars
<1>1. CASE (\E kind \in LineKind : TypeLine(c, kind)) \/ HangUp(c) \/ Timer(c)
  BY <1>1 DEF TypeLine, HangUp, Timer, TimerFires, TimerChecks, TimerCloses
<1>2. CASE Count(c) \/ Register(c) \/ LoginScan(c) \/ LoginFails(c) \/ EndLogin(c)
  BY <1>2 DEF Count, Register, LoginScan, LoginFails, EndLogin
<1>3. CASE StartStreaming(c) \/ Welcome(c) \/ Reader(c)
  BY <1>3 DEF StartStreaming, Welcome, LookupReturns, LookupSends, LimitPasses,
              Reader, ReaderTakes, ReaderEnds
<1>4. CASE LoopQuit(c) \/ LoopQrz(c) \/ LoopCmd(c) \/ LoopSpotFails(c)
  BY <1>4 DEF LoopQuit, LoopQrz, LoopCmd, LoopSpotFails
<1>5. CASE LeaveHub(c) \/ Uncount(c) \/ Unregister(c)
  BY <1>5 DEF LeaveHub, Uncount, Unregister
<1>. QED
  BY <1>1, <1>2, <1>3, <1>4, <1>5 DEF Handler

\* A step that starts no stream and releases none.
Drifts(c) ==
  \/ pc' = pc
  \/ \E place \in Where :
       /\ pc' = [pc EXCEPT ![c] = place]
       /\ \/ pc[c] \in Early /\ place \in Early \cup Leaving
          \/ pc[c] \in Streaming /\ place \in Streaming
          \/ pc[c] \in Leaving /\ place \in Leaving

LEMMA OthersDrift ==
  ASSUME PlainTyped, NEW c \in Conn,
         \/ \E kind \in LineKind : TypeLine(c, kind)
         \/ HangUp(c) \/ Handler(c) \/ LoopSpotFails(c) \/ Timer(c) \/ Reader(c)
         \/ Welcome(c),
         ~StartStreaming(c), ~LeaveHub(c)
  PROVE  Drifts(c)
<1>1. CASE Count(c) \/ Register(c) \/ LoginScan(c) \/ LoginFails(c) \/ EndLogin(c)
  BY <1>1, PhaseSteps DEF Drifts, Where
<1>2. CASE LoopQuit(c) \/ LoopSpotFails(c)
  BY <1>2, PhaseSteps, PhasesApart DEF Drifts, Where
<1>3. CASE Uncount(c) \/ Unregister(c)
  BY <1>3, PhaseSteps DEF Drifts, Where
<1>4. CASE \/ \E kind \in LineKind : TypeLine(c, kind)
           \/ HangUp(c) \/ Timer(c) \/ Reader(c) \/ Welcome(c) \/ LoopQrz(c) \/ LoopCmd(c)
  BY <1>4, PhaseSteps DEF Drifts
<1>. QED
  BY <1>1, <1>2, <1>3, <1>4 DEF Handler

LEMMA SubscribedStep ==
  ASSUME PlainTyped, SubscribedWhileStreaming, [Next]_vars
  PROVE  SubscribedWhileStreaming'
<1>. USE DEF SubscribedWhileStreaming, PlainTyped
<1>1. ASSUME NEW c \in Conn, StartStreaming(c)
      PROVE  SubscribedWhileStreaming'
  BY <1>1, PhasesApart DEF StartStreaming
<1>2. ASSUME NEW c \in Conn, LeaveHub(c)
      PROVE  SubscribedWhileStreaming'
  BY <1>2, PhasesApart DEF LeaveHub, readVars
<1>3. ASSUME NEW c \in Conn, Drifts(c), sub' = sub,
             reader' = reader \/ Reader(c)
      PROVE  SubscribedWhileStreaming'
  <2>1. \A d \in Conn : reader[d] # "off" => reader'[d] # "off"
    BY <1>3 DEF Reader, ReaderTakes, ReaderEnds
  <2>2. CASE pc' = pc
    BY <1>3, <2>1, <2>2
  <2>3. CASE pc' # pc
    BY <1>3, <2>1, <2>3, PhasesApart DEF Drifts
  <2>. QED
    BY <2>2, <2>3
<1>4. CASE UNCHANGED vars
  BY <1>4 DEF vars, readVars
<1>. HIDE DEF SubscribedWhileStreaming, PlainTyped
<1>. QED
  BY <1>1, <1>2, <1>3, <1>4, OthersDrift, PhaseFrame DEF Next

LEMMA ListensStep ==
  ASSUME PlainTyped, ListensUntilAnswered, [Next]_vars
  PROVE  ListensUntilAnswered'
<1>. USE DEF ListensUntilAnswered, PlainTyped
<1>1. ASSUME NEW c \in Conn, StartStreaming(c)
      PROVE  ListensUntilAnswered'
  <2>1. pc[c] \in Early /\ pc' = [pc EXCEPT ![c] = "loop"] /\ "loop" \notin Early
    BY <1>1, PhasesApart, PhaseSteps
  <2>2. answers' = answers /\ answers[c] = 0
    BY <1>1, <2>1 DEF StartStreaming
  <2>3. listening' = listening \/ listening' = [listening EXCEPT ![c] = TRUE]
    BY <1>1 DEF StartStreaming
  <2>. QED
    BY <2>1, <2>2, <2>3
<1>2. ASSUME NEW c \in Conn, LoopQrz(c)
      PROVE  ListensUntilAnswered'
  <2>1. pc[c] \notin Early /\ pc' = pc
    BY <1>2, PhasesApart DEF LoopQrz
  <2>2. listening' = [listening EXCEPT ![c] = FALSE] /\ listening[c]
    BY <1>2 DEF LoopQrz
  <2>3. answers' = [answers EXCEPT ![c] = @ + 1]
    BY <1>2 DEF LoopQrz
  <2>. QED
    BY <2>1, <2>2, <2>3
<1>3. ASSUME NEW c \in Conn, LeaveHub(c), listening' = listening, answers' = answers
      PROVE  ListensUntilAnswered'
  BY <1>3, PhasesApart, PhaseSteps
<1>4. ASSUME NEW c \in Conn, Drifts(c), listening' = listening, answers' = answers
      PROVE  ListensUntilAnswered'
  BY <1>4, PhasesApart DEF Drifts
<1>5. CASE UNCHANGED vars
  BY <1>5 DEF vars, qrzVars
<1>. HIDE DEF ListensUntilAnswered, PlainTyped
<1>6. ASSUME NEW c \in Conn, LeaveHub(c)
      PROVE  listening' = listening /\ answers' = answers
  BY <1>6 DEF LeaveHub, qrzVars
<1>. QED
  BY <1>1, <1>2, <1>3, <1>4, <1>5, <1>6, OthersDrift, PhaseFrame DEF Next

-----------------------------------------------------------------------------
(* The client counter.                                                     *)

\* The connections that are in the count.
InCount == {c \in Conn : pc[c] \in (Early \ {"accepted"}) \cup Streaming \cup {"uncount"}}

ClientsCounted == clients = Cardinality(InCount)

LEMMA CountRange ==
  IsFiniteSet(InCount) /\ Cardinality(InCount) \in 0..Cardinality(Conn)
<1>1. InCount \subseteq Conn
  BY DEF InCount
<1>2. Cardinality(Conn) \in Nat /\ Cardinality(InCount) \in Nat
  BY <1>1, FS_Subset, FS_CardinalityType, SessionAssumption
<1>. QED
  BY <1>1, <1>2, FS_Subset, SessionAssumption

LEMMA CountStep ==
  ASSUME PlainTyped, ClientsCounted, [Next]_vars
  PROVE  ClientsCounted'
<1>1. ASSUME NEW c \in Conn, Count(c)
      PROVE  ClientsCounted'
  <2>1. InCount' = InCount \cup {c} /\ c \notin InCount /\ clients' = clients + 1
    BY <1>1 DEF Count, InCount, PlainTyped, Early, Streaming
  <2>2. Cardinality(InCount \cup {c}) = Cardinality(InCount) + 1
    BY <2>1, CountRange, FS_AddElement
  <2>. QED
    BY <2>1, <2>2 DEF ClientsCounted
<1>2. ASSUME NEW c \in Conn, Uncount(c)
      PROVE  ClientsCounted'
  <2>1. InCount' = InCount \ {c} /\ c \in InCount /\ clients' = clients - 1
    BY <1>2 DEF Uncount, InCount, PlainTyped, Early, Streaming
  <2>2. Cardinality(InCount \ {c}) = Cardinality(InCount) - 1
    BY <2>1, CountRange, FS_RemoveElement
  <2>. QED
    BY <2>1, <2>2 DEF ClientsCounted
<1>3. ASSUME InCount' = InCount, clients' = clients
      PROVE  ClientsCounted'
  BY <1>3 DEF ClientsCounted
<1>4. ASSUME NEW c \in Conn, Register(c) \/ LoginScan(c) \/ LoginFails(c) \/ EndLogin(c)
      PROVE  InCount' = InCount /\ clients' = clients
  BY <1>4 DEF Register, LoginScan, LoginFails, EndLogin, InCount, PlainTyped, Early,
              Streaming, countVars
<1>5. ASSUME NEW c \in Conn,
             \/ StartStreaming(c) \/ LoopQuit(c) \/ LoopSpotFails(c) \/ LeaveHub(c)
             \/ Unregister(c)
      PROVE  InCount' = InCount /\ clients' = clients
  BY <1>5 DEF StartStreaming, LoopQuit, LoopSpotFails, LeaveHub, Unregister, InCount,
              PlainTyped, Early, Streaming, countVars
<1>6. ASSUME NEW c \in Conn,
             \/ \E kind \in LineKind : TypeLine(c, kind)
             \/ HangUp(c) \/ Timer(c) \/ Reader(c) \/ Welcome(c)
             \/ LoopQrz(c) \/ LoopCmd(c)
      PROVE  InCount' = InCount /\ clients' = clients
  <2>1. pc' = pc
    BY <1>6, PhaseSteps
  <2>2. clients' = clients
    BY <1>6 DEF TypeLine, HangUp, Timer, TimerFires, TimerChecks, TimerCloses, Reader,
         ReaderTakes, ReaderEnds, Welcome, LookupReturns, LookupSends, LimitPasses,
         LoopQrz, LoopCmd, countVars
  <2>. QED
    BY <2>1, <2>2 DEF InCount
<1>7. CASE UNCHANGED vars
  BY <1>7 DEF vars, countVars, InCount, ClientsCounted
<1>. QED
  BY <1>1, <1>2, <1>3, <1>4, <1>5, <1>6, <1>7 DEF Next, Handler

-----------------------------------------------------------------------------
(* The inductive invariant and what follows from it.                       *)

Inv == /\ PlainTyped /\ QueuesTyped /\ InOrder
       /\ SubscribedWhileStreaming /\ ListensUntilAnswered /\ ClientsCounted

LEMMA InitInv == Init => Inv
<1>. SUFFICES ASSUME Init PROVE Inv
  OBVIOUS
<1>. USE DEF Init, All
<1>1. PlainTyped
  BY PhasesApart DEF PlainTyped, Where
<1>2. QueuesTyped
  <2>1. /\ <<>> \in Seq(Line) /\ <<>> \in Seq(Number) /\ <<>> \in Seq({"nil", "found"})
        /\ Len(<<>>) = 0
    BY EmptySeq
  <2>. QED
    BY <2>1, SessionAssumption DEF QueuesTyped
<1>3. InOrder
  BY DEF InOrder, Ordered
<1>4. SubscribedWhileStreaming /\ ListensUntilAnswered
  BY PhasesApart DEF SubscribedWhileStreaming, ListensUntilAnswered
<1>5. ClientsCounted
  <2>1. InCount = {}
    BY DEF InCount, Early, Streaming
  <2>. QED
    BY <2>1, FS_EmptySet DEF ClientsCounted
<1>. QED
  BY <1>1, <1>2, <1>3, <1>4, <1>5 DEF Inv

LEMMA StepInv == Inv /\ [Next]_vars => Inv'
  BY PlainStep, QueuesStep, SubscribedStep, ListensStep, CountStep DEF Inv

LEMMA InvTypes == Inv => TypeOK
<1>. SUFFICES ASSUME Inv PROVE TypeOK
  OBVIOUS
<1>1. clients \in 0..Cardinality(Conn)
  BY CountRange DEF Inv, ClientsCounted
<1>2. \A c \in Conn : \A i \in 1..Len(wire[c]) : wire[c][i].kind \in LineKind
  <2>1. \A c \in Conn : \A i \in 1..Len(wire[c]) : wire[c][i] \in Line
    BY ElementOfSeq DEF Inv, QueuesTyped
  <2>. QED
    BY <2>1, Numbered
<1>3. \A c \in Conn : cmdCh[c] \in Seq(1..MaxLines)
  BY DEF Inv, QueuesTyped, Number
<1>4. Where = {"accepted", "counted", "login", "endlogin", "subscribe", "loop",
               "unsubscribe", "uncount", "unregister", "done"}
  BY DEF Where, Early, Streaming, Leaving
<1>. QED
  BY <1>1, <1>2, <1>3, <1>4 DEF Inv, PlainTyped, QueuesTyped, TypeOK

LEMMA InvOrders == Inv => CommandsInOrder
<1>. SUFFICES ASSUME Inv, NEW c \in Conn
              PROVE  LET rest == <<handled[c]>> \o cmdCh[c]
                     IN  \A i, j \in 1..Len(rest) : i < j => rest[i] < rest[j]
  BY InvTypes DEF CommandsInOrder
<1>. DEFINE q == cmdCh[c]  rest == <<handled[c]>> \o q
<1>1. q \in Seq(Nat) /\ <<handled[c]>> \in Seq(Nat) /\ Len(<<handled[c]>>) = 1
  <2>1. q \in Seq(Number) /\ Number \subseteq Nat /\ handled[c] \in Nat
    BY SessionAssumption DEF Inv, QueuesTyped, Number
  <2>2. q \in Seq(Nat)
    BY <2>1, SeqMonotonic
  <2>. QED
    BY <2>1, <2>2
<1>2. /\ Len(rest) = 1 + Len(q) /\ Len(q) \in Nat
      /\ \A i \in 1..Len(rest) : rest[i] = IF i = 1 THEN handled[c] ELSE q[i - 1]
  BY <1>1, ConcatProperties, LenProperties
<1>3. /\ \A i \in 1..Len(q) : handled[c] < q[i]
      /\ \A i, j \in 1..Len(q) : i < j => q[i] < q[j]
  BY DEF Inv, InOrder, Ordered
<1>. HIDE DEF rest, q
<1>4. ASSUME NEW i \in 1..Len(rest), NEW j \in 1..Len(rest), i < j
      PROVE  rest[i] < rest[j]
  <2>1. rest[j] = q[j - 1] /\ j - 1 \in 1..Len(q)
    BY <1>2, <1>4
  <2>2. CASE i = 1
    BY <1>2, <1>3, <2>1, <2>2
  <2>3. CASE i # 1
    <3>1. rest[i] = q[i - 1] /\ i - 1 \in 1..Len(q) /\ i - 1 < j - 1
      BY <1>2, <1>4, <2>3
    <3>. QED
      BY <1>3, <2>1, <3>1
  <2>. QED
    BY <2>2, <2>3
<1>. QED
  BY <1>4 DEF rest, q

\* Every variable keeps its type, no channel outgrows its capacity, and the
\* client counter never goes below zero or above the number of connections
\* (telnet.go:208, 218-219).
THEOREM SessionTyped == Spec => []TypeOK
<1>. QED
  BY InitInv, StepInv, InvTypes, PTL DEF Spec

\* Commands are handled in the order they were typed, for any number of lines
\* and any capacity of cmdCh: the reader appends, the handler takes the head,
\* and what a full channel drops is never handled later (telnet.go:362-365, 383).
THEOREM CommandsAreInOrder == Spec => []CommandsInOrder
<1>. QED
  BY InitInv, StepInv, InvOrders, PTL DEF Spec

\* The handler takes at most one answer of the lookup, although the lookup and
\* its time limit may both send one (telnet.go:328-344, 376-381).
THEOREM OneAnswerTaken == Spec => []AnswerTakenOnce
<1>1. Inv => AnswerTakenOnce
  BY DEF Inv, ListensUntilAnswered, AnswerTakenOnce
<1>. QED
  BY <1>1, InitInv, StepInv, PTL DEF Spec

\* By whatever way the handler leaves its loop, it has given its subscription
\* back when it is out of the count, and one that never subscribed gives none
\* back (telnet.go:320-321).
THEOREM SubscriptionGivenBack == Spec => []SubscriptionReleased
<1>1. Inv => SubscriptionReleased
  BY DEF Inv, SubscribedWhileStreaming, SubscriptionReleased, Leaving
<1>. QED
  BY <1>1, InitInv, StepInv, PTL DEF Spec
=============================================================================
