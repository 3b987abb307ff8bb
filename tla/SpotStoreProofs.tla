-------------------------- MODULE SpotStoreProofs --------------------------
(***************************************************************************)
(* Theorems about the write path of the spot store, for any windows, keys, *)
(* capacities, batch size, retention time, and number of crashes.          *)
(***************************************************************************)
EXTENDS SpotStore, SequenceTheorems, WellFoundedInduction, TLAPS

Call == [kind : Kind, key : Key, at : 0..MaxTime, life : 0..MaxCrash, ts : Int, fate : Fate]

\* What Publish records of a call.
CallOf(kd, k, skew, fate) ==
  [kind |-> kd, key |-> k, at |-> now, life |-> crashes,
   ts |-> IF skew > now THEN 0 ELSE now - skew, fate |-> fate]

-----------------------------------------------------------------------------
(* Row ids.                                                                *)

\* A bounded set of numbers that is not empty has a greatest one.
LEMMA Greatest ==
  ASSUME NEW S \in SUBSET Nat, NEW n \in Nat, \A x \in S : x <= n, S # {}
  PROVE  \E g \in S : \A x \in S : x <= g
<1>. DEFINE Bounds == {b \in Nat : \A x \in S : x <= b}
<1>1. Bounds \subseteq Nat /\ Bounds # {}
  OBVIOUS
<1>2. PICK b \in Bounds : \A c \in Bounds : ~(<<c, b>> \in OpToRel(<, Nat))
  BY <1>1, NatLessThanWellFounded, WFMin
<1>3. \A c \in Bounds : ~(c < b)
  BY <1>1, <1>2 DEF OpToRel
<1>4. b \in S
  <2>1. SUFFICES ASSUME b \notin S PROVE FALSE
    OBVIOUS
  <2>2. PICK x \in S : TRUE
    OBVIOUS
  <2>3. \A y \in S : y <= b /\ y # b /\ y \in Nat
    BY <2>1
  <2>4. b - 1 \in Nat /\ \A y \in S : y <= b - 1
    BY <2>2, <2>3
  <2>5. b - 1 \in Bounds /\ b - 1 < b
    BY <2>4
  <2>. QED
    BY <1>3, <2>5
<1>. QED
  BY <1>4

\* The ids of the rows, and that a table with rows has a last one.
IdsTyped ==
  /\ DOMAIN db \subseteq Nat \ {0}
  /\ DOMAIN db # {} => \E id \in DOMAIN db : \A x \in DOMAIN db : x <= id

LEMMA LastIdIsLast ==
  ASSUME IdsTyped
  PROVE  LastId \in Nat /\ \A id \in DOMAIN db : id <= LastId
<1>1. CASE DOMAIN db = {}
  BY <1>1 DEF LastId
<1>2. CASE DOMAIN db # {}
  <2>1. \E id \in DOMAIN db : \A x \in DOMAIN db : x <= id
    BY <1>2 DEF IdsTyped
  <2>2. LastId \in DOMAIN db /\ \A x \in DOMAIN db : x <= LastId
    BY <1>2, <2>1 DEF LastId
  <2>. QED
    BY <2>2 DEF IdsTyped
<1>. QED
  BY <1>1, <1>2

\* What the insertion of a batch does to the table.
LEMMA BatchRows ==
  ASSUME IdsTyped, NEW n \in Nat, n = Len(batch), db' = WithBatch
  PROVE  /\ DOMAIN db' = DOMAIN db \cup (LastId + 1)..(LastId + n)
         /\ \A id \in DOMAIN db : db'[id] = db[id]
         /\ \A i \in 1..n : LastId + i \in DOMAIN db' /\ db'[LastId + i] = batch[i]
         /\ \A id \in DOMAIN db' \ DOMAIN db :
              id - LastId \in 1..n /\ id > LastId /\ db'[id] = batch[id - LastId]
         /\ IdsTyped'
<1>1. LastId \in Nat /\ \A id \in DOMAIN db : id <= LastId /\ id \in Nat \ {0}
  BY LastIdIsLast DEF IdsTyped
<1>2. /\ DOMAIN db' = DOMAIN db \cup (LastId + 1)..(LastId + n)
      /\ \A id \in DOMAIN db' : db'[id] = IF id <= LastId THEN db[id] ELSE batch[id - LastId]
  BY DEF WithBatch
<1>3. \A i \in 1..n : LastId + i \in DOMAIN db' /\ db'[LastId + i] = batch[i]
  BY <1>1, <1>2
<1>4. \A id \in DOMAIN db' \ DOMAIN db :
        id - LastId \in 1..n /\ id > LastId /\ db'[id] = batch[id - LastId]
  BY <1>1, <1>2
<1>5. IdsTyped'
  <2>1. DOMAIN db' \subseteq Nat \ {0}
    BY <1>1, <1>2
  <2>2. \A x \in DOMAIN db' : x <= LastId + n
    BY <1>1, <1>2
  <2>. DEFINE S == DOMAIN db'
  <2>3. S # {} => \E id \in S : \A x \in S : x <= id
    <3>1. S \in SUBSET Nat /\ LastId + n \in Nat /\ \A x \in S : x <= LastId + n
      BY <1>1, <2>1, <2>2
    <3>. HIDE DEF S
    <3>. QED
      BY <3>1, Greatest
  <2>. QED
    BY <2>1, <2>3 DEF IdsTyped
<1>. QED
  BY <1>1, <1>2, <1>3, <1>4, <1>5

\* What the purge does to it.
LEMMA PurgedRows ==
  ASSUME IdsTyped, db' = WithoutExpired
  PROVE  /\ DOMAIN db' \subseteq DOMAIN db
         /\ \A id \in DOMAIN db' : db'[id] = db[id]
         /\ \A id \in DOMAIN db : ~Expired(db[id]) => id \in DOMAIN db'
         /\ IdsTyped'
<1>1. /\ DOMAIN db' = {x \in DOMAIN db : ~Expired(db[x])}
      /\ \A id \in DOMAIN db' : db'[id] = db[id]
  BY DEF WithoutExpired
<1>2. LastId \in Nat /\ \A x \in DOMAIN db' : x <= LastId
  BY <1>1, LastIdIsLast
<1>3. DOMAIN db' \subseteq Nat \ {0}
  BY <1>1 DEF IdsTyped
<1>4. DOMAIN db' # {} => \E id \in DOMAIN db' : \A x \in DOMAIN db' : x <= id
  BY <1>2, <1>3, Greatest
<1>5. IdsTyped'
  BY <1>3, <1>4 DEF IdsTyped
<1>. QED
  BY <1>1, <1>5

-----------------------------------------------------------------------------
(* The line of spots: table, batch, queue.                                 *)

\* Rows t, batch b and queue q hold ever later ones of n Publish calls.
InLine(t, b, q, n) ==
  /\ \A x \in DOMAIN t : t[x] \in 1..n
  /\ \A i \in 1..Len(b) : b[i] \in 1..n
  /\ \A i \in 1..Len(q) : q[i] \in 1..n
  /\ \A x, y \in DOMAIN t : x < y => t[x] < t[y]
  /\ \A i, j \in 1..Len(b) : i < j => b[i] < b[j]
  /\ \A i, j \in 1..Len(q) : i < j => q[i] < q[j]
  /\ \A x \in DOMAIN t : \A i \in 1..Len(b) : t[x] < b[i]
  /\ \A x \in DOMAIN t : \A i \in 1..Len(q) : t[x] < q[i]
  /\ \A i \in 1..Len(b) : \A j \in 1..Len(q) : b[i] < q[j]

\* One more call, which joins the queue or does not.
LEMMA Joins ==
  ASSUME NEW t, NEW b, NEW q \in Seq(Nat), NEW n \in Nat, InLine(t, b, q, n)
  PROVE  /\ InLine(t, b, q, n + 1)
         /\ Append(q, n + 1) \in Seq(Nat) /\ Len(Append(q, n + 1)) = Len(q) + 1
         /\ InLine(t, b, Append(q, n + 1), n + 1)
<1>. DEFINE p == Append(q, n + 1)
<1>1. /\ p \in Seq(Nat) /\ Len(p) = Len(q) + 1 /\ Len(q) \in Nat
      /\ \A i \in 1..Len(q) : p[i] = q[i]
      /\ p[Len(q) + 1] = n + 1
  BY AppendProperties, LenProperties
<1>2. \A i \in 1..n : i \in 1..(n + 1) /\ i < n + 1
  OBVIOUS
<1>3. InLine(t, b, q, n + 1)
  BY <1>2 DEF InLine
<1>. HIDE DEF p
<1>4. \A i \in 1..Len(p) : p[i] = IF i <= Len(q) THEN q[i] ELSE n + 1
  BY <1>1
<1>0. \A i \in 1..Len(p) : i \in 1..Len(q) \/ i = Len(q) + 1
  BY <1>1
<1>5. \A i \in 1..Len(p) : p[i] \in 1..(n + 1)
  <2>1. \A i \in 1..Len(q) : p[i] \in 1..(n + 1)
    BY <1>1, <1>3 DEF InLine
  <2>. QED
    BY <1>0, <1>1, <2>1
<1>6. ASSUME NEW i \in 1..Len(p), NEW j \in 1..Len(p), i < j
      PROVE  p[i] < p[j]
  <2>0. i \in 1..Len(q)
    BY <1>1, <1>6
  <2>1. p[i] = q[i]
    BY <1>1, <2>0
  <2>2. CASE j \in 1..Len(q)
    <3>1. q[i] < q[j]
      BY <1>6, <2>0, <2>2 DEF InLine
    <3>. QED
      BY <1>1, <2>1, <2>2, <3>1
  <2>3. CASE j = Len(q) + 1
    <3>1. q[i] \in 1..n
      BY <2>0 DEF InLine
    <3>. QED
      BY <1>1, <1>2, <2>1, <2>3, <3>1
  <2>. QED
    BY <1>0, <2>2, <2>3
<1>7. ASSUME NEW x \in DOMAIN t, NEW i \in 1..Len(p) PROVE t[x] < p[i]
  <2>1. CASE i \in 1..Len(q)
    BY <1>1, <2>1 DEF InLine
  <2>2. CASE i = Len(q) + 1
    <3>1. t[x] \in 1..n
      BY DEF InLine
    <3>. QED
      BY <1>1, <1>2, <2>2, <3>1
  <2>. QED
    BY <1>0, <2>1, <2>2
<1>8. ASSUME NEW i \in 1..Len(b), NEW j \in 1..Len(p) PROVE b[i] < p[j]
  <2>1. CASE j \in 1..Len(q)
    BY <1>1, <2>1 DEF InLine
  <2>2. CASE j = Len(q) + 1
    <3>1. b[i] \in 1..n
      BY DEF InLine
    <3>. QED
      BY <1>1, <1>2, <2>2, <3>1
  <2>. QED
    BY <1>0, <2>1, <2>2
<1>9. InLine(t, b, p, n + 1)
  BY <1>3, <1>5, <1>6, <1>7, <1>8 DEF InLine
<1>. QED
  BY <1>1, <1>3, <1>9 DEF p

\* One more spot in a batch or a queue.
LEMMA OneMoreId ==
  ASSUME NEW b \in Seq(Nat), NEW h \in Nat, NEW c, c = Append(b, h)
  PROVE  Ids(c) = Ids(b) \cup {h}
<1>1. /\ Len(c) = Len(b) + 1 /\ Len(b) \in Nat
      /\ \A i \in 1..Len(b) : c[i] = b[i]
      /\ c[Len(b) + 1] = h
  BY AppendProperties, LenProperties
<1>2. /\ \A i \in 1..Len(b) : i \in 1..Len(c) /\ c[i] = b[i]
      /\ Len(c) \in 1..Len(c) /\ c[Len(c)] = h
      /\ \A i \in 1..Len(c) : c[i] = h \/ (i \in 1..Len(b) /\ c[i] = b[i])
  BY <1>1
<1>. QED
  BY <1>2 DEF Ids

\* The head of the queue becomes the last of the batch.
LEMMA Advances ==
  ASSUME NEW t, NEW b \in Seq(Nat), NEW q \in Seq(Nat), NEW n \in Nat,
         q # <<>>, InLine(t, b, q, n)
  PROVE  LET c == Append(b, Head(q))
         IN  /\ c \in Seq(Nat) /\ Len(c) = Len(b) + 1
             /\ Tail(q) \in Seq(Nat) /\ Len(Tail(q)) = Len(q) - 1
             /\ InLine(t, c, Tail(q), n)
             /\ Ids(q) = Ids(Tail(q)) \cup {Head(q)}
<1>. DEFINE h == Head(q)  c == Append(b, h)  p == Tail(q)
<1>1. /\ h \in Nat /\ p \in Seq(Nat) /\ Len(p) = Len(q) - 1
      /\ \A i \in 1..Len(p) : p[i] = q[i + 1]
  BY HeadTailProperties
<1>2. Len(q) \in Nat \ {0} /\ h = q[1] /\ 1 \in 1..Len(q)
  BY EmptySeq
<1>3. \A i \in 1..Len(p) : p[i] = q[i + 1] /\ i + 1 \in 1..Len(q) /\ 1 < i + 1
  BY <1>1, <1>2
<1>4. /\ c \in Seq(Nat) /\ Len(c) = Len(b) + 1 /\ Len(b) \in Nat
      /\ \A i \in 1..Len(b) : c[i] = b[i]
      /\ c[Len(b) + 1] = h
  BY <1>1, AppendProperties, LenProperties
<1>. HIDE DEF h, c, p
<1>5. \A i \in 1..Len(c) : c[i] = IF i <= Len(b) THEN b[i] ELSE h
  BY <1>4
<1>6. InLine(t, c, p, n)
  <2>00. \A i \in 1..Len(c) : i \in 1..Len(b) \/ i = Len(b) + 1
    BY <1>4
  <2>0. \A i \in 1..Len(c) : (i \in 1..Len(b) /\ c[i] = b[i]) \/ c[i] = q[1]
    BY <1>2, <1>4, <2>00
  <2>1. \A i \in 1..Len(c) : c[i] \in 1..n
    BY <1>2, <2>0 DEF InLine
  <2>2. \A i \in 1..Len(p) : p[i] \in 1..n
    BY <1>3 DEF InLine
  <2>3. ASSUME NEW i \in 1..Len(c), NEW j \in 1..Len(c), i < j
        PROVE  c[i] < c[j]
    <3>0. i \in 1..Len(b)
      BY <1>4, <2>3
    <3>1. i \in 1..Len(b) /\ c[i] = b[i]
      BY <1>4, <3>0
    <3>2. CASE j \in 1..Len(b)
      <4>1. b[i] < b[j]
        BY <2>3, <3>1, <3>2 DEF InLine
      <4>. QED
        BY <1>4, <3>1, <3>2, <4>1
    <3>3. CASE j = Len(b) + 1
      <4>1. b[i] < q[1]
        BY <1>2, <3>1 DEF InLine
      <4>. QED
        BY <1>2, <1>4, <3>1, <3>3, <4>1
    <3>. QED
      BY <2>00, <3>2, <3>3
  <2>4. \A i, j \in 1..Len(p) : i < j => p[i] < p[j]
    BY <1>2, <1>3 DEF InLine
  <2>5. \A x \in DOMAIN t : \A i \in 1..Len(c) : t[x] < c[i]
    BY <1>2, <2>0 DEF InLine
  <2>6. \A x \in DOMAIN t : \A i \in 1..Len(p) : t[x] < p[i]
    BY <1>3 DEF InLine
  <2>7. \A i \in 1..Len(c) : \A j \in 1..Len(p) : c[i] < p[j]
    <3>1. \A j \in 1..Len(p) : q[1] < p[j]
      BY <1>2, <1>3 DEF InLine
    <3>2. \A i \in 1..Len(b) : \A j \in 1..Len(p) : b[i] < p[j]
      BY <1>3 DEF InLine
    <3>. QED
      BY <2>0, <3>1, <3>2
  <2>. QED
    BY <2>1, <2>2, <2>3, <2>4, <2>5, <2>6, <2>7 DEF InLine
<1>8. Ids(q) = Ids(p) \cup {h}
  <2>1. ASSUME NEW i \in 1..Len(q)
        PROVE  q[i] = h \/ (i - 1 \in 1..Len(p) /\ q[i] = p[i - 1])
    <3>1. i = 1 \/ i - 1 \in 1..Len(p)
      BY <1>1, <1>2
    <3>2. i - 1 \in 1..Len(p) => p[i - 1] = q[(i - 1) + 1] /\ (i - 1) + 1 = i
      BY <1>1
    <3>. QED
      BY <1>2, <3>1, <3>2
  <2>2. Ids(q) \subseteq Ids(p) \cup {h}
    BY <2>1 DEF Ids
  <2>3. Ids(p) \subseteq Ids(q) /\ h \in Ids(q)
    BY <1>2, <1>3 DEF Ids
  <2>. QED
    BY <2>2, <2>3
<1>. QED
  BY <1>1, <1>4, <1>6, <1>8 DEF h, c, p

\* Whatever is taken out of the line leaves the rest in line.
LEMMA Leaves ==
  ASSUME NEW t, NEW u, NEW b, NEW q, NEW n, InLine(t, b, q, n),
         DOMAIN u \subseteq DOMAIN t, \A x \in DOMAIN u : u[x] = t[x]
  PROVE  InLine(u, b, q, n) /\ InLine(u, <<>>, q, n) /\ InLine(u, <<>>, <<>>, n)
<1>1. InLine(u, b, q, n)
  BY DEF InLine
<1>. QED
  BY <1>1 DEF InLine

\* The batch becomes rows.
LEMMA Rests ==
  ASSUME IdsTyped, batch \in Seq(Nat), NEW q, NEW n \in Nat, InLine(db, batch, q, n),
         db' = WithBatch
  PROVE  InLine(db', <<>>, q, n)
<1>. DEFINE m == Len(batch)
<1>1. m \in Nat
  BY LenProperties
<1>2. LastId \in Nat /\ \A id \in DOMAIN db : id <= LastId /\ id \in Nat
  BY LastIdIsLast DEF IdsTyped
<1>3. /\ \A x \in DOMAIN db : db'[x] = db[x]
      /\ \A x \in DOMAIN db' \ DOMAIN db :
           /\ x - LastId \in 1..m /\ x > LastId /\ db'[x] = batch[x - LastId]
           /\ x \in Nat
  <2>1. IdsTyped'
    BY <1>1, BatchRows
  <2>. QED
    BY <1>1, <2>1, BatchRows DEF IdsTyped
<1>. HIDE DEF m
<1>4. \A x \in DOMAIN db' : db'[x] \in 1..n
  BY <1>3 DEF InLine, m
<1>5. ASSUME NEW x \in DOMAIN db', NEW y \in DOMAIN db', x < y
      PROVE  db'[x] < db'[y]
  <2>1. CASE x \in DOMAIN db /\ y \in DOMAIN db
    BY <1>3, <1>5, <2>1 DEF InLine
  <2>2. CASE x \in DOMAIN db /\ y \notin DOMAIN db
    BY <1>3, <2>2 DEF InLine, m
  <2>3. CASE x \notin DOMAIN db /\ y \in DOMAIN db
    BY <1>2, <1>3, <1>5, <2>3
  <2>4. CASE x \notin DOMAIN db /\ y \notin DOMAIN db
    <3>1. x - LastId < y - LastId
      BY <1>2, <1>3, <1>5, <2>4
    <3>. QED
      BY <1>3, <2>4, <3>1 DEF InLine, m
  <2>. QED
    BY <2>1, <2>2, <2>3, <2>4
<1>6. \A x \in DOMAIN db' : \A i \in 1..Len(q) : db'[x] < q[i]
  BY <1>3 DEF InLine, m
<1>7. Len(<<>>) = 0
  OBVIOUS
<1>. QED
  BY <1>4, <1>5, <1>6, <1>7 DEF InLine

-----------------------------------------------------------------------------
(* Type correctness.                                                       *)

\* What the calls heard so far say.
HeardTyped ==
  /\ heard \in Seq(Call)
  /\ \A i \in 1..Len(heard) : heard[i].at <= now

PlainTyped ==
  /\ now \in 0..MaxTime
  /\ up \in BOOLEAN
  /\ lastSeen \in [Kind -> [Key -> (0..MaxTime) \cup {Never}]]
  /\ pc \in {"select", "flush"}
  /\ lossy \in BOOLEAN
  /\ crashes \in 0..MaxCrash

LineTyped ==
  /\ queue \in Seq(Nat) /\ Len(queue) <= QueueCap
  /\ batch \in Seq(Nat) /\ Len(batch) <= BatchMax
  /\ pc = "select" => Len(batch) < BatchMax
  /\ IdsTyped
  /\ InLine(db, batch, queue, Len(heard))

\* A spot in the line once was let through; `written` are the ones that
\* reached the table at some time.
InPlay == written \cup Ids(batch) \cup Ids(queue)

QueuedOnce == InPlay \subseteq {i \in 1..Len(heard) : heard[i].fate = "queued"}

LEMMA Repeats ==
  ASSUME NEW kd \in Kind, NEW k \in Key, NEW skew, Publish(kd, k, skew), IsRepeat(kd, k)
  PROVE  /\ heard' = Append(heard, CallOf(kd, k, skew, "repeat"))
         /\ UNCHANGED <<now, up, batch, pc, db, written, crashes, lastSeen, queue, lossy>>
  BY DEF Publish, CallOf

LEMMA LetsThrough ==
  ASSUME NEW kd \in Kind, NEW k \in Key, NEW skew, Publish(kd, k, skew), ~IsRepeat(kd, k)
  PROVE  /\ lastSeen' = Record(kd, k)
         /\ \/ /\ Len(queue) < QueueCap
               /\ queue' = Append(queue, Len(heard) + 1)
               /\ heard' = Append(heard, CallOf(kd, k, skew, "queued"))
               /\ UNCHANGED lossy
            \/ /\ heard' = Append(heard, CallOf(kd, k, skew, "dropped"))
               /\ lossy' = TRUE
               /\ UNCHANGED queue
         /\ UNCHANGED <<now, up, batch, pc, db, written, crashes>>
  BY DEF Publish, CallOf

\* What one more call does to the history.
LEMMA OneMoreCall ==
  ASSUME heard \in Seq(Call), NEW c \in Call, heard' = Append(heard, c)
  PROVE  /\ heard' \in Seq(Call) /\ Len(heard') = Len(heard) + 1 /\ Len(heard) \in Nat
         /\ \A i \in 1..Len(heard) : heard'[i] = heard[i] /\ heard[i] \in Call
         /\ heard'[Len(heard) + 1] = c
         /\ \A i \in 1..Len(heard') : i \in 1..Len(heard) \/ i = Len(heard) + 1
<1>1. /\ heard' \in Seq(Call) /\ Len(heard') = Len(heard) + 1 /\ Len(heard) \in Nat
      /\ \A i \in 1..Len(heard) : heard'[i] = heard[i]
      /\ heard'[Len(heard) + 1] = c
  BY AppendProperties, LenProperties
<1>2. \A i \in 1..Len(heard) : heard[i] \in Call
  BY ElementOfSeq
<1>. QED
  BY <1>1, <1>2

LEMMA CallTyped ==
  ASSUME PlainTyped, NEW kd \in Kind, NEW k \in Key, NEW skew \in Skew, NEW fate \in Fate
  PROVE  CallOf(kd, k, skew, fate) \in Call
<1>1. (IF skew > now THEN 0 ELSE now - skew) \in Int
  BY StoreAssumption DEF PlainTyped
<1>2. now \in 0..MaxTime /\ crashes \in 0..MaxCrash
  BY DEF PlainTyped
<1>. QED
  BY <1>1, <1>2 DEF CallOf, Call

LEMMA RecordTyped ==
  ASSUME PlainTyped, NEW kd \in Kind, NEW k \in Key
  PROVE  Record(kd, k) \in [Kind -> [Key -> (0..MaxTime) \cup {Never}]]
<1>. DEFINE T == (0..MaxTime) \cup {Never}
            marked == [lastSeen[kd] EXCEPT ![k] = now]
            swept == [x \in Key |-> IF marked[x] # Never /\ now >= marked[x] + Window[kd]
                                    THEN Never ELSE marked[x]]
<1>1. lastSeen[kd] \in [Key -> T] /\ now \in T
  BY DEF PlainTyped
<1>2. marked \in [Key -> T] /\ Never \in T
  BY <1>1
<1>. HIDE DEF marked, T
<1>3. swept \in [Key -> T]
  BY <1>2
<1>. HIDE DEF swept
<1>4. [lastSeen EXCEPT ![kd] = swept] \in [Kind -> [Key -> T]]
  BY <1>3 DEF PlainTyped, T
<1>5. Record(kd, k) = lastSeen \/ Record(kd, k) = [lastSeen EXCEPT ![kd] = swept]
  BY DEF Record, swept, marked
<1>. QED
  BY <1>4, <1>5 DEF PlainTyped, T

LEMMA PlainStep ==
  ASSUME PlainTyped, HeardTyped, [Next]_vars
  PROVE  PlainTyped' /\ HeardTyped'
<1>1. ASSUME NEW kd \in Kind, NEW k \in Key, NEW skew \in Skew, Publish(kd, k, skew)
      PROVE  PlainTyped' /\ HeardTyped'
  <2>1. PICK fate \in Fate : heard' = Append(heard, CallOf(kd, k, skew, fate))
    BY <1>1, Repeats, LetsThrough DEF Fate
  <2>2. HeardTyped'
    <3>1. CallOf(kd, k, skew, fate).at = now /\ now \in Nat /\ now' = now
      BY <1>1 DEF CallOf, Publish, PlainTyped
    <3>2. CallOf(kd, k, skew, fate) \in Call
      BY CallTyped
    <3>. DEFINE c == CallOf(kd, k, skew, fate)
    <3>. HIDE DEF c
    <3>3. /\ heard' \in Seq(Call)
          /\ \A i \in 1..Len(heard') : i \in 1..Len(heard) \/ i = Len(heard) + 1
          /\ \A i \in 1..Len(heard) : heard'[i] = heard[i]
          /\ heard'[Len(heard) + 1] = c
      BY <2>1, <3>2, OneMoreCall DEF HeardTyped, c
    <3>. QED
      BY <3>1, <3>3 DEF HeardTyped, c
  <2>3. /\ lastSeen' = lastSeen \/ lastSeen' = Record(kd, k)
        /\ lossy' = lossy \/ lossy' = TRUE
        /\ UNCHANGED <<now, up, pc, crashes>>
    BY <1>1, Repeats, LetsThrough
  <2>4. PlainTyped'
    BY <2>3, RecordTyped DEF PlainTyped
  <2>. QED
    BY <2>2, <2>4
<1>2. ASSUME heard' = heard, now' = now \/ now' = now + 1
      PROVE  HeardTyped'
  <2>1. \A i \in 1..Len(heard) : heard[i].at \in Nat
    <3>1. \A i \in 1..Len(heard) : heard[i] \in Call
      BY ElementOfSeq DEF HeardTyped
    <3>. QED
      BY <3>1, StoreAssumption DEF Call
  <2>. QED
    BY <1>2, <2>1 DEF HeardTyped, PlainTyped
<1>3. CASE TakeSpot \/ TickerFires \/ Commit \/ InsertFails \/ Purge
  <2>1. PlainTyped'
    BY <1>3 DEF TakeSpot, TickerFires, Commit, InsertFails, Purge, PlainTyped
  <2>. QED
    BY <1>2, <1>3, <2>1 DEF TakeSpot, TickerFires, Commit, InsertFails, Purge
<1>4. CASE Tick
  BY <1>2, <1>4, StoreAssumption DEF Tick, PlainTyped
<1>5. CASE Crash
  <2>1. lossy' \in BOOLEAN
    BY <1>5, Zenon DEF Crash
  <2>2. lastSeen' \in [Kind -> [Key -> (0..MaxTime) \cup {Never}]]
    BY <1>5 DEF Crash, Empty
  <2>3. crashes' \in 0..MaxCrash
    BY <1>5, StoreAssumption DEF Crash, PlainTyped
  <2>4. PlainTyped'
    BY <1>5, <2>1, <2>2, <2>3 DEF Crash, PlainTyped
  <2>. QED
    BY <1>2, <1>5, <2>4 DEF Crash
<1>6. CASE Restart
  BY <1>2, <1>6 DEF Restart, PlainTyped
<1>7. CASE UNCHANGED vars
  BY <1>2, <1>7 DEF vars, PlainTyped
<1>. QED
  BY <1>1, <1>3, <1>4, <1>5, <1>6, <1>7 DEF Next

LEMMA LineStep ==
  ASSUME HeardTyped, PlainTyped, LineTyped, [Next]_vars
  PROVE  LineTyped'
<1>0. /\ Len(heard) \in Nat /\ Len(queue) \in Nat /\ Len(batch) \in Nat
      /\ <<>> \in Seq(Nat) /\ Len(<<>>) = 0
      /\ QueueCap \in Nat \ {0} /\ BatchMax \in Nat \ {0}
  BY LenProperties, EmptySeq, StoreAssumption DEF HeardTyped, LineTyped
<1>1. ASSUME NEW kd \in Kind, NEW k \in Key, NEW skew \in Skew, Publish(kd, k, skew)
      PROVE  LineTyped'
  <2>1. Len(heard') = Len(heard) + 1
    <3>1. PICK fate \in Fate : heard' = Append(heard, CallOf(kd, k, skew, fate))
      BY <1>1, Repeats, LetsThrough DEF Fate
    <3>2. CallOf(kd, k, skew, fate) \in Call
      BY CallTyped
    <3>. DEFINE c == CallOf(kd, k, skew, fate)
    <3>. HIDE DEF c
    <3>. QED
      BY <3>1, <3>2, OneMoreCall DEF HeardTyped, c
  <2>. DEFINE p == Append(queue, Len(heard) + 1)
  <2>2. /\ UNCHANGED <<batch, pc, db>>
        /\ queue' = queue \/ (Len(queue) < QueueCap /\ queue' = p)
    BY <1>1, Repeats, LetsThrough
  <2>3. /\ InLine(db, batch, queue, Len(heard) + 1)
        /\ p \in Seq(Nat) /\ Len(p) = Len(queue) + 1
        /\ InLine(db, batch, p, Len(heard) + 1)
    BY <1>0, Joins DEF LineTyped
  <2>. HIDE DEF p
  <2>4. queue' \in Seq(Nat) /\ Len(queue') <= QueueCap
    <3>1. /\ queue \in Seq(Nat) /\ Len(queue) \in Nat /\ Len(queue) <= QueueCap
          /\ QueueCap \in Nat /\ p \in Seq(Nat) /\ Len(p) = Len(queue) + 1
      BY <1>0, <2>3 DEF LineTyped
    <3>. QED
      BY <2>2, <3>1
  <2>5. InLine(db', batch', queue', Len(heard'))
    BY <2>1, <2>2, <2>3
  <2>. QED
    BY <2>2, <2>4, <2>5 DEF LineTyped, IdsTyped, InLine
<1>2. CASE TakeSpot
  <2>1. /\ queue # <<>> /\ pc = "select"
        /\ batch' = Append(batch, Head(queue)) /\ queue' = Tail(queue)
        /\ pc' = IF Len(batch') >= BatchMax THEN "flush" ELSE "select"
        /\ UNCHANGED <<db, heard>>
    BY <1>2 DEF TakeSpot
  <2>. DEFINE c == Append(batch, Head(queue))
  <2>2. /\ c \in Seq(Nat) /\ Len(c) = Len(batch) + 1
        /\ Tail(queue) \in Seq(Nat) /\ Len(Tail(queue)) = Len(queue) - 1
        /\ InLine(db, c, Tail(queue), Len(heard))
    <3>1. /\ batch \in Seq(Nat) /\ queue \in Seq(Nat)
          /\ InLine(db, batch, queue, Len(heard))
      BY DEF LineTyped
    <3>. QED
      BY <1>0, <2>1, <3>1, Advances, ZenonT(40)
  <2>. HIDE DEF c
  <2>3. batch' = c /\ Len(c) <= BatchMax /\ Len(queue') <= QueueCap
    <3>1. batch' = c /\ queue' = Tail(queue) /\ Len(batch) < BatchMax /\ Len(queue) <= QueueCap
      BY <2>1 DEF LineTyped, c
    <3>. QED
      BY <1>0, <2>2, <3>1
  <2>4. pc' = "select" => Len(batch') < BatchMax
    BY <1>0, <2>1, <2>2, <2>3
  <2>5. IdsTyped' /\ InLine(db', batch', queue', Len(heard'))
    BY <2>1, <2>2, <2>3 DEF LineTyped, IdsTyped
  <2>. QED
    BY <2>1, <2>2, <2>3, <2>4, <2>5 DEF LineTyped, InLine
<1>3. CASE TickerFires
  BY <1>3 DEF TickerFires, LineTyped, IdsTyped, InLine
<1>4. CASE Commit
  <2>1. /\ db' = WithBatch /\ batch' = <<>> /\ UNCHANGED <<queue, heard>>
    BY <1>4 DEF Commit
  <2>2. IdsTyped'
    BY <1>0, <2>1, BatchRows DEF LineTyped
  <2>3. InLine(db', <<>>, queue, Len(heard))
    BY <1>0, <2>1, Rests DEF LineTyped
  <2>. QED
    BY <1>0, <2>1, <2>2, <2>3 DEF LineTyped, InLine
<1>5. CASE InsertFails
  <2>1. batch' = <<>> /\ UNCHANGED <<db, queue, heard>>
    BY <1>5 DEF InsertFails
  <2>2. InLine(db, <<>>, queue, Len(heard))
    BY Leaves DEF LineTyped
  <2>. QED
    BY <1>0, <2>1, <2>2 DEF LineTyped, InLine, IdsTyped
<1>6. CASE Purge
  <2>1. db' = WithoutExpired /\ UNCHANGED <<batch, queue, pc, heard>>
    BY <1>6 DEF Purge
  <2>2. /\ DOMAIN db' \subseteq DOMAIN db
        /\ \A id \in DOMAIN db' : db'[id] = db[id]
        /\ IdsTyped'
    BY <2>1, PurgedRows DEF LineTyped
  <2>. DEFINE u == db'
  <2>3. DOMAIN u \subseteq DOMAIN db /\ \A x \in DOMAIN u : u[x] = db[x]
    BY <2>2
  <2>. HIDE DEF u
  <2>4. InLine(u, batch, queue, Len(heard))
    BY <2>3, Leaves DEF LineTyped
  <2>. QED
    BY <2>1, <2>2, <2>4 DEF LineTyped, InLine, u
<1>7. CASE Crash
  <2>1. batch' = <<>> /\ queue' = <<>> /\ UNCHANGED <<db, heard>>
    BY <1>7 DEF Crash
  <2>2. InLine(db, <<>>, <<>>, Len(heard))
    BY Leaves DEF LineTyped
  <2>. QED
    BY <1>0, <2>1, <2>2 DEF LineTyped, InLine, IdsTyped
<1>8. CASE Tick \/ Restart \/ UNCHANGED vars
  BY <1>8 DEF Tick, Restart, vars, LineTyped, InLine, IdsTyped
<1>. QED
  BY <1>1, <1>2, <1>3, <1>4, <1>5, <1>6, <1>7, <1>8 DEF Next

-----------------------------------------------------------------------------
(* The dedup maps.                                                         *)

LetThrough == {i \in 1..Len(heard) : heard[i].fate # "repeat"}

Alike(i, j) == /\ heard[i].kind = heard[j].kind
               /\ heard[i].key = heard[j].key
               /\ heard[i].life = heard[j].life

LifeIsPast == \A i \in 1..Len(heard) : heard[i].life <= crashes

\* Spots that look alike are let through at least a window apart.
Spaced ==
  \A i, j \in LetThrough :
    i < j /\ Alike(i, j) => heard[i].at + Window[heard[i].kind] <= heard[j].at

\* The map knows every spot of this life whose window is not over, or a later
\* one with its key: the sweep took none of them.
Known ==
  \A i \in LetThrough :
    (heard[i].life = crashes /\ now < heard[i].at + Window[heard[i].kind]) =>
      /\ lastSeen[heard[i].kind][heard[i].key] # Never
      /\ heard[i].at <= lastSeen[heard[i].kind][heard[i].key]

\* What the map knows, it knows of a spot that was let through.
Witnessed ==
  \A kd \in Kind, k \in Key :
    lastSeen[kd][k] # Never =>
      \E j \in LetThrough : /\ heard[j].kind = kd /\ heard[j].key = k
                            /\ heard[j].at = lastSeen[kd][k]

LEMMA TimesAreNumbers ==
  ASSUME PlainTyped
  PROVE  /\ now \in Nat /\ now # Never /\ crashes \in Nat
         /\ \A kd \in Kind : Window[kd] \in Nat
         /\ \A kd \in Kind, k \in Key :
              lastSeen[kd][k] \in Nat \/ lastSeen[kd][k] = Never
  BY StoreAssumption DEF PlainTyped, Never

LEMMA CallsAreNumbers ==
  ASSUME HeardTyped, NEW i \in 1..Len(heard)
  PROVE  /\ heard[i] \in Call /\ heard[i].kind \in Kind /\ heard[i].key \in Key
         /\ heard[i].at \in Nat /\ heard[i].life \in Nat /\ heard[i].at <= now
<1>1. heard[i] \in Call /\ heard[i].at <= now
  BY ElementOfSeq DEF HeardTyped
<1>2. \A c \in Call : c.kind \in Kind /\ c.key \in Key /\ c.at \in Nat /\ c.life \in Nat
  BY StoreAssumption DEF Call
<1>. QED
  BY <1>1, <1>2

\* Record notes one key and forgets only what is a window old.
LEMMA RecordChanges ==
  ASSUME PlainTyped, NEW kd \in Kind, NEW k \in Key, lastSeen' = Record(kd, k),
         NEW c \in Kind, NEW x \in Key
  PROVE  \/ lastSeen'[c][x] = lastSeen[c][x] /\ (c # kd \/ x # k \/ Window[kd] = 0)
         \/ c = kd /\ x = k /\ lastSeen'[c][x] = now
         \/ /\ c = kd /\ x # k /\ lastSeen'[c][x] = Never
            /\ lastSeen[c][x] # Never /\ now >= lastSeen[c][x] + Window[c]
<1>1. CASE Window[kd] = 0
  BY <1>1 DEF Record
<1>2. CASE Window[kd] # 0
  <2>. DEFINE marked == [lastSeen[kd] EXCEPT ![k] = now]
              swept == [y \in Key |-> IF marked[y] # Never /\ now >= marked[y] + Window[kd]
                                      THEN Never ELSE marked[y]]
  <2>1. lastSeen' = [lastSeen EXCEPT ![kd] = swept]
    BY <1>2 DEF Record
  <2>2. marked[k] = now /\ \A y \in Key : y # k => marked[y] = lastSeen[kd][y]
    BY DEF PlainTyped
  <2>3. \A y \in Key : swept[y] = IF marked[y] # Never /\ now >= marked[y] + Window[kd]
                                  THEN Never ELSE marked[y]
    OBVIOUS
  <2>. HIDE DEF marked, swept
  <2>4. swept[k] = now
    BY <1>2, <2>2, <2>3, TimesAreNumbers
  <2>5. lastSeen'[kd] = swept /\ \A d \in Kind : d # kd => lastSeen'[d] = lastSeen[d]
    BY <2>1 DEF PlainTyped
  <2>6. CASE c # kd
    BY <2>5, <2>6
  <2>7. CASE c = kd /\ x = k
    BY <2>4, <2>5, <2>7
  <2>8. CASE c = kd /\ x # k
    BY <2>2, <2>3, <2>5, <2>8
  <2>. QED
    BY <2>6, <2>7, <2>8
<1>. QED
  BY <1>1, <1>2

\* The history after one more call, seen from the spots let through.
LEMMA HistoryGrows ==
  ASSUME PlainTyped, HeardTyped, NEW kd \in Kind, NEW k \in Key, NEW skew \in Skew,
         NEW fate \in Fate, heard' = Append(heard, CallOf(kd, k, skew, fate))
  PROVE  LET n == Len(heard)
         IN  /\ n \in Nat /\ Len(heard') = n + 1
             /\ \A i \in 1..n : heard'[i] = heard[i] /\ i < n + 1 /\ i \in 1..(n + 1)
             /\ LetThrough' = IF fate = "repeat" THEN LetThrough ELSE LetThrough \cup {n + 1}
             /\ heard'[n + 1].kind = kd /\ heard'[n + 1].key = k
             /\ heard'[n + 1].at = now /\ heard'[n + 1].life = crashes
             /\ heard'[n + 1].fate = fate
<1>. DEFINE n == Len(heard)  c == CallOf(kd, k, skew, fate)
<1>1. c.kind = kd /\ c.key = k /\ c.at = now /\ c.life = crashes /\ c.fate = fate
  BY DEF CallOf
<1>2. c \in Call
  BY CallTyped
<1>. HIDE DEF c
<1>3. /\ n \in Nat /\ Len(heard') = n + 1
      /\ \A i \in 1..n : heard'[i] = heard[i]
      /\ heard'[n + 1] = c
      /\ \A i \in 1..Len(heard') : i \in 1..n \/ i = n + 1
  BY <1>2, OneMoreCall DEF HeardTyped, c
<1>. HIDE DEF n
<1>4. \A i \in 1..n : i < n + 1 /\ i \in 1..(n + 1)
  BY <1>3
<1>5. n + 1 \in 1..(n + 1)
  BY <1>3
<1>6. LetThrough' = {i \in 1..(n + 1) : heard'[i].fate # "repeat"}
  BY <1>3 DEF LetThrough
<1>7. LetThrough = {i \in 1..n : heard[i].fate # "repeat"}
  BY DEF LetThrough, n
<1>8. LetThrough' = IF fate = "repeat" THEN LetThrough ELSE LetThrough \cup {n + 1}
  BY <1>1, <1>3, <1>4, <1>5, <1>6, <1>7
<1>. QED
  BY <1>1, <1>3, <1>4, <1>8 DEF n

Dedup == LifeIsPast /\ Spaced /\ Known /\ Witnessed

\* A repeat leaves the maps and the spots let through as they are.
LEMMA RepeatKeepsDedup ==
  ASSUME PlainTyped, HeardTyped, Dedup, NEW kd \in Kind, NEW k \in Key, NEW skew \in Skew,
         Publish(kd, k, skew), IsRepeat(kd, k)
  PROVE  Dedup'
<1>. DEFINE n == Len(heard)
<1>1. /\ heard' = Append(heard, CallOf(kd, k, skew, "repeat"))
      /\ UNCHANGED <<now, crashes, lastSeen>>
  BY Repeats
<1>2. /\ n \in Nat /\ Len(heard') = n + 1
      /\ \A i \in 1..n : heard'[i] = heard[i]
      /\ LetThrough' = LetThrough
      /\ heard'[n + 1].life = crashes
  BY <1>1, HistoryGrows DEF Fate
<1>3. \A i \in LetThrough : i \in 1..n
  BY DEF LetThrough
<1>. HIDE DEF n
<1>4. LifeIsPast'
  <2>1. \A i \in 1..(n + 1) : i \in 1..n \/ i = n + 1
    BY <1>2
  <2>. QED
    BY <1>1, <1>2, <2>1, TimesAreNumbers DEF Dedup, LifeIsPast, n
<1>5. Spaced' /\ Known' /\ Witnessed'
  BY <1>1, <1>2, <1>3 DEF Dedup, Spaced, Alike, Known, Witnessed
<1>. QED
  BY <1>4, <1>5 DEF Dedup

\* A spot that is let through is known from then on, and none that it
\* resembles was let through less than a window before.
LEMMA ThroughKeepsDedup ==
  ASSUME PlainTyped, HeardTyped, Dedup, NEW kd \in Kind, NEW k \in Key, NEW skew \in Skew,
         Publish(kd, k, skew), ~IsRepeat(kd, k)
  PROVE  Dedup'
<1>. DEFINE n == Len(heard)
<1>1. /\ \E fate \in Fate \ {"repeat"} : heard' = Append(heard, CallOf(kd, k, skew, fate))
      /\ lastSeen' = Record(kd, k) /\ UNCHANGED <<now, crashes>>
  BY LetsThrough DEF Fate
<1>2. /\ n \in Nat /\ Len(heard') = n + 1
      /\ \A i \in 1..n : heard'[i] = heard[i] /\ i < n + 1 /\ i \in 1..(n + 1)
      /\ LetThrough' = LetThrough \cup {n + 1}
      /\ heard'[n + 1].kind = kd /\ heard'[n + 1].key = k
      /\ heard'[n + 1].at = now /\ heard'[n + 1].life = crashes
  BY <1>1, HistoryGrows
<1>3. ASSUME NEW i \in LetThrough
      PROVE  /\ i \in 1..n /\ heard'[i] = heard[i] /\ i < n + 1
             /\ heard[i].kind \in Kind /\ heard[i].key \in Key
             /\ heard[i].at \in Nat /\ heard[i].at <= now
             /\ Window[heard[i].kind] \in Nat
  BY <1>2, <1>3, CallsAreNumbers, TimesAreNumbers DEF LetThrough
<1>4. ASSUME NEW i \in LetThrough, heard[i].life = crashes,
             now < heard[i].at + Window[heard[i].kind]
      PROVE  /\ lastSeen[heard[i].kind][heard[i].key] \in Nat
             /\ lastSeen[heard[i].kind][heard[i].key] # Never
             /\ heard[i].at <= lastSeen[heard[i].kind][heard[i].key]
             /\ Window[heard[i].kind] > 0
  BY <1>3, <1>4, TimesAreNumbers DEF Dedup, Known
<1>. HIDE DEF n
<1>5. LifeIsPast'
  <2>1. \A i \in 1..(n + 1) : i \in 1..n \/ i = n + 1
    BY <1>2
  <2>. QED
    BY <1>1, <1>2, <2>1, TimesAreNumbers DEF Dedup, LifeIsPast, n
<1>6. Spaced'
  <2>1. ASSUME NEW i \in LetThrough, heard[i].kind = kd, heard[i].key = k,
               heard[i].life = crashes
        PROVE  heard[i].at + Window[kd] <= now
    <3>1. SUFFICES ASSUME now < heard[i].at + Window[kd] PROVE FALSE
      BY <1>3, <2>1, TimesAreNumbers
    <3>2. /\ lastSeen[kd][k] \in Nat /\ lastSeen[kd][k] # Never
          /\ heard[i].at <= lastSeen[kd][k] /\ Window[kd] > 0
      BY <1>4, <2>1, <3>1
    <3>3. now < lastSeen[kd][k] + Window[kd]
      BY <1>3, <2>1, <3>1, <3>2, TimesAreNumbers
    <3>. QED
      BY <3>2, <3>3 DEF IsRepeat
  <2>2. ASSUME NEW i \in LetThrough', NEW j \in LetThrough', i < j, Alike(i, j)'
        PROVE  heard'[i].at + Window[heard'[i].kind] <= heard'[j].at
    <3>1. CASE i \in LetThrough /\ j \in LetThrough
      BY <1>3, <2>2, <3>1 DEF Dedup, Spaced, Alike
    <3>2. CASE i \in LetThrough /\ j = n + 1
      BY <1>2, <1>3, <2>1, <2>2, <3>2 DEF Alike
    <3>3. i # n + 1
      <4>1. j \in Nat /\ j <= n + 1
        BY <1>2, <1>3, <2>2
      <4>. QED
        BY <1>2, <2>2, <4>1
    <3>. QED
      BY <1>2, <2>2, <3>1, <3>2, <3>3
  <2>. QED
    BY <2>2 DEF Spaced
<1>7. Known'
  <2>1. ASSUME NEW i \in LetThrough, heard[i].life = crashes,
               now < heard[i].at + Window[heard[i].kind]
        PROVE  /\ lastSeen'[heard[i].kind][heard[i].key] # Never
               /\ heard[i].at <= lastSeen'[heard[i].kind][heard[i].key]
    <3>. DEFINE c == heard[i].kind  x == heard[i].key
    <3>1. /\ lastSeen[c][x] \in Nat /\ lastSeen[c][x] # Never
          /\ heard[i].at <= lastSeen[c][x]
      BY <1>4, <2>1
    <3>2. /\ heard[i].at \in Nat /\ heard[i].at <= now /\ Window[c] \in Nat
          /\ c \in Kind /\ x \in Key
      BY <1>3
    <3>3. ~(now >= lastSeen[c][x] + Window[c])
      BY <2>1, <3>1, <3>2, TimesAreNumbers
    <3>4. lastSeen'[c][x] = lastSeen[c][x] \/ lastSeen'[c][x] = now
      BY <1>1, <3>2, <3>3, RecordChanges
    <3>. QED
      BY <3>1, <3>2, <3>4, TimesAreNumbers
  <2>2. Window[kd] = 0 \/ lastSeen'[kd][k] = now
    BY <1>1, RecordChanges
  <2>3. ASSUME NEW i \in LetThrough', heard'[i].life = crashes',
               now' < heard'[i].at + Window[heard'[i].kind]
        PROVE  /\ lastSeen'[heard'[i].kind][heard'[i].key] # Never
               /\ heard'[i].at <= lastSeen'[heard'[i].kind][heard'[i].key]
    <3>1. CASE i \in LetThrough
      BY <1>1, <1>3, <2>1, <2>3, <3>1
    <3>2. CASE i = n + 1
      BY <1>1, <1>2, <2>2, <2>3, <3>2, TimesAreNumbers
    <3>. QED
      BY <1>2, <3>1, <3>2
  <2>. QED
    BY <2>3 DEF Known
<1>8. Witnessed'
  <2>1. ASSUME NEW c \in Kind, NEW x \in Key, lastSeen'[c][x] # Never
        PROVE  \E j \in LetThrough' : /\ heard'[j].kind = c /\ heard'[j].key = x
                                      /\ heard'[j].at = lastSeen'[c][x]
    <3>1. CASE lastSeen'[c][x] = lastSeen[c][x]
      BY <1>2, <1>3, <2>1, <3>1 DEF Dedup, Witnessed
    <3>2. CASE c = kd /\ x = k /\ lastSeen'[c][x] = now
      BY <1>2, <3>2
    <3>3. \/ lastSeen'[c][x] = lastSeen[c][x]
          \/ c = kd /\ x = k /\ lastSeen'[c][x] = now
          \/ lastSeen'[c][x] = Never
      BY <1>1, RecordChanges
    <3>. QED
      BY <2>1, <3>1, <3>2, <3>3
  <2>. QED
    BY <2>1 DEF Witnessed
<1>. QED
  BY <1>5, <1>6, <1>7, <1>8 DEF Dedup

LEMMA DedupStep ==
  ASSUME PlainTyped, HeardTyped, Dedup, [Next]_vars
  PROVE  Dedup'
<1>1. ASSUME NEW kd \in Kind, NEW k \in Key, NEW skew \in Skew, Publish(kd, k, skew)
      PROVE  Dedup'
  BY <1>1, RepeatKeepsDedup, ThroughKeepsDedup
<1>2. ASSUME UNCHANGED <<heard, lastSeen, crashes, now>>
      PROVE  Dedup'
  BY <1>2 DEF Dedup, LifeIsPast, Spaced, Known, Witnessed, Alike, LetThrough
<1>3. CASE TakeSpot \/ TickerFires \/ Commit \/ InsertFails \/ Purge \/ Restart \/ UNCHANGED vars
  BY <1>2, <1>3 DEF TakeSpot, TickerFires, Commit, InsertFails, Purge, Restart, vars
<1>4. CASE Tick
  <2>1. now' = now + 1 /\ UNCHANGED <<heard, lastSeen, crashes>>
    BY <1>4 DEF Tick
  <2>2. \A i \in LetThrough : now' < heard[i].at + Window[heard[i].kind]
                                => now < heard[i].at + Window[heard[i].kind]
    BY <2>1, CallsAreNumbers, TimesAreNumbers DEF LetThrough
  <2>. QED
    BY <2>1, <2>2 DEF Dedup, LifeIsPast, Spaced, Known, Witnessed, Alike, LetThrough
<1>5. CASE Crash
  <2>1. lastSeen' = Empty /\ crashes' = crashes + 1 /\ UNCHANGED <<heard, now>>
    BY <1>5 DEF Crash
  <2>2. \A i \in 1..Len(heard) : heard[i].life <= crashes' /\ heard[i].life # crashes'
    BY <2>1, CallsAreNumbers, TimesAreNumbers DEF Dedup, LifeIsPast
  <2>3. LifeIsPast' /\ Spaced'
    BY <2>1, <2>2 DEF Dedup, LifeIsPast, Spaced, Alike, LetThrough
  <2>4. Known'
    BY <2>1, <2>2 DEF Known, LetThrough
  <2>5. Witnessed'
    BY <2>1 DEF Witnessed, Empty
  <2>. QED
    BY <2>3, <2>4, <2>5 DEF Dedup
<1>. QED
  BY <1>1, <1>3, <1>4, <1>5 DEF Next

-----------------------------------------------------------------------------
(* The spots in play: written, in the batch or in the queue.               *)

\* Publish puts a spot in play exactly when it records it as queued.
LEMMA PublishInPlay ==
  ASSUME PlainTyped, HeardTyped, LineTyped, NEW kd \in Kind, NEW k \in Key, NEW skew \in Skew,
         Publish(kd, k, skew)
  PROVE  \E fate \in Fate :
           /\ heard' = Append(heard, CallOf(kd, k, skew, fate))
           /\ fate = "repeat" <=> IsRepeat(kd, k)
           /\ fate = "dropped" => lossy'
           /\ lossy => lossy'
           /\ InPlay' = IF fate = "queued" THEN InPlay \cup {Len(heard) + 1} ELSE InPlay
<1>1. CASE IsRepeat(kd, k)
  <2>1. /\ heard' = Append(heard, CallOf(kd, k, skew, "repeat"))
        /\ UNCHANGED <<written, batch, queue, lossy>>
    BY <1>1, Repeats
  <2>2. InPlay' = InPlay
    BY <2>1 DEF InPlay, Ids
  <2>. QED
    BY <1>1, <2>1, <2>2 DEF Fate
<1>2. CASE ~IsRepeat(kd, k) /\ UNCHANGED queue
                /\ heard' = Append(heard, CallOf(kd, k, skew, "dropped")) /\ lossy' = TRUE
  <2>1. UNCHANGED <<written, batch>>
    BY <1>2, LetsThrough
  <2>2. InPlay' = InPlay
    BY <1>2, <2>1 DEF InPlay, Ids
  <2>. QED
    BY <1>2, <2>2 DEF Fate
<1>3. CASE ~IsRepeat(kd, k) /\ queue' = Append(queue, Len(heard) + 1)
                /\ heard' = Append(heard, CallOf(kd, k, skew, "queued")) /\ lossy' = lossy
  <2>1. UNCHANGED <<written, batch>>
    BY <1>3, LetsThrough
  <2>2. Len(heard) + 1 \in Nat
    BY LenProperties DEF HeardTyped
  <2>. DEFINE n == Len(heard) + 1
  <2>. HIDE DEF n
  <2>3. queue \in Seq(Nat) /\ n \in Nat /\ queue' = Append(queue, n)
    BY <1>3, <2>2 DEF LineTyped, n
  <2>4. Ids(queue)' = Ids(queue) \cup {n}
    <3>. DEFINE c == queue'
    <3>1. c = Append(queue, n)
      BY <2>3
    <3>. HIDE DEF c
    <3>2. Ids(c) = Ids(queue) \cup {n}
      BY <2>3, <3>1, OneMoreId
    <3>. QED
      BY <3>2 DEF c, Ids
  <2>6. Ids(batch)' = Ids(batch)
    BY <2>1 DEF Ids
  <2>7. InPlay' = InPlay \cup {n}
    BY <2>1, <2>4, <2>6 DEF InPlay
  <2>. QED
    BY <1>3, <2>7 DEF Fate, n
<1>. QED
  BY <1>1, <1>2, <1>3, LetsThrough

\* Every other step keeps the spots in play, or loses some and says so.
LEMMA OthersInPlay ==
  ASSUME HeardTyped, LineTyped,
         \/ TakeSpot \/ TickerFires \/ Commit \/ InsertFails \/ Purge \/ Tick \/ Crash
         \/ Restart \/ UNCHANGED vars
  PROVE  /\ heard' = heard
         /\ InPlay' \subseteq InPlay
         /\ lossy => lossy'
         /\ InPlay' = InPlay \/ lossy'
<1>0. Ids(<<>>) = {}
  BY DEF Ids
<1>1. CASE TakeSpot
  <2>1. /\ queue # <<>> /\ batch' = Append(batch, Head(queue)) /\ queue' = Tail(queue)
        /\ UNCHANGED <<heard, written, lossy>>
    BY <1>1 DEF TakeSpot
  <2>2. Len(heard) \in Nat
    BY LenProperties DEF HeardTyped
  <2>3. /\ batch \in Seq(Nat) /\ queue \in Seq(Nat)
        /\ InLine(db, batch, queue, Len(heard))
    BY DEF LineTyped
  <2>. DEFINE n == Len(heard)
  <2>. HIDE DEF n
  <2>6. queue # <<>> /\ InLine(db, batch, queue, n) /\ n \in Nat
    BY <2>1, <2>2, <2>3 DEF n
  <2>7. Ids(queue) = Ids(Tail(queue)) \cup {Head(queue)}
    BY <2>3, <2>6, Advances
  <2>5. Ids(batch)' = Ids(batch) \cup {Head(queue)}
    <3>. DEFINE c == Append(batch, Head(queue))
    <3>1. c = Append(batch, Head(queue))
      OBVIOUS
    <3>. HIDE DEF c
    <3>2. Ids(c) = Ids(batch) \cup {Head(queue)}
      BY <2>3, <2>6, <3>1, HeadTailProperties, OneMoreId
    <3>. QED
      BY <2>1, <3>2 DEF c, Ids
  <2>4. Ids(queue) = Ids(queue)' \cup {Head(queue)}
    BY <2>1, <2>7 DEF Ids
  <2>. QED
    BY <2>1, <2>4, <2>5 DEF InPlay
<1>2. CASE Commit
  <2>1. batch' = <<>> /\ written' = written \cup Ids(batch) /\ UNCHANGED <<queue, heard, lossy>>
    BY <1>2 DEF Commit
  <2>2. Ids(batch)' = {} /\ Ids(queue)' = Ids(queue)
    BY <1>0, <2>1 DEF Ids
  <2>. QED
    BY <2>1, <2>2 DEF InPlay
<1>3. CASE InsertFails
  <2>1. batch' = <<>> /\ lossy' /\ UNCHANGED <<queue, heard, written>>
    BY <1>3 DEF InsertFails
  <2>2. Ids(batch)' = {} /\ Ids(queue)' = Ids(queue)
    BY <1>0, <2>1 DEF Ids
  <2>. QED
    BY <2>1, <2>2 DEF InPlay
<1>4. CASE Crash
  <2>1. /\ batch' = <<>> /\ queue' = <<>> /\ UNCHANGED <<heard, written>>
        /\ lossy' = (lossy \/ queue # <<>> \/ batch # <<>>)
    BY <1>4 DEF Crash
  <2>2. Ids(batch)' = {} /\ Ids(queue)' = {}
    BY <1>0, <2>1 DEF Ids
  <2>3. queue = <<>> /\ batch = <<>> => Ids(queue) = {} /\ Ids(batch) = {}
    BY <1>0
  <2>. QED
    BY <2>1, <2>2, <2>3 DEF InPlay
<1>5. CASE TickerFires \/ Purge \/ Tick \/ Restart \/ UNCHANGED vars
  BY <1>5 DEF TickerFires, Purge, Tick, Restart, vars, InPlay, Ids
<1>. QED
  BY <1>1, <1>2, <1>3, <1>4, <1>5

\* What was let through is in play, as long as nothing was lost.
AllInPlay == ~lossy => LetThrough \subseteq InPlay

\* A spot in play was queued.
LEMMA QueuedOnceStep ==
  ASSUME PlainTyped, HeardTyped, LineTyped, QueuedOnce, [Next]_vars
  PROVE  QueuedOnce'
<1>1. ASSUME NEW kd \in Kind, NEW k \in Key, NEW skew \in Skew, Publish(kd, k, skew)
      PROVE  QueuedOnce'
  <2>1. PICK fate \in Fate :
          /\ heard' = Append(heard, CallOf(kd, k, skew, fate))
          /\ InPlay' = IF fate = "queued" THEN InPlay \cup {Len(heard) + 1} ELSE InPlay
    BY <1>1, PublishInPlay
  <2>2. /\ Len(heard') = Len(heard) + 1 /\ Len(heard) \in Nat
        /\ \A i \in 1..Len(heard) : heard'[i] = heard[i] /\ i \in 1..(Len(heard) + 1)
        /\ heard'[Len(heard) + 1].fate = fate
    BY <2>1, HistoryGrows
  <2>3. \A i \in InPlay : i \in 1..Len(heard') /\ heard'[i].fate = "queued"
    BY <2>2 DEF QueuedOnce
  <2>4. Len(heard) + 1 \in 1..Len(heard')
    BY <2>2
  <2>5. \A i \in InPlay' : i \in 1..Len(heard') /\ heard'[i].fate = "queued"
    BY <2>1, <2>2, <2>3, <2>4
  <2>. QED
    BY <2>5 DEF QueuedOnce
<1>2. ASSUME heard' = heard, InPlay' \subseteq InPlay
      PROVE  QueuedOnce'
  BY <1>2 DEF QueuedOnce
<1>. QED
  BY <1>1, <1>2, OthersInPlay DEF Next

LEMMA AllInPlayStep ==
  ASSUME PlainTyped, HeardTyped, LineTyped, AllInPlay, [Next]_vars
  PROVE  AllInPlay'
<1>1. ASSUME NEW kd \in Kind, NEW k \in Key, NEW skew \in Skew, Publish(kd, k, skew)
      PROVE  AllInPlay'
  <2>1. PICK fate \in Fate :
          /\ heard' = Append(heard, CallOf(kd, k, skew, fate))
          /\ fate = "dropped" => lossy'
          /\ lossy => lossy'
          /\ InPlay' = IF fate = "queued" THEN InPlay \cup {Len(heard) + 1} ELSE InPlay
    BY <1>1, PublishInPlay
  <2>2. LetThrough' = IF fate = "repeat" THEN LetThrough ELSE LetThrough \cup {Len(heard) + 1}
    BY <2>1, HistoryGrows
  <2>. QED
    BY <2>1, <2>2 DEF AllInPlay, Fate
<1>2. ASSUME heard' = heard, lossy => lossy', InPlay' = InPlay \/ lossy'
      PROVE  AllInPlay'
  BY <1>2 DEF AllInPlay, LetThrough
<1>. QED
  BY <1>1, <1>2, OthersInPlay DEF Next

\* A repeat has its copy in play.
LEMMA CopyStep ==
  ASSUME PlainTyped, HeardTyped, LineTyped, Dedup, QueuedOnce, AllInPlay,
         RepeatHasCopyUnlessLossy, [Next]_vars
  PROVE  RepeatHasCopyUnlessLossy'
<1>. DEFINE Copied(i) == \E j \in InPlay :
                           /\ heard[j].kind = heard[i].kind
                           /\ heard[j].key = heard[i].key
                           /\ heard[j].at <= heard[i].at
                           /\ heard[i].at < heard[j].at + Window[heard[i].kind]
<1>1. ~lossy => \A i \in 1..Len(heard) : heard[i].fate = "repeat" => Copied(i)
  BY DEF RepeatHasCopyUnlessLossy, RepeatHasCopy, InPlay
<1>2. ASSUME ~lossy' => \A i \in 1..Len(heard') : heard'[i].fate = "repeat" => Copied(i)'
      PROVE  RepeatHasCopyUnlessLossy'
  BY <1>2 DEF RepeatHasCopyUnlessLossy, RepeatHasCopy, InPlay
<1>3. ASSUME NEW kd \in Kind, NEW k \in Key, NEW skew \in Skew, Publish(kd, k, skew)
      PROVE  RepeatHasCopyUnlessLossy'
  <2>1. PICK fate \in Fate :
          /\ heard' = Append(heard, CallOf(kd, k, skew, fate))
          /\ fate = "repeat" <=> IsRepeat(kd, k)
          /\ lossy => lossy'
          /\ InPlay' = IF fate = "queued" THEN InPlay \cup {Len(heard) + 1} ELSE InPlay
    BY <1>3, PublishInPlay
  <2>. DEFINE n == Len(heard)
  <2>2. /\ n \in Nat /\ Len(heard') = n + 1
        /\ \A i \in 1..n : heard'[i] = heard[i]
        /\ heard'[n + 1].kind = kd /\ heard'[n + 1].key = k
        /\ heard'[n + 1].at = now /\ heard'[n + 1].fate = fate
    BY <2>1, HistoryGrows
  <2>3. \A i \in 1..(n + 1) : i \in 1..n \/ i = n + 1
    BY <2>2
  <2>4. \A j \in InPlay : j \in 1..n /\ j \in InPlay'
    BY <2>1 DEF QueuedOnce
  <2>. HIDE DEF n
  <2>5. ASSUME NEW i \in 1..n, ~lossy', heard'[i].fate = "repeat"
        PROVE  Copied(i)'
    <3>1. Copied(i)
      BY <1>1, <2>1, <2>2, <2>5 DEF n
    <3>2. PICK j \in InPlay : /\ heard[j].kind = heard[i].kind
                              /\ heard[j].key = heard[i].key
                              /\ heard[j].at <= heard[i].at
                              /\ heard[i].at < heard[j].at + Window[heard[i].kind]
      BY <3>1
    <3>3. j \in InPlay' /\ heard'[j] = heard[j] /\ heard'[i] = heard[i]
      BY <2>2, <2>4
    <3>. QED
      BY <3>2, <3>3
  <2>6. ASSUME NEW i, i = n + 1, ~lossy', heard'[i].fate = "repeat"
        PROVE  Copied(i)'
    <3>1. IsRepeat(kd, k) /\ ~lossy
      BY <2>1, <2>2, <2>6
    <3>2. PICK j \in LetThrough : /\ heard[j].kind = kd /\ heard[j].key = k
                                  /\ heard[j].at = lastSeen[kd][k]
      BY <3>1 DEF IsRepeat, Dedup, Witnessed
    <3>3. j \in InPlay
      BY <3>1, <3>2 DEF AllInPlay
    <3>4. heard[j].at <= now /\ now < heard[j].at + Window[kd]
      BY <3>1, <3>2, CallsAreNumbers DEF IsRepeat, LetThrough
    <3>5. j \in InPlay' /\ heard'[j] = heard[j]
      BY <2>2, <2>4, <3>3
    <3>. QED
      BY <2>2, <2>6, <3>2, <3>4, <3>5
  <2>. QED
    BY <1>2, <2>2, <2>3, <2>5, <2>6
<1>4. ASSUME heard' = heard, lossy => lossy', InPlay' = InPlay \/ lossy'
      PROVE  RepeatHasCopyUnlessLossy'
  BY <1>1, <1>2, <1>4
<1>. QED
  BY <1>3, <1>4, OthersInPlay DEF Next

-----------------------------------------------------------------------------
(* The inductive invariant and the theorems.                               *)

Inv ==
  /\ PlainTyped
  /\ HeardTyped
  /\ LineTyped
  /\ Dedup
  /\ QueuedOnce
  /\ AllInPlay
  /\ RepeatHasCopyUnlessLossy

LEMMA InitInv == Init => Inv
<1>. SUFFICES ASSUME Init PROVE Inv
  OBVIOUS
<1>1. PlainTyped
  <2>1. Empty \in [Kind -> [Key -> (0..MaxTime) \cup {Never}]]
    BY DEF Empty
  <2>2. 0 \in 0..MaxTime /\ 0 \in 0..MaxCrash
    BY StoreAssumption
  <2>. QED
    BY <2>1, <2>2 DEF Init, PlainTyped
<1>2. heard = <<>> /\ Len(heard) = 0 /\ 1..Len(heard) = {}
  BY DEF Init
<1>3. HeardTyped
  BY <1>2, EmptySeq DEF HeardTyped
<1>4. LineTyped
  <2>1. /\ queue = <<>> /\ batch = <<>> /\ Len(queue) = 0 /\ Len(batch) = 0
        /\ 1..0 = {} /\ DOMAIN db = {}
    BY DEF Init
  <2>2. IdsTyped /\ InLine(db, batch, queue, Len(heard))
    BY <2>1 DEF IdsTyped, InLine
  <2>. QED
    BY <2>1, <2>2, StoreAssumption DEF LineTyped
<1>5. LetThrough = {} /\ InPlay = {}
  BY <1>2 DEF LetThrough, InPlay, Ids, Init
<1>6. Dedup
  BY <1>2, <1>5 DEF Dedup, LifeIsPast, Spaced, Known, Witnessed, Init, Empty
<1>7. QueuedOnce /\ AllInPlay /\ RepeatHasCopyUnlessLossy
  BY <1>2, <1>5 DEF QueuedOnce, AllInPlay, RepeatHasCopyUnlessLossy, RepeatHasCopy
<1>. QED
  BY <1>1, <1>3, <1>4, <1>6, <1>7 DEF Inv

LEMMA NextInv == Inv /\ [Next]_vars => Inv'
  BY PlainStep, LineStep, DedupStep, QueuedOnceStep, AllInPlayStep, CopyStep DEF Inv

LEMMA AlwaysInv == Spec => []Inv
  BY InitInv, NextInv, PTL DEF Spec

\* A sequence of numbers whose members are within 1..n is one over 1..n.
LEMMA WithinBounds ==
  ASSUME NEW q \in Seq(Nat), NEW n, \A i \in 1..Len(q) : q[i] \in 1..n
  PROVE  q \in Seq(1..n)
<1>1. SubSeq(q, 1, Len(q)) = q
  BY SubSeqFull
<1>2. SubSeq(q, 1, Len(q)) \in Seq(1..n)
  BY LenProperties, SubSeqProperties
<1>. QED
  BY <1>1, <1>2

LEMMA InvTypes == Inv => TypeOK
<1>. SUFFICES ASSUME Inv PROVE TypeOK
  OBVIOUS
<1>1. InLine(db, batch, queue, Len(heard)) /\ IdsTyped
  BY DEF Inv, LineTyped
<1>2. queue \in Seq(1..Len(heard)) /\ batch \in Seq(1..Len(heard))
  BY <1>1, WithinBounds DEF Inv, LineTyped, InLine
<1>3. Stored \subseteq 1..Len(heard) /\ DOMAIN db \subseteq Nat \ {0}
  BY <1>1 DEF Stored, InLine, IdsTyped
<1>4. \A i \in 1..Len(heard) : heard[i].fate \in Fate
  BY CallsAreNumbers DEF Inv, Call
<1>5. written \subseteq 1..Len(heard)
  BY DEF Inv, QueuedOnce, InPlay
<1>6. Len(queue) <= QueueCap /\ Len(batch) <= BatchMax
  BY DEF Inv, LineTyped
<1>. QED
  BY <1>2, <1>3, <1>4, <1>5, <1>6 DEF Inv, PlainTyped, TypeOK

\* Table, batch and queue are one line: no spot is written twice and none
\* overtakes another, whatever failed, was purged or died in between, also
\* where the ids of purged rows are given again (store.go:246-277).
THEOREM OneLine == Spec => []PipelineOrdered
<1>1. Inv => PipelineOrdered
  <2>. SUFFICES ASSUME Inv PROVE PipelineOrdered
    OBVIOUS
  <2>. DEFINE line == batch \o queue  b == Len(batch)
  <2>1. InLine(db, batch, queue, Len(heard)) /\ batch \in Seq(Nat) /\ queue \in Seq(Nat)
    BY DEF Inv, LineTyped
  <2>2. /\ Len(line) = b + Len(queue) /\ b \in Nat /\ Len(queue) \in Nat
        /\ \A i \in 1..Len(line) : line[i] = IF i <= b THEN batch[i] ELSE queue[i - b]
    BY <2>1, ConcatProperties, LenProperties
  <2>. HIDE DEF line
  <2>3. \A i \in 1..Len(line) : \/ i \in 1..b /\ i <= b /\ line[i] = batch[i]
                                \/ i > b /\ i - b \in 1..Len(queue) /\ line[i] = queue[i - b]
    BY <2>2
  <2>. HIDE DEF b
  <2>4. ASSUME NEW i \in 1..Len(line), NEW j \in 1..Len(line), i < j
        PROVE  line[i] < line[j]
    <3>1. CASE j <= b
      <4>1. i \in 1..b /\ j \in 1..b /\ line[i] = batch[i] /\ line[j] = batch[j]
        BY <2>2, <2>3, <2>4, <3>1
      <4>. QED
        BY <2>1, <2>4, <4>1 DEF InLine, b
    <3>2. CASE i <= b /\ j > b
      <4>1. /\ i \in 1..b /\ line[i] = batch[i]
            /\ j - b \in 1..Len(queue) /\ line[j] = queue[j - b]
        BY <2>2, <2>3, <3>2
      <4>. QED
        BY <2>1, <4>1 DEF InLine, b
    <3>3. CASE i > b
      <4>1. i - b < j - b /\ i - b \in 1..Len(queue) /\ j - b \in 1..Len(queue)
            /\ line[i] = queue[i - b] /\ line[j] = queue[j - b]
        BY <2>2, <2>3, <2>4, <3>3
      <4>. QED
        BY <2>1, <4>1 DEF InLine
    <3>. QED
      BY <2>2, <2>3, <2>4, <3>1, <3>2, <3>3
  <2>5. \A id \in DOMAIN db : \A i \in 1..Len(line) : db[id] < line[i]
    BY <2>1, <2>3 DEF InLine, b
  <2>6. \A x, y \in DOMAIN db : x < y => db[x] < db[y]
    BY <2>1 DEF InLine
  <2>. QED
    BY <2>4, <2>5, <2>6, InvTypes DEF PipelineOrdered, line
<1>. QED
  BY <1>1, AlwaysInv, PTL

\* Within a life of the process no two spots of a deduplicated kind with the
\* same key pass within the window, whatever the sweep removed from the map
\* (store.go:197-235).
THEOREM WindowIsKept == Spec => []NoRepeatStored
<1>1. Inv => NoRepeatStored
  <2>1. Inv => InPlay \subseteq LetThrough
    BY DEF Inv, QueuedOnce, LetThrough
  <2>. QED
    BY <2>1 DEF Inv, Dedup, Spaced, Alike, NoRepeatStored, InPlay
<1>. QED
  BY <1>1, AlwaysInv, PTL

\* Unless a spot was lost, each one suppressed as a repeat has an earlier copy
\* that is in the table, was there, or is on its way to it (store.go:197-244).
THEOREM NothingSuppressedInVain == Spec => []RepeatHasCopyUnlessLossy
<1>1. Inv => RepeatHasCopyUnlessLossy
  BY DEF Inv
<1>. QED
  BY <1>1, AlwaysInv, PTL

\* No step takes a row from the table before its time: the one that may is the
\* purge, and it takes expired rows only (store.go:342).
THEOREM RowsAreKept == Spec => KeptForRetention
<1>1. ASSUME Inv, [Next]_vars, NEW i \in Stored, i \notin Stored'
      PROVE  now > heard[i].ts + Retain
  <2>0. IdsTyped /\ Len(batch) \in Nat
    BY <1>1, LenProperties DEF Inv, LineTyped
  <2>1. PICK id \in DOMAIN db : db[id] = i
    BY DEF Stored
  <2>2. ASSUME id \in DOMAIN db', db'[id] = db[id]
        PROVE  FALSE
    BY <1>1, <2>1, <2>2 DEF Stored
  <2>3. CASE Commit
    <3>1. db' = WithBatch
      BY <2>3 DEF Commit
    <3>. QED
      BY <2>0, <2>2, <3>1, BatchRows
  <2>4. CASE Purge
    <3>1. db' = WithoutExpired
      BY <2>4 DEF Purge
    <3>2. Expired(db[id])
      BY <2>0, <2>2, <3>1, PurgedRows
    <3>3. i \in 1..Len(heard) /\ now \in Nat
      BY <1>1, InvTypes DEF TypeOK
    <3>4. heard[i].ts \in Int /\ Retain \in Nat
      BY <1>1, <3>3, CallsAreNumbers, StoreAssumption DEF Inv, Call
    <3>. QED
      BY <2>1, <3>2, <3>3, <3>4 DEF Expired
  <2>5. CASE db' = db
    BY <2>1, <2>2, <2>5
  <2>6. Commit \/ Purge \/ db' = db
    BY <1>1 DEF Next, Publish, TakeSpot, TickerFires, InsertFails, Tick, Crash, Restart, vars
  <2>. QED
    BY <2>3, <2>4, <2>5, <2>6
<1>2. Inv /\ [Next]_vars => [\A i \in Stored : i \notin Stored' => now > heard[i].ts + Retain]_vars
  BY <1>1
<1>. QED
  BY <1>2, AlwaysInv, PTL DEF Spec, KeptForRetention
=============================================================================
