------------------------- MODULE SSEConsumerProofs -------------------------
(***************************************************************************)
(* Theorems about the consumer of an event stream, for a stream with or    *)
(* without an event name, any back-off, and any number of lines.           *)
(***************************************************************************)
EXTENDS SSEConsumer, SequenceTheorems, TLAPS

-----------------------------------------------------------------------------
(* What the lines in front of position b leave behind.                     *)

\* No line from i to j ends an event.
Clear(w, i, j) == \A k \in i..j : w[k].kind # "blank"

\* The lines of the event that position b of w is in leave `value`: the value
\* of the last of them with a kind of K; if there is none, `old` for the event
\* that has already begun to be read and `new` for any other.
LeavesBehind(w, K, b, old, new, value) ==
  /\ \A i \in 1..(b - 1) :
       (/\ Clear(w, i, b - 1) /\ w[i].kind \in K
        /\ \A j \in (i + 1)..(b - 1) : w[j].kind \notin K)
         => value = w[i].v
  /\ (\A i \in 1..(b - 1) : Clear(w, i, b - 1) => w[i].kind \notin K)
       => value = IF Clear(w, 1, b - 1) THEN old ELSE new

\* It only depends on the lines in front.
LEMMA SameInFront ==
  ASSUME NEW w, NEW p, NEW K, NEW b \in Nat, NEW old, NEW new, NEW value,
         \A i \in 1..(b - 1) : p[i] = w[i], LeavesBehind(w, K, b, old, new, value)
  PROVE  LeavesBehind(p, K, b, old, new, value)
<1>1. \A i \in 1..(b - 1) : /\ \A j \in i..(b - 1) : j \in 1..(b - 1)
                            /\ \A j \in (i + 1)..(b - 1) : j \in 1..(b - 1)
  OBVIOUS
<1>2. \A i \in 1..(b - 1) : Clear(p, i, b - 1) <=> Clear(w, i, b - 1)
  BY <1>1 DEF Clear
<1>3. Clear(p, 1, b - 1) <=> Clear(w, 1, b - 1)
  BY DEF Clear
<1>4. ASSUME NEW i \in 1..(b - 1), Clear(p, i, b - 1), p[i].kind \in K,
             \A j \in (i + 1)..(b - 1) : p[j].kind \notin K
      PROVE  value = p[i].v
  BY <1>1, <1>2, <1>4 DEF LeavesBehind
<1>5. ASSUME \A i \in 1..(b - 1) : Clear(p, i, b - 1) => p[i].kind \notin K
      PROVE  value = IF Clear(p, 1, b - 1) THEN old ELSE new
  BY <1>2, <1>3, <1>5 DEF LeavesBehind
<1>. QED
  BY <1>4, <1>5 DEF LeavesBehind

\* One more line, which does not end the event.
LEMMA OneMoreLine ==
  ASSUME NEW w, NEW p, NEW K, NEW n \in Nat, NEW old, NEW new, NEW value,
         \A i \in 1..n : p[i] = w[i], p[n + 1].kind # "blank",
         LeavesBehind(w, K, n + 1, old, new, value)
  PROVE  LeavesBehind(p, K, n + 2, old, new,
                      IF p[n + 1].kind \in K THEN p[n + 1].v ELSE value)
<1>0. n + 1 - 1 = n /\ n + 2 - 1 = n + 1 /\ n + 1 \in Nat
  OBVIOUS
<1>1. \A i \in 1..(n + 1) : i \in 1..n \/ i = n + 1
  OBVIOUS
<1>2. \A i \in 1..n : /\ i \in 1..(n + 1) /\ n + 1 \in i..(n + 1)
                      /\ n + 1 \in (i + 1)..(n + 1)
                      /\ \A j \in i..n : j \in i..(n + 1) /\ j \in 1..n
                      /\ \A j \in (i + 1)..n : j \in (i + 1)..(n + 1) /\ j \in 1..n
                      /\ \A j \in i..(n + 1) : j \in i..n \/ j = n + 1
                      /\ \A j \in (i + 1)..(n + 1) : j \in (i + 1)..n \/ j = n + 1
  OBVIOUS
<1>3. \A i \in 1..n : Clear(p, i, n + 1) <=> Clear(w, i, n)
  BY <1>2 DEF Clear
<1>4. Clear(p, n + 1, n + 1)
  BY DEF Clear
<1>5. Clear(p, 1, n + 1) <=> Clear(w, 1, n)
  <2>1. \A j \in 1..n : j \in 1..(n + 1)
    OBVIOUS
  <2>. QED
    BY <1>1, <2>1 DEF Clear
<1>6. /\ \A i \in 1..n :
           (Clear(w, i, n) /\ w[i].kind \in K /\ \A j \in (i + 1)..n : w[j].kind \notin K)
             => value = w[i].v
      /\ (\A i \in 1..n : Clear(w, i, n) => w[i].kind \notin K)
           => value = IF Clear(w, 1, n) THEN old ELSE new
  BY <1>0 DEF LeavesBehind
<1>. DEFINE after == IF p[n + 1].kind \in K THEN p[n + 1].v ELSE value
<1>7. ASSUME NEW i \in 1..(n + 1), Clear(p, i, n + 1), p[i].kind \in K,
             \A j \in (i + 1)..(n + 1) : p[j].kind \notin K
      PROVE  after = p[i].v
  <2>1. CASE i = n + 1
    BY <1>7, <2>1
  <2>2. CASE i \in 1..n
    <3>1. p[n + 1].kind \notin K
      BY <1>2, <1>7, <2>2
    <3>2. \A j \in (i + 1)..n : w[j].kind \notin K
      BY <1>2, <1>7, <2>2
    <3>. QED
      BY <1>3, <1>6, <1>7, <2>2, <3>1, <3>2
  <2>. QED
    BY <1>1, <2>1, <2>2
<1>8. ASSUME \A i \in 1..(n + 1) : Clear(p, i, n + 1) => p[i].kind \notin K
      PROVE  after = IF Clear(p, 1, n + 1) THEN old ELSE new
  <2>1. p[n + 1].kind \notin K
    BY <1>0, <1>4, <1>8
  <2>2. \A i \in 1..n : Clear(w, i, n) => w[i].kind \notin K
    BY <1>2, <1>3, <1>8
  <2>. QED
    BY <1>5, <1>6, <2>1, <2>2
<1>. QED
  BY <1>0, <1>7, <1>8 DEF LeavesBehind

\* Behind a line that ends an event everything is new.
LEMMA FreshEvent ==
  ASSUME NEW p, NEW K, NEW n \in Nat, NEW old, NEW new, p[n + 1].kind = "blank"
  PROVE  LeavesBehind(p, K, n + 2, old, new, new)
<1>1. n + 2 - 1 = n + 1 /\ \A i \in 1..(n + 1) : n + 1 \in i..(n + 1)
  OBVIOUS
<1>2. 1 \in 1..(n + 1)
  OBVIOUS
<1>3. \A i \in 1..(n + 1) : ~Clear(p, i, n + 1)
  BY <1>1 DEF Clear
<1>. QED
  BY <1>1, <1>2, <1>3 DEF LeavesBehind

\* The first line is taken away, and what it leaves is kept with what is known
\* of the event that has begun.
LEMMA OneLineLess ==
  ASSUME NEW w, NEW p, NEW K, NEW b \in Nat \ {0}, NEW old, NEW new, NEW value,
         \A i \in 1..(b - 1) : p[i] = w[i + 1], "blank" \notin K,
         LeavesBehind(w, K, b + 1, old, new, value)
  PROVE  LeavesBehind(p, K, b,
           IF w[1].kind = "blank" THEN new ELSE IF w[1].kind \in K THEN w[1].v ELSE old,
           new, value)
<1>. DEFINE kept == IF w[1].kind = "blank" THEN new
                    ELSE IF w[1].kind \in K THEN w[1].v ELSE old
            m == b - 1
<1>0. b + 1 - 1 = m + 1 /\ m \in Nat
  OBVIOUS
<1>. HIDE DEF m
<1>1. \A i \in 1..m : /\ i + 1 \in 1..(m + 1) /\ p[i] = w[i + 1]
                      /\ \A j \in i..m : j + 1 \in (i + 1)..(m + 1) /\ j \in 1..m
                      /\ \A j \in (i + 1)..(m + 1) : j - 1 \in i..m /\ j = (j - 1) + 1
                      /\ \A j \in (i + 1)..m : j + 1 \in (i + 1 + 1)..(m + 1) /\ j \in 1..m
                      /\ \A j \in (i + 1 + 1)..(m + 1) : j - 1 \in (i + 1)..m /\ j = (j - 1) + 1
  BY <1>0 DEF m
<1>2. \A i \in 1..m : Clear(p, i, m) <=> Clear(w, i + 1, m + 1)
  BY <1>0, <1>1 DEF Clear
<1>3. \A i \in 2..(m + 1) : i - 1 \in 1..m /\ i = (i - 1) + 1
  BY <1>0
<1>4. Clear(w, 1, m + 1) <=> w[1].kind # "blank" /\ Clear(p, 1, m)
  <2>1. 1 \in 1..(m + 1) /\ \A j \in 1..(m + 1) : j = 1 \/ j \in 2..(m + 1)
    BY <1>0
  <2>2. \A j \in 2..(m + 1) : w[j] = p[j - 1] /\ j - 1 \in 1..m
    BY <1>1, <1>3
  <2>. QED
    BY <1>1, <2>1, <2>2 DEF Clear
<1>5. /\ \A i \in 1..(m + 1) :
           (/\ Clear(w, i, m + 1) /\ w[i].kind \in K
            /\ \A j \in (i + 1)..(m + 1) : w[j].kind \notin K)
             => value = w[i].v
      /\ (\A i \in 1..(m + 1) : Clear(w, i, m + 1) => w[i].kind \notin K)
           => value = IF Clear(w, 1, m + 1) THEN old ELSE new
  BY <1>0 DEF LeavesBehind
<1>6. ASSUME NEW i \in 1..m, Clear(p, i, m), p[i].kind \in K,
             \A j \in (i + 1)..m : p[j].kind \notin K
      PROVE  value = p[i].v
  <2>1. \A j \in (i + 1 + 1)..(m + 1) : w[j].kind \notin K
    BY <1>1, <1>6
  <2>. QED
    BY <1>1, <1>2, <1>5, <1>6, <2>1
<1>7. ASSUME \A i \in 1..m : Clear(p, i, m) => p[i].kind \notin K
      PROVE  value = IF Clear(p, 1, m) THEN kept ELSE new
  <2>1. \A i \in 2..(m + 1) : Clear(w, i, m + 1) => w[i].kind \notin K
    BY <1>1, <1>2, <1>3, <1>7
  <2>2. \A i \in 1..(m + 1) : i = 1 \/ i \in 2..(m + 1)
    BY <1>0
  <2>3. CASE Clear(w, 1, m + 1) /\ w[1].kind \in K
    <3>1. ASSUME NEW j \in 2..(m + 1) PROVE Clear(w, j, m + 1)
      <4>1. \A k \in j..(m + 1) : k \in 1..(m + 1)
        BY <1>0
      <4>. QED
        BY <2>3, <4>1 DEF Clear
    <3>2. \A j \in (1 + 1)..(m + 1) : w[j].kind \notin K
      BY <2>1, <3>1
    <3>3. 1 \in 1..(m + 1)
      BY <1>0
    <3>. QED
      BY <1>4, <1>5, <2>3, <3>2, <3>3
  <2>4. CASE ~(Clear(w, 1, m + 1) /\ w[1].kind \in K)
    <3>1. \A i \in 1..(m + 1) : Clear(w, i, m + 1) => w[i].kind \notin K
      BY <2>1, <2>2, <2>4
    <3>2. value = IF Clear(w, 1, m + 1) THEN old ELSE new
      BY <1>5, <3>1
    <3>. QED
      BY <1>4, <2>4, <3>2
  <2>. QED
    BY <2>3, <2>4
<1>. QED
  BY <1>6, <1>7 DEF LeavesBehind, m

\* Nothing in front: what is known of the event that has begun.
LEMMA NothingInFront ==
  ASSUME NEW w, NEW K, NEW old, NEW new
  PROVE  /\ LeavesBehind(w, K, 1, old, new, old)
         /\ \A value : LeavesBehind(w, K, 1, old, new, value) => value = old
<1>1. 1..(1 - 1) = {} /\ Clear(w, 1, 1 - 1)
  BY DEF Clear
<1>. QED
  BY <1>1 DEF LeavesBehind

\* Every line under way that ends an event finds the value of that event, and
\* a line sent now would find the one of the event being sent.
Tell(w, c, K, old, new, values, value) ==
  /\ \A b \in 1..Len(w) : w[b].kind = "blank" => LeavesBehind(w, K, b, old, new, values[w[b].n])
  /\ c = "up" => LeavesBehind(w, K, Len(w) + 1, old, new, value)

\* A line of the event is sent.
LEMMA TellLine ==
  ASSUME NEW w, NEW p, NEW K, NEW old, NEW new, NEW values, NEW value, NEW c,
         Len(w) \in Nat, Len(p) = Len(w) + 1, \A i \in 1..Len(w) : p[i] = w[i],
         p[Len(p)].kind # "blank", c = "up", Tell(w, c, K, old, new, values, value)
  PROVE  Tell(p, c, K, old, new, values, IF p[Len(p)].kind \in K THEN p[Len(p)].v ELSE value)
<1>. DEFINE n == Len(w)
<1>1. \A b \in 1..Len(p) : b \in 1..n \/ b = n + 1
  OBVIOUS
<1>2. ASSUME NEW b \in 1..Len(p), p[b].kind = "blank"
      PROVE  LeavesBehind(p, K, b, old, new, values[p[b].n])
  <2>1. b \in 1..n /\ p[b] = w[b] /\ b \in Nat /\ \A i \in 1..(b - 1) : p[i] = w[i]
    BY <1>1, <1>2
  <2>2. LeavesBehind(w, K, b, old, new, values[w[b].n])
    BY <1>2, <2>1 DEF Tell
  <2>. QED
    BY <2>1, <2>2, SameInFront
<1>3. LeavesBehind(p, K, Len(p) + 1, old, new,
                   IF p[Len(p)].kind \in K THEN p[Len(p)].v ELSE value)
  <2>1. LeavesBehind(w, K, n + 1, old, new, value) /\ Len(p) = n + 1 /\ Len(p) + 1 = n + 2
    BY DEF Tell
  <2>. HIDE DEF n
  <2>2. n \in Nat /\ p[n + 1].kind # "blank" /\ \A i \in 1..n : p[i] = w[i]
    BY <2>1 DEF n
  <2>. QED
    BY <2>1, <2>2, OneMoreLine
<1>. QED
  BY <1>2, <1>3 DEF Tell

\* The line that ends the event is sent.
LEMMA TellBlank ==
  ASSUME NEW w, NEW p, NEW K, NEW old, NEW new, NEW values, NEW valuesAfter, NEW value, NEW c,
         Len(w) \in Nat, Len(p) = Len(w) + 1, \A i \in 1..Len(w) : p[i] = w[i],
         p[Len(p)].kind = "blank", c = "up", Tell(w, c, K, old, new, values, value),
         \A i \in 1..Len(w) : w[i].kind = "blank" => valuesAfter[w[i].n] = values[w[i].n],
         valuesAfter[p[Len(p)].n] = value
  PROVE  Tell(p, c, K, old, new, valuesAfter, new)
<1>. DEFINE n == Len(w)
<1>1. \A b \in 1..Len(p) : b \in 1..n \/ b = n + 1
  OBVIOUS
<1>2. ASSUME NEW b \in 1..Len(p), p[b].kind = "blank"
      PROVE  LeavesBehind(p, K, b, old, new, valuesAfter[p[b].n])
  <2>1. b \in Nat /\ \A i \in 1..(b - 1) : p[i] = w[i]
    BY <1>1
  <2>2. LeavesBehind(w, K, b, old, new, valuesAfter[p[b].n])
    <3>1. CASE b \in 1..n
      BY <1>2, <3>1 DEF Tell
    <3>2. CASE b = n + 1
      BY <3>2 DEF Tell
    <3>. QED
      BY <1>1, <3>1, <3>2
  <2>. QED
    BY <2>1, <2>2, SameInFront
<1>3. LeavesBehind(p, K, Len(p) + 1, old, new, new)
  <2>1. n \in Nat /\ Len(p) + 1 = n + 2 /\ p[n + 1].kind = "blank"
    OBVIOUS
  <2>. HIDE DEF n
  <2>. QED
    BY <2>1, FreshEvent
<1>. QED
  BY <1>2, <1>3 DEF Tell

\* The connection ends behind one of the lines.
LEMMA TellCut ==
  ASSUME NEW w, NEW p, NEW K, NEW old, NEW new, NEW values, NEW value, NEW after, NEW c, NEW d,
         Len(w) \in Nat, Len(p) \in 0..Len(w), \A i \in 1..Len(p) : p[i] = w[i],
         d # "up", Tell(w, c, K, old, new, values, value)
  PROVE  Tell(p, d, K, old, new, values, after)
<1>1. ASSUME NEW b \in 1..Len(p), p[b].kind = "blank"
      PROVE  LeavesBehind(p, K, b, old, new, values[p[b].n])
  <2>1. b \in 1..Len(w) /\ p[b] = w[b] /\ b \in Nat /\ \A i \in 1..(b - 1) : p[i] = w[i]
    OBVIOUS
  <2>2. LeavesBehind(w, K, b, old, new, values[w[b].n])
    BY <1>1, <2>1 DEF Tell
  <2>. QED
    BY <2>1, <2>2, SameInFront
<1>. QED
  BY <1>1 DEF Tell

\* A line is read.
LEMMA TellRead ==
  ASSUME NEW w, NEW p, NEW K, NEW old, NEW new, NEW values, NEW value, NEW c,
         Len(p) \in Nat, Len(w) = Len(p) + 1, \A i \in 1..Len(p) : p[i] = w[i + 1],
         "blank" \notin K, Tell(w, c, K, old, new, values, value)
  PROVE  Tell(p, c, K,
           IF w[1].kind = "blank" THEN new ELSE IF w[1].kind \in K THEN w[1].v ELSE old,
           new, values, value)
<1>. DEFINE kept == IF w[1].kind = "blank" THEN new
                    ELSE IF w[1].kind \in K THEN w[1].v ELSE old
<1>1. ASSUME NEW b \in 1..Len(p), p[b].kind = "blank"
      PROVE  LeavesBehind(p, K, b, kept, new, values[p[b].n])
  <2>1. b \in Nat \ {0} /\ b + 1 \in 1..Len(w) /\ p[b] = w[b + 1]
        /\ \A i \in 1..(b - 1) : p[i] = w[i + 1]
    OBVIOUS
  <2>2. LeavesBehind(w, K, b + 1, old, new, values[p[b].n])
    BY <1>1, <2>1 DEF Tell
  <2>. QED
    BY <2>1, <2>2, OneLineLess
<1>2. ASSUME c = "up" PROVE LeavesBehind(p, K, Len(p) + 1, kept, new, value)
  <2>. DEFINE b == Len(p) + 1
  <2>1. b \in Nat \ {0} /\ \A i \in 1..(b - 1) : p[i] = w[i + 1]
    OBVIOUS
  <2>2. LeavesBehind(w, K, b + 1, old, new, value)
    BY <1>2 DEF Tell
  <2>. HIDE DEF b
  <2>3. LeavesBehind(p, K, b, kept, new, value)
    BY <2>1, <2>2, OneLineLess
  <2>. QED
    BY <2>3 DEF b
<1>. QED
  BY <1>1, <1>2 DEF Tell

\* Nothing is under way, and nothing of the event being sent was.
LEMMA TellNothing ==
  ASSUME NEW c, NEW K, NEW old, NEW new, NEW values, NEW value, c = "up" => value = old
  PROVE  Tell(<<>>, c, K, old, new, values, value)
<1>1. Len(<<>>) = 0 /\ 1..0 = {} /\ 0 + 1 = 1
  OBVIOUS
<1>2. c = "up" => LeavesBehind(<<>>, K, 1, old, new, value)
  BY NothingInFront
<1>. QED
  BY <1>1, <1>2 DEF Tell

-----------------------------------------------------------------------------
(* Type correctness.                                                       *)

Meaning == [data : Data \cup {"none"}, name : Name \cup {NoEvent}, split : BOOLEAN]
Line == [kind : LineKind, v : Data \cup Name \cup {"none"}, n : Nat]

LoopTyped ==
  /\ pc \in {"check", "connect", "read", "wait", "stopped"}
  /\ ctxDone \in BOOLEAN
  /\ backoff \in BackoffMin..BackoffMax
  /\ conn \in {"none", "up", "down"} /\ (conn # "none" <=> pc = "read")
  /\ lines \in 0..MaxLines

LEMMA LoopStep ==
  ASSUME LoopTyped, [Next]_vars
  PROVE  LoopTyped'
<1>1. ASSUME UNCHANGED <<pc, ctxDone, backoff, conn, lines>> PROVE LoopTyped'
  BY <1>1 DEF LoopTyped
<1>2. CASE SendData \/ SendName \/ SendOther \/ SendBlank
  <2>1. lines' = lines + 1 /\ lines < MaxLines /\ UNCHANGED <<pc, ctxDone, backoff, conn>>
    BY <1>2 DEF SendData, SendName, SendOther, SendBlank, Send
  <2>. QED
    BY <2>1, ConsumerAssumption DEF LoopTyped
<1>3. CASE Drop
  BY <1>3 DEF Drop, LoopTyped
<1>4. CASE Cancel
  BY <1>4 DEF Cancel, LoopTyped, histVars
<1>5. CASE Check
  BY <1>5 DEF Check, LoopTyped, histVars
<1>6. CASE Connect
  BY <1>6 DEF Connect, LoopTyped, histVars
<1>7. CASE ConnectFails
  BY <1>7 DEF ConnectFails, LoopTyped, histVars
<1>8. CASE ReadEnds
  BY <1>8 DEF ReadEnds, LoopTyped
<1>9. CASE Wait
  <2>. DEFINE next == IF 2 * backoff > BackoffMax THEN BackoffMax ELSE 2 * backoff
  <2>1. next \in BackoffMin..BackoffMax
    BY ConsumerAssumption DEF LoopTyped
  <2>2. /\ pc = "wait" /\ pc' \in {"stopped", "check"} /\ backoff' \in {backoff, next}
        /\ UNCHANGED <<ctxDone, conn, lines>>
    BY <1>9 DEF Wait, histVars
  <2>. HIDE DEF next
  <2>. QED
    BY <2>1, <2>2 DEF LoopTyped
<1>10. CASE ReadLine
  BY <1>1, <1>10 DEF ReadLine, ScanData, ScanEvent, ScanBlank, ScanOther, Scan, histVars
<1>11. CASE UNCHANGED vars
  BY <1>1, <1>11 DEF vars, histVars
<1>. QED
  BY <1>2, <1>3, <1>4, <1>5, <1>6, <1>7, <1>8, <1>9, <1>10, <1>11 DEF Next, Server

\* What is on its way, what readStream holds, and what the server means.
WireTyped ==
  /\ wire \in Seq(Line) /\ Len(wire) <= MaxWire
  /\ \A i \in 1..Len(wire) : wire[i].kind = "other" => wire[i].v = "none"
  /\ dataLine = <<>> \/ \E l \in Line : dataLine = <<l>>
  /\ eventName = <<>> \/ \E l \in Line : eventName = <<l>>
  /\ current \in Meaning
  /\ events \in Seq(Meaning)
  /\ conn # "up" => current = NewEvent

\* What a line that is sent does to the wire.
LEMMA Sent ==
  ASSUME WireTyped, NEW kind \in LineKind, NEW v \in Data \cup Name \cup {"none"},
         Send(kind, v), kind = "other" => v = "none"
  PROVE  LET n == Len(wire)
         IN  /\ n \in Nat /\ Len(wire') = n + 1 /\ wire' \in Seq(Line)
             /\ Len(wire') <= MaxWire
             /\ \A i \in 1..n : wire'[i] = wire[i]
             /\ wire'[n + 1].kind = kind /\ wire'[n + 1].v = v
             /\ wire'[n + 1].n = Len(events) + 1
             /\ \A i \in 1..Len(wire') : wire'[i].kind = "other" => wire'[i].v = "none"
             /\ conn = "up"
             /\ UNCHANGED <<conn, dataLine, eventName, published, scanned>>
<1>. DEFINE l == [kind |-> kind, v |-> v, n |-> Len(events) + 1]
<1>1. l \in Line /\ l.kind = kind /\ l.v = v /\ l.n = Len(events) + 1
  BY LenProperties DEF Line, WireTyped
<1>2. wire' = Append(wire, l) /\ Len(wire) < MaxWire
  BY DEF Send
<1>. HIDE DEF l
<1>3. /\ wire' \in Seq(Line) /\ Len(wire) \in Nat /\ Len(wire') = Len(wire) + 1
      /\ \A i \in 1..Len(wire) : wire'[i] = wire[i]
      /\ wire'[Len(wire) + 1] = l
  BY <1>1, <1>2, AppendProperties, LenProperties DEF WireTyped
<1>4. \A i \in 1..Len(wire') : i \in 1..Len(wire) \/ i = Len(wire) + 1
  BY <1>3
<1>5. \A i \in 1..Len(wire') : wire'[i].kind = "other" => wire'[i].v = "none"
  BY <1>1, <1>3, <1>4 DEF WireTyped
<1>6. Len(wire') <= MaxWire
  BY <1>2, <1>3, ConsumerAssumption
<1>. QED
  BY <1>1, <1>3, <1>5, <1>6 DEF Send, readVars

\* What reading a line does to it.
LEMMA Read ==
  ASSUME WireTyped, NEW kind, Scan(kind)
  PROVE  LET n == Len(wire')
         IN  /\ n \in Nat /\ Len(wire) = n + 1 /\ wire' \in Seq(Line)
             /\ \A i \in 1..n : wire'[i] = wire[i + 1]
             /\ Head(wire) = wire[1] /\ wire[1] \in Line /\ wire[1].kind = kind
             /\ UNCHANGED <<conn, current, events, lines>>
<1>1. wire \in Seq(Line) /\ wire # <<>>
  BY DEF WireTyped, Scan
<1>2. Len(wire) \in Nat \ {0} /\ 1 \in 1..Len(wire)
  BY <1>1, EmptySeq, LenProperties
<1>3. /\ wire' \in Seq(Line) /\ Len(wire') = Len(wire) - 1
      /\ \A i \in 1..Len(wire') : wire'[i] = wire[i + 1]
  BY <1>1, HeadTailProperties DEF Scan
<1>4. Head(wire) = wire[1] /\ wire[1] \in Line
  BY <1>1, <1>2, ElementOfSeq
<1>. QED
  BY <1>2, <1>3, <1>4 DEF Scan, histVars

LEMMA WireStep ==
  ASSUME WireTyped, LoopTyped, [Next]_vars
  PROVE  WireTyped'
<1>0. NewEvent \in Meaning
  BY DEF NewEvent, Meaning
<1>1. CASE SendData
  <2>1. PICK d \in Data : /\ Send("data", d) /\ UNCHANGED events
                          /\ current' = [current EXCEPT !.data = d, !.split = FALSE]
    BY <1>1 DEF SendData
  <2>2. current' \in Meaning
    BY <2>1 DEF WireTyped, Meaning
  <2>. QED
    BY <2>1, <2>2, Sent DEF WireTyped, LineKind
<1>2. CASE SendName
  <2>1. PICK name \in Name : /\ Send("event", name) /\ UNCHANGED events
                             /\ current' = [current EXCEPT !.name = name]
    BY <1>2 DEF SendName
  <2>2. current' \in Meaning
    BY <2>1 DEF WireTyped, Meaning
  <2>. QED
    BY <2>1, <2>2, Sent DEF WireTyped, LineKind
<1>3. CASE SendOther
  <2>. DEFINE sp == current.data # "none"
  <2>1. sp \in BOOLEAN
    BY Zenon
  <2>2. Send("other", "none") /\ UNCHANGED events /\ current' = [current EXCEPT !.split = sp]
    BY <1>3 DEF SendOther
  <2>. HIDE DEF sp
  <2>3. current' \in Meaning
    BY <2>1, <2>2 DEF WireTyped, Meaning
  <2>. QED
    BY <2>2, <2>3, Sent DEF WireTyped, LineKind
<1>4. CASE SendBlank
  <2>1. Send("blank", "none") /\ events' = Append(events, current) /\ current' = NewEvent
    BY <1>4 DEF SendBlank
  <2>2. events' \in Seq(Meaning)
    BY <2>1, AppendProperties DEF WireTyped
  <2>. QED
    BY <1>0, <2>1, <2>2, Sent DEF WireTyped, LineKind
<1>5. CASE Drop
  <2>1. PICK k \in 0..Len(wire) : wire' = SubSeq(wire, 1, k)
    BY <1>5 DEF Drop
  <2>2. Len(wire) \in Nat /\ \A i \in 1..k : i \in 1..Len(wire) /\ wire[i] \in Line
    BY ElementOfSeq, LenProperties DEF WireTyped
  <2>3. wire' \in Seq(Line) /\ Len(wire') = k /\ \A i \in 1..k : wire'[i] = wire[i]
    BY <2>1, <2>2, SubSeqProperties
  <2>4. Len(wire') <= MaxWire
    BY <2>2, <2>3, ConsumerAssumption DEF WireTyped
  <2>5. current' = NewEvent /\ UNCHANGED <<dataLine, eventName, events>>
    BY <1>5 DEF Drop, readVars
  <2>. QED
    BY <1>0, <2>2, <2>3, <2>4, <2>5 DEF WireTyped
<1>6. CASE Connect \/ ReadEnds
  <2>1. /\ wire' = <<>> /\ UNCHANGED events /\ current' \in Meaning
        /\ conn' # "up" => current' = NewEvent
        /\ dataLine' = <<>> \/ dataLine' = dataLine
        /\ eventName' = <<>> \/ eventName' = eventName
    BY <1>0, <1>6 DEF Connect, ReadEnds, readVars, histVars, WireTyped
  <2>2. wire' \in Seq(Line) /\ Len(wire') = 0 /\ 1..0 = {}
    BY <2>1, EmptySeq
  <2>. QED
    BY <2>1, <2>2, ConsumerAssumption DEF WireTyped
<1>7. CASE ReadLine
  <2>1. PICK kind \in LineKind : Scan(kind)
    BY <1>7 DEF ReadLine, ScanData, ScanEvent, ScanBlank, ScanOther, LineKind
  <2>2. /\ Len(wire') \in Nat /\ Len(wire) = Len(wire') + 1 /\ wire' \in Seq(Line)
        /\ \A i \in 1..Len(wire') : wire'[i] = wire[i + 1]
        /\ Head(wire) \in Line
        /\ UNCHANGED <<conn, current, events, lines>>
    BY <2>1, Read
  <2>3. \A i \in 1..Len(wire') : i + 1 \in 1..Len(wire) /\ wire'[i] = wire[i + 1]
    BY <2>2
  <2>4. /\ dataLine' = <<>> \/ dataLine' = dataLine \/ dataLine' = <<Head(wire)>>
        /\ eventName' = <<>> \/ eventName' = eventName \/ eventName' = <<Head(wire)>>
    BY <1>7 DEF ReadLine, ScanData, ScanEvent, ScanBlank, ScanOther
  <2>5. Len(wire') <= MaxWire
    BY <2>2, ConsumerAssumption DEF WireTyped
  <2>. QED
    BY <2>2, <2>3, <2>4, <2>5 DEF WireTyped
<1>8. CASE Cancel \/ Check \/ ConnectFails \/ Wait \/ UNCHANGED vars
  BY <1>8 DEF Cancel, Check, ConnectFails, Wait, vars, readVars, histVars, WireTyped
<1>. QED
  BY <1>1, <1>2, <1>3, <1>4, <1>5, <1>6, <1>7, <1>8 DEF Next, Server

-----------------------------------------------------------------------------
(* The numbers of the events.                                              *)

\* The lines of an event follow each other, each event after the one before;
\* what readStream holds belongs to the event of the next line.
Numbers ==
  /\ \A i \in 1..Len(wire) :
       /\ wire[i].n \in 1..(Len(events) + 1)
       /\ wire[i].kind = "blank" => wire[i].n \in 1..Len(events)
  /\ \A i, j \in 1..Len(wire) : j = i + 1 =>
       wire[j].n = IF wire[i].kind = "blank" THEN wire[i].n + 1 ELSE wire[i].n
  /\ wire # <<>> /\ dataLine # <<>> => dataLine[1].n = wire[1].n
  /\ conn = "up" =>
       /\ wire # <<>> => wire[Len(wire)].n = IF wire[Len(wire)].kind = "blank"
                                             THEN Len(events) ELSE Len(events) + 1
       /\ wire = <<>> /\ dataLine # <<>> => dataLine[1].n = Len(events) + 1

LEMMA NumbersSent ==
  ASSUME WireTyped, Numbers, NEW kind \in LineKind, NEW v \in Data \cup Name \cup {"none"},
         Send(kind, v), kind = "other" => v = "none",
         Len(events') = IF kind = "blank" THEN Len(events) + 1 ELSE Len(events)
  PROVE  Numbers'
<1>. DEFINE n == Len(wire)  m == Len(events)
<1>0. m \in Nat
  BY LenProperties DEF WireTyped
<1>1. /\ n \in Nat /\ Len(wire') = n + 1
      /\ \A i \in 1..n : wire'[i] = wire[i]
      /\ wire'[n + 1].kind = kind /\ wire'[n + 1].n = m + 1
      /\ conn = "up" /\ UNCHANGED <<conn, dataLine>>
  BY Sent
<1>2. wire = <<>> <=> n = 0
  BY EmptySeq DEF WireTyped
<1>3. wire' # <<>>
  BY <1>1
<1>. HIDE DEF n, m
<1>4. /\ \A i \in 1..n : wire[i].n \in 1..(m + 1) /\ (wire[i].kind = "blank" => wire[i].n \in 1..m)
      /\ \A i, j \in 1..n : j = i + 1 =>
           wire[j].n = IF wire[i].kind = "blank" THEN wire[i].n + 1 ELSE wire[i].n
      /\ n # 0 /\ dataLine # <<>> => dataLine[1].n = wire[1].n
      /\ n # 0 => wire[n].n = IF wire[n].kind = "blank" THEN m ELSE m + 1
      /\ n = 0 /\ dataLine # <<>> => dataLine[1].n = m + 1
  BY <1>1, <1>2 DEF Numbers, n, m
<1>5. Len(events') \in Nat /\ Len(events') = IF kind = "blank" THEN m + 1 ELSE m
  BY <1>0 DEF m
<1>6. \A i \in 1..(n + 1) : i \in 1..n \/ i = n + 1
  BY <1>1
<1>7. ASSUME NEW i \in 1..(n + 1)
      PROVE  /\ wire'[i].n \in 1..(Len(events') + 1)
             /\ wire'[i].kind = "blank" => wire'[i].n \in 1..Len(events')
  <2>1. CASE i \in 1..n
    <3>1. /\ wire'[i] = wire[i] /\ wire[i].n \in 1..(m + 1)
          /\ wire[i].kind = "blank" => wire[i].n \in 1..m
      BY <1>1, <1>4, <2>1
    <3>. QED
      BY <1>0, <1>5, <3>1
  <2>2. CASE i = n + 1
    BY <1>0, <1>1, <1>5, <2>2
  <2>. QED
    BY <1>6, <2>1, <2>2
<1>8. ASSUME NEW i \in 1..(n + 1), NEW j \in 1..(n + 1), j = i + 1
      PROVE  wire'[j].n = IF wire'[i].kind = "blank" THEN wire'[i].n + 1 ELSE wire'[i].n
  <2>1. CASE j \in 1..n
    <3>1. i \in 1..n
      BY <1>1, <1>8, <2>1
    <3>2. wire[j].n = IF wire[i].kind = "blank" THEN wire[i].n + 1 ELSE wire[i].n
      BY <1>4, <1>8, <2>1, <3>1
    <3>. QED
      BY <1>1, <2>1, <3>1, <3>2
  <2>2. CASE j = n + 1
    <3>1. i = n /\ n # 0 /\ i \in 1..n
      BY <1>1, <1>8, <2>2
    <3>2. wire[n].n = IF wire[n].kind = "blank" THEN m ELSE m + 1
      BY <1>4, <3>1
    <3>3. wire'[i] = wire[n] /\ wire'[j].n = m + 1
      BY <1>1, <2>2, <3>1
    <3>. QED
      BY <1>0, <3>2, <3>3
  <2>. QED
    BY <1>6, <2>1, <2>2
<1>9. dataLine' # <<>> => dataLine'[1].n = wire'[1].n
  <2>1. CASE n = 0
    BY <1>1, <1>4, <2>1
  <2>2. CASE n # 0
    <3>1. 1 \in 1..n
      BY <1>1, <2>2
    <3>. QED
      BY <1>1, <1>4, <2>2, <3>1
  <2>. QED
    BY <2>1, <2>2
<1>10. wire'[Len(wire')].n = IF wire'[Len(wire')].kind = "blank"
                             THEN Len(events') ELSE Len(events') + 1
  BY <1>0, <1>1, <1>5
<1>. QED
  BY <1>1, <1>3, <1>7, <1>8, <1>9, <1>10 DEF Numbers

\* Scan keeps the order; the line read decides what dataLine is of.
LEMMA NumbersRead ==
  ASSUME WireTyped, Numbers, ReadLine
  PROVE  Numbers'
<1>. DEFINE n == Len(wire')  m == Len(events)
<1>0. m \in Nat
  BY LenProperties DEF WireTyped
<1>1. PICK kind \in LineKind : Scan(kind)
  BY DEF ReadLine, ScanData, ScanEvent, ScanBlank, ScanOther, LineKind
<1>2. /\ n \in Nat /\ Len(wire) = n + 1 /\ wire' \in Seq(Line)
      /\ \A i \in 1..n : wire'[i] = wire[i + 1]
      /\ Head(wire) = wire[1]
      /\ UNCHANGED <<conn, events>>
  BY <1>1, Read
<1>3. \/ dataLine' = <<>>
      \/ dataLine' = dataLine /\ wire[1].kind # "blank"
      \/ dataLine' = <<wire[1]>> /\ wire[1].kind # "blank"
  <2>1. \A k : Scan(k) => wire[1].kind = k
    BY <1>2 DEF Scan
  <2>2. CASE ScanData
    BY <1>2, <2>1, <2>2 DEF ScanData
  <2>3. CASE ScanEvent
    BY <2>1, <2>3 DEF ScanEvent
  <2>4. CASE ScanBlank
    BY <2>4 DEF ScanBlank
  <2>5. CASE ScanOther
    BY <2>5 DEF ScanOther
  <2>. QED
    BY <2>2, <2>3, <2>4, <2>5 DEF ReadLine
<1>4. wire' = <<>> <=> n = 0
  BY <1>2, EmptySeq
<1>5. wire # <<>>
  BY <1>1 DEF Scan
<1>. HIDE DEF n, m
<1>6. /\ \A i \in 1..(n + 1) : /\ wire[i].n \in 1..(m + 1)
                               /\ wire[i].kind = "blank" => wire[i].n \in 1..m
      /\ \A i, j \in 1..(n + 1) : j = i + 1 =>
           wire[j].n = IF wire[i].kind = "blank" THEN wire[i].n + 1 ELSE wire[i].n
      /\ dataLine # <<>> => dataLine[1].n = wire[1].n
      /\ conn = "up" => wire[n + 1].n = IF wire[n + 1].kind = "blank" THEN m ELSE m + 1
  BY <1>2, <1>5 DEF Numbers, m
<1>7. \A i \in 1..n : i + 1 \in 1..(n + 1) /\ wire'[i] = wire[i + 1]
  BY <1>2
<1>8. ASSUME NEW i \in 1..n, NEW j \in 1..n, j = i + 1
      PROVE  wire'[j].n = IF wire'[i].kind = "blank" THEN wire'[i].n + 1 ELSE wire'[i].n
  BY <1>6, <1>7, <1>8
<1>9. dataLine' # <<>> => dataLine'[1].n = wire[1].n /\ wire[1].kind # "blank"
  BY <1>3, <1>6
<1>10. n # 0 /\ dataLine' # <<>> => dataLine'[1].n = wire'[1].n
  <2>1. n # 0 => 1 \in 1..n /\ 1 + 1 \in 1..(n + 1) /\ 1 \in 1..(n + 1)
    BY <1>2
  <2>. QED
    BY <1>6, <1>7, <1>9, <2>1
<1>11. conn = "up" /\ n # 0 => wire'[n].n = IF wire'[n].kind = "blank" THEN m ELSE m + 1
  <2>1. n # 0 => n \in 1..n
    BY <1>2
  <2>. QED
    BY <1>6, <1>7, <2>1
<1>12. conn = "up" /\ n = 0 /\ dataLine' # <<>> => dataLine'[1].n = m + 1
  BY <1>6, <1>9
<1>13. \A i \in 1..n : /\ wire'[i].n \in 1..(m + 1)
                       /\ wire'[i].kind = "blank" => wire'[i].n \in 1..m
  BY <1>6, <1>7
<1>. QED
  BY <1>2, <1>4, <1>8, <1>10, <1>11, <1>12, <1>13 DEF Numbers, n, m

LEMMA NumbersStep ==
  ASSUME WireTyped, Numbers, [Next]_vars
  PROVE  Numbers'
<1>1. CASE SendData \/ SendName \/ SendOther
  <2>1. PICK kind \in LineKind \ {"blank"}, v \in Data \cup Name \cup {"none"} :
          Send(kind, v) /\ (kind = "other" => v = "none")
    BY <1>1, ZenonT(40) DEF SendData, SendName, SendOther, LineKind
  <2>2. UNCHANGED events
    BY <1>1 DEF SendData, SendName, SendOther
  <2>. QED
    BY <2>1, <2>2, NumbersSent
<1>2. CASE SendBlank
  <2>1. Send("blank", "none") /\ events' = Append(events, current)
    BY <1>2 DEF SendBlank
  <2>2. Len(events') = Len(events) + 1
    BY <2>1, AppendProperties DEF WireTyped
  <2>3. "blank" \in LineKind
    BY DEF LineKind
  <2>. QED
    BY <2>1, <2>2, <2>3, NumbersSent
<1>3. CASE Drop
  <2>1. PICK k \in 0..Len(wire) : wire' = SubSeq(wire, 1, k)
    BY <1>3 DEF Drop
  <2>2. Len(wire) \in Nat /\ \A i \in 1..k : i \in 1..Len(wire) /\ wire[i] \in Line
    BY ElementOfSeq, LenProperties DEF WireTyped
  <2>3. wire' \in Seq(Line) /\ Len(wire') = k /\ \A i \in 1..k : wire'[i] = wire[i]
    BY <2>1, <2>2, SubSeqProperties
  <2>4. wire' # <<>> => k # 0 /\ wire # <<>> /\ 1 \in 1..k
    BY <2>2, <2>3, EmptySeq DEF WireTyped
  <2>5. conn' = "down" /\ dataLine' = dataLine /\ events' = events
    BY <1>3 DEF Drop, readVars
  <2>6. \A i \in 1..Len(wire') :
          /\ wire'[i].n \in 1..(Len(events') + 1)
          /\ wire'[i].kind = "blank" => wire'[i].n \in 1..Len(events')
    BY <2>2, <2>3, <2>5 DEF Numbers
  <2>7. \A i, j \in 1..Len(wire') : j = i + 1 =>
          wire'[j].n = IF wire'[i].kind = "blank" THEN wire'[i].n + 1 ELSE wire'[i].n
    BY <2>2, <2>3 DEF Numbers
  <2>8. wire' # <<>> /\ dataLine' # <<>> => dataLine'[1].n = wire'[1].n
    BY <2>3, <2>4, <2>5 DEF Numbers
  <2>. QED
    BY <2>5, <2>6, <2>7, <2>8 DEF Numbers
<1>4. CASE Connect \/ ReadEnds
  <2>1. wire' = <<>> /\ UNCHANGED events /\ (conn' = "up" => dataLine' = <<>>)
    BY <1>4 DEF Connect, ReadEnds, histVars
  <2>2. Len(wire') = 0 /\ 1..0 = {}
    BY <2>1
  <2>. QED
    BY <2>1, <2>2 DEF Numbers
<1>5. CASE Cancel \/ Check \/ ConnectFails \/ Wait \/ UNCHANGED vars
  BY <1>5 DEF Cancel, Check, ConnectFails, Wait, vars, readVars, histVars, Numbers
<1>. QED
  BY <1>1, <1>2, <1>3, <1>4, <1>5, NumbersRead DEF Next, Server

-----------------------------------------------------------------------------
(* What the lines under way will make of an event.                         *)

Contents == {"data", "other"}

\* The data of an event as far as the consumer can keep them.
Kept(e) == IF e.split THEN "none" ELSE e.data

Datas == [n \in 1..Len(events) |-> Kept(events[n])]
Names == [n \in 1..Len(events) |-> events[n].name]

\* What readStream has read of the event under way.
Left == IF dataLine = <<>> THEN "none" ELSE dataLine[1].v
Called == IF eventName = <<>> THEN NoEvent ELSE eventName[1].v

LinesTell ==
  /\ Tell(wire, conn, Contents, Left, "none", Datas, Kept(current))
  /\ Tell(wire, conn, {"event"}, Called, NoEvent, Names, current.name)

\* A line that does not end its event changes what the server means by it, and
\* what the lines tell of it, alike.
LEMMA TellSent ==
  ASSUME WireTyped, LinesTell, NEW kind \in LineKind \ {"blank"},
         NEW v \in Data \cup Name \cup {"none"}, Send(kind, v), kind = "other" => v = "none",
         UNCHANGED events,
         Kept(current') = IF kind \in Contents THEN v ELSE Kept(current),
         current'.name = IF kind = "event" THEN v ELSE current.name
  PROVE  LinesTell'
<1>1. /\ Len(wire) \in Nat /\ Len(wire') = Len(wire) + 1
      /\ \A i \in 1..Len(wire) : wire'[i] = wire[i]
      /\ wire'[Len(wire')].kind = kind /\ wire'[Len(wire')].v = v
      /\ conn = "up" /\ UNCHANGED <<conn, dataLine, eventName>>
  BY Sent
<1>2. Left' = Left /\ Called' = Called /\ Datas' = Datas /\ Names' = Names
  BY <1>1 DEF Left, Called, Datas, Names, Kept
<1>. DEFINE p == wire'  c == conn'
<1>3. Tell(p, c, Contents, Left, "none", Datas, Kept(current'))
  <2>. DEFINE value == Kept(current)  after == Kept(current')
  <2>1. Tell(wire, conn, Contents, Left, "none", Datas, value)
    BY DEF LinesTell
  <2>2. after = IF kind \in Contents THEN v ELSE value
    OBVIOUS
  <2>. HIDE DEF value, after
  <2>. QED
    BY <1>1, <2>1, <2>2, TellLine DEF after
<1>4. Tell(p, c, {"event"}, Called, NoEvent, Names, current'.name)
  <2>1. Tell(wire, conn, {"event"}, Called, NoEvent, Names, current.name)
    BY DEF LinesTell
  <2>2. kind \in {"event"} <=> kind = "event"
    OBVIOUS
  <2>. QED
    BY <1>1, <2>1, <2>2, TellLine
<1>. QED
  BY <1>2, <1>3, <1>4 DEF LinesTell, Kept

LEMMA TellEnded ==
  ASSUME WireTyped, Numbers, LinesTell, SendBlank
  PROVE  LinesTell'
<1>1. Send("blank", "none") /\ events' = Append(events, current) /\ current' = NewEvent
  BY DEF SendBlank
<1>. DEFINE m == Len(events)
<1>2. /\ Len(wire) \in Nat /\ Len(wire') = Len(wire) + 1
      /\ \A i \in 1..Len(wire) : wire'[i] = wire[i]
      /\ wire'[Len(wire')].kind = "blank" /\ wire'[Len(wire')].n = m + 1
      /\ conn = "up" /\ UNCHANGED <<conn, dataLine, eventName>>
  BY <1>1, Sent DEF LineKind
<1>3. /\ m \in Nat /\ Len(events') = m + 1
      /\ \A n \in 1..m : events'[n] = events[n] /\ n \in 1..(m + 1)
      /\ events'[m + 1] = current /\ m + 1 \in 1..(m + 1)
  BY <1>1, AppendProperties, LenProperties DEF WireTyped
<1>4. Left' = Left /\ Called' = Called
  BY <1>2 DEF Left, Called
<1>5. Kept(current') = "none" /\ current'.name = NoEvent
  BY <1>1 DEF Kept, NewEvent
<1>6. \A i \in 1..Len(wire) : wire[i].kind = "blank" => wire[i].n \in 1..m
  BY DEF Numbers
<1>. HIDE DEF m
<1>. DEFINE datas == Datas'  names == Names'
<1>7. /\ datas = [n \in 1..(m + 1) |-> Kept(events'[n])]
      /\ names = [n \in 1..(m + 1) |-> events'[n].name]
  BY <1>3 DEF Datas, Names, Kept
<1>8. Datas = [n \in 1..m |-> Kept(events[n])] /\ Names = [n \in 1..m |-> events[n].name]
  BY DEF Datas, Names, m
<1>. HIDE DEF datas, names
<1>9. /\ \A n \in 1..m : datas[n] = Datas[n] /\ names[n] = Names[n]
      /\ datas[m + 1] = Kept(current) /\ names[m + 1] = current.name
  BY <1>3, <1>7, <1>8 DEF Kept
<1>. DEFINE p == wire'  c == conn'
<1>10. Tell(p, c, Contents, Left, "none", datas, "none")
  <2>. DEFINE value == Kept(current)
  <2>1. Tell(wire, conn, Contents, Left, "none", Datas, value)
    BY DEF LinesTell
  <2>2. datas[p[Len(p)].n] = value
    BY <1>2, <1>9
  <2>3. \A i \in 1..Len(wire) : wire[i].kind = "blank" => datas[wire[i].n] = Datas[wire[i].n]
    BY <1>6, <1>9
  <2>4. Len(p) = Len(wire) + 1 /\ p[Len(p)].kind = "blank" /\ c = "up" /\ c = conn
    BY <1>2
  <2>. HIDE DEF value, p, c
  <2>5. \A i \in 1..Len(wire) : p[i] = wire[i]
    BY <1>2 DEF p
  <2>. QED
    BY <1>2, <2>1, <2>2, <2>3, <2>4, <2>5, TellBlank
<1>11. Tell(p, c, {"event"}, Called, NoEvent, names, NoEvent)
  <2>1. Tell(wire, conn, {"event"}, Called, NoEvent, Names, current.name)
    BY DEF LinesTell
  <2>2. names[p[Len(p)].n] = current.name
    BY <1>2, <1>9
  <2>3. \A i \in 1..Len(wire) : wire[i].kind = "blank" => names[wire[i].n] = Names[wire[i].n]
    BY <1>6, <1>9
  <2>4. Len(p) = Len(wire) + 1 /\ p[Len(p)].kind = "blank" /\ c = "up" /\ c = conn
    BY <1>2
  <2>. HIDE DEF p, c
  <2>5. \A i \in 1..Len(wire) : p[i] = wire[i]
    BY <1>2 DEF p
  <2>. QED
    BY <1>2, <2>1, <2>2, <2>3, <2>4, <2>5, TellBlank, ZenonT(40)
<1>12. Kept(current)' = "none"
  BY <1>5 DEF Kept
<1>. QED
  BY <1>4, <1>5, <1>10, <1>11, <1>12 DEF LinesTell, datas, names

LEMMA TellReadLine ==
  ASSUME WireTyped, LinesTell, ReadLine
  PROVE  LinesTell'
<1>1. PICK kind \in LineKind : Scan(kind)
  BY DEF ReadLine, ScanData, ScanEvent, ScanBlank, ScanOther, LineKind
<1>2. /\ Len(wire') \in Nat /\ Len(wire) = Len(wire') + 1
      /\ \A i \in 1..Len(wire') : wire'[i] = wire[i + 1]
      /\ Head(wire) = wire[1] /\ wire[1] \in Line
      /\ UNCHANGED <<conn, current, events>>
  BY <1>1, Read
<1>3. wire # <<>>
  BY <1>1 DEF Scan
<1>4. 1 \in 1..Len(wire)
  BY <1>2
<1>. DEFINE left == IF wire[1].kind = "blank" THEN "none"
                    ELSE IF wire[1].kind \in Contents THEN wire[1].v ELSE Left
            called == IF wire[1].kind = "blank" THEN NoEvent
                      ELSE IF wire[1].kind \in {"event"} THEN wire[1].v ELSE Called
<1>5. \A k : Scan(k) => wire[1].kind = k
  BY <1>2 DEF Scan
<1>6. Left' = left /\ Called' = called
  <2>1. CASE ScanData
    <3>1. dataLine' = <<wire[1]>> /\ eventName' = eventName /\ wire[1].kind = "data"
      BY <1>2, <1>5, <2>1 DEF ScanData
    <3>. QED
      BY <3>1 DEF Left, Called, Contents
  <2>2. CASE ScanEvent
    <3>1. eventName' = <<wire[1]>> /\ dataLine' = dataLine /\ wire[1].kind = "event"
      BY <1>2, <1>5, <2>2 DEF ScanEvent
    <3>. QED
      BY <3>1 DEF Left, Called, Contents
  <2>3. CASE ScanBlank
    <3>1. eventName' = <<>> /\ dataLine' = <<>> /\ wire[1].kind = "blank"
      BY <1>5, <2>3 DEF ScanBlank
    <3>. QED
      BY <3>1 DEF Left, Called
  <2>4. CASE ScanOther
    <3>1. eventName' = eventName /\ dataLine' = <<>> /\ wire[1].kind = "other"
      BY <1>5, <2>4 DEF ScanOther
    <3>2. wire[1].v = "none"
      BY <1>4, <3>1 DEF WireTyped
    <3>. QED
      BY <3>1, <3>2 DEF Left, Called, Contents
  <2>. QED
    BY <2>1, <2>2, <2>3, <2>4 DEF ReadLine
<1>7. Datas' = Datas /\ Names' = Names /\ Kept(current)' = Kept(current)
      /\ current'.name = current.name
  BY <1>2 DEF Datas, Names, Kept
<1>. DEFINE p == wire'  c == conn'  value == Kept(current)
<1>. HIDE DEF value
<1>8. Tell(p, c, Contents, left, "none", Datas, value)
  <2>1. Tell(wire, conn, Contents, Left, "none", Datas, value)
    BY DEF LinesTell, value
  <2>2. "blank" \notin Contents
    BY DEF Contents
  <2>. QED
    BY <1>2, <2>1, <2>2, TellRead
<1>9. Tell(p, c, {"event"}, called, NoEvent, Names, current.name)
  <2>1. Tell(wire, conn, {"event"}, Called, NoEvent, Names, current.name)
    BY DEF LinesTell
  <2>2. "blank" \notin {"event"}
    OBVIOUS
  <2>. QED
    BY <1>2, <2>1, <2>2, TellRead
<1>. QED
  BY <1>6, <1>7, <1>8, <1>9 DEF LinesTell, value

LEMMA TellStep ==
  ASSUME LoopTyped, WireTyped, Numbers, LinesTell, [Next]_vars
  PROVE  LinesTell'
<1>1. CASE SendData
  <2>1. PICK d \in Data : /\ Send("data", d) /\ UNCHANGED events
                          /\ current' = [current EXCEPT !.data = d, !.split = FALSE]
    BY <1>1 DEF SendData
  <2>2. Kept(current') = d /\ current'.name = current.name
    BY <2>1 DEF Kept, WireTyped, Meaning
  <2>3. "data" \in Contents /\ "data" \in LineKind \ {"blank"} /\ "data" # "event" /\ "data" # "other"
    BY DEF Contents, LineKind
  <2>. QED
    BY <2>1, <2>2, <2>3, TellSent
<1>2. CASE SendName
  <2>1. PICK name \in Name : /\ Send("event", name) /\ UNCHANGED events
                             /\ current' = [current EXCEPT !.name = name]
    BY <1>2 DEF SendName
  <2>2. Kept(current') = Kept(current) /\ current'.name = name
    BY <2>1 DEF Kept, WireTyped, Meaning
  <2>3. "event" \notin Contents /\ "event" \in LineKind \ {"blank"} /\ "event" # "other"
    BY DEF Contents, LineKind
  <2>. QED
    BY <2>1, <2>2, <2>3, TellSent
<1>3. CASE SendOther
  <2>. DEFINE sp == current.data # "none"
  <2>1. Send("other", "none") /\ UNCHANGED events /\ current' = [current EXCEPT !.split = sp]
    BY <1>3 DEF SendOther
  <2>2. /\ current'.split <=> sp
        /\ current'.data = current.data /\ current'.name = current.name
    BY <2>1 DEF WireTyped, Meaning
  <2>3. Kept(current') = "none"
    BY <2>2 DEF Kept
  <2>4. "other" \in Contents /\ "other" \in LineKind \ {"blank"} /\ "other" # "event"
    BY DEF Contents, LineKind
  <2>. QED
    BY <2>1, <2>2, <2>3, <2>4, TellSent
<1>4. CASE Drop
  <2>1. PICK k \in 0..Len(wire) : wire' = SubSeq(wire, 1, k)
    BY <1>4 DEF Drop
  <2>2. Len(wire) \in Nat /\ \A i \in 1..k : i \in 1..Len(wire) /\ wire[i] \in Line
    BY ElementOfSeq, LenProperties DEF WireTyped
  <2>3. Len(wire') \in 0..Len(wire) /\ \A i \in 1..Len(wire') : wire'[i] = wire[i]
    BY <2>1, <2>2, SubSeqProperties
  <2>4. conn' # "up" /\ UNCHANGED <<dataLine, eventName, events>>
    BY <1>4 DEF Drop, readVars
  <2>5. Left' = Left /\ Called' = Called /\ Datas' = Datas /\ Names' = Names
    BY <2>4 DEF Left, Called, Datas, Names, Kept
  <2>. DEFINE p == wire'  d == conn'  value == Kept(current)  after == Kept(current)'
  <2>. HIDE DEF value, after
  <2>6. Tell(p, d, Contents, Left, "none", Datas, after)
    <3>1. Tell(wire, conn, Contents, Left, "none", Datas, value)
      BY DEF LinesTell, value
    <3>. QED
      BY <2>2, <2>3, <2>4, <3>1, TellCut
  <2>7. Tell(p, d, {"event"}, Called, NoEvent, Names, current'.name)
    <3>1. Tell(wire, conn, {"event"}, Called, NoEvent, Names, current.name)
      BY DEF LinesTell
    <3>. QED
      BY <2>2, <2>3, <2>4, <3>1, TellCut
  <2>. QED
    BY <2>5, <2>6, <2>7 DEF LinesTell, after
<1>5. ASSUME wire' = <<>>,
             conn' = "up" => Left' = Kept(current)' /\ Called' = current'.name
      PROVE  LinesTell'
  <2>. DEFINE c == conn'  a == Left'  k == Kept(current)'  ds == Datas'
  <2>. HIDE DEF a, k, ds
  <2>1. Tell(<<>>, c, Contents, a, "none", ds, k)
    BY <1>5, TellNothing DEF a, k
  <2>2. Tell(<<>>, c, {"event"}, Called', NoEvent, Names', current'.name)
    BY <1>5, TellNothing
  <2>. QED
    BY <1>5, <2>1, <2>2 DEF LinesTell, a, k, ds
<1>6. CASE Connect
  <2>1. wire' = <<>> /\ dataLine' = <<>> /\ eventName' = <<>> /\ current' = current /\ conn # "up"
    BY <1>6 DEF Connect, histVars, LoopTyped
  <2>2. current' = NewEvent
    BY <2>1 DEF WireTyped
  <2>3. Left' = "none" /\ Called' = NoEvent /\ Kept(current)' = "none" /\ current'.name = NoEvent
    BY <2>1, <2>2 DEF Left, Called, Kept, NewEvent
  <2>. QED
    BY <1>5, <2>1, <2>3
<1>7. CASE ReadEnds
  BY <1>5, <1>7 DEF ReadEnds
<1>8. CASE Cancel \/ Check \/ ConnectFails \/ Wait \/ UNCHANGED vars
  <2>1. UNCHANGED <<wire, conn, dataLine, eventName, events, current>>
    BY <1>8 DEF Cancel, Check, ConnectFails, Wait, vars, readVars, histVars
  <2>2. /\ Left' = Left /\ Called' = Called /\ Datas' = Datas /\ Names' = Names
        /\ Kept(current)' = Kept(current) /\ current'.name = current.name
    BY <2>1 DEF Left, Called, Datas, Names, Kept
  <2>. DEFINE p == wire'  c == conn'
  <2>3. p = wire /\ c = conn
    BY <2>1
  <2>. HIDE DEF p, c
  <2>4. /\ Tell(p, c, Contents, Left, "none", Datas, Kept(current))
        /\ Tell(p, c, {"event"}, Called, NoEvent, Names, current.name)
    BY <2>3 DEF LinesTell
  <2>. QED
    BY <2>2, <2>4 DEF LinesTell, p, c
<1>. QED
  BY <1>1, <1>2, <1>3, <1>4, <1>6, <1>7, <1>8, TellEnded, TellReadLine DEF Next, Server

-----------------------------------------------------------------------------
(* What is published.                                                      *)

Right(n) == Meant(n) /\ ~events[n].split

Publishes ==
  /\ published \in Seq(1..Len(events))
  /\ scanned \subseteq 1..Len(events)
  /\ Increasing(published)
  /\ Published = {n \in scanned : Right(n)}
  /\ wire # <<>> => \A n \in scanned : n < wire[1].n

\* Nothing is published, and the events read keep what they mean.
LEMMA PublishesKept ==
  ASSUME WireTyped, Publishes, UNCHANGED <<published, scanned>>,
         \/ UNCHANGED events
         \/ events' = Append(events, current),
         wire' # <<>> => \A n \in scanned : n < wire'[1].n
  PROVE  Publishes'
<1>1. /\ Len(events) \in Nat /\ Len(events') \in Nat /\ Len(events) <= Len(events')
      /\ \A n \in 1..Len(events) : events'[n] = events[n] /\ n \in 1..Len(events')
  BY AppendProperties, LenProperties DEF WireTyped
<1>2. published' \in Seq(1..Len(events'))
  <2>1. 1..Len(events) \subseteq 1..Len(events')
    BY <1>1
  <2>2. published \in Seq(1..Len(events))
    BY DEF Publishes
  <2>. QED
    BY <2>1, <2>2, SeqMonotonic
<1>3. \A n \in scanned : n \in 1..Len(events)
  BY DEF Publishes
<1>4. \A n \in scanned : Right(n)' <=> Right(n)
  BY <1>1, <1>3 DEF Right, Meant
<1>5. Published' = {n \in scanned' : Right(n)'}
  BY <1>4 DEF Published, Publishes
<1>. QED
  BY <1>1, <1>2, <1>3, <1>5 DEF Publishes, Increasing

\* At the end of an event readStream wants exactly what the server means.
LEMMA WantedIsMeant ==
  ASSUME WireTyped, Numbers, LinesTell, wire # <<>>, wire[1].kind = "blank"
  PROVE  /\ wire[1].n \in 1..Len(events)
         /\ Wanted <=> Right(wire[1].n)
         /\ Wanted => dataLine[1].n = wire[1].n
<1>. DEFINE n == wire[1].n
<1>1. 1 \in 1..Len(wire)
  BY EmptySeq, LenProperties DEF WireTyped
<1>2. n \in 1..Len(events)
  BY <1>1 DEF Numbers
<1>3. Datas[n] = Kept(events[n]) /\ Names[n] = events[n].name
  BY <1>2 DEF Datas, Names
<1>4. Left = Kept(events[n]) /\ Called = events[n].name
  <2>. DEFINE d == Datas[n]  k == Names[n]
  <2>1. /\ LeavesBehind(wire, Contents, 1, Left, "none", d)
        /\ LeavesBehind(wire, {"event"}, 1, Called, NoEvent, k)
    BY <1>1 DEF LinesTell, Tell
  <2>. HIDE DEF d, k
  <2>2. d = Left /\ k = Called
    BY <2>1, NothingInFront
  <2>. QED
    BY <1>3, <2>2 DEF d, k
<1>5. events[n] \in Meaning
  BY <1>2, ElementOfSeq DEF WireTyped
<1>6. (dataLine # <<>> /\ dataLine[1].v = "spot") <=> events[n].data = "spot" /\ ~events[n].split
  <2>1. Left = "spot" <=> dataLine # <<>> /\ dataLine[1].v = "spot"
    BY DEF Left
  <2>2. Kept(events[n]) = "spot" <=> events[n].data = "spot" /\ ~events[n].split
    BY DEF Kept
  <2>. QED
    BY <1>4, <2>1, <2>2
<1>7. (Event = NoEvent \/ (eventName # <<>> /\ eventName[1].v = Event))
        <=> (Event = NoEvent \/ events[n].name = Event)
  BY <1>4 DEF Called
<1>8. Wanted <=> Right(n)
  BY <1>6, <1>7 DEF Wanted, Right, Meant
<1>9. Wanted => dataLine[1].n = n
  BY DEF Wanted, Numbers
<1>. QED
  BY <1>2, <1>8, <1>9

LEMMA PublishesEnd ==
  ASSUME WireTyped, Numbers, LinesTell, Publishes, ScanBlank
  PROVE  Publishes'
<1>. DEFINE n == wire[1].n  m == Len(events)
<1>1. Scan("blank")
  BY DEF ScanBlank
<1>2. /\ Len(wire') \in Nat /\ Len(wire) = Len(wire') + 1 /\ wire' \in Seq(Line)
      /\ \A i \in 1..Len(wire') : wire'[i] = wire[i + 1]
      /\ Head(wire) = wire[1] /\ wire[1].kind = "blank"
      /\ UNCHANGED events
  BY <1>1, Read
<1>3. wire # <<>>
  BY <1>1 DEF Scan
<1>4. n \in 1..m /\ (Wanted <=> Right(n)) /\ (Wanted => dataLine[1].n = n)
  BY <1>2, <1>3, WantedIsMeant
<1>5. /\ published' = IF Wanted THEN Append(published, n) ELSE published
      /\ scanned' = scanned \cup {n}
  BY <1>2, <1>4 DEF ScanBlank
<1>6. /\ published \in Seq(1..m) /\ scanned \subseteq 1..m /\ Increasing(published)
      /\ Published = {k \in scanned : Right(k)}
      /\ \A k \in scanned : k < n
  BY <1>3 DEF Publishes
<1>7. m \in Nat
  BY LenProperties DEF WireTyped
<1>8. \A k : Right(k)' <=> Right(k)
  BY <1>2 DEF Right, Meant
<1>9. wire' # <<>> => \A k \in scanned' : k < wire'[1].n
  <2>1. SUFFICES ASSUME wire' # <<>> PROVE \A k \in scanned' : k < wire'[1].n
    OBVIOUS
  <2>2. 1 \in 1..Len(wire') /\ 1 \in 1..Len(wire) /\ 2 \in 1..Len(wire) /\ 2 = 1 + 1
    BY <1>2, <2>1, EmptySeq
  <2>3. wire'[1].n = n + 1
    BY <1>2, <2>2 DEF Numbers
  <2>. QED
    BY <1>4, <1>5, <1>6, <1>7, <2>3
<1>. HIDE DEF n, m
<1>10. CASE ~Wanted
  <2>1. published' = published
    BY <1>5, <1>10
  <2>2. Published' = Published
    BY <2>1 DEF Published
  <2>3. Published' = {k \in scanned' : Right(k)'}
    BY <1>4, <1>5, <1>6, <1>8, <1>10, <2>2
  <2>4. scanned' \subseteq 1..Len(events') /\ published' \in Seq(1..Len(events'))
    BY <1>2, <1>4, <1>5, <1>6, <2>1 DEF m
  <2>5. Increasing(published')
    BY <1>6, <2>1
  <2>. QED
    BY <1>9, <2>3, <2>4, <2>5 DEF Publishes, Increasing
<1>11. CASE Wanted
  <2>. DEFINE l == Len(published)
  <2>1. /\ published' \in Seq(1..m) /\ l \in Nat /\ Len(published') = l + 1
        /\ \A i \in 1..l : published'[i] = published[i]
        /\ published'[l + 1] = n
    BY <1>4, <1>5, <1>6, <1>11, AppendProperties, LenProperties
  <2>2. \A i \in 1..(l + 1) : i \in 1..l \/ i = l + 1
    BY <2>1
  <2>3. \A i \in 1..l : published[i] \in Published
    BY DEF Published
  <2>4. \A i \in 1..l : published[i] < n
    BY <1>6, <2>3
  <2>5. \A i, j \in 1..(l + 1) : i < j => i \in 1..l /\ (j \in 1..l \/ j = l + 1)
    BY <2>1
  <2>6. Increasing(published)'
    <3>1. \A i, j \in 1..(l + 1) : i < j => published'[i] < published'[j]
      BY <1>6, <2>1, <2>4, <2>5 DEF Increasing
    <3>. QED
      BY <2>1, <3>1 DEF Increasing
  <2>7. Published' = Published \cup {n}
    <3>1. \A i \in 1..l : i \in 1..(l + 1)
      BY <2>1
    <3>2. l + 1 \in 1..(l + 1)
      BY <2>1
    <3>3. \A x : x \in Published' <=> \E i \in 1..(l + 1) : x = published'[i]
      BY <2>1 DEF Published
    <3>4. \A x : x \in Published <=> \E i \in 1..l : x = published[i]
      BY DEF Published
    <3>. HIDE DEF l
    <3>. QED
      BY <2>1, <2>2, <3>1, <3>2, <3>3, <3>4
  <2>8. Published' = {k \in scanned' : Right(k)'}
    BY <1>4, <1>5, <1>6, <1>8, <1>11, <2>7
  <2>9. scanned' \subseteq 1..Len(events') /\ published' \in Seq(1..Len(events'))
    BY <1>2, <1>4, <1>5, <1>6, <2>1 DEF m
  <2>. QED
    BY <1>9, <2>6, <2>8, <2>9 DEF Publishes
<1>. QED
  BY <1>10, <1>11

LEMMA PublishesStep ==
  ASSUME WireTyped, Numbers, LinesTell, Publishes, [Next]_vars
  PROVE  Publishes'
<1>0. /\ scanned \subseteq 1..Len(events) /\ Len(events) \in Nat
      /\ wire # <<>> => \A n \in scanned : n < wire[1].n
  BY LenProperties DEF Publishes, WireTyped
<1>1. CASE SendData \/ SendName \/ SendOther \/ SendBlank
  <2>1. PICK kind \in LineKind, v \in Data \cup Name \cup {"none"} :
          Send(kind, v) /\ (kind = "other" => v = "none")
    BY <1>1 DEF SendData, SendName, SendOther, SendBlank, LineKind
  <2>2. /\ Len(wire) \in Nat
        /\ \A i \in 1..Len(wire) : wire'[i] = wire[i]
        /\ wire'[Len(wire) + 1].n = Len(events) + 1
        /\ UNCHANGED <<published, scanned>>
    BY <2>1, Sent
  <2>3. \A n \in scanned : n < wire'[1].n
    <3>1. CASE Len(wire) = 0
      <4>1. wire'[1].n = Len(events) + 1
        BY <2>2, <3>1
      <4>. QED
        BY <1>0, <4>1
    <3>2. CASE Len(wire) # 0
      <4>1. wire # <<>> /\ 1 \in 1..Len(wire)
        BY <2>2, <3>2
      <4>. QED
        BY <1>0, <2>2, <4>1
    <3>. QED
      BY <3>1, <3>2
  <2>4. UNCHANGED events \/ events' = Append(events, current)
    BY <1>1 DEF SendData, SendName, SendOther, SendBlank
  <2>. QED
    BY <2>2, <2>3, <2>4, PublishesKept
<1>2. CASE Drop
  <2>1. PICK k \in 0..Len(wire) : wire' = SubSeq(wire, 1, k)
    BY <1>2 DEF Drop
  <2>2. Len(wire) \in Nat /\ \A i \in 1..k : i \in 1..Len(wire) /\ wire[i] \in Line
    BY ElementOfSeq, LenProperties DEF WireTyped
  <2>3. wire' \in Seq(Line) /\ Len(wire') = k /\ \A i \in 1..k : wire'[i] = wire[i]
    BY <2>1, <2>2, SubSeqProperties
  <2>4. wire' # <<>> => 1 \in 1..k /\ wire # <<>>
    BY <2>2, <2>3, EmptySeq DEF WireTyped
  <2>5. UNCHANGED <<published, scanned, events>>
    BY <1>2 DEF Drop
  <2>. QED
    BY <1>0, <2>3, <2>4, <2>5, PublishesKept
<1>3. CASE ScanData \/ ScanEvent \/ ScanOther
  <2>1. PICK kind \in LineKind \ {"blank"} : Scan(kind)
    BY <1>3 DEF ScanData, ScanEvent, ScanOther, LineKind
  <2>2. /\ Len(wire') \in Nat /\ Len(wire) = Len(wire') + 1 /\ wire' \in Seq(Line)
        /\ \A i \in 1..Len(wire') : wire'[i] = wire[i + 1]
        /\ wire[1].kind = kind /\ UNCHANGED events
    BY <2>1, Read
  <2>3. wire # <<>>
    BY <2>1 DEF Scan
  <2>4. wire' # <<>> => wire'[1].n = wire[1].n
    <3>1. SUFFICES ASSUME wire' # <<>> PROVE wire'[1].n = wire[1].n
      OBVIOUS
    <3>2. 1 \in 1..Len(wire') /\ 1 \in 1..Len(wire) /\ 2 \in 1..Len(wire) /\ 2 = 1 + 1
      BY <2>2, <3>1, EmptySeq
    <3>. QED
      BY <2>2, <3>2 DEF Numbers
  <2>5. UNCHANGED <<published, scanned>>
    BY <1>3 DEF ScanData, ScanEvent, ScanOther
  <2>. QED
    BY <1>0, <2>2, <2>3, <2>4, <2>5, PublishesKept
<1>4. CASE Connect \/ ReadEnds
  <2>1. wire' = <<>> /\ UNCHANGED <<published, scanned, events>>
    BY <1>4 DEF Connect, ReadEnds, histVars
  <2>. QED
    BY <2>1, PublishesKept
<1>5. CASE Cancel \/ Check \/ ConnectFails \/ Wait \/ UNCHANGED vars
  <2>1. UNCHANGED <<wire, published, scanned, events>>
    BY <1>5 DEF Cancel, Check, ConnectFails, Wait, vars, readVars, histVars
  <2>. QED
    BY <1>0, <2>1, PublishesKept
<1>. QED
  BY <1>1, <1>2, <1>3, <1>4, <1>5, PublishesEnd DEF Next, Server, ReadLine

-----------------------------------------------------------------------------
(* The inductive invariant and the theorem.                                *)

Inv == LoopTyped /\ WireTyped /\ Numbers /\ LinesTell /\ Publishes

LEMMA InitInv == Init => Inv
<1>. SUFFICES ASSUME Init PROVE Inv
  OBVIOUS
<1>1. LoopTyped
  <2>1. 0 \in 0..MaxLines /\ BackoffMin \in BackoffMin..BackoffMax
    BY ConsumerAssumption
  <2>. QED
    BY <2>1 DEF Init, LoopTyped
<1>2. /\ wire = <<>> /\ dataLine = <<>> /\ eventName = <<>> /\ published = <<>>
      /\ events = <<>> /\ scanned = {} /\ current = NewEvent /\ conn = "none"
      /\ Len(<<>>) = 0 /\ 1..0 = {}
  BY DEF Init
<1>3. WireTyped
  BY <1>2, EmptySeq, ConsumerAssumption DEF WireTyped, NewEvent, Meaning
<1>4. Numbers
  BY <1>2 DEF Numbers
<1>5. LinesTell
  BY <1>2, TellNothing DEF LinesTell
<1>6. Publishes
  <2>1. published \in Seq(1..Len(events))
    BY <1>2, EmptySeq
  <2>. QED
    BY <1>2, <2>1 DEF Publishes, Increasing, Published
<1>. QED
  BY <1>1, <1>3, <1>4, <1>5, <1>6 DEF Inv

LEMMA NextInv == Inv /\ [Next]_vars => Inv'
  BY LoopStep, WireStep, NumbersStep, TellStep, PublishesStep DEF Inv

\* Of the events read to their end exactly those that carry a spot for this
\* stream are published, once each and in order: no data or name of one event,
\* or of a broken connection, reaches another (sse_consumer.go:115-174).
THEOREM OnlyWhatIsMeant == Spec => []PublishedIsMeant
<1>1. Inv => PublishedIsMeant
  <2>. SUFFICES ASSUME Inv PROVE PublishedIsMeant
    OBVIOUS
  <2>1. \A i \in 1..Len(wire) : wire[i].kind \in LineKind
    <3>1. \A i \in 1..Len(wire) : wire[i] \in Line
      BY ElementOfSeq DEF Inv, WireTyped
    <3>. QED
      BY <3>1 DEF Line
  <2>2. Len(dataLine) <= 1 /\ Len(eventName) <= 1
    <3>1. ASSUME NEW q, q = <<>> \/ \E l \in Line : q = <<l>> PROVE Len(q) <= 1
      <4>1. CASE q = <<>>
        BY <4>1
      <4>2. ASSUME NEW l, q = <<l>> PROVE Len(q) <= 1
        <5>1. Len(q) = 1
          BY <4>2
        <5>. QED
          BY <5>1
      <4>. QED
        BY <3>1, <4>1, <4>2
    <3>. QED
      BY <3>1 DEF Inv, WireTyped
  <2>3. TypeOK
    BY <2>1, <2>2 DEF Inv, LoopTyped, WireTyped, Publishes, TypeOK
  <2>. QED
    BY <2>3 DEF Inv, Publishes, Right, PublishedIsMeant
<1>. QED
  BY <1>1, InitInv, NextInv, PTL DEF Spec
=============================================================================
