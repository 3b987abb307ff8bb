----------------------------- MODULE HubProofs -----------------------------
(***************************************************************************)
(* Machine-checked proofs about Hub, for every value of its constants: the *)
(* variables are well typed, no two spots with the same key are accepted   *)
(* within the dedup window, and the hub implements the abstract feed.      *)
(***************************************************************************)
EXTENDS Hub, TLAPS

-----------------------------------------------------------------------------
(* Type correctness.                                                       *)

\* Taking the head off a non-empty queue leaves a queue that is no longer.
LEMMA TailFacts ==
  ASSUME NEW S, NEW q \in Seq(S), q # <<>>
  PROVE  /\ Head(q) \in S
         /\ Tail(q) \in Seq(S)
         /\ Len(Tail(q)) = Len(q) - 1
         /\ \A i \in 1..Len(Tail(q)) : Tail(q)[i] = q[i + 1]
  OBVIOUS

\* Pushing a position onto the ring keeps it a sequence within its size.
LEMMA PushType ==
  ASSUME ring \in Seq(Nat), Len(ring) <= RingSize, NEW n \in Nat
  PROVE  Push(n) \in Seq(Nat) /\ Len(Push(n)) <= RingSize
<1>1. RingSize \in Nat /\ RingSize > 0
  BY CapAssumption
<1>2. /\ <<n>> \o ring \in Seq(Nat)
      /\ Len(<<n>> \o ring) = Len(ring) + 1
  OBVIOUS
<1>. QED
  BY <1>1, <1>2 DEF Push

LEMMA InitType == Init => TypeOK
<1>. SUFFICES ASSUME Init PROVE TypeOK
  OBVIOUS
<1>1. ChannelsTyped
  BY CapAssumption DEF Init, ChannelsTyped
<1>2. RunTyped
  <2>1. crashed \in BOOLEAN
    BY DEF Init
  <2>2. ring \in Seq(Nat) /\ Len(ring) <= RingSize
    BY CapAssumption DEF Init
  <2>3. dedup \in [Key -> Nat]
    BY DEF Init, Absent
  <2>. QED
    BY <2>1, <2>2, <2>3 DEF Init, RunTyped
<1>3. RestTyped
  BY TimeAssumption DEF Init, RestTyped
<1>. QED
  BY <1>1, <1>2, <1>3 DEF TypeOK

\* The steps of the callers preserve the type invariant.
LEMMA CallerType ==
  ASSUME TypeOK
  PROVE  /\ \A sp \in Spot : Publish(sp) => TypeOK'
         /\ \A s \in Sub : Subscribe(s) \/ Unsubscribe(s) \/ Recv(s) => TypeOK'
         /\ Tick => TypeOK'
<1>. USE DEF TypeOK
<1>1. ASSUME NEW sp \in Spot, Publish(sp) PROVE TypeOK'
  <2>1. UNCHANGED <<now, subQ, unsubQ, ch, sess, cursor, hubVars>>
    BY <1>1 DEF Publish
  <2>2. in' \in Seq(Spot) /\ Len(in') <= InCap
    <3>1. CASE Len(in) < InCap /\ in' = Append(in, sp)
      BY <3>1, CapAssumption DEF ChannelsTyped
    <3>2. CASE in' = in
      BY <3>2 DEF ChannelsTyped
    <3>. QED
      BY <1>1, <3>1, <3>2 DEF Publish
  <2>3. ChannelsTyped'
    BY <2>1, <2>2 DEF ChannelsTyped
  <2>4. RunTyped'
    BY <2>1 DEF RunTyped, hubVars
  <2>5. RestTyped'
    BY <2>1 DEF RestTyped, hubVars
  <2>. QED
    BY <2>3, <2>4, <2>5
<1>2. ASSUME NEW s \in Sub, Subscribe(s) PROVE TypeOK'
  <2>1. ChannelsTyped'
    BY <1>2, CapAssumption DEF ChannelsTyped, Subscribe
  <2>2. RunTyped'
    BY <1>2 DEF RunTyped, Subscribe, hubVars
  <2>3. RestTyped'
    BY <1>2 DEF ChannelsTyped, RestTyped, Subscribe, hubVars
  <2>. QED
    BY <2>1, <2>2, <2>3
<1>3. ASSUME NEW s \in Sub, Unsubscribe(s) PROVE TypeOK'
  <2>1. ChannelsTyped'
    BY <1>3, CapAssumption DEF ChannelsTyped, Unsubscribe
  <2>2. RunTyped'
    BY <1>3 DEF RunTyped, Unsubscribe, hubVars
  <2>3. RestTyped'
    BY <1>3 DEF RestTyped, Unsubscribe, hubVars
  <2>. QED
    BY <2>1, <2>2, <2>3
<1>4. ASSUME NEW s \in Sub, Recv(s) PROVE TypeOK'
  <2>1. /\ Head(ch[s]) \in Nat
        /\ Tail(ch[s]) \in Seq(Nat)
        /\ Len(Tail(ch[s])) <= ChanCap
    BY <1>4, TailFacts, CapAssumption DEF ChannelsTyped, Recv
  <2>2. ChannelsTyped'
    BY <1>4, <2>1 DEF ChannelsTyped, Recv
  <2>3. RunTyped'
    BY <1>4 DEF RunTyped, Recv, hubVars
  <2>4. RestTyped'
    BY <1>4, <2>1 DEF RestTyped, Recv, hubVars
  <2>. QED
    BY <2>2, <2>3, <2>4
<1>5. ASSUME Tick PROVE TypeOK'
  <2>1. ChannelsTyped'
    BY <1>5 DEF ChannelsTyped, Tick
  <2>2. RunTyped'
    BY <1>5 DEF RunTyped, Tick, hubVars
  <2>3. RestTyped'
    BY <1>5, TimeAssumption DEF RestTyped, Tick, hubVars
  <2>. QED
    BY <2>1, <2>2, <2>3
<1>. QED
  BY <1>1, <1>2, <1>3, <1>4, <1>5

\* The spot at the head of the input channel, once taken.
LEMMA TakenSpot ==
  ASSUME TypeOK, in # <<>>
  PROVE  /\ Head(in) \in Spot
         /\ Tail(in) \in Seq(Spot)
         /\ Len(Tail(in)) <= InCap
  BY TailFacts, CapAssumption DEF TypeOK, ChannelsTyped

\* The steps of Hub.Run preserve the type invariant.
LEMMA RunType ==
  ASSUME TypeOK
  PROVE  DropDup \/ AcceptSpot \/ TakeSub \/ TakeUnsub => TypeOK'
<1>1. ASSUME DropDup PROVE TypeOK'
  <2>1. ChannelsTyped'
    BY <1>1, TakenSpot DEF TypeOK, ChannelsTyped, DropDup
  <2>2. RunTyped'
    BY <1>1 DEF TypeOK, RunTyped, DropDup, hubVars
  <2>3. RestTyped'
    BY <1>1 DEF TypeOK, RestTyped, DropDup, hubVars
  <2>. QED
    BY <2>1, <2>2, <2>3 DEF TypeOK
<1>2. ASSUME AcceptSpot PROVE TypeOK'
  <2>. DEFINE sp == Head(in)
              n  == Len(log) + 1
  <2>1. /\ sp \in Spot
        /\ in' \in Seq(Spot) /\ Len(in') <= InCap
    BY <1>2, TakenSpot DEF AcceptSpot
  <2>2. n \in Nat /\ now \in Nat /\ Window \in Nat
    BY TimeAssumption DEF TypeOK, RestTyped
  <2>3. ch' \in [Sub -> Seq(Nat)] /\ \A s \in Sub : Len(ch'[s]) <= ChanCap
    BY <1>2, <2>2, CapAssumption DEF TypeOK, ChannelsTyped, AcceptSpot, FanOut
  <2>4. ChannelsTyped'
    BY <1>2, <2>1, <2>3 DEF TypeOK, ChannelsTyped, AcceptSpot
  <2>5. dedup' \in [Key -> Nat]
    BY <1>2, <2>1, <2>2 DEF TypeOK, RunTyped, AcceptSpot, Remember, Spot, Absent
  <2>6. ring' \in Seq(Nat) /\ Len(ring') <= RingSize
    BY <1>2, <2>2, PushType DEF TypeOK, RunTyped, AcceptSpot
  <2>7. crashed' \in BOOLEAN
    BY <1>2 DEF AcceptSpot
  <2>8. RunTyped'
    BY <1>2, <2>5, <2>6, <2>7 DEF TypeOK, RunTyped, AcceptSpot
  <2>9. log' \in Seq(Entry)
    BY <1>2, <2>1, <2>2 DEF TypeOK, RestTyped, AcceptSpot, Entry, Spot
  <2>10. RestTyped'
    BY <1>2, <2>9 DEF TypeOK, RestTyped, AcceptSpot
  <2>. QED
    BY <2>4, <2>8, <2>10 DEF TypeOK
<1>3. ASSUME TakeSub PROVE TypeOK'
  <2>1. /\ Head(subQ) \in Sub
        /\ Tail(subQ) \in Seq(Sub) /\ Len(Tail(subQ)) <= ReqCap
    BY <1>3, TailFacts, CapAssumption DEF TypeOK, ChannelsTyped, TakeSub
  <2>2. ChannelsTyped'
    BY <1>3, <2>1 DEF TypeOK, ChannelsTyped, TakeSub
  <2>3. RunTyped'
    BY <1>3, <2>1 DEF TypeOK, RunTyped, TakeSub
  <2>4. RestTyped'
    BY <1>3, <2>1 DEF TypeOK, RestTyped, TakeSub
  <2>. QED
    BY <2>2, <2>3, <2>4 DEF TypeOK
<1>4. ASSUME TakeUnsub PROVE TypeOK'
  <2>1. /\ Head(unsubQ) \in Sub
        /\ Tail(unsubQ) \in Seq(Sub) /\ Len(Tail(unsubQ)) <= ReqCap
    BY <1>4, TailFacts, CapAssumption DEF TypeOK, ChannelsTyped, TakeUnsub
  <2>2. ChannelsTyped'
    BY <1>4, <2>1 DEF TypeOK, ChannelsTyped, TakeUnsub
  <2>3. RunTyped'
    BY <1>4, <2>1 DEF TypeOK, RunTyped, TakeUnsub
  <2>4. RestTyped'
    BY <1>4 DEF TypeOK, RestTyped, TakeUnsub
  <2>. QED
    BY <2>2, <2>3, <2>4 DEF TypeOK
<1>. QED
  BY <1>1, <1>2, <1>3, <1>4

\* Every reachable state is well typed, whatever the capacities, the window
\* and the number of sessions.
THEOREM TypeCorrect == Spec => []TypeOK
<1>1. TypeOK /\ [Next]_vars => TypeOK'
  <2>. SUFFICES ASSUME TypeOK, [Next]_vars PROVE TypeOK'
    OBVIOUS
  <2>1. CASE Next
    BY <2>1, CallerType, RunType DEF Next
  <2>2. CASE UNCHANGED vars
    BY <2>2 DEF TypeOK, ChannelsTyped, RunTyped, RestTyped, vars
  <2>. QED
    BY <2>1, <2>2
<1>. QED
  BY InitType, <1>1, PTL DEF Spec
-----------------------------------------------------------------------------
(* The dedup window.                                                       *)

\* What the dedup map remembers of the log: an accepted spot either lies a
\* whole window back, or its key has an entry that expires no earlier than
\* the window after it.  NoRepeatInWindow alone is not inductive: it says
\* nothing of the map that the next decision reads.
DedupInv ==
  \A i \in 1..Len(log) :
    /\ log[i].at <= now
    /\ \/ log[i].at + Window <= now
       \/ log[i].at + Window <= dedup[log[i].key]

\* What the type invariant says of the clock and of the log's entries.
LEMMA LogFacts ==
  ASSUME TypeOK
  PROVE  /\ now \in Nat
         /\ Window \in Nat /\ Window > 0
         /\ log \in Seq(Entry)
         /\ \A i \in 1..Len(log) : log[i].key \in Key /\ log[i].at \in Nat
<1>1. /\ now \in Nat
      /\ Window \in Nat /\ Window > 0
      /\ log \in Seq(Entry)
  BY TimeAssumption DEF TypeOK, RestTyped
<1>2. \A i \in 1..Len(log) : log[i] \in Entry
  BY <1>1
<1>3. \A x \in Entry : x.key \in Key /\ x.at \in Nat
  BY DEF Entry
<1>. QED
  BY <1>1, <1>2, <1>3

\* A key the map does not hold back was last accepted a whole window ago.
LEMMA NotDupMeansFresh ==
  ASSUME TypeOK, DedupInv, NEW k \in Key, ~IsDup(k)
  PROVE  \A i \in 1..Len(log) : log[i].key = k => log[i].at + Window <= now
<1>. SUFFICES ASSUME NEW i \in 1..Len(log), log[i].key = k
              PROVE  log[i].at + Window <= now
  OBVIOUS
<1>1. /\ log[i].at \in Nat
      /\ dedup[k] \in Nat
      /\ now \in Nat
      /\ Window \in Nat /\ Window > 0
  BY LogFacts DEF TypeOK, RunTyped
<1>2. dedup[k] = 0 \/ dedup[k] <= now
  BY <1>1 DEF IsDup, Absent
<1>. QED
  BY <1>1, <1>2 DEF DedupInv

\* Recording a key and purging keeps every entry that is still needed.
LEMMA RememberKeeps ==
  ASSUME TypeOK, NEW k \in Key, NEW x \in Key, NEW t \in Nat,
         t + Window <= now \/ t + Window <= dedup[x], t <= now
  PROVE  t + Window <= now \/ t + Window <= Remember(k)[x]
<1>1. /\ dedup[x] \in Nat
      /\ now \in Nat
      /\ Window \in Nat
  BY TimeAssumption DEF TypeOK, RunTyped, RestTyped
<1>. QED
  BY <1>1 DEF Remember, Absent

\* One step keeps both the map's memory of the log and the log free of
\* repeats within the window.
LEMMA DedupStep ==
  ASSUME TypeOK, DedupInv, NoRepeatInWindow, Next
  PROVE  DedupInv' /\ NoRepeatInWindow'
<1>. USE TimeAssumption
<1>1. CASE UNCHANGED <<now, dedup, log>>
  BY <1>1 DEF DedupInv, NoRepeatInWindow
<1>2. CASE Tick
  <2>1. now' = now + 1 /\ now \in Nat /\ UNCHANGED <<dedup, log>>
    BY <1>2 DEF Tick, hubVars, TypeOK, RestTyped
  <2>2. Window \in Nat /\ \A i \in 1..Len(log) : log[i].at \in Nat
    BY LogFacts
  <2>3. DedupInv'
    BY <2>1, <2>2 DEF DedupInv
  <2>. QED
    BY <2>1, <2>3 DEF NoRepeatInWindow
<1>3. CASE AcceptSpot
  <2>. DEFINE k == Head(in).key
              e == [key |-> k, stream |-> Head(in).stream, at |-> now]
  <2>1. k \in Key /\ ~IsDup(k)
    BY <1>3, TakenSpot DEF AcceptSpot, Spot
  <2>2. /\ log' = Append(log, e)
        /\ now' = now
        /\ dedup' = Remember(k)
    BY <1>3 DEF AcceptSpot
  <2>3. /\ log \in Seq(Entry)
        /\ now \in Nat
        /\ Window \in Nat
        /\ \A i \in 1..Len(log) : log[i].key \in Key /\ log[i].at \in Nat
    BY LogFacts
  <2>4. /\ Len(log') = Len(log) + 1
        /\ \A i \in 1..Len(log) : log'[i] = log[i]
        /\ log'[Len(log) + 1] = e
    BY <2>2, <2>3
  <2>5. Remember(k)[k] = now + Window
    BY <2>1, <2>3 DEF Remember
  <2>6. ASSUME NEW i \in 1..Len(log')
        PROVE  /\ log'[i].at <= now
               /\ \/ log'[i].at + Window <= now
                  \/ log'[i].at + Window <= Remember(k)[log'[i].key]
    <3>1. CASE i = Len(log) + 1
      BY <3>1, <2>3, <2>4, <2>5
    <3>2. CASE i \in 1..Len(log)
      BY <3>2, <2>1, <2>3, <2>4, RememberKeeps DEF DedupInv
    <3>. QED
      BY <3>1, <3>2, <2>3, <2>4
  <2>7. DedupInv'
    BY <2>2, <2>6 DEF DedupInv
  <2>8. \A i \in 1..Len(log) : log[i].key = k => log[i].at + Window <= now
    BY <2>1, NotDupMeansFresh
  <2>9. ASSUME NEW i \in 1..Len(log'), NEW j \in 1..Len(log'),
               i < j, log'[i].key = log'[j].key
        PROVE  log'[i].at + Window <= log'[j].at
    <3>1. i \in 1..Len(log)
      BY <2>3, <2>4, <2>9
    <3>2. CASE j = Len(log) + 1
      BY <3>1, <3>2, <2>4, <2>8, <2>9
    <3>3. CASE j \in 1..Len(log)
      BY <3>1, <3>3, <2>4, <2>9 DEF NoRepeatInWindow
    <3>. QED
      BY <3>2, <3>3, <2>3, <2>4
  <2>10. NoRepeatInWindow'
    BY <2>9 DEF NoRepeatInWindow
  <2>. QED
    BY <2>7, <2>10
<1>. QED
  BY <1>1, <1>2, <1>3
  DEF Next, Publish, Subscribe, Unsubscribe, Recv, DropDup, TakeSub, TakeUnsub, hubVars

\* Whatever the interleaving of producers, sessions, clock and purges, no two
\* spots with the same callsign and frequency are accepted within a window.
THEOREM DedupCorrect == Spec => []NoRepeatInWindow
<1>. DEFINE IInv == TypeOK /\ DedupInv /\ NoRepeatInWindow
<1>1. Init => IInv
  <2>1. Init => Len(log) = 0
    BY DEF Init
  <2>. QED
    BY <2>1, InitType DEF DedupInv, NoRepeatInWindow
<1>2. IInv /\ [Next]_vars => IInv'
  <2>1. ASSUME TypeOK, [Next]_vars PROVE TypeOK'
    BY <2>1, CallerType, RunType
    DEF Next, vars, TypeOK, ChannelsTyped, RunTyped, RestTyped
  <2>2. CASE UNCHANGED vars
    BY <2>1, <2>2 DEF DedupInv, NoRepeatInWindow, vars
  <2>3. CASE Next
    BY <2>1, <2>3, DedupStep
  <2>. QED
    BY <2>2, <2>3
<1>3. IInv => NoRepeatInWindow
  OBVIOUS
<1>. QED
  BY <1>1, <1>2, <1>3, PTL DEF Spec

-----------------------------------------------------------------------------
(* The feed.  The step that needs an argument is TakeSub: it sets a cursor *)
(* to the end of the log, which is only right while the channel is still   *)
(* empty.                                                                  *)

\* A channel that waits to be registered, or was not made yet, is not in the
\* map and holds nothing; no registration request is queued twice.
RequestInv ==
  /\ \A s \in Sub : sess[s] = "none" \/ s \in SeqRange(subQ)
                      => s \notin subs /\ ch[s] = <<>>
  /\ \A s \in Sub : sess[s] = "none" => s \notin SeqRange(subQ)
  /\ \A i, j \in 1..Len(subQ) : i < j => subQ[i] # subQ[j]

\* Positions lie in the log, ahead of the cursor, and grow.
Behind(c, q, n) ==
  /\ c <= n
  /\ \A i \in 1..Len(q) : c < q[i] /\ q[i] <= n
  /\ \A i, j \in 1..Len(q) : i < j => q[i] < q[j]

SeenInv == \A s \in Sub : Behind(cursor[s], ch[s], Len(log))

\* SeenInv is FeedOrdered without the concatenation.
LEMMA SeenMeansOrdered ==
  ASSUME TypeOK, SeenInv
  PROVE  FeedOrdered
<1>. SUFFICES ASSUME NEW s \in Sub
              PROVE  LET seen == <<cursor[s]>> \o ch[s]
                     IN  \A i, j \in 1..Len(seen) : /\ seen[i] <= Len(log)
                                                    /\ i < j => seen[i] < seen[j]
  BY DEF FeedOrdered
<1>. DEFINE seen == <<cursor[s]>> \o ch[s]
<1>1. cursor[s] \in Nat /\ ch[s] \in Seq(Nat) /\ Len(log) \in Nat
  BY DEF TypeOK, ChannelsTyped, RestTyped
<1>2. /\ Len(seen) = Len(ch[s]) + 1
      /\ seen[1] = cursor[s]
      /\ \A i \in 2..Len(seen) : i - 1 \in 1..Len(ch[s]) /\ seen[i] = ch[s][i - 1]
  BY <1>1
<1>3. Behind(cursor[s], ch[s], Len(log))
  BY DEF SeenInv
<1>. HIDE DEF seen
<1>4. \A i \in 1..Len(seen) : seen[i] <= Len(log)
  <2>. SUFFICES ASSUME NEW i \in 1..Len(seen) PROVE seen[i] <= Len(log)
    OBVIOUS
  <2>1. CASE i = 1
    BY <2>1, <1>2, <1>3 DEF Behind
  <2>2. CASE i \in 2..Len(seen)
    BY <2>2, <1>2, <1>3 DEF Behind
  <2>. QED
    BY <2>1, <2>2, <1>1, <1>2
<1>5. ASSUME NEW i \in 1..Len(seen), NEW j \in 1..Len(seen), i < j
      PROVE  seen[i] < seen[j]
  <2>1. j \in 2..Len(seen) /\ j - 1 \in 1..Len(ch[s]) /\ seen[j] = ch[s][j - 1]
    BY <1>1, <1>2, <1>5
  <2>2. CASE i = 1
    BY <2>1, <2>2, <1>2, <1>3 DEF Behind
  <2>3. CASE i \in 2..Len(seen)
    <3>1. i - 1 \in 1..Len(ch[s]) /\ seen[i] = ch[s][i - 1] /\ i - 1 < j - 1
      BY <2>3, <1>1, <1>2, <1>5
    <3>. QED
      BY <2>1, <3>1, <1>3 DEF Behind
  <2>. QED
    BY <2>2, <2>3, <1>1, <1>2
<1>. QED
  BY <1>4, <1>5 DEF seen

-----------------------------------------------------------------------------
(* Sequences of positions.                                                 *)

\* A position beyond the end of the log keeps the order when it is appended.
LEMMA BehindAppend ==
  ASSUME NEW c \in Nat, NEW q \in Seq(Nat), NEW n \in Nat, Behind(c, q, n)
  PROVE  Behind(c, Append(q, n + 1), n + 1)
<1>1. /\ Len(Append(q, n + 1)) = Len(q) + 1
      /\ Append(q, n + 1)[Len(q) + 1] = n + 1
      /\ \A i \in 1..Len(q) : Append(q, n + 1)[i] = q[i] /\ q[i] \in Nat
  OBVIOUS
<1>. DEFINE r == Append(q, n + 1)
<1>. HIDE DEF r
<1>2. \A i \in 1..Len(r) : i = Len(q) + 1 \/ i \in 1..Len(q)
  BY <1>1 DEF r
<1>3. \A i \in 1..Len(r) : c < r[i] /\ r[i] <= n + 1
  BY <1>1, <1>2 DEF Behind, r
<1>4. ASSUME NEW i \in 1..Len(r), NEW j \in 1..Len(r), i < j PROVE r[i] < r[j]
  <2>1. i \in 1..Len(q)
    BY <1>1, <1>4 DEF r
  <2>2. CASE j = Len(q) + 1
    BY <2>1, <2>2, <1>1 DEF Behind, r
  <2>3. CASE j \in 1..Len(q)
    BY <2>1, <2>3, <1>1, <1>4 DEF Behind, r
  <2>. QED
    BY <2>2, <2>3, <1>2
<1>5. c <= n + 1
  BY DEF Behind
<1>. QED
  BY <1>3, <1>4, <1>5 DEF Behind, r

\* A longer log changes nothing of the order.
LEMMA BehindGrows ==
  ASSUME NEW c \in Nat, NEW q \in Seq(Nat), NEW n \in Nat, Behind(c, q, n)
  PROVE  Behind(c, q, n + 1)
<1>1. \A i \in 1..Len(q) : q[i] \in Nat
  OBVIOUS
<1>. QED
  BY <1>1 DEF Behind

\* Taking the first position moves the cursor to it.
LEMMA BehindTail ==
  ASSUME NEW c \in Nat, NEW q \in Seq(Nat), NEW n \in Nat, Behind(c, q, n), q # <<>>
  PROVE  /\ Behind(Head(q), Tail(q), n)
         /\ Head(q) \in c..n
<1>1. /\ Head(q) = q[1] /\ Head(q) \in Nat
      /\ Len(Tail(q)) = Len(q) - 1 /\ Len(q) \in Nat \ {0}
      /\ \A i \in 1..Len(Tail(q)) : Tail(q)[i] = q[i + 1] /\ i + 1 \in 1..Len(q)
  OBVIOUS
<1>2. c < q[1] /\ q[1] <= n
  BY <1>1 DEF Behind
<1>. DEFINE t == Tail(q)
<1>. HIDE DEF t
<1>3. \A i \in 1..Len(t) : q[1] < t[i] /\ t[i] <= n
  BY <1>1 DEF Behind, t
<1>4. \A i, j \in 1..Len(t) : i < j => t[i] < t[j]
  BY <1>1 DEF Behind, t
<1>. QED
  BY <1>1, <1>2, <1>3, <1>4 DEF Behind, t

-----------------------------------------------------------------------------
(* The invariant.                                                          *)

\* The part of the type invariant the following proofs read.
LEMMA FeedTypes ==
  ASSUME TypeOK
  PROVE  /\ subQ \in Seq(Sub)
         /\ ch \in [Sub -> Seq(Nat)]
         /\ cursor \in [Sub -> Nat]
         /\ sess \in [Sub -> {"none", "on", "off"}]
         /\ Len(log) \in Nat
  BY DEF TypeOK, ChannelsTyped, RestTyped

\* What taking the head off the request queue leaves in it.
LEMMA TailRequests ==
  ASSUME subQ \in Seq(Sub), subQ # <<>>, RequestInv
  PROVE  /\ Head(subQ) \in SeqRange(subQ) /\ Head(subQ) \in Sub
         /\ SeqRange(Tail(subQ)) \subseteq SeqRange(subQ)
         /\ Head(subQ) \notin SeqRange(Tail(subQ))
         /\ \A i, j \in 1..Len(Tail(subQ)) : i < j => Tail(subQ)[i] # Tail(subQ)[j]
<1>1. /\ Head(subQ) = subQ[1] /\ 1 \in 1..Len(subQ) /\ subQ[1] \in Sub
      /\ \A i \in 1..Len(Tail(subQ)) : /\ Tail(subQ)[i] = subQ[i + 1]
                                       /\ i + 1 \in 1..Len(subQ)
                                       /\ 1 < i + 1
  OBVIOUS
<1>2. \A i \in 1..Len(Tail(subQ)) : subQ[1] # subQ[i + 1]
  BY <1>1 DEF RequestInv
<1>3. \A i, j \in 1..Len(Tail(subQ)) : i < j => subQ[i + 1] # subQ[j + 1]
  BY <1>1 DEF RequestInv
<1>. DEFINE t == Tail(subQ)
<1>. HIDE DEF t
<1>4. /\ \A i \in 1..Len(t) : t[i] = subQ[i + 1] /\ i + 1 \in 1..Len(subQ)
      /\ \A i \in 1..Len(t) : subQ[1] # subQ[i + 1]
      /\ \A i, j \in 1..Len(t) : i < j => subQ[i + 1] # subQ[j + 1]
  BY <1>1, <1>2, <1>3 DEF t
<1>5. subQ[1] \in SeqRange(subQ)
  BY <1>1 DEF SeqRange
<1>6. SeqRange(t) \subseteq SeqRange(subQ) /\ subQ[1] \notin SeqRange(t)
  BY <1>4 DEF SeqRange
<1>7. \A i, j \in 1..Len(t) : i < j => t[i] # t[j]
  BY <1>4
<1>. QED
  BY <1>1, <1>5, <1>6, <1>7 DEF t

LEMMA RequestStep ==
  ASSUME TypeOK, RequestInv, Next
  PROVE  RequestInv'
<1>. USE FeedTypes
<1>1. CASE UNCHANGED <<subQ, subs, sess, ch>>
  BY <1>1 DEF RequestInv, SeqRange
<1>2. ASSUME NEW s \in Sub, Subscribe(s) PROVE RequestInv'
  <2>1. /\ sess[s] = "none" /\ subQ' = Append(subQ, s)
        /\ sess' = [sess EXCEPT ![s] = "on"] /\ subs' = subs /\ ch' = ch
    BY <1>2 DEF Subscribe, hubVars
  <2>2. s \notin SeqRange(subQ) /\ s \notin subs /\ ch[s] = <<>>
    BY <2>1 DEF RequestInv
  <2>3. /\ Len(subQ') = Len(subQ) + 1 /\ subQ'[Len(subQ) + 1] = s
        /\ \A i \in 1..Len(subQ) : subQ'[i] = subQ[i]
    BY <2>1
  <2>4. \A i \in 1..Len(subQ') : i \in 1..Len(subQ) \/ i = Len(subQ) + 1
    BY <2>3
  <2>5. \A x \in SeqRange(subQ') : x \in SeqRange(subQ) \/ x = s
    BY <2>3, <2>4 DEF SeqRange
  <2>6. ASSUME NEW i \in 1..Len(subQ'), NEW j \in 1..Len(subQ'), i < j
        PROVE  subQ'[i] # subQ'[j]
    <3>1. Len(subQ) \in Nat /\ i \in 1..Len(subQ)
      BY <2>3, <2>4, <2>6
    <3>2. subQ'[i] = subQ[i] /\ subQ[i] # s
      BY <2>2, <2>3, <3>1 DEF SeqRange
    <3>3. CASE j = Len(subQ) + 1
      BY <2>3, <3>2, <3>3
    <3>4. CASE j \in 1..Len(subQ)
      <4>1. subQ'[j] = subQ[j] /\ subQ[i] # subQ[j]
        BY <2>3, <2>6, <3>1, <3>4 DEF RequestInv
      <4>. QED
        BY <3>2, <4>1
    <3>. QED
      BY <2>4, <3>3, <3>4
  <2>. QED
    BY <2>1, <2>2, <2>5, <2>6 DEF RequestInv
<1>3. ASSUME NEW s \in Sub, Unsubscribe(s) PROVE RequestInv'
  BY <1>3 DEF Unsubscribe, hubVars, RequestInv, SeqRange
<1>4. ASSUME NEW s \in Sub, Recv(s) PROVE RequestInv'
  BY <1>4 DEF Recv, hubVars, RequestInv, SeqRange
<1>5. CASE AcceptSpot
  <2>1. /\ UNCHANGED <<subQ, subs, sess>>
        /\ \A s \in Sub : s \notin subs => ch'[s] = ch[s]
    BY <1>5 DEF AcceptSpot, FanOut
  <2>. QED
    BY <2>1 DEF RequestInv, SeqRange
<1>6. CASE TakeSub
  <2>1. /\ subQ # <<>> /\ subQ' = Tail(subQ) /\ subs' = subs \cup {Head(subQ)}
        /\ sess' = sess /\ ch' = ch
    BY <1>6 DEF TakeSub
  <2>. QED
    BY <2>1, TailRequests DEF RequestInv
<1>7. CASE TakeUnsub
  <2>1. subs' \subseteq subs /\ UNCHANGED <<subQ, sess, ch>>
    BY <1>7 DEF TakeUnsub
  <2>. QED
    BY <2>1 DEF RequestInv, SeqRange
<1>. QED
  BY <1>1, <1>2, <1>3, <1>4, <1>5, <1>6, <1>7
  DEF Next, Publish, Tick, DropDup, hubVars

LEMMA SeenStep ==
  ASSUME TypeOK, RequestInv, SeenInv, Next
  PROVE  SeenInv'
<1>. USE FeedTypes
<1>1. CASE UNCHANGED <<cursor, ch, log>>
  BY <1>1 DEF SeenInv
<1>2. ASSUME NEW s \in Sub, Recv(s) PROVE SeenInv'
  <2>1. Behind(Head(ch[s]), Tail(ch[s]), Len(log))
    BY <1>2, BehindTail DEF Recv, SeenInv
  <2>. QED
    BY <1>2, <2>1 DEF Recv, SeenInv, hubVars
<1>3. CASE AcceptSpot
  <2>1. /\ Len(log') = Len(log) + 1 /\ cursor' = cursor
        /\ ch' = FanOut(Len(log) + 1)
    <3>1. log \in Seq(Entry)
      BY DEF TypeOK, RestTyped
    <3>. QED
      BY <1>3, <3>1 DEF AcceptSpot
  <2>2. ASSUME NEW s \in Sub PROVE Behind(cursor[s], ch'[s], Len(log) + 1)
    <3>1. Behind(cursor[s], ch[s], Len(log))
      BY DEF SeenInv
    <3>2. ch'[s] = ch[s] \/ ch'[s] = Append(ch[s], Len(log) + 1)
      BY <2>1 DEF FanOut
    <3>3. cursor[s] \in Nat /\ ch[s] \in Seq(Nat)
      OBVIOUS
    <3>. QED
      BY <3>1, <3>2, <3>3, BehindAppend, BehindGrows
  <2>. QED
    BY <2>1, <2>2 DEF SeenInv
<1>4. CASE TakeSub
  <2>1. /\ subQ # <<>> /\ ch' = ch /\ log' = log
        /\ cursor' = [cursor EXCEPT ![Head(subQ)] = Len(log)]
    BY <1>4 DEF TakeSub
  <2>2. Head(subQ) \in Sub /\ ch[Head(subQ)] = <<>>
    BY <2>1, TailRequests DEF RequestInv
  <2>3. Behind(Len(log), <<>>, Len(log))
    BY DEF Behind
  <2>. QED
    BY <2>1, <2>2, <2>3 DEF SeenInv
<1>. QED
  BY <1>1, <1>2, <1>3, <1>4
  DEF Next, Publish, Subscribe, Unsubscribe, Tick, DropDup, TakeUnsub, hubVars

HubInv == TypeOK /\ DedupInv /\ NoRepeatInWindow /\ RequestInv /\ SeenInv

LEMMA HubInvInit == Init => HubInv
<1>. SUFFICES ASSUME Init PROVE HubInv
  OBVIOUS
<1>1. Len(log) = 0 /\ Len(subQ) = 0 /\ subs = {}
  BY DEF Init
<1>2. \A s \in Sub : ch[s] = <<>> /\ cursor[s] = 0
  BY DEF Init
<1>3. DedupInv /\ NoRepeatInWindow
  BY <1>1 DEF DedupInv, NoRepeatInWindow
<1>4. RequestInv
  BY <1>1, <1>2 DEF RequestInv, SeqRange
<1>5. SeenInv
  BY <1>1, <1>2 DEF SeenInv, Behind
<1>. QED
  BY <1>3, <1>4, <1>5, InitType DEF HubInv

LEMMA HubInvStep == HubInv /\ [Next]_vars => HubInv'
<1>. SUFFICES ASSUME HubInv, [Next]_vars PROVE HubInv'
  OBVIOUS
<1>1. CASE Next
  <2>1. TypeOK'
    BY <1>1, CallerType, RunType DEF Next, HubInv
  <2>. QED
    BY <1>1, <2>1, DedupStep, RequestStep, SeenStep DEF HubInv
<1>2. CASE UNCHANGED vars
  <2>1. TypeOK'
    BY <1>2 DEF HubInv, vars, TypeOK, ChannelsTyped, RunTyped, RestTyped
  <2>2. DedupInv' /\ NoRepeatInWindow'
    BY <1>2 DEF HubInv, vars, DedupInv, NoRepeatInWindow
  <2>3. RequestInv' /\ SeenInv'
    BY <1>2 DEF HubInv, vars, RequestInv, SeqRange, SeenInv
  <2>. QED
    BY <2>1, <2>2, <2>3 DEF HubInv
<1>. QED
  BY <1>1, <1>2

\* What waits in a subscriber's channel continues what it received: later
\* positions of the log only, in order, none twice.
THEOREM FeedOrderCorrect == Spec => []FeedOrdered
<1>1. HubInv => FeedOrdered
  BY SeenMeansOrdered DEF HubInv
<1>. QED
  BY HubInvInit, HubInvStep, <1>1, PTL DEF Spec

-----------------------------------------------------------------------------
(* The refinement.                                                         *)

\* Accepting a spot is an Accept of the abstract feed: time has not run
\* backwards and the key is fresh, because the dedup map remembers it.
LEMMA AcceptRefines ==
  ASSUME HubInv, AcceptSpot
  PROVE  Feed!Accept
<1>. DEFINE k == Head(in).key
            st == Head(in).stream
<1>1. k \in Key /\ st \in Stream /\ ~IsDup(k)
  BY TakenSpot DEF HubInv, AcceptSpot, Spot
<1>2. now \in 0..MaxTime
  BY DEF HubInv, TypeOK, RestTyped
<1>3. \A i \in 1..Len(log) : log[i].at <= now
  BY DEF HubInv, DedupInv
<1>4. Feed!Fresh(k, now)
  BY <1>1, NotDupMeansFresh DEF HubInv, Feed!Fresh
<1>5. /\ log' = Append(log, [key |-> k, stream |-> st, at |-> now])
      /\ UNCHANGED cursor
  BY DEF AcceptSpot
<1>. QED
  BY <1>1, <1>2, <1>3, <1>4, <1>5 DEF Feed!Accept

\* Receiving a spot, or being registered, moves one cursor forward.
LEMMA AdvanceRefines ==
  ASSUME HubInv
  PROVE  /\ \A s \in Sub : Recv(s) => Feed!Advance
         /\ TakeSub => Feed!Advance
<1>. USE FeedTypes DEF HubInv
<1>1. ASSUME NEW s \in Sub, Recv(s) PROVE Feed!Advance
  <2>1. Head(ch[s]) \in cursor[s]..Len(log)
    BY <1>1, BehindTail DEF Recv, SeenInv
  <2>2. cursor' = [cursor EXCEPT ![s] = Head(ch[s])] /\ log' = log
    BY <1>1 DEF Recv, hubVars
  <2>. QED
    BY <2>1, <2>2 DEF Feed!Advance
<1>2. ASSUME TakeSub PROVE Feed!Advance
  <2>. DEFINE s == Head(subQ)
  <2>1. s \in Sub /\ cursor' = [cursor EXCEPT ![s] = Len(log)] /\ log' = log
    BY <1>2, TailRequests DEF TakeSub
  <2>2. Len(log) \in cursor[s]..Len(log)
    BY <2>1 DEF SeenInv, Behind
  <2>. QED
    BY <2>1, <2>2 DEF Feed!Advance
<1>. QED
  BY <1>1, <1>2

\* The hub implements the abstract feed: every step of it accepts a fresh
\* spot, moves one subscriber forward, or changes nothing a reader sees.
THEOREM FeedRefined == Spec => FeedImplemented
<1>1. Init => Feed!FeedInit
  BY DEF Init, Feed!FeedInit
<1>2. HubInv /\ [Next]_vars => [Feed!FeedNext]_(Feed!feedVars)
  <2>. SUFFICES ASSUME HubInv, [Next]_vars
                PROVE  Feed!FeedNext \/ UNCHANGED <<log, cursor>>
    BY DEF Feed!feedVars
  <2>1. CASE AcceptSpot
    BY <2>1, AcceptRefines DEF Feed!FeedNext
  <2>2. CASE TakeSub \/ \E s \in Sub : Recv(s)
    BY <2>2, AdvanceRefines DEF Feed!FeedNext
  <2>3. CASE UNCHANGED <<log, cursor>>
    BY <2>3
  <2>. QED
    BY <2>1, <2>2, <2>3
    DEF Next, Publish, Subscribe, Unsubscribe, Tick, DropDup, TakeUnsub, hubVars, vars
<1>. QED
  BY <1>1, <1>2, HubInvInit, HubInvStep, PTL DEF Spec, FeedImplemented, Feed!FeedSpec

-----------------------------------------------------------------------------
(* Runs in which sessions end only after they were registered, and runs in *)
(* which a session's channel never fills.                                  *)

\* No session ends while its registration request is queued.
Patient == \A s \in Sub : sess[s] = "off" => s \notin SeqRange(subQ)

\* A channel is closed, or waits to be, once and only behind its session's
\* end, and none that is closed is registered.
RemovalInv ==
  /\ ~crashed /\ subs \cap closed = {}
  /\ \A s \in Sub : s \in SeqRange(unsubQ) \/ s \in closed => sess[s] = "off"
  /\ \A s \in Sub : s \in SeqRange(unsubQ) => s \notin closed
  /\ \A i, j \in 1..Len(unsubQ) : i < j => unsubQ[i] # unsubQ[j]

LEMMA RemovalStep ==
  ASSUME TypeOK, RequestInv, RemovalInv, Patient, Next
  PROVE  RemovalInv'
<1>. USE FeedTypes
<1>0. unsubQ \in Seq(Sub) /\ Len(unsubQ) \in Nat /\ subs \subseteq Sub
  BY DEF TypeOK, ChannelsTyped, RunTyped
<1>1. CASE UNCHANGED <<unsubQ, subs, closed, sess, crashed>>
  BY <1>1 DEF RemovalInv, SeqRange
<1>2. ASSUME NEW s \in Sub, Subscribe(s) PROVE RemovalInv'
  <2>1. /\ sess' = [sess EXCEPT ![s] = "on"] /\ sess[s] = "none"
        /\ UNCHANGED <<unsubQ, subs, closed, crashed>>
    BY <1>2 DEF Subscribe, hubVars
  <2>. QED
    BY <2>1 DEF RemovalInv, SeqRange
<1>3. ASSUME NEW s \in Sub, Unsubscribe(s) PROVE RemovalInv'
  <2>1. /\ sess' = [sess EXCEPT ![s] = "off"] /\ sess[s] = "on"
        /\ unsubQ' = Append(unsubQ, s) /\ UNCHANGED <<subs, closed, crashed>>
    BY <1>3 DEF Unsubscribe, hubVars
  <2>2. s \notin SeqRange(unsubQ) /\ s \notin closed
    BY <2>1 DEF RemovalInv
  <2>3. /\ Len(unsubQ') = Len(unsubQ) + 1 /\ unsubQ'[Len(unsubQ) + 1] = s
        /\ \A i \in 1..Len(unsubQ) : unsubQ'[i] = unsubQ[i] /\ unsubQ[i] # s
        /\ \A i \in 1..Len(unsubQ') : i \in 1..Len(unsubQ) \/ i = Len(unsubQ) + 1
    <3>1. \A i \in 1..Len(unsubQ) : unsubQ[i] # s
      BY <2>2 DEF SeqRange
    <3>2. /\ Len(unsubQ') = Len(unsubQ) + 1 /\ unsubQ'[Len(unsubQ) + 1] = s
          /\ \A i \in 1..Len(unsubQ) : unsubQ'[i] = unsubQ[i]
      BY <1>0, <2>1
    <3>. QED
      BY <1>0, <3>1, <3>2
  <2>4. \A x \in SeqRange(unsubQ') : x \in SeqRange(unsubQ) \/ x = s
    BY <2>3 DEF SeqRange
  <2>5. ASSUME NEW i \in 1..Len(unsubQ'), NEW j \in 1..Len(unsubQ'), i < j
        PROVE  unsubQ'[i] # unsubQ'[j]
    <3>1. i \in 1..Len(unsubQ)
      BY <1>0, <2>3, <2>5
    <3>2. CASE j = Len(unsubQ) + 1
      BY <2>3, <3>1, <3>2
    <3>3. CASE j \in 1..Len(unsubQ)
      <4>1. unsubQ[i] # unsubQ[j]
        BY <2>5, <3>1, <3>3 DEF RemovalInv
      <4>. QED
        BY <2>3, <3>1, <3>3, <4>1
    <3>. QED
      BY <2>3, <3>2, <3>3
  <2>. QED
    BY <2>1, <2>2, <2>4, <2>5 DEF RemovalInv
<1>4. CASE AcceptSpot
  BY <1>4 DEF AcceptSpot, RemovalInv, SeqRange
<1>5. CASE TakeSub
  <2>1. /\ subQ # <<>> /\ subs' = subs \cup {Head(subQ)}
        /\ UNCHANGED <<unsubQ, closed, sess, crashed>>
    BY <1>5 DEF TakeSub
  <2>2. Head(subQ) \notin closed
    BY <2>1, TailRequests DEF Patient, RemovalInv
  <2>. QED
    BY <2>1, <2>2 DEF RemovalInv, SeqRange
<1>6. CASE TakeUnsub
  <2>. DEFINE s == Head(unsubQ)
              t == Tail(unsubQ)
  <2>1. /\ unsubQ # <<>> /\ unsubQ' = t /\ crashed' = (s \in closed)
        /\ subs' = subs \ {s} /\ closed' = closed \cup {s} /\ sess' = sess
    BY <1>6 DEF TakeUnsub
  <2>2. /\ s = unsubQ[1] /\ 1 \in 1..Len(unsubQ) /\ s \in Sub
        /\ \A i \in 1..Len(t) : t[i] = unsubQ[i + 1] /\ i + 1 \in 1..Len(unsubQ) /\ 1 < i + 1
    BY <1>0, <2>1
  <2>. HIDE DEF s, t
  <2>3. s \in SeqRange(unsubQ) /\ s \notin closed /\ sess[s] = "off"
    BY <2>2 DEF SeqRange, RemovalInv
  <2>4. ASSUME NEW x \in SeqRange(t)
        PROVE  x \in SeqRange(unsubQ) /\ x # s
    <3>1. PICK i \in 1..Len(t) : x = t[i]
      BY DEF SeqRange
    <3>2. x = unsubQ[i + 1] /\ unsubQ[1] # unsubQ[i + 1]
      BY <2>2, <3>1 DEF RemovalInv
    <3>. QED
      BY <2>2, <3>2 DEF SeqRange
  <2>5. ASSUME NEW i \in 1..Len(t), NEW j \in 1..Len(t), i < j
        PROVE  t[i] # t[j]
    <3>1. i + 1 < j + 1
      BY <2>5
    <3>2. unsubQ[i + 1] # unsubQ[j + 1]
      BY <2>2, <3>1 DEF RemovalInv
    <3>. QED
      BY <2>2, <3>2
  <2>. QED
    BY <2>1, <2>2, <2>3, <2>4, <2>5 DEF RemovalInv
<1>. QED
  BY <1>1, <1>2, <1>3, <1>4, <1>5, <1>6
  DEF Next, Publish, Recv, Tick, DropDup, hubVars

\* As long as no session ends before its registration was taken, no send
\* meets a closed channel and no channel is closed twice.
THEOREM PatientCorrect == Spec => NoPanicIfPatient
<1>1. Init => RemovalInv
  BY DEF Init, RemovalInv, SeqRange
<1>2. HubInv /\ RemovalInv /\ Patient /\ [Next]_vars => RemovalInv'
  <2>1. ASSUME RemovalInv, UNCHANGED vars PROVE RemovalInv'
    BY <2>1 DEF vars, hubVars, RemovalInv, SeqRange
  <2>. QED
    BY <2>1, RemovalStep DEF HubInv
<1>3. RemovalInv => ~crashed
  BY DEF RemovalInv
<1>4. Patient <=> \A s \in Sub : sess[s] = "off" => s \notin SeqRange(subQ)
  BY DEF Patient
<1>. QED
  BY <1>1, <1>2, <1>3, <1>4, HubInvInit, HubInvStep, PTL DEF Spec, NoPanicIfPatient

\* The channel of a registered session continues its cursor up to the end of
\* the log, without a gap.
Gapless(s) ==
  s \in subs \ closed =>
    /\ Len(ch[s]) = Len(log) - cursor[s]
    /\ \A i \in 1..Len(ch[s]) : ch[s][i] = cursor[s] + i

LEMMA GaplessStep ==
  ASSUME TypeOK, RequestInv, NEW s \in Sub, Gapless(s), Len(ch[s]) < ChanCap, Next
  PROVE  Gapless(s)'
<1>. USE FeedTypes
<1>0. log \in Seq(Entry) /\ ch[s] \in Seq(Nat) /\ cursor[s] \in Nat
  BY DEF TypeOK, RestTyped
<1>. SUFFICES ASSUME s \in subs' \ closed'
              PROVE  /\ Len(ch'[s]) = Len(log') - cursor'[s]
                     /\ \A i \in 1..Len(ch'[s]) : ch'[s][i] = cursor'[s] + i
  BY DEF Gapless
<1>1. CASE UNCHANGED <<ch, log, cursor>> /\ s \in subs \ closed
  BY <1>1 DEF Gapless
<1>2. ASSUME NEW r \in Sub, Recv(r) PROVE Gapless(s)'
  <2>1. /\ ch[r] # <<>> /\ ch' = [ch EXCEPT ![r] = Tail(ch[r])]
        /\ cursor' = [cursor EXCEPT ![r] = Head(ch[r])]
        /\ UNCHANGED <<subs, closed, log>>
    BY <1>2 DEF Recv, hubVars
  <2>2. CASE r # s
    BY <2>1, <2>2 DEF Gapless
  <2>3. CASE r = s
    <3>1. /\ Len(ch[s]) = Len(log) - cursor[s]
          /\ \A i \in 1..Len(ch[s]) : ch[s][i] = cursor[s] + i
      BY <2>1 DEF Gapless
    <3>. DEFINE q == ch[s]
                t == Tail(q)
    <3>2. /\ Head(q) = q[1] /\ 1 \in 1..Len(q) /\ Len(q) \in Nat
          /\ Len(t) = Len(q) - 1
          /\ \A i \in 1..Len(t) : t[i] = q[i + 1] /\ i + 1 \in 1..Len(q)
      BY <1>0, <2>1, <2>3
    <3>3. ch'[s] = t /\ cursor'[s] = cursor[s] + 1 /\ log' = log
      BY <2>1, <2>3, <3>1, <3>2
    <3>. HIDE DEF t
    <3>4. \A i \in 1..Len(t) : t[i] = (cursor[s] + 1) + i
      BY <1>0, <3>1, <3>2
    <3>5. Len(t) = Len(log) - (cursor[s] + 1)
      BY <1>0, <3>1, <3>2
    <3>. QED
      BY <3>3, <3>4, <3>5 DEF Gapless
  <2>. QED
    BY <2>2, <2>3
<1>3. CASE AcceptSpot
  <2>. DEFINE n == Len(log) + 1
  <2>1. /\ Len(log') = n /\ UNCHANGED <<subs, closed, cursor>>
        /\ ch'[s] = Append(ch[s], n)
    BY <1>0, <1>3 DEF AcceptSpot, FanOut
  <2>2. /\ Len(ch[s]) = Len(log) - cursor[s]
        /\ \A i \in 1..Len(ch[s]) : ch[s][i] = cursor[s] + i
    BY <2>1 DEF Gapless
  <2>3. /\ Len(ch'[s]) = Len(ch[s]) + 1 /\ ch'[s][Len(ch[s]) + 1] = n
        /\ \A i \in 1..Len(ch[s]) : ch'[s][i] = ch[s][i]
        /\ \A i \in 1..Len(ch'[s]) : i \in 1..Len(ch[s]) \/ i = Len(ch[s]) + 1
    BY <1>0, <2>1
  <2>. QED
    BY <1>0, <2>1, <2>2, <2>3
<1>4. CASE TakeSub
  <2>1. /\ subQ # <<>> /\ subs' = subs \cup {Head(subQ)} /\ UNCHANGED <<ch, log, closed>>
        /\ cursor' = [cursor EXCEPT ![Head(subQ)] = Len(log)]
    BY <1>4 DEF TakeSub
  <2>2. CASE s = Head(subQ)
    <3>1. ch[s] = <<>> /\ cursor'[s] = Len(log)
      BY <2>1, <2>2, TailRequests DEF RequestInv
    <3>. QED
      BY <1>0, <2>1, <3>1
  <2>3. CASE s # Head(subQ)
    BY <2>1, <2>3 DEF Gapless
  <2>. QED
    BY <2>2, <2>3
<1>5. CASE TakeUnsub
  BY <1>1, <1>5 DEF TakeUnsub
<1>. QED
  BY <1>1, <1>2, <1>3, <1>4, <1>5
  DEF Next, Publish, Subscribe, Unsubscribe, Tick, DropDup, hubVars, Gapless

\* A session whose channel never fills misses nothing.
THEOREM GaplessCorrect == Spec => NoGapWhenFast
<1>1. ASSUME NEW s \in Sub
      PROVE  Spec => ([](Len(ch[s]) < ChanCap)
                        => [](s \in subs \ closed => Len(ch[s]) = Len(log) - cursor[s]))
  <2>1. Init => Gapless(s)
    BY DEF Init, Gapless
  <2>2. HubInv /\ Gapless(s) /\ Len(ch[s]) < ChanCap /\ [Next]_vars => Gapless(s)'
    <3>1. ASSUME Gapless(s), UNCHANGED vars PROVE Gapless(s)'
      BY <3>1 DEF vars, hubVars, Gapless
    <3>. QED
      BY <3>1, GaplessStep DEF HubInv
  <2>3. Gapless(s) => (s \in subs \ closed => Len(ch[s]) = Len(log) - cursor[s])
    BY DEF Gapless
  <2>. QED
    BY <2>1, <2>2, <2>3, HubInvInit, HubInvStep, PTL DEF Spec
<1>. QED
  BY <1>1 DEF NoGapWhenFast
=============================================================================
