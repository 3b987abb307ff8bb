-------------------------------- MODULE Hub --------------------------------
(***************************************************************************)
(* The fan-out hub of hub.go.  Producers (the SSE consumer goroutines and  *)
(* the DX command) put spots into the buffered channel `in`; sessions      *)
(* (telnet clients, web event streams) ask to be registered and removed    *)
(* through two more buffered channels; one goroutine, Hub.Run, takes one   *)
(* message at a time from whichever of the three is ready - Go's select    *)
(* makes no promise about which - and owns the subscriber map and the      *)
(* dedup map.                                                              *)
(*                                                                         *)
(* A spot is what the hub looks at: its dedup key (callsign and frequency) *)
(* and the stream it came from.  Once accepted, a spot is known by its     *)
(* position in the history variable `log`, which is also the sequence of   *)
(* spots handed to SpotStore.Publish.  The wall clock is a counter; the    *)
(* code reads Go's monotonic clock, so it never runs backwards.            *)
(***************************************************************************)
EXTENDS Naturals, Sequences

CONSTANTS Key,       \* dedup keys: (callsign, frequency) pairs
          Stream,    \* stream types
          Sub,       \* subscriber channels; every Subscribe makes a new one
          InCap,     \* capacity of Hub.in         (256 in the code)
          ReqCap,    \* capacity of Hub.sub, unsub (16)
          ChanCap,   \* capacity of a subscriber's channel (64)
          RingSize,  \* spots kept for the web UI  (500)
          Window,    \* dedup window in ticks      (5 seconds)
          MaxTime,   \* bound on the clock
          MaxLog     \* bound on the accepted spots

ASSUME CapAssumption == /\ InCap \in Nat \ {0}
                        /\ ReqCap \in Nat \ {0}
                        /\ ChanCap \in Nat \ {0}
                        /\ RingSize \in Nat \ {0}
ASSUME TimeAssumption == Window \in Nat \ {0} /\ MaxTime \in Nat
ASSUME LogAssumption == MaxLog \in Nat

VARIABLES now,       \* the clock
          in,        \* Hub.in: published spots not yet taken
          subQ,      \* Hub.sub: registration requests not yet taken
          unsubQ,    \* Hub.unsub: removal requests not yet taken
          subs,      \* Run's local map of registered channels
          ch,        \* ch[s]: positions in log buffered in s's channel
          closed,    \* channels that Run has closed
          dedup,     \* Hub.dedup: key -> expiry time, Absent when not in the map
          ring,      \* Hub.ring: positions in log, newest first
          crashed,   \* the process died of a panic in Run
          sess,      \* sess[s]: what the session owning s has called
          log,       \* history: accepted spots with their acceptance time
          cursor     \* history: last position session s took, or where it joined

hubVars   == <<subs, closed, dedup, ring, crashed, log>>
vars == <<now, in, subQ, unsubQ, subs, ch, closed, dedup, ring, crashed, sess,
          log, cursor>>

Absent == 0

Spot == [key : Key, stream : Stream]

Entry == [key : Key, stream : Stream, at : Nat]

SeqRange(q) == {q[i] : i \in 1..Len(q)}

Init ==
  /\ now = 0
  /\ in = <<>>
  /\ subQ = <<>>
  /\ unsubQ = <<>>
  /\ subs = {}
  /\ ch = [s \in Sub |-> <<>>]
  /\ closed = {}
  /\ dedup = [k \in Key |-> Absent]
  /\ ring = <<>>
  /\ crashed = FALSE
  /\ sess = [s \in Sub |-> "none"]
  /\ log = <<>>
  /\ cursor = [s \in Sub |-> 0]

-----------------------------------------------------------------------------
(* The callers: producers and sessions.                                    *)

\* Publish never blocks: a spot offered to a full hub is dropped.
Publish(sp) ==
  /\ ~crashed
  /\ Len(log) + Len(in) < MaxLog
  /\ IF Len(in) < InCap THEN in' = Append(in, sp) ELSE UNCHANGED in
  /\ UNCHANGED <<now, subQ, unsubQ, ch, sess, cursor, hubVars>>

\* Subscribe makes a channel, queues the request, and returns; it blocks
\* only while the request queue is full.
Subscribe(s) ==
  /\ ~crashed
  /\ sess[s] = "none"
  /\ Len(subQ) < ReqCap
  /\ subQ' = Append(subQ, s)
  /\ sess' = [sess EXCEPT ![s] = "on"]
  /\ UNCHANGED <<now, in, unsubQ, ch, cursor, hubVars>>

\* The session ends: its deferred Unsubscribe queues the removal request.
Unsubscribe(s) ==
  /\ ~crashed
  /\ sess[s] = "on"
  /\ Len(unsubQ) < ReqCap
  /\ unsubQ' = Append(unsubQ, s)
  /\ sess' = [sess EXCEPT ![s] = "off"]
  /\ UNCHANGED <<now, in, subQ, ch, cursor, hubVars>>

\* The session takes the oldest spot out of its channel.
Recv(s) ==
  /\ ~crashed
  /\ sess[s] = "on"
  /\ ch[s] # <<>>
  /\ ch' = [ch EXCEPT ![s] = Tail(ch[s])]
  /\ cursor' = [cursor EXCEPT ![s] = Head(ch[s])]
  /\ UNCHANGED <<now, in, subQ, unsubQ, sess, hubVars>>

Tick ==
  /\ ~crashed
  /\ now < MaxTime
  /\ now' = now + 1
  /\ UNCHANGED <<in, subQ, unsubQ, ch, sess, cursor, hubVars>>

-----------------------------------------------------------------------------
(* Hub.Run: one iteration of its loop is one of the three cases.           *)

\* Faulty: the window ends one tick early.
IsDupShort(k) == dedup[k] # Absent /\ now + 1 < dedup[k]

\* seen && now.Before(exp)
IsDup(k) == dedup[k] # Absent /\ now < dedup[k]

\* Faulty: the purge drops the entries that have not expired.
RememberPurgesLive(k) ==
  [x \in Key |-> LET exp == IF x = k THEN now + Window ELSE dedup[x]
                 IN  IF now < exp /\ x # k THEN Absent ELSE exp]

\* The map after the key is recorded and the entries with now.After(exp) go.
Remember(k) ==
  [x \in Key |-> LET exp == IF x = k THEN now + Window ELSE dedup[x]
                 IN  IF now > exp THEN Absent ELSE exp]

\* Newest first, truncated to RingSize.
Push(n) ==
  LET longer == <<n>> \o ring
  IN  IF Len(longer) > RingSize THEN SubSeq(longer, 1, RingSize) ELSE longer

\* Faulty: a spot goes in front of those that wait.
FanOutNewestFirst(n) ==
  [s \in Sub |-> IF s \in subs \ closed /\ Len(ch[s]) < ChanCap
                 THEN <<n>> \o ch[s] ELSE ch[s]]

\* Faulty: the last slot of a channel is never used.
FanOutEarlyDrop(n) ==
  [s \in Sub |-> IF s \in subs \ closed /\ Len(ch[s]) < ChanCap - 1
                 THEN Append(ch[s], n) ELSE ch[s]]

\* One non-blocking send per registered channel: a full channel is skipped.
FanOut(n) ==
  [s \in Sub |-> IF s \in subs \ closed /\ Len(ch[s]) < ChanCap
                 THEN Append(ch[s], n) ELSE ch[s]]

\* Faulty: a duplicate starts the window anew.
DropDupExtends ==
  /\ ~crashed
  /\ in # <<>>
  /\ IsDup(Head(in).key)
  /\ in' = Tail(in)
  /\ dedup' = Remember(Head(in).key)
  /\ UNCHANGED <<now, subQ, unsubQ, ch, sess, cursor, subs, closed, ring, crashed, log>>

\* A duplicate within the window is dropped silently.
DropDup ==
  /\ ~crashed
  /\ in # <<>>
  /\ IsDup(Head(in).key)
  /\ in' = Tail(in)
  /\ UNCHANGED <<now, subQ, unsubQ, ch, sess, cursor, hubVars>>

\* Faulty: the hub waits for room in every registered channel.
AcceptSpotBlocking ==
  LET sp == Head(in)
      n  == Len(log) + 1
  IN  /\ ~crashed
      /\ in # <<>>
      /\ ~IsDup(sp.key)
      /\ \A s \in subs : Len(ch[s]) < ChanCap
      /\ in' = Tail(in)
      /\ dedup' = Remember(sp.key)
      /\ ring' = Push(n)
      /\ log' = Append(log, [key |-> sp.key, stream |-> sp.stream, at |-> now])
      /\ ch' = FanOut(n)
      /\ crashed' = (subs \cap closed # {})
      /\ UNCHANGED <<now, subQ, unsubQ, subs, closed, sess, cursor>>

\* Any other spot is recorded, kept, stored and fanned out.  Sending on a
\* closed channel panics in Go, select with a default or not, and nothing
\* recovers a panic of this goroutine.
AcceptSpot ==
  LET sp == Head(in)
      n  == Len(log) + 1
  IN  /\ ~crashed
      /\ in # <<>>
      /\ ~IsDup(sp.key)
      /\ in' = Tail(in)
      /\ dedup' = Remember(sp.key)
      /\ ring' = Push(n)
      /\ log' = Append(log, [key |-> sp.key, stream |-> sp.stream, at |-> now])
      /\ ch' = FanOut(n)
      /\ crashed' = (subs \cap closed # {})
      /\ UNCHANGED <<now, subQ, unsubQ, subs, closed, sess, cursor>>

TakeSub ==
  LET s == Head(subQ)
  IN  /\ ~crashed
      /\ subQ # <<>>
      /\ subQ' = Tail(subQ)
      /\ subs' = subs \cup {s}
      /\ cursor' = [cursor EXCEPT ![s] = Len(log)]
      /\ UNCHANGED <<now, in, unsubQ, ch, closed, dedup, ring, crashed, sess,
                     log>>

\* Faulty: the channel is closed but stays registered.
TakeUnsubKeeps ==
  LET s == Head(unsubQ)
  IN  /\ ~crashed
      /\ unsubQ # <<>>
      /\ unsubQ' = Tail(unsubQ)
      /\ closed' = closed \cup {s}
      /\ crashed' = (s \in closed)
      /\ UNCHANGED <<now, in, subQ, subs, ch, dedup, ring, sess, log, cursor>>

\* delete(subs, ch); close(ch).  Closing a closed channel panics.
TakeUnsub ==
  LET s == Head(unsubQ)
  IN  /\ ~crashed
      /\ unsubQ # <<>>
      /\ unsubQ' = Tail(unsubQ)
      /\ subs' = subs \ {s}
      /\ closed' = closed \cup {s}
      /\ crashed' = (s \in closed)
      /\ UNCHANGED <<now, in, subQ, ch, dedup, ring, sess, log, cursor>>

Next ==
  \/ \E sp \in Spot : Publish(sp)
  \/ \E s \in Sub : Subscribe(s) \/ Unsubscribe(s) \/ Recv(s)
  \/ Tick
  \/ DropDup
  \/ AcceptSpot
  \/ TakeSub
  \/ TakeUnsub

Spec == Init /\ [][Next]_vars

\* Run is a goroutine that is always scheduled, and select picks uniformly
\* among the ready cases, so a case that stays ready is taken.  Nothing is
\* assumed of the sessions: they may stop reading for ever.
FairSpec ==
  /\ Spec
  /\ WF_vars(DropDup \/ AcceptSpot)
  /\ WF_vars(TakeSub)
  /\ WF_vars(TakeUnsub)
-----------------------------------------------------------------------------
(* Properties.                                                             *)

\* The channels hold what they are for, within their capacities.
ChannelsTyped ==
  /\ in \in Seq(Spot) /\ Len(in) <= InCap
  /\ subQ \in Seq(Sub) /\ Len(subQ) <= ReqCap
  /\ unsubQ \in Seq(Sub) /\ Len(unsubQ) <= ReqCap
  /\ ch \in [Sub -> Seq(Nat)]
  /\ \A s \in Sub : Len(ch[s]) <= ChanCap

\* What Run owns.
RunTyped ==
  /\ subs \subseteq Sub
  /\ closed \subseteq Sub
  /\ dedup \in [Key -> Nat]
  /\ ring \in Seq(Nat) /\ Len(ring) <= RingSize
  /\ crashed \in BOOLEAN

\* The clock, the sessions and the history.
RestTyped ==
  /\ now \in 0..MaxTime
  /\ log \in Seq(Entry)
  /\ sess \in [Sub -> {"none", "on", "off"}]
  /\ cursor \in [Sub -> Nat]

\* Every variable has its type, and every buffered channel and the history
\* ring keep within their capacity.
TypeOK == ChannelsTyped /\ RunTyped /\ RestTyped

\* Two spots with the same callsign and frequency are never both accepted
\* within the dedup window, whatever streams they came from and whatever the
\* purge of the dedup map did in between: the echo of a locally submitted
\* spot that comes back through the upstream cluster is absorbed (hub.go:95).
NoRepeatInWindow ==
  \A i, j \in 1..Len(log) :
    i < j /\ log[i].key = log[j].key => log[i].at + Window <= log[j].at

\* What waits in a subscriber's channel continues what it has received: later
\* positions only, in acceptance order, none twice, none from before it was
\* registered and none that was not accepted (fan-out loop, hub.go:126).
FeedOrdered ==
  \A s \in Sub :
    LET seen == <<cursor[s]>> \o ch[s]
    IN  \A i, j \in 1..Len(seen) : /\ seen[i] <= Len(log)
                                   /\ i < j => seen[i] < seen[j]

\* The hub cannot panic in a run in which no session ends while its
\* registration request is still queued (hub.go:126, 134, 137).
NoPanicIfPatient ==
  [](\A s \in Sub : sess[s] = "off" => s \notin SeqRange(subQ)) => []~crashed

\* A subscriber whose channel never fills misses nothing: everything accepted
\* since it was registered has been received or waits in its channel.
NoGapWhenFast ==
  \A s \in Sub :
    [](Len(ch[s]) < ChanCap)
      => [](s \in subs \ closed => Len(ch[s]) = Len(log) - cursor[s])

\* Subscribers that never read cannot stall the hub: a full input channel
\* always gets room again, so Publish does not drop for ever (hub.go:129), and
\* however many spots keep arriving, a session that stays is registered and
\* one that left has its channel closed (hub.go:93).
HubNeverStalls ==
  /\ Len(in) = InCap ~> (Len(in) < InCap \/ crashed)
  /\ \A s \in Sub :
       /\ sess[s] = "on" ~> (s \in subs \/ sess[s] = "off" \/ crashed)
       /\ sess[s] = "off" ~> (s \in closed \/ crashed)

\* The hub implements the abstract feed: its log and each session's cursor
\* are those of SpotFeed; the channels, the ring, the dedup map and the
\* requests are not seen there.
Feed == INSTANCE SpotFeed WITH log <- log, cursor <- cursor
FeedImplemented == Feed!FeedSpec

\* "Unsubscribe removes the channel from the hub" (hub.go:69): a channel that
\* Run has closed is not registered, so the fan-out never sends on it.
UnsubscribeRemoves == subs \cap closed = {}
=============================================================================
