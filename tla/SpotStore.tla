----------------------------- MODULE SpotStore -----------------------------
(***************************************************************************)
(* The write path of the SQLite store (store.go): Publish filters repeats  *)
(* and queues a spot without ever blocking the hub; the goroutine Run      *)
(* collects a batch and writes it in one transaction; RunPurge deletes     *)
(* rows past the retention time.  The process may die at any moment        *)
(* (a signal makes main return at once, with nothing drained): what was    *)
(* committed survives, the queue, the batch and the dedup maps do not.     *)
(*                                                                         *)
(* `heard` is the history of Publish calls; a spot is known by its         *)
(* position in it.  A kind of stream with Window[kind] > 0 is deduplicated *)
(* (voice by callsign, kHz and mode; decoder by callsign, band and mode);  *)
(* `Key` stands for that key.                                              *)
(***************************************************************************)
EXTENDS Integers, Sequences

CONSTANTS Kind,      \* kinds of stream: voice, decoder, the others
          Window,    \* Window[kind]: dedup window in ticks, 0 = disabled
          Key,       \* dedup keys
          Skew,      \* how much older than its arrival a spot's timestamp may be
          QueueCap,  \* capacity of SpotStore.in (4096)
          BatchMax,  \* batch size that forces a flush (500)
          Retain,    \* retention time in ticks
          MaxTime, MaxHeard, MaxCrash   \* bounds

ASSUME StoreAssumption ==
  /\ Window \in [Kind -> Nat]
  /\ Skew \subseteq Nat
  /\ QueueCap \in Nat \ {0} /\ BatchMax \in Nat \ {0}
  /\ Retain \in Nat /\ MaxTime \in Nat /\ MaxHeard \in Nat /\ MaxCrash \in Nat

VARIABLES now,      \* the clock
          up,       \* the process is running
          lastSeen, \* lastSeen[kind][key]: time in the dedup map, or Never
          queue,    \* SpotStore.in
          batch,    \* Run's batch
          pc,       \* Run is in its "select" or in a "flush"
          db,       \* the table: db[id] is the spot in the row with that id
          heard,    \* history: every Publish call and what became of it
          written,  \* history: spots whose insertion was committed
          lossy,    \* history: a spot was lost to a full queue, error or crash
          crashes   \* how often the process died

vars == <<now, up, lastSeen, queue, batch, pc, db, heard, written, lossy, crashes>>

Never == -1

Empty == [kd \in Kind |-> [k \in Key |-> Never]]

Ids(q) == {q[i] : i \in 1..Len(q)}

Stored == {db[id] : id \in DOMAIN db}

Init ==
  /\ now = 0
  /\ up = TRUE
  /\ lastSeen = Empty
  /\ queue = <<>>
  /\ batch = <<>>
  /\ pc = "select"
  /\ db = [id \in {} |-> 0]
  /\ heard = <<>>
  /\ written = {}
  /\ lossy = FALSE
  /\ crashes = 0

-----------------------------------------------------------------------------
(* Publish, called by the hub's goroutine.                                 *)

\* Faulty: a spot exactly one window later still counts as a repeat.
IsRepeatLate(kd, k) ==
  /\ Window[kd] > 0
  /\ lastSeen[kd][k] # Never
  /\ now <= lastSeen[kd][k] + Window[kd]

\* seen && now.Sub(last) < window, for a kind that is deduplicated at all.
IsRepeat(kd, k) ==
  /\ Window[kd] > 0
  /\ lastSeen[kd][k] # Never
  /\ now < lastSeen[kd][k] + Window[kd]

\* Faulty: the sweep forgets the entries that are still inside the window.
RecordSweepsLive(kd, k) ==
  LET marked == [lastSeen[kd] EXCEPT ![k] = now]
  IN  [lastSeen EXCEPT ![kd] =
        [x \in Key |-> IF x # k /\ marked[x] # Never /\ now < marked[x] + Window[kd]
                       THEN Never ELSE marked[x]]]

\* The key is recorded, then the lazy sweep drops the entries that are a
\* window old.
Record(kd, k) ==
  IF Window[kd] = 0 THEN lastSeen
  ELSE LET marked == [lastSeen[kd] EXCEPT ![k] = now]
       IN  [lastSeen EXCEPT ![kd] =
             [x \in Key |-> IF marked[x] # Never /\ now >= marked[x] + Window[kd]
                            THEN Never ELSE marked[x]]]

\* The key is recorded before the non-blocking send is tried.
Publish(kd, k, skew) ==
  LET call(fate) == [kind |-> kd, key |-> k, at |-> now, life |-> crashes,
                     ts |-> IF skew > now THEN 0 ELSE now - skew, fate |-> fate]
      n == Len(heard) + 1
  IN  /\ up
      /\ Len(heard) < MaxHeard
      /\ \/ /\ IsRepeat(kd, k)
            /\ heard' = Append(heard, call("repeat"))
            /\ UNCHANGED <<lastSeen, queue, lossy>>
         \/ /\ ~IsRepeat(kd, k)
            /\ lastSeen' = Record(kd, k)
            /\ IF Len(queue) < QueueCap
               THEN /\ queue' = Append(queue, n)
                    /\ heard' = Append(heard, call("queued"))
                    /\ UNCHANGED lossy
               ELSE /\ heard' = Append(heard, call("dropped"))
                    /\ lossy' = TRUE
                    /\ UNCHANGED queue
      /\ UNCHANGED <<now, up, batch, pc, db, written, crashes>>

-----------------------------------------------------------------------------
(* Run: a select between the queue and the one-second ticker.              *)

TakeSpot ==
  /\ up
  /\ pc = "select"
  /\ queue # <<>>
  /\ batch' = Append(batch, Head(queue))
  /\ queue' = Tail(queue)
  /\ pc' = IF Len(batch') >= BatchMax THEN "flush" ELSE "select"
  /\ UNCHANGED <<now, up, lastSeen, db, heard, written, lossy, crashes>>

\* Faulty: the ticker flushes only a batch that is already full.
TickerFullOnly ==
  /\ up
  /\ pc = "select"
  /\ Len(batch) >= BatchMax
  /\ pc' = "flush"
  /\ UNCHANGED <<now, up, lastSeen, queue, batch, db, heard, written, lossy, crashes>>

\* The ticker fires; with an empty batch flush returns at once.
TickerFires ==
  /\ up
  /\ pc = "select"
  /\ batch # <<>>
  /\ pc' = "flush"
  /\ UNCHANGED <<now, up, lastSeen, queue, batch, db, heard, written, lossy, crashes>>

\* The id SQLite gave the last row: one more than it is the next, so that the
\* ids of rows purged from the top are given again.
LastId == IF DOMAIN db = {} THEN 0
          ELSE CHOOSE id \in DOMAIN db : \A x \in DOMAIN db : x <= id

\* The table with the batch's rows behind the others.
WithBatch ==
  [id \in DOMAIN db \cup (LastId + 1)..(LastId + Len(batch)) |->
     IF id <= LastId THEN db[id] ELSE batch[id - LastId]]

\* Faulty: the batch is not emptied after it was written.
CommitKeepsBatch ==
  /\ up
  /\ pc = "flush"
  /\ db' = WithBatch
  /\ written' = written \cup Ids(batch)
  /\ pc' = "select"
  /\ UNCHANGED <<now, up, lastSeen, queue, batch, heard, lossy, crashes>>

\* insertBatch commits: all the batch's rows appear together.
Commit ==
  /\ up
  /\ pc = "flush"
  /\ db' = WithBatch
  /\ written' = written \cup Ids(batch)
  /\ batch' = <<>>
  /\ pc' = "select"
  /\ UNCHANGED <<now, up, lastSeen, queue, heard, lossy, crashes>>

\* insertBatch fails and rolls back; the error is logged, the batch is gone.
InsertFails ==
  /\ up
  /\ pc = "flush"
  /\ batch' = <<>>
  /\ pc' = "select"
  /\ lossy' = TRUE
  /\ UNCHANGED <<now, up, lastSeen, queue, db, heard, written, crashes>>

-----------------------------------------------------------------------------
(* Retention, time and crashes.                                            *)

\* Faulty: rows at the retention limit are deleted too.
ExpiredEarly(i) == heard[i].ts + Retain <= now

\* A row the purge deletes: ts < cutoff.
Expired(i) == heard[i].ts + Retain < now

WithoutExpired == [id \in {x \in DOMAIN db : ~Expired(db[x])} |-> db[id]]

\* Faulty: the purge runs at startup only.
PurgeAtStartOnly ==
  /\ up
  /\ \A i \in 1..Len(heard) : heard[i].life < crashes
  /\ \E i \in Stored : Expired(i)
  /\ db' = WithoutExpired
  /\ UNCHANGED <<now, up, lastSeen, queue, batch, pc, heard, written, lossy, crashes>>

\* RunPurge: once at startup and then daily.  A failed purge changes nothing.
Purge ==
  /\ up
  /\ \E i \in Stored : Expired(i)
  /\ db' = WithoutExpired
  /\ UNCHANGED <<now, up, lastSeen, queue, batch, pc, heard, written, lossy, crashes>>

Tick ==
  /\ now < MaxTime
  /\ now' = now + 1
  /\ UNCHANGED <<up, lastSeen, queue, batch, pc, db, heard, written, lossy, crashes>>

\* The process dies or is told to stop: memory is lost, committed rows stay.
Crash ==
  /\ up
  /\ crashes < MaxCrash
  /\ up' = FALSE
  /\ queue' = <<>>
  /\ batch' = <<>>
  /\ lastSeen' = Empty
  /\ pc' = "select"
  /\ lossy' = (lossy \/ queue # <<>> \/ batch # <<>>)
  /\ crashes' = crashes + 1
  /\ UNCHANGED <<now, db, heard, written>>

\* OpenStore: a fresh queue and fresh maps over the same file.
Restart ==
  /\ ~up
  /\ up' = TRUE
  /\ UNCHANGED <<now, lastSeen, queue, batch, pc, db, heard, written, lossy, crashes>>

Next ==
  \/ \E kd \in Kind, k \in Key, skew \in Skew : Publish(kd, k, skew)
  \/ TakeSpot
  \/ TickerFires
  \/ Commit
  \/ InsertFails
  \/ Purge
  \/ Tick
  \/ Crash
  \/ Restart

Spec == Init /\ [][Next]_vars

\* Run's goroutine is scheduled, its ticker keeps firing and a transaction
\* ends one way or the other; the purge comes round again and again.
FairSpec ==
  /\ Spec
  /\ WF_vars(TakeSpot)
  /\ WF_vars(TickerFires)
  /\ WF_vars(Commit \/ InsertFails)
  /\ WF_vars(Purge)
  /\ WF_vars(Restart)

-----------------------------------------------------------------------------
(* Properties.                                                             *)

Fate == {"repeat", "dropped", "queued"}

\* Every variable has its type; the queue and the batch keep within bounds.
TypeOK ==
  /\ now \in 0..MaxTime
  /\ up \in BOOLEAN
  /\ lastSeen \in [Kind -> [Key -> (0..MaxTime) \cup {Never}]]
  /\ queue \in Seq(1..Len(heard)) /\ Len(queue) <= QueueCap
  /\ batch \in Seq(1..Len(heard)) /\ Len(batch) <= BatchMax
  /\ pc \in {"select", "flush"}
  /\ DOMAIN db \subseteq Nat \ {0} /\ Stored \subseteq 1..Len(heard)
  /\ \A i \in 1..Len(heard) : heard[i].fate \in Fate
  /\ written \subseteq 1..Len(heard)
  /\ lossy \in BOOLEAN
  /\ crashes \in 0..MaxCrash

\* Within one life of the process, two spots of a deduplicated kind with the
\* same key are never both let through to the table within the window,
\* whatever the sweep removed in between (store.go:197-235).
NoRepeatStored ==
  \A i, j \in written \cup Ids(batch) \cup Ids(queue) :
    (/\ i < j
     /\ heard[i].kind = heard[j].kind
     /\ heard[i].key = heard[j].key
     /\ heard[i].life = heard[j].life)
      => heard[i].at + Window[heard[i].kind] <= heard[j].at

\* Table, batch and queue together are one line in the order of the Publish
\* calls: no spot is written twice, none overtakes another, whatever flush
\* failed, purge ran or process died in between (store.go:246-277).  The ids
\* of the rows tell that order, which search breaks ties by, even when SQLite
\* gives an id again (store.go:18).
PipelineOrdered ==
  /\ TypeOK
  /\ \A x, y \in DOMAIN db : x < y => db[x] < db[y]
  /\ LET line == batch \o queue
     IN  /\ \A i, j \in 1..Len(line) : i < j => line[i] < line[j]
         /\ \A id \in DOMAIN db, i \in 1..Len(line) : db[id] < line[i]

\* While nothing was lost, every spot suppressed as a repeat has an earlier
\* copy, less than a window old at the time, that is on its way to the table
\* or reached it.
RepeatHasCopy ==
  \A i \in 1..Len(heard) :
    heard[i].fate = "repeat"
      => \E j \in written \cup Ids(batch) \cup Ids(queue) :
           /\ heard[j].kind = heard[i].kind
           /\ heard[j].key = heard[i].key
           /\ heard[j].at <= heard[i].at
           /\ heard[i].at < heard[j].at + Window[heard[i].kind]

RepeatHasCopyUnlessLossy == ~lossy => RepeatHasCopy

\* No step takes a row out of the table before its retention time is over:
\* not the purge, not a failed transaction, not a crash (store.go:342).
KeptForRetention ==
  [][\A i \in Stored : i \notin Stored' => now > heard[i].ts + Retain]_vars

\* A spot that was queued reaches the table unless an insertion failed, the
\* queue overflowed or the process died: a batch never waits for ever.
QueuedIsWritten ==
  \A n \in 1..MaxHeard : n \in Ids(queue) ~> (n \in written \/ lossy)

\* A row past its retention time does not stay in the table.
OldRowsGo ==
  \A n \in 1..MaxHeard :
    (n \in Stored /\ Expired(n)) ~> n \notin Stored
=============================================================================
