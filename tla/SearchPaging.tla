---------------------------- MODULE SearchPaging ----------------------------
(***************************************************************************)
(* Clients that page through /api/search while the table changes.  Each    *)
(* request is parsed (which fixes its time window), takes one of the       *)
(* search slots or waits a while for it (acquireSearchSlot), runs its      *)
(* query under a deadline, answers and gives the slot back (handleSearch). *)
(* The writer inserts rows, also with timestamps of the past, and purges   *)
(* old ones (module SpotStore); SQLite gives a row the id after the        *)
(* largest one in the table.                                               *)
(***************************************************************************)
EXTENDS SpotQuery

CONSTANTS Walker,    \* clients that walk through the pages of one search each
          Rival,     \* clients that ask for single pages over and over
          Queries,   \* searches a client may ask for
          Kinds,     \* rows without id and time
          FirstRows, \* the table at the start
          Start,     \* the time at the start
          MaxLate,   \* bound: how old the timestamp of a new row may be
          Retention, \* rows older than this are purged
          MaxSlots,  \* maxConcurrentSearches
          MaxRows, MaxNow \* bounds: rows in the table, the clock

Row(k, id, ts) ==
  [id |-> id, ts |-> ts, stream |-> k.stream, mode |-> k.mode,
   voice |-> k.voice, band |-> k.band, wpm |-> k.wpm]

\* A request that ParseStatsFilter and ParseSearchParams let pass: hours of
\* the day, numbers to sort by and for limits, a cursor in time only.
ParsedQuery(q) ==
  LET f == q.filter IN
  /\ {f.from, f.to, f.lookback, q.limit} \subseteq Int
  /\ {f.hourMin, f.hourMax} \subseteq {None} \cup 0..23
  /\ \A c \in DOMAIN f.range : c = "wpm" /\ f.range[c] \in Int \X Int
  /\ q.sort \in {"ts", "band", "wpm"}
  /\ q.page = "offset" \/ (q.page = "cursor" /\ q.sort = "ts")

ASSUME PagingAssumption ==
  /\ {Start, MaxLate, Retention, MaxSlots, MaxRows, MaxNow} \subseteq Nat
  /\ Start <= MaxNow
  /\ \A q \in Queries : ParsedQuery(q)
  /\ \A k \in Kinds : k.band \in Nat /\ k.wpm \in Nat
  /\ IsFiniteSet(FirstRows) /\ Cardinality(FirstRows) <= MaxRows
  /\ \A r \in FirstRows :
       /\ r.id \in Nat /\ r.ts \in Int /\ \E k \in Kinds : r = Row(k, r.id, r.ts)
       /\ \A s \in FirstRows : r.id = s.id => r = s

VARIABLES table, now,
          slots,   \* searches in searchSem
          stage,   \* stage[w]: where the request of client w is
          query,   \* query[w]: the search w walks through
          win,     \* win[w]: the window of the request under way
          cursor,  \* cursor[w], offset[w]: where the next page starts
          offset,
          got,     \* history: rows received so far
          steady,  \* history: rows that every page so far could have returned
          all,     \* history: rows the first page's filter matched
          still    \* history: every page's filter matched these rows

data == <<table, now>>
walk == <<query, cursor, offset, got, steady, all, still>>
pagingVars == <<data, slots, stage, win, walk>>

Client == Walker \cup Rival

RequestPlace == {"idle", "wait", "query", "answered", "finished", "done"}

NoWindow == [ok |-> FALSE, from |-> 0, to |-> 0]

PagingInit ==
  /\ table = FirstRows /\ now = Start
  /\ slots = 0
  /\ stage = [w \in Client |-> "idle"]
  /\ query \in [Walker -> Queries]
  /\ win = [w \in Walker |-> NoWindow]
  /\ cursor = [w \in Walker |-> <<>>] /\ offset = [w \in Walker |-> 0]
  /\ got = [w \in Walker |-> <<>>]
  /\ steady = [w \in Walker |-> {}] /\ all = [w \in Walker |-> {}]
  /\ still = [w \in Walker |-> TRUE]

-----------------------------------------------------------------------------
(* The writer.                                                             *)

NextId == 1 + (CHOOSE m \in {r.id : r \in table} \cup {0} : \A r \in table : r.id <= m)

\* A row's time is the spot's and may be late.
Insert(k, ts) ==
  /\ Cardinality(table) < MaxRows
  /\ table' = table \cup {Row(k, NextId, ts)}
  /\ UNCHANGED <<now, slots, stage, win, walk>>

Purge ==
  /\ \E r \in table : r.ts < now - Retention
  /\ table' = {r \in table : r.ts >= now - Retention}
  /\ UNCHANGED <<now, slots, stage, win, walk>>

Tick ==
  /\ now < MaxNow /\ now' = now + 1
  /\ UNCHANGED <<table, slots, stage, win, walk>>

-----------------------------------------------------------------------------
(* Requests.                                                               *)

\* The first select: a slot is free, or the request has to wait.
Admit(w) ==
  IF slots < MaxSlots THEN slots' = slots + 1 /\ stage' = [stage EXCEPT ![w] = "query"]
                      ELSE stage' = [stage EXCEPT ![w] = "wait"] /\ UNCHANGED slots

\* The first page, or the next one with the position the last one returned.
Ask(w) ==
  LET window == Window(query[w].filter, now)
  IN  /\ stage[w] = "idle"
      /\ Accepted(query[w].sort, offset[w], cursor[w], window)
      /\ win' = [win EXCEPT ![w] = window]
      /\ Admit(w)
      /\ UNCHANGED <<data, walk>>

AskOnce(w) == stage[w] = "idle" /\ Admit(w) /\ UNCHANGED <<data, win, walk>>

GetSlot(w) ==
  /\ stage[w] = "wait" /\ slots < MaxSlots
  /\ slots' = slots + 1 /\ stage' = [stage EXCEPT ![w] = "query"]
  /\ UNCHANGED <<data, win, walk>>

\* Faulty: a waiting request has no time limit.
WaitExpiresIfFree(w) ==
  /\ stage[w] = "wait" /\ slots < MaxSlots
  /\ stage' = [stage EXCEPT ![w] = "idle"]
  /\ UNCHANGED <<data, slots, win, walk>>

\* 503; the client may ask for the same page again.
WaitExpires(w) ==
  /\ stage[w] = "wait"
  /\ stage' = [stage EXCEPT ![w] = "idle"]
  /\ UNCHANGED <<data, slots, win, walk>>

\* Faulty: the slot is given back only after an answer.
QueryFailsKeepsSlot(w) ==
  /\ stage[w] = "query"
  /\ stage' = [stage EXCEPT ![w] = "idle"]
  /\ UNCHANGED <<data, slots, win, walk>>

\* The deadline passes or the database fails: an error is answered.
QueryFails(w) ==
  /\ stage[w] = "query"
  /\ stage' = [stage EXCEPT ![w] = "idle"] /\ slots' = slots - 1
  /\ UNCHANGED <<data, win, walk>>

\* The client goes away: a waiting request holds no slot, a running one does.
ClientGone(w) ==
  /\ stage[w] \in {"wait", "query"}
  /\ stage' = [stage EXCEPT ![w] = IF w \in Rival THEN "idle" ELSE "done"]
  /\ slots' = IF stage[w] = "query" THEN slots - 1 ELSE slots
  /\ UNCHANGED <<data, win, walk>>

\* What the request asks for, from its parameters: the hours of the day on
\* the way from hour_min to hour_max, in a window that ends before now.
Wanted(q, window) ==
  LET f == q.filter
      lo == IF f.hourMin = None THEN 0 ELSE f.hourMin
      hi == IF f.hourMax = None THEN 23 ELSE f.hourMax
  IN  {r \in table :
         /\ r.ts \in window.from..(window.to - 1)
         /\ ((r.ts \div Hour) - lo) % 24 <= (hi - lo) % 24
         /\ \A c \in DOMAIN f.in : f.in[c] # {} => Column(r, c) \in f.in[c]
         /\ \A c \in DOMAIN f.notIn : ~(r[c] \in f.notIn[c])
         /\ \A c \in DOMAIN f.range : r[c] \in (f.range[c][1]..f.range[c][2]) \ {0}}

\* The query runs and the client gets its page.
RunQuery(w) ==
  LET q == query[w]
      res == Search(table, q, win[w], offset[w], cursor[w])
      wanted == Wanted(q, win[w])
      first == cursor[w] = <<>> /\ offset[w] = 0
  IN  /\ stage[w] = "query"
      /\ stage' = [stage EXCEPT ![w] = IF res.hasMore THEN "answered" ELSE "finished"]
      /\ cursor' = [cursor EXCEPT ![w] = IF q.page = "cursor" THEN res.nextCursor ELSE <<>>]
      /\ offset' = [offset EXCEPT ![w] = IF q.page = "offset" THEN res.nextOffset ELSE 0]
      /\ got' = [got EXCEPT ![w] = @ \o res.rows]
      /\ steady' = [steady EXCEPT ![w] = IF first THEN wanted ELSE @ \cap wanted]
      /\ all' = [all EXCEPT ![w] = IF first THEN wanted ELSE @]
      /\ still' = [still EXCEPT ![w] = first \/ (@ /\ wanted = all[w])]
      /\ UNCHANGED <<data, slots, win, query>>

AnswerOnce(w) ==
  /\ stage[w] = "query" /\ stage' = [stage EXCEPT ![w] = "answered"]
  /\ UNCHANGED <<data, slots, win, walk>>

\* The deferred release, behind the answer.
Release(w) ==
  /\ stage[w] \in {"answered", "finished"}
  /\ slots' = slots - 1
  /\ stage' = [stage EXCEPT ![w] = IF stage[w] = "answered" THEN "idle" ELSE "done"]
  /\ UNCHANGED <<data, win, walk>>

Request(w) == GetSlot(w) \/ WaitExpires(w) \/ QueryFails(w) \/ ClientGone(w) \/ Release(w)

PagingNext ==
  \/ \E k \in Kinds, ts \in (now - MaxLate)..now : Insert(k, ts)
  \/ Purge \/ Tick
  \/ \E w \in Walker : Ask(w) \/ RunQuery(w)
  \/ \E w \in Rival : AskOnce(w) \/ AnswerOnce(w)
  \/ \E w \in Client : Request(w)

PagingSpec == PagingInit /\ [][PagingNext]_pagingVars

\* Both time limits are kept and handlers run to their end; nothing is
\* assumed of a query, which may take longer than its deadline, nor of a
\* slot that becomes free, which others may always take first.
PagingFairSpec ==
  /\ PagingSpec
  /\ \A w \in Client : WF_pagingVars(WaitExpires(w)) /\ WF_pagingVars(QueryFails(w)) /\ WF_pagingVars(Release(w))

-----------------------------------------------------------------------------
(* Properties.                                                             *)

PagingTypeOK ==
  /\ Cardinality(table) <= MaxRows /\ now \in Start..MaxNow
  /\ \A r, s \in table : r.id = s.id => r = s
  /\ stage \in [Client -> RequestPlace] /\ query \in [Walker -> Queries]
  /\ \A w \in Walker : steady[w] \subseteq all[w]

\* searchSem holds exactly the searches that run or answer, never more than
\* there are slots (web_search.go:184).
SlotsExact ==
  /\ PagingTypeOK
  /\ slots = Cardinality({w \in Client : stage[w] \in {"query", "answered", "finished"}})
  /\ slots <= MaxSlots

GotRows(w) == {got[w][i] : i \in 1..Len(got[w])}

\* Pages follow one another in the order asked for, no row twice.
InOrder(w, q) ==
  \A i, j \in 1..Len(got[w]) : i < j => Before(q.sort, q.order, got[w][i], got[w][j])

\* "Keyset pagination carries the last row's (ts, id)" (search.go:331): while
\* rows come and go, late and with reused ids, a walk by cursor stays in
\* order, repeats nothing and at its end has every row that each of its pages
\* could have returned; a walk by offset promises this, and exactly the
\* matching rows, when they stayed the same.
WalkIsExact ==
  \A w \in Walker : LET q == query[w] IN
    /\ q.page = "cursor" \/ still[w] => InOrder(w, q)
    /\ stage[w] = "finished" =>
         /\ q.page = "cursor" => steady[w] \subseteq GotRows(w)
         /\ still[w] => GotRows(w) = all[w]

\* A request is answered or refused in the end, whoever holds the slots.
RequestsEnd == \A w \in Client : stage[w] \in {"wait", "query"} ~> stage[w] \in {"idle", "done"}

\* Every chart counts each spot of its window once, in the bucket of its
\* hour: what does not fit in the legend is in the last series (stats.go:827).
SeriesAddUp ==
  \A q \in Queries :
    LET window == Window(q.filter, now)
        rows == Wanted(q, window)
        series == TimeSeries(table, q.filter, window, Hour)
    IN  /\ Cardinality(DOMAIN series) <= MaxSeries + 1
        /\ \A b \in Buckets(window, Hour) :
             Total(series, DOMAIN series, b) = Cardinality({r \in rows : r.ts \div Hour = b})
=============================================================================
