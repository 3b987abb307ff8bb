----------------------------- MODULE SpotQuery -----------------------------
(***************************************************************************)
(* What a query of the spots table returns: the filter of /api/search and  *)
(* /api/stats (stats.go), one page of a search (search.go) and a time      *)
(* series (stats.go).  The table is a set of rows with distinct ids.  A    *)
(* number column that is 0 was stored as NULL; a band stands for its name  *)
(* by its place in the alphabet, 0 for none.  Times are in seconds.        *)
(***************************************************************************)
EXTENDS Integers, Sequences, FiniteSets

CONSTANTS Hour,       \* seconds in an hour
          MaxWindow,  \* maxWindowDays, in seconds
          MaxLimit,   \* maxSearchLimit
          MaxOffset,  \* maxSearchOffset
          MaxSeries   \* series of a chart before the rest is folded into one

ASSUME QueryAssumption ==
  /\ Hour \in Nat \ {0} /\ MaxWindow \in Nat
  /\ MaxLimit \in Nat \ {0} /\ MaxOffset \in Nat /\ MaxSeries \in Nat \ {0}

None == -1

-----------------------------------------------------------------------------
(* StatsFilter.                                                            *)

\* The window of a filter with an absolute start or a lookback, as the
\* request is parsed; never further back than MaxWindow.
Window(f, now) ==
  LET from == IF f.from = None THEN now - f.lookback ELSE f.from
      to == IF f.to = None THEN now ELSE f.to
  IN  [ok |-> to > from, to |-> to,
       from |-> IF from < now - MaxWindow THEN now - MaxWindow ELSE from]

\* modeExpr
Mode(r) == IF r.mode # "" THEN r.mode
           ELSE IF r.voice # "" THEN r.voice
           ELSE IF r.stream = "cwskimmer" THEN "CW" ELSE ""

Column(r, c) == IF c = "mode" THEN Mode(r) ELSE r[c]

HourOf(ts) == (ts \div Hour) % 24

\* hour_min above hour_max is a window through midnight.
InHours(f, h) ==
  IF f.hourMin # None /\ f.hourMax # None /\ f.hourMin > f.hourMax
  THEN h >= f.hourMin \/ h <= f.hourMax
  ELSE /\ f.hourMin # None => h >= f.hourMin
       /\ f.hourMax # None => h <= f.hourMax

\* The WHERE clause: lists of values, excluded values (COALESCE: no value is
\* not excluded), ranges (a NULL is in none).
Matches(f, win, r) ==
  /\ win.from <= r.ts /\ r.ts < win.to
  /\ \A c \in DOMAIN f.in : f.in[c] = {} \/ Column(r, c) \in f.in[c]
  /\ \A c \in DOMAIN f.notIn : r[c] \notin f.notIn[c]
  /\ \A c \in DOMAIN f.range :
       r[c] # 0 /\ f.range[c][1] <= r[c] /\ r[c] <= f.range[c][2]
  /\ InHours(f, HourOf(r.ts))

-----------------------------------------------------------------------------
(* One page.                                                               *)

\* A request as ParseSearchParams accepts it; nothing for one it refuses.
\* cursor is <<>> or the <<ts, id>> of the last row seen.
Accepted(sort, offset, cursor, win) ==
  /\ win.ok
  /\ offset <= MaxOffset
  /\ cursor # <<>> => sort = "ts" /\ offset = 0

Limit(n) == IF n < 1 THEN 1 ELSE IF n > MaxLimit THEN MaxLimit ELSE n

\* ORDER BY: the sort column, NULLs last whatever the direction, then the id.
Before(sort, order, a, b) ==
  LET less(x, y) == IF order = "desc" THEN x > y ELSE x < y
      ordered == \/ less(a[sort], b[sort])
                 \/ a[sort] = b[sort] /\ less(a.id, b.id)
  IN  IF sort # "ts" /\ (a[sort] = 0) # (b[sort] = 0) THEN b[sort] = 0 ELSE ordered

\* The rows of S in the order that precedes gives.
Sorted(S, precedes(_, _)) ==
  [i \in 1..Cardinality(S) |->
     CHOOSE r \in S : Cardinality({x \in S : precedes(x, r)}) = i - 1]

\* Faulty: the cursor compares the time only.
BeyondCursorByTime(order, cursor, r) ==
  cursor = <<>> \/ (IF order = "desc" THEN r.ts < cursor[1] ELSE r.ts > cursor[1])

\* The rows behind the cursor: the id decides among rows of one second.
BeyondCursor(order, cursor, r) ==
  \/ cursor = <<>>
  \/ IF order = "desc" THEN r.ts < cursor[1] \/ (r.ts = cursor[1] /\ r.id < cursor[2])
                       ELSE r.ts > cursor[1] \/ (r.ts = cursor[1] /\ r.id > cursor[2])

\* LIMIT and OFFSET: the places lo..hi, as far as there are any.
Slice(s, lo, hi) == SubSeq(s, lo, IF hi < Len(s) THEN hi ELSE Len(s))

\* Search fetches one row more than the page to see whether there is another.
Search(table, q, win, offset, cursor) ==
  LET rows == {r \in table : Matches(q.filter, win, r) /\ BeyondCursor(q.order, cursor, r)}
      fetched == Slice(Sorted(rows, LAMBDA a, b : Before(q.sort, q.order, a, b)),
                       offset + 1, offset + Limit(q.limit) + 1)
      page == Slice(fetched, 1, Limit(q.limit))
      more == Len(fetched) > Limit(q.limit)
  IN  [rows |-> page, hasMore |-> more,
       nextCursor |-> IF more /\ q.sort = "ts"
                      THEN <<page[Len(page)].ts, page[Len(page)].id>> ELSE <<>>,
       nextOffset |-> IF more THEN offset + Len(page) ELSE 0]

-----------------------------------------------------------------------------
(* Time series of the count, one series for each band.                     *)

OtherSeries == None

Buckets(win, step) == (win.from \div step)..((win.to - 1) \div step)

\* What the series of some keys have in bucket b, all together.
Total(count, keys, b) ==
  LET sum[S \in SUBSET keys] ==
        IF S = {} THEN 0 ELSE LET k == CHOOSE k \in S : TRUE IN count[k][b] + sum[S \ {k}]
  IN  sum[keys]

\* Faulty: the smallest series are left out.
FoldTailDrops(count, kept, dropped) == [k \in kept |-> count[k]]

\* Series behind the MaxSeries heaviest are summed into one.
FoldTail(count, kept, dropped) ==
  [k \in kept \cup (IF dropped = {} THEN {} ELSE {OtherSeries}) |->
     IF k = OtherSeries
     THEN [b \in UNION {DOMAIN count[x] : x \in dropped} |-> Total(count, dropped, b)]
     ELSE count[k]]

\* Every bucket of the window is there, the empty ones with 0.
TimeSeries(table, f, win, step) ==
  LET rows == {r \in table : Matches(f, win, r)}
      keys == {r.band : r \in rows}
      count == [k \in keys |-> [b \in Buckets(win, step) |->
                  Cardinality({r \in rows : r.band = k /\ r.ts \div step = b})]]
      weight(k) == Cardinality({r \in rows : r.band = k})
      ranked == Sorted(keys, LAMBDA j, k : \/ weight(j) > weight(k)
                                           \/ weight(j) = weight(k) /\ j < k)
      kept == {ranked[i] : i \in 1..Len(ranked) \cap 1..MaxSeries}
  IN  FoldTail(count, kept, keys \ kept)
=============================================================================
