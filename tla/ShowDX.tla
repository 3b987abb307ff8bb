------------------------------- MODULE ShowDX -------------------------------
(***************************************************************************)
(* SHOW/DX: the arguments are read from left to right into parameters      *)
(* (handleShowDX in commands.go), which select rows of the spots table     *)
(* (Query in store.go).  The arguments are the tokens a client types       *)
(* behind the command (module FilterCond).  Numbers and ranges are tokens  *)
(* of the constants below.  A row's texts are the sets of tokens that its  *)
(* callsign or spotter starts with, or that its comment contains; its age  *)
(* is in hours, and no two rows have the same.  Without a database the     *)
(* rows are the hub's history, newest first.                               *)
(***************************************************************************)
EXTENDS FilterCond, FiniteSets

CONSTANTS IntOf,    \* IntOf[v]: the positive number that v spells
          RangeOf,  \* RangeOf[v]: the two numbers of a range N-M or N/M
          IotaRef,  \* tokens that look like an island's reference
          Row,      \* the table
          Sendable  \* the rows that the session's preferences let through

ASSUME ShowAssumption ==
  /\ Sendable \subseteq Row
  /\ \A v \in DOMAIN IntOf : IntOf[v] \in Nat \ {0}
  /\ \A v \in DOMAIN RangeOf : RangeOf[v][1] < RangeOf[v][2]
  /\ \A r, s \in Row : r.age = s.age => r = s

\* The parameter each keyword with a value sets.
KeywordField ==
  [on |-> "band", freq |-> "band", call |-> "call", prefix |-> "call", by |-> "spotter",
   spotter |-> "spotter", info |-> "info", cont |-> "cont", continent |-> "cont",
   country |-> "country", countryname |-> "countryname", mode |-> "mode", type |-> "stream"]

\* spiderKeywords that say nothing here.
IdleKeyword == {"ip", "or", "and", "not", "dxcc", "origin", "exact", "real", "filt", "zone"}

NoParams ==
  [limit |-> 20, offset |-> 0, dayFrom |-> 1, dayTo |-> 0, freq |-> <<>>, bare |-> "",
   rangeSet |-> FALSE, is |-> [f \in {KeywordField[k] : k \in DOMAIN KeywordField} |-> ""]]

AtMost(n, m) == IF n < m THEN n ELSE m

IsFreq(r) == r[1] >= 1000 \/ r[2] >= 1000

SetIs(p, f, v) == [p EXCEPT !.is[f] = v]

\* A first range N-M: a frequency range, or the places N to M of the answer.
TakeRange(p, r) ==
  IF IsFreq(r) THEN [p EXCEPT !.rangeSet = TRUE, !.freq = r]
  ELSE [p EXCEPT !.rangeSet = TRUE, !.offset = r[1], !.limit = r[2] - r[1]]

TakeValue(p, field, v) ==
  CASE field = "band" /\ v \in DOMAIN RangeOf /\ IsFreq(RangeOf[v]) -> [p EXCEPT !.freq = RangeOf[v]]
    [] field = "stream" /\ v \in DOMAIN TypeName -> SetIs(p, field, TypeName[v])
    [] OTHER -> SetIs(p, field, v)

\* Faulty: the bounds of a range of days are swapped.
TakeDaysSwapped(p, v) ==
  CASE v \in DOMAIN RangeOf -> [p EXCEPT !.dayFrom = RangeOf[v][1], !.dayTo = RangeOf[v][2]]
    [] v \in DOMAIN IntOf -> [p EXCEPT !.dayFrom = AtMost(IntOf[v], 30)]
    [] OTHER -> p

TakeDays(p, v) ==
  CASE v \in DOMAIN RangeOf -> [p EXCEPT !.dayFrom = RangeOf[v][2], !.dayTo = RangeOf[v][1]]
    [] v \in DOMAIN IntOf -> [p EXCEPT !.dayFrom = AtMost(IntOf[v], 30)]
    [] OTHER -> p

\* What the token at i does, and where reading goes on.
Step(t, i, p) ==
  LET v == t[i]
      last == i = Len(t)
      after(n, q) == [next |-> i + n, p |-> q]
  IN  CASE v \in DOMAIN RangeOf /\ ~p.rangeSet -> after(1, TakeRange(p, RangeOf[v]))
        [] v \in DOMAIN IntOf -> after(1, [p EXCEPT !.limit = AtMost(IntOf[v], 200)])
        [] v \in DOMAIN KeywordField ->
             IF last THEN after(1, p) ELSE after(2, TakeValue(p, KeywordField[v], t[i + 1]))
        [] v \in {"day", "days"} -> IF last THEN after(1, p) ELSE after(2, TakeDays(p, t[i + 1]))
        [] v = "iota" ->
             IF ~last /\ t[i + 1] \in IotaRef THEN after(2, SetIs(p, "info", t[i + 1]))
                                              ELSE after(1, SetIs(p, "info", "iota"))
        [] v = "qsl" -> after(1, SetIs(p, "info", "qsl"))
        [] v \in IdleKeyword -> after(1, p)
        [] OTHER -> after(1, IF p.bare = "" THEN [p EXCEPT !.bare = v] ELSE p)

RECURSIVE ReadFrom(_, _, _)
ReadFrom(t, i, p) ==
  IF i > Len(t) THEN p ELSE LET s == Step(t, i, p) IN ReadFrom(t, s.next, s.p)

\* A bare word is a callsign unless CALL gave one.
Params(t) ==
  LET p == ReadFrom(t, 1, NoParams)
  IN  IF p.is.call = "" THEN SetIs(p, "call", p.bare) ELSE p

Selects(p, r) ==
  /\ r.age < 24 * p.dayFrom
  /\ p.dayTo > 0 => r.age > 24 * p.dayTo
  /\ p.freq # <<>> => p.freq[1] <= r.freq /\ r.freq <= p.freq[2]
  /\ \A f \in {"call", "spotter", "info"} : p.is[f] # "" => p.is[f] \in r[f]
  /\ \A f \in {"band", "cont", "mode", "stream"} : p.is[f] # "" => r[f] = p.is[f]
  /\ IF p.is.country # "" THEN r.country = p.is.country
     ELSE p.is.countryname # "" => r.countryname = p.is.countryname

\* The newest rows first, behind the offset and up to the limit.
Newest(rows, offset, limit) ==
  {r \in rows : Cardinality({x \in rows : x.age < r.age}) \in offset..(offset + limit - 1)}

Query(p) ==
  Newest({r \in Row : Selects(p, r)}, p.offset,
         IF p.limit <= 0 THEN 20 ELSE AtMost(p.limit, 200))

\* Without a database only the limit counts.
HandleShowDX(t, stored) ==
  IF stored THEN Query(Params(t)) ELSE Newest(Sendable, 0, Params(t).limit)

-----------------------------------------------------------------------------
(* What HELP and DX Spider's conventions say of the arguments.             *)

\* A token is the value of the keyword before it, unless that keyword is a
\* value itself.
IsValue(t) ==
  LET value[i \in 0..Len(t)] ==
        /\ i > 1 /\ ~value[i - 1]
        /\ t[i - 1] \notin DOMAIN IntOf \cup DOMAIN RangeOf
        /\ \/ t[i - 1] \in DOMAIN KeywordField \cup {"day", "days"}
           \/ t[i - 1] = "iota" /\ t[i] \in IotaRef
  IN  [i \in 1..Len(t) |-> value[i]]

\* The last of several indices; 0 for none.
LastOf(S) == CHOOSE m \in S \cup {0} : \A i \in S : i <= m

\* Tokens that are no value, and the one range among them that counts.
Free(t) == {i \in 1..Len(t) : ~IsValue(t)[i]}
FreeRange(t) ==
  LET ranges == {i \in Free(t) : t[i] \in DOMAIN RangeOf}
  IN  {i \in ranges : \A j \in ranges : i <= j}

\* The row fits everything the arguments name: the last of each kind counts,
\* of bare words the first, and a callsign of CALL before any bare word.
Fits(t, r) ==
  LET named(keys) == {i \in 1..Len(t) : IsValue(t)[i] /\ t[i - 1] \in keys}
      keysOf(f) == {k \in DOMAIN KeywordField : KeywordField[k] = f}
      freqs == {i \in FreeRange(t) \cup named(keysOf("band")) :
                  t[i] \in DOMAIN RangeOf /\ IsFreq(RangeOf[t[i]])}
      freq == RangeOf[t[LastOf(freqs)]]
      bands == named(keysOf("band")) \ freqs
      infos == named({"info", "iota"})
               \cup {i \in Free(t) : t[i] = "qsl" \/ (t[i] = "iota" /\ i + 1 \notin named({"iota"}))}
      days == {i \in named({"day", "days"}) : t[i] \in DOMAIN IntOf \cup DOMAIN RangeOf}
      back == LastOf(days)
      span == {LastOf({i \in days : t[i] \in DOMAIN RangeOf})} \ {0}
      words == {i \in Free(t) : t[i] \notin DOMAIN IntOf \cup DOMAIN RangeOf
                    \cup DOMAIN KeywordField \cup IdleKeyword \cup {"day", "days", "iota", "qsl"}}
               \cup {i \in Free(t) \ FreeRange(t) : t[i] \in DOMAIN RangeOf}
      calls == IF named(keysOf("call")) # {} THEN {LastOf(named(keysOf("call")))}
               ELSE {i \in words : \A j \in words : i <= j}
  IN  /\ \A i \in calls : t[i] \in r.call
      /\ freqs # {} => r.freq \in freq[1]..freq[2]
      /\ bands # {} => r.band = t[LastOf(bands)]
      /\ infos # {} => t[LastOf(infos)] \in r.info
      /\ r.age < 24 * (IF back = 0 THEN 1
                       ELSE IF t[back] \in DOMAIN IntOf THEN IntOf[t[back]] ELSE RangeOf[t[back]][2])
      /\ \A i \in span : RangeOf[t[i]][1] = 0 \/ r.age > 24 * RangeOf[t[i]][1]

\* How many of the newest rows are passed over, and how many are shown.
PlacesAsked(t) ==
  LET places == {i \in FreeRange(t) : ~IsFreq(RangeOf[t[i]])}
      counts == places \cup {i \in Free(t) : t[i] \in DOMAIN IntOf}
      i == LastOf(counts)
      skip == IF places = {} THEN 0 ELSE RangeOf[t[LastOf(places)]][1]
      count == IF i = 0 THEN 20 ELSE IF i \in places THEN RangeOf[t[i]][2] - skip ELSE IntOf[t[i]]
  IN  skip..(skip + count - 1)

\* SHOW/DX answers with exactly the newest of the rows that fit what was
\* asked, behind those a range N-M passes over (commands.go:600, store.go:466).
\* Without a database it answers with the newest that the session would be
\* sent, as many as were asked for, and nothing is passed over (commands.go:797).
ShowsAsAsked ==
  command = "show/dx" =>
    \A stored \in BOOLEAN :
      LET fit == IF stored THEN {r \in Row : Fits(toks, r)} ELSE Sendable
          asked == PlacesAsked(toks)
          places == IF stored THEN asked ELSE 0..(Cardinality(asked) - 1)
      IN  HandleShowDX(toks, stored) =
            {r \in fit : Cardinality({x \in fit : x.age < r.age}) \in places}
=============================================================================
