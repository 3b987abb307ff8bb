------------------------------ MODULE MCSearch ------------------------------
(***************************************************************************)
(* A small instance of SearchPaging around midnight: an hour is a second,  *)
(* the clock starts at midnight, and three rows are there, two of them of  *)
(* the same second.  The searches go backwards and forwards in time by     *)
(* cursor and through the CW speeds by offset.                             *)
(***************************************************************************)
EXTENDS SearchPaging

MCKind(st, mode, voice, band, wpm) ==
  [stream |-> st, mode |-> mode, voice |-> voice, band |-> band, wpm |-> wpm]
MCCW == MCKind("cwskimmer", "", "", 20, 25)
MCVoice == MCKind("voice", "", "USB", 40, 0)
MCKinds == {MCCW, MCVoice}

MCFirstRows == {Row(MCCW, 1, 23), Row(MCVoice, 2, 23), Row(MCCW, 3, 22)}

MCFilter(lookback, in, hourMin, hourMax) ==
  [from |-> None, to |-> None, lookback |-> lookback, in |-> in, notIn |-> [band |-> {80}],
   range |-> [c \in {} |-> <<0, 0>>], hourMin |-> hourMin, hourMax |-> hourMax]

MCQueries ==
  {[filter |-> MCFilter(4, [mode |-> {}], 23, 0), sort |-> "ts", order |-> "desc",
    limit |-> 1, page |-> "cursor"],
   [filter |-> MCFilter(9, [mode |-> {"CW", "USB"}], None, None), sort |-> "ts",
    order |-> "asc", limit |-> 5, page |-> "cursor"],
   [filter |-> MCFilter(9, [mode |-> {}], None, None), sort |-> "wpm", order |-> "desc",
    limit |-> 0, page |-> "offset"]}
=============================================================================
