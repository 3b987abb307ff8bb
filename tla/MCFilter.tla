------------------------------ MODULE MCFilter ------------------------------
(***************************************************************************)
(* Every expression of up to six tokens over the connectives, parentheses, *)
(* two fields and two comma lists: a band segment with a range, and a type *)
(* with a word that is none.  Each list is a value that does not decode    *)
(* for the other field, or a callsign prefix.  The frequencies probed are  *)
(* the edges of every range and their neighbours.  Every SHOW/DX with up   *)
(* to four arguments over four rows, three of which the session is sent.   *)
(***************************************************************************)
EXTENDS FilterMeaning, ShowDX

MCToken ==
  [c \in {"filter", "show/dx"} |->
     IF c = "filter"
     THEN {"and", "or", "not", "(", ")", "on", "type", "b20m/cw,14200-14210", "rbn,dl"}
     ELSE {"on", "call", "day", "iota", "or", "2", "1-3", "14000-14100", "b20m", "dl", "eu-064"}]
\* For HELP's terms.
MCHelpToken == [c \in {"filter"} |-> {"on", "b20m", "iota"}]
MCMaxTokens == [c \in {"filter", "show/dx"} |-> IF c = "filter" THEN 6 ELSE 4]
MCComma ==
  [x \in {"b20m/cw,14200-14210", "rbn,dl"} |->
     IF x = "rbn,dl" THEN {"rbn", "dl"} ELSE {"b20m/cw", "14200-14210"}]
MCRangeTerm == [x \in {"14200-14210"} |-> <<142000, 142100>>]
MCSegment == (DOMAIN SSBSegment \cup {"hf"}) \X {"cw", "ssb"}
MCSegTerm ==
  [x \in {p[1] \o "/" \o p[2] : p \in MCSegment} |->
     CHOOSE p \in MCSegment : p[1] \o "/" \o p[2] = x]

Edges ==
  UNION {{t[b][e] : b \in DOMAIN t, e \in {1, 2}} : t \in {BandRange, ClientBand, CWSegment, SSBSegment}}
MCProbe == UNION {{f - 1, f, f + 1} : f \in Edges}

MCSampleOf(st, f, c) ==
  [stream |-> st, freq |-> f, call |-> c, spotter |-> {}, info |-> {},
   mode |-> "", voicemode |-> "", cont |-> "", country |-> ""]

\* In the segment, in the range or in neither; of the type or not; "and",
\* "or" and a list occur as bare words too.
MCSample ==
  {MCSampleOf("dxcluster", 140200, {"and", "rbn,dl"})} \cup
  {MCSampleOf(st, f, c) : st \in {"dxcluster", "cwskimmer"}, f \in {142050, 143000},
                        c \in {{}, {"or"}}}

MCIntOf == [v \in {"2"} |-> 2]
MCRangeOf == [v \in {"1-3", "14000-14100"} |-> IF v = "1-3" THEN <<1, 3>> ELSE <<14000, 14100>>]
MCIotaRef == {"eu-064"}
MCRowOf(age, freq, call, info) ==
  [age |-> age, freq |-> freq, call |-> call, info |-> info, spotter |-> {}, cont |-> "EU",
   country |-> "", countryname |-> "", mode |-> "", stream |-> "dxcluster",
   band |-> IF freq < 14500 THEN "b20m" ELSE "b15m"]
MCRow ==
  {MCRowOf(1, 14050, {"dl"}, {"iota", "eu-064"}), MCRowOf(3, 14200, {"dl"}, {}),
   MCRowOf(20, 21010, {"g"}, {"iota"}), MCRowOf(30, 14050, {"dl"}, {"eu-064"})}
MCSendable == {r \in MCRow : r.freq # 14200}
=============================================================================
