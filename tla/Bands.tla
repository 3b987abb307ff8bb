------------------------------- MODULE Bands -------------------------------
(***************************************************************************)
(* The two band tables of the program and the terms that name frequencies. *)
(* spot.go derives a spot's band from its frequency (what SET/FILTER BAND  *)
(* compares); filter.go turns a band, a region, a band's segment or an     *)
(* explicit range into frequency ranges (what ON compares).  The tables    *)
(* are kept by hand in two files.  Frequencies are in units of 100 Hz; the *)
(* name b20m stands for the band 20m.                                      *)
(***************************************************************************)
EXTENDS Integers

CONSTANTS RangeTerm,  \* RangeTerm[v]: the explicit range that the term v spells
          SegTerm,    \* SegTerm[v]: the band and the segment of a term band/segment
          Probe       \* frequencies the tables are compared on

\* bandFreqRanges, in 100 Hz.
BandRange ==
  [b2200m |-> <<1357, 1378>>, b630m |-> <<4720, 4790>>, b600m |-> <<5000, 5100>>,
   b160m |-> <<18100, 20000>>, b80m |-> <<35000, 40000>>, b60m |-> <<52500, 54500>>,
   b40m |-> <<70000, 73000>>, b30m |-> <<101000, 101500>>,
   b20m |-> <<140000, 143500>>, b17m |-> <<180680, 181680>>,
   b15m |-> <<210000, 214500>>, b12m |-> <<248900, 249900>>,
   b11m |-> <<269650, 274050>>, b10m |-> <<280000, 297000>>,
   b6m |-> <<500000, 540000>>, hf |-> <<18000, 300000>>,
   vhf |-> <<300000, 3000000>>, uhf |-> <<3000000, 30000000>>]

\* No band's name is a range of numbers or has a slash.
ASSUME TermAssumption ==
  /\ \A v \in DOMAIN RangeTerm : RangeTerm[v][1] <= RangeTerm[v][2]
  /\ Probe \subseteq Int
  /\ (DOMAIN RangeTerm \cup DOMAIN SegTerm) \cap DOMAIN BandRange = {}

\* hfCWSegments and hfSSBSegments.
CWSegment ==
  [b160m |-> <<18100, 18380>>, b80m |-> <<35000, 35700>>, b60m |-> <<52500, 53660>>,
   b40m |-> <<70000, 70400>>, b30m |-> <<101000, 101300>>,
   b20m |-> <<140000, 140700>>, b17m |-> <<180680, 180950>>,
   b15m |-> <<210000, 210700>>, b12m |-> <<248900, 249150>>,
   b10m |-> <<280000, 280700>>, b6m |-> <<500000, 501000>>]

SSBSegment ==
  [b160m |-> <<18400, 20000>>, b80m |-> <<36000, 40000>>, b40m |-> <<70400, 73000>>,
   b20m |-> <<141000, 143500>>, b17m |-> <<181100, 181680>>,
   b15m |-> <<211500, 214500>>, b12m |-> <<249300, 249900>>,
   b10m |-> <<283000, 297000>>, b6m |-> <<501000, 540000>>]

SegmentName == [cw |-> "cw", data |-> "data", rtty |-> "data", ssb |-> "ssb", phone |-> "ssb"]

Whole(b) == IF b \in DOMAIN BandRange THEN {BandRange[b]} ELSE {}

\* A band without the segment falls back to the whole band; "data" always does.
SegmentRanges(b, seg) ==
  LET table == IF SegmentName[seg] = "cw" THEN CWSegment ELSE SSBSegment
  IN  CASE SegmentName[seg] = "data" -> Whole(b)
        [] SegmentName[seg] # "data" /\ b = "hf" -> {table[x] : x \in DOMAIN table}
        [] SegmentName[seg] # "data" /\ b \in DOMAIN table -> {table[b]}
        [] OTHER -> Whole(b)

\* The ranges of a term; none when it cannot be decoded.
DecodeFreqTerm(v) ==
  CASE v \in DOMAIN RangeTerm -> {RangeTerm[v]}
    [] v \in DOMAIN SegTerm /\ SegTerm[v][2] \in DOMAIN SegmentName ->
         SegmentRanges(SegTerm[v][1], SegTerm[v][2])
    [] OTHER -> Whole(v)

-----------------------------------------------------------------------------
(* spot.go.                                                                *)

\* bandRanges: the first range that holds a frequency names its band.
SpotBands ==
  <<<<"b2200m", 1357, 1378>>, <<"b630m", 4720, 4790>>, <<"b600m", 5000, 5100>>,
    <<"b160m", 18100, 20000>>, <<"b80m", 35000, 40000>>, <<"b60m", 52500, 54500>>,
    <<"b40m", 70000, 73000>>, <<"b30m", 101000, 101500>>,
    <<"b20m", 140000, 143500>>, <<"b17m", 180680, 181680>>,
    <<"b15m", 210000, 214500>>, <<"b12m", 248900, 249900>>,
    <<"b11m", 269650, 274050>>, <<"b10m", 280000, 297000>>,
    <<"b6m", 500000, 540000>>>>

Within(f, r) == r[1] <= f /\ f <= r[2]

\* Faulty: the upper edge does not belong to the band.
FreqToBandHalfOpen(f) ==
  LET hits == {i \in DOMAIN SpotBands : SpotBands[i][2] <= f /\ f < SpotBands[i][3]}
  IN  IF hits = {} THEN "" ELSE SpotBands[CHOOSE i \in hits : \A j \in hits : i <= j][1]

FreqToBand(f) ==
  LET hits == {i \in DOMAIN SpotBands : Within(f, <<SpotBands[i][2], SpotBands[i][3]>>)}
  IN  IF hits = {} THEN "" ELSE SpotBands[CHOOSE i \in hits : \A j \in hits : i <= j][1]

-----------------------------------------------------------------------------
(* client/main.go.                                                         *)

\* The desktop client's own table: narrower than the server's, but for 160m.
ClientBand ==
  [b \in DOMAIN BandRange \ {"b600m", "b11m", "hf", "vhf", "uhf"} |->
     CASE b = "b160m" -> <<18000, 20000>>
       [] b = "b60m"  -> <<52580, 54500>>
       [] OTHER       -> BandRange[b]]

\* The band a spot's context menu offers to list, accept or reject; none when
\* this is empty.
FreqKHzToBand(f) == {b \in DOMAIN ClientBand : Within(f, ClientBand[b])}

=============================================================================
