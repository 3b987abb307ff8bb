---------------------------- MODULE StreamParsers ----------------------------
(***************************************************************************)
(* What the five stream consumers make of a complete event: the Parse      *)
(* functions of spot.go and the one of sstv.go, which keeps a window of    *)
(* stations and asks UberSDR's CTY service before it lets a spot through.  *)
(* Each consumer is a goroutine of its own (SSEConsumer); this module      *)
(* starts where its event is complete and ends before hub.Publish, which   *)
(* module Ingest adds.                                                     *)
(*                                                                         *)
(* An event says whether it is of the stream's own type and parses at all, *)
(* and its callsign; an SSTV picture also the band of its frequency, or    *)
(* None.  Every other field is copied.                                     *)
(***************************************************************************)
EXTENDS Naturals, Sequences

CONSTANTS Call,        \* callsigns that are well formed
          BadCall,     \* FSK ID text that is not a callsign
          Band,        \* bands of the table
          Window,      \* newSSTVParser's dedup, in ticks; 0 turns it off
          MaxTime      \* bound on the clock

None == ""  \* a field that is empty

ASSUME ParserAssumption ==
  /\ BadCall \notin Call /\ None \notin Call /\ "N0CALL" \notin Call
  /\ Window \in Nat /\ MaxTime \in Nat

VARIABLES now,
          lastSeen, \* newSSTVParser's map, by callsign and band
          asking,   \* the picture whose callsign is being looked up, or 0
          pictures  \* history: the pictures, with arrival and fate

sstvVars == <<lastSeen, asking, pictures>>

Stream == {"dxcluster", "decoder", "cwskimmer", "voice"}
Place == Band \cup {None}
Station == Call \X Place
Never == MaxTime + Window + 1

Event == [own : BOOLEAN, call : Call \cup {None}]

ParsersInit ==
  /\ now = 0
  /\ lastSeen = [s \in Station |-> Never]
  /\ asking = 0
  /\ pictures = <<>>

-----------------------------------------------------------------------------
(* The four parsers of UberSDR's own streams.  Each returns the set of the *)
(* spots it makes, one or none.                                            *)

SpotOf(stream, call) == {[stream |-> stream, call |-> call]}

parseDXSpot(e) ==
  IF e.own /\ e.call # None THEN SpotOf("dxcluster", e.call) ELSE {}

parseDecoder(e) ==
  IF e.own /\ e.call # None THEN SpotOf("decoder", e.call) ELSE {}

parseCWSpot(e) ==
  IF e.own /\ e.call # None THEN SpotOf("cwskimmer", e.call) ELSE {}

\* A voice signal nobody has named is kept under a stand-in.
parseVoiceActivity(e) ==
  IF e.own THEN SpotOf("voice", IF e.call = None THEN "N0CALL" ELSE e.call)
  ELSE {}

Parse(stream, e) ==
  CASE stream = "dxcluster" -> parseDXSpot(e)
    [] stream = "decoder"   -> parseDecoder(e)
    [] stream = "cwskimmer" -> parseCWSpot(e)
    [] stream = "voice"     -> parseVoiceActivity(e)

-----------------------------------------------------------------------------
Tick ==
  /\ now < MaxTime
  /\ now' = now + 1
  /\ UNCHANGED sstvVars

(* newSSTVParser's function, up to the lookup.                             *)

Arrives(station, fate) ==
  pictures' = Append(pictures, [station |-> station, at |-> now, fate |-> fate])

Held(s) == Window > 0 /\ lastSeen[s] # Never /\ now - lastSeen[s] < Window

\* Faulty: the sweep measures with one tick less than the window.
MarkedSweepsEarly(s) ==
  [t \in Station |-> IF t = s THEN now
                     ELSE IF lastSeen[t] # Never /\ now - lastSeen[t] < Window - 1
                          THEN lastSeen[t] ELSE Never]

\* The station's time is set and every entry past the window is dropped.
Marked(s) ==
  [t \in Station |-> IF t = s THEN now
                     ELSE IF lastSeen[t] # Never /\ now - lastSeen[t] < Window
                          THEN lastSeen[t] ELSE Never]

\* An FSK ID that is not a callsign is ignored.
ReadBadPicture ==
  /\ asking = 0
  /\ Arrives(<<BadCall, None>>, "ignored")
  /\ UNCHANGED <<now, lastSeen, asking>>

\* A station seen within the window is held back.
ReadRepeat ==
  \E s \in Station :
    /\ asking = 0
    /\ Held(s)
    /\ Arrives(s, "held")
    /\ UNCHANGED <<now, lastSeen, asking>>

\* Any other is marked as seen, before its callsign is looked up.
ReadPicture ==
  \E s \in Station :
    /\ asking = 0
    /\ ~Held(s)
    /\ Arrives(s, "asked")
    /\ lastSeen' = IF Window > 0 THEN Marked(s) ELSE lastSeen
    /\ asking' = Len(pictures) + 1
    /\ UNCHANGED now

\* lookupCTY has placed the callsign, or failed: the spot goes out.
Placed ==
  /\ asking > 0
  /\ pictures' = [pictures EXCEPT ![asking].fate = "spotted"]
  /\ asking' = 0
  /\ UNCHANGED <<now, lastSeen>>

\* UberSDR answers that there is no such prefix: no spot, and the mark stays.
NotPlaced ==
  /\ asking > 0
  /\ pictures' = [pictures EXCEPT ![asking].fate = "unknown"]
  /\ asking' = 0
  /\ UNCHANGED <<now, lastSeen>>

-----------------------------------------------------------------------------
(* Properties.                                                             *)

Pictures == 1..Len(pictures)

Near(i, j) == /\ i < j
              /\ pictures[i].station = pictures[j].station
              /\ pictures[j].at < pictures[i].at + Window

\* "A callsign is spotted at most once per band per dedup window"
\* (sstv.go:35), measured from picture to picture; and a picture is held back
\* only when an earlier one of the same station and band, not held back
\* itself, is less than a window old, so that a chain of repeats cannot
\* silence a station for longer.
OneSpotPerWindow ==
  /\ \A i, j \in Pictures :
       pictures[i].fate = "spotted" /\ pictures[j].fate = "spotted" => ~Near(i, j)
  /\ \A j \in Pictures : pictures[j].fate = "held" =>
       \E i \in Pictures : Near(i, j) /\ pictures[i].fate \in {"asked", "spotted", "unknown"}
=============================================================================
