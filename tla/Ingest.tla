------------------------------- MODULE Ingest -------------------------------
(***************************************************************************)
(* The producers of the hub's input together with the hub's own dedup      *)
(* window: the parsers' spots (StreamParsers), the spots clients submit    *)
(* with the DX command, and their echoes.  A submission is published and   *)
(* then sent to UberSDR by a goroutine (injectSpot); UberSDR may send it   *)
(* back as an event of the dxcluster stream at any later time, and again.  *)
(* The hub is module Hub without sessions.                                 *)
(***************************************************************************)
EXTENDS StreamParsers

CONSTANTS InCap,      \* capacity of Hub.in
          HubWindow,  \* the hub's dedup window, in ticks
          MaxEvents,  \* bound on pictures, events of other streams and submissions
          MaxSpots    \* bound on the spots the hub is offered

ASSUME IngestAssumption ==
  /\ InCap \in Nat \ {0} /\ HubWindow \in Nat \ {0}
  /\ MaxEvents \in Nat /\ MaxSpots \in Nat

VARIABLES in, dedup, ring, log, \* of Hub
          subQ, unsubQ, subs, ch, closed, crashed, sess, cursor, \* of Hub, for sessions
          heard,     \* events of UberSDR's own streams so far
          inject,    \* inject[n]: injectSpot of submission n, and its echo
          lost,      \* history: submissions dropped at a full hub
          taken      \* history: what Run took, when, and whether it was accepted

ingestVars == <<heard, inject, lost, taken>>
hubVars == <<in, dedup, ring, log, subQ, unsubQ, subs, ch, closed, crashed, sess, cursor>>
vars == <<now, sstvVars, hubVars, ingestVars>>

\* Callsign and frequency; one frequency stands for each band.
Key == (Call \cup {"N0CALL"}) \X Place
Local == "localspot"

TheHub == INSTANCE Hub WITH
  Stream <- Stream \cup {Local, "sstv"}, Sub <- {}, ReqCap <- 1, ChanCap <- 1,
  RingSize <- 1, Window <- HubWindow, MaxLog <- MaxSpots

Init ==
  /\ ParsersInit /\ TheHub!Init
  /\ heard = 0 /\ inject = <<>> /\ lost = {} /\ taken = <<>>

-----------------------------------------------------------------------------
\* hub.Publish; of is the submission the spot is or echoes, 0 for none.
Publish(key, stream, of) ==
  /\ Len(taken) + Len(in) < MaxSpots
  /\ TheHub!Publish([key |-> key, stream |-> stream, of |-> of])

Room == Len(pictures) + heard + Len(inject) < MaxEvents

\* A complete event of one of UberSDR's own streams.
ReadEvent ==
  \E stream \in Stream, e \in Event, place \in Place :
    \E spot \in Parse(stream, e) :
      /\ Publish(<<spot.call, place>>, spot.stream, 0)
      /\ heard' = heard + 1
      /\ UNCHANGED <<sstvVars, inject, lost, taken>>

\* The SSTV parser lets a picture's spot through.
ReadPlaced ==
  /\ Placed
  /\ Publish(pictures[asking].station, "sstv", 0)
  /\ UNCHANGED ingestVars

\* The last steps of handleDX: the spot is published, and then the goroutine
\* that tells UberSDR is started.
SubmitSpot(key) ==
  LET n == Len(inject) + 1
  IN  /\ Publish(key, Local, n)
      /\ inject' = Append(inject, [key |-> key, state |-> "due"])
      /\ lost' = IF Len(in) < InCap THEN lost ELSE lost \cup {n}
      /\ UNCHANGED <<sstvVars, heard, taken>>

\* injectSpot: UberSDR takes the spot, or refuses it or is not reached.
\* Whether its answer arrives makes no difference.
InjectSpot(n) ==
  /\ inject[n].state = "due"
  /\ \E state \in {"sent", "failed"} : inject' = [inject EXCEPT ![n].state = state]
  /\ UNCHANGED <<now, sstvVars, hubVars, heard, lost, taken>>

\* UberSDR sends the spot out again (external), once or more often, and the
\* consumer of the dxcluster stream publishes it like any other.
EchoArrives(n) ==
  /\ inject[n].state = "sent"
  /\ \E spot \in parseDXSpot([own |-> TRUE, call |-> inject[n].key[1]]) :
       Publish(<<spot.call, inject[n].key[2]>>, spot.stream, n)
  /\ UNCHANGED <<sstvVars, heard, inject, lost, taken>>

\* Run takes the next spot.
Take(accepted) ==
  /\ IF accepted THEN TheHub!AcceptSpot ELSE TheHub!DropDup
  /\ taken' = Append(taken, [spot |-> Head(in), at |-> now, accepted |-> accepted])
  /\ UNCHANGED <<sstvVars, heard, inject, lost>>

Quiet == UNCHANGED <<hubVars, ingestVars>>

Next ==
  \/ Tick /\ Quiet
  \/ Room /\ (ReadBadPicture \/ ReadRepeat \/ ReadPicture) /\ Quiet
  \/ NotPlaced /\ Quiet
  \/ ReadPlaced
  \/ Room /\ ReadEvent
  \/ Room /\ \E key \in Call \X Place : SubmitSpot(key)
  \/ \E n \in 1..Len(inject) : InjectSpot(n) \/ EchoArrives(n)
  \/ \E accepted \in BOOLEAN : Take(accepted)

Spec == Init /\ [][Next]_vars

-----------------------------------------------------------------------------
(* Properties.                                                             *)

\* The spot taken as the i-th stands for the one taken as the j-th: it is the
\* same one, or an accepted one with its callsign and frequency less than the
\* hub's window before it.
StandsFor(i, j) ==
  /\ taken[i].accepted /\ taken[i].spot.key = taken[j].spot.key
  /\ i = j \/ (i < j /\ taken[j].at < taken[i].at + HubWindow)

\* Every spot the hub takes is shown, or a spot that stands for it was, so that
\* a chain of repeats does not hold back the next one (hub.go:99).  The echo of
\* a submission is shown as upstream's spot only if the submission was lost at
\* a full hub, or was taken first and the window of the spot that stood for it
\* is over ("a locally-submitted spot and its echo arriving back via the
\* upstream DX cluster stream share the same key", hub.go:11-12).
EchoAbsorbed ==
  \A j \in 1..Len(taken) :
    /\ \E i \in 1..j : StandsFor(i, j)
    /\ (taken[j].accepted /\ taken[j].spot.stream = "dxcluster")
       => \/ taken[j].spot.of \in lost \cup {0}
          \/ \E i, s \in 1..(j - 1) :
               /\ taken[i].spot.of = taken[j].spot.of
               /\ StandsFor(s, i)
               /\ taken[s].at + HubWindow <= taken[j].at
=============================================================================
