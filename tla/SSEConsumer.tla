---------------------------- MODULE SSEConsumer ----------------------------
(***************************************************************************)
(* One upstream event stream: the goroutine of consumeStream, which        *)
(* connects, reads, waits and connects again until the program stops, and  *)
(* the line reader of readStream, which assembles events from lines and    *)
(* publishes the spots in them (sse_consumer.go).                          *)
(*                                                                         *)
(* The upstream server sends one line at a time and may drop the           *)
(* connection anywhere.  A line knows the number of the event it belongs   *)
(* to, which the consumer never looks at.  The data of an event is a spot  *)
(* or something Parse turns down.                                          *)
(***************************************************************************)
EXTENDS Naturals, Sequences

CONSTANTS Event,                  \* StreamConfig.Event, or NoEvent
          NoEvent,
          BackoffMin, BackoffMax, \* backoffMin and backoffMax, in seconds
          MaxLines,               \* bound on the lines the server ever sends
          MaxWire                 \* bound on the lines under way

ASSUME ConsumerAssumption ==
  /\ BackoffMin \in Nat \ {0} /\ BackoffMax \in Nat /\ BackoffMin <= BackoffMax
  /\ MaxLines \in Nat /\ MaxWire \in Nat

VARIABLES pc,        \* where the goroutine is
          ctxDone,   \* the context was cancelled
          backoff,   \* consumeStream's backoff
          conn,      \* the connection: "none", "up", or "down"
          wire,      \* lines sent and not yet scanned
          dataLine,  \* readStream's dataLine: <<>> or the line it came from
          eventName, \* readStream's eventName, likewise
          published, \* numbers of the events whose spot was published
          current,   \* history: the event the server is sending
          events,    \* history: the events the server completed
          scanned,   \* history: numbers of the events read to their end
          lines      \* history: how many lines were sent

readVars == <<dataLine, eventName>>
histVars == <<current, events, lines>>
vars == <<pc, ctxDone, backoff, conn, wire, readVars, published, scanned, histVars>>

\* An event as the server means it: its last data, its last name, and
\* whether a line of another field follows that data.
NewEvent == [data |-> "none", name |-> NoEvent, split |-> FALSE]

LineKind == {"data", "event", "other", "blank"}
Data == {"spot", "junk"}
Name == {Event, "heartbeat"} \ {NoEvent}

Init ==
  /\ pc = "check"
  /\ ctxDone = FALSE
  /\ backoff = BackoffMin
  /\ conn = "none"
  /\ wire = <<>>
  /\ dataLine = <<>> /\ eventName = <<>>
  /\ published = <<>>
  /\ current = NewEvent
  /\ events = <<>>
  /\ scanned = {}
  /\ lines = 0

-----------------------------------------------------------------------------
(* The upstream server and the network.                                    *)

Send(kind, v) ==
  /\ conn = "up"
  /\ lines < MaxLines /\ Len(wire) < MaxWire
  /\ lines' = lines + 1
  /\ wire' = Append(wire, [kind |-> kind, v |-> v, n |-> Len(events) + 1])
  /\ UNCHANGED <<pc, ctxDone, backoff, conn, readVars, published, scanned>>

SendData ==
  \E d \in Data :
    /\ Send("data", d)
    /\ current' = [current EXCEPT !.data = d, !.split = FALSE]
    /\ UNCHANGED events

SendName ==
  \E name \in Name :
    /\ Send("event", name)
    /\ current' = [current EXCEPT !.name = name]
    /\ UNCHANGED events

\* A comment, an id: or a retry: line.
SendOther ==
  /\ Send("other", "none")
  /\ current' = [current EXCEPT !.split = (current.data # "none")]
  /\ UNCHANGED events

SendBlank ==
  /\ Send("blank", "none")
  /\ events' = Append(events, current)
  /\ current' = NewEvent

\* The connection ends; some of what was sent may never arrive.
Drop ==
  /\ conn = "up"
  /\ conn' = "down"
  /\ \E k \in 0..Len(wire) : wire' = SubSeq(wire, 1, k)
  /\ current' = NewEvent
  /\ UNCHANGED <<pc, ctxDone, backoff, readVars, published, scanned, events, lines>>

\* The signal handler of main.
Cancel ==
  /\ ~ctxDone
  /\ ctxDone' = TRUE
  /\ UNCHANGED <<pc, backoff, conn, wire, readVars, published, scanned, histVars>>

-----------------------------------------------------------------------------
(* consumeStream                                                           *)

\* The select at the head of the loop.
Check ==
  /\ pc = "check"
  /\ pc' = IF ctxDone THEN "stopped" ELSE "connect"
  /\ UNCHANGED <<ctxDone, backoff, conn, wire, readVars, published, scanned, histVars>>

\* The request is answered with 200 and the reading starts afresh.
Connect ==
  /\ pc = "connect"
  /\ ~ctxDone
  /\ pc' = "read"
  /\ conn' = "up"
  /\ wire' = <<>>
  /\ dataLine' = <<>> /\ eventName' = <<>>
  /\ UNCHANGED <<ctxDone, backoff, published, scanned, histVars>>

\* The request fails, or is answered with 503 or another status.
ConnectFails ==
  /\ pc = "connect"
  /\ pc' = "wait"
  /\ UNCHANGED <<ctxDone, backoff, conn, wire, readVars, published, scanned, histVars>>

\* Faulty: an ended stream ends the consumer.
ReadEndsForGood ==
  /\ pc = "read"
  /\ ctxDone \/ (conn = "down" /\ wire = <<>>)
  /\ pc' = "stopped"
  /\ conn' = "none"
  /\ wire' = <<>>
  /\ current' = NewEvent
  /\ UNCHANGED <<ctxDone, backoff, readVars, published, scanned, events, lines>>

\* Faulty: the request does not carry the context.
ReadEndsNoContext ==
  /\ pc = "read"
  /\ conn = "down" /\ wire = <<>>
  /\ pc' = "wait"
  /\ conn' = "none"
  /\ wire' = <<>>
  /\ current' = NewEvent
  /\ UNCHANGED <<ctxDone, backoff, readVars, published, scanned, events, lines>>

\* Scan reports the end: nothing is left to read, or the cancelled context
\* has broken off the reading.
ReadEnds ==
  /\ pc = "read"
  /\ ctxDone \/ (conn = "down" /\ wire = <<>>)
  /\ pc' = "wait"
  /\ conn' = "none"
  /\ wire' = <<>>
  /\ current' = NewEvent
  /\ UNCHANGED <<ctxDone, backoff, readVars, published, scanned, events, lines>>

\* The select after a connection: the context or the timer; both may be ready.
Wait ==
  /\ pc = "wait"
  /\ \/ /\ ctxDone
        /\ pc' = "stopped"
        /\ UNCHANGED backoff
     \/ /\ pc' = "check"
        /\ backoff' = IF 2 * backoff > BackoffMax THEN BackoffMax ELSE 2 * backoff
  /\ UNCHANGED <<ctxDone, conn, wire, readVars, published, scanned, histVars>>

-----------------------------------------------------------------------------
(* readStream: one scanned line, by the cases of its switch.               *)

Scan(kind) ==
  /\ pc = "read"
  /\ wire # <<>>
  /\ Head(wire).kind = kind
  /\ wire' = Tail(wire)
  /\ UNCHANGED <<pc, ctxDone, backoff, conn, histVars>>

ScanData ==
  /\ Scan("data")
  /\ dataLine' = <<Head(wire)>>
  /\ UNCHANGED <<eventName, published, scanned>>

ScanEvent ==
  /\ Scan("event")
  /\ eventName' = <<Head(wire)>>
  /\ UNCHANGED <<dataLine, published, scanned>>

\* There is data, its event is one this stream keeps, and Parse accepts it.
Wanted ==
  /\ dataLine # <<>>
  /\ Event = NoEvent \/ (eventName # <<>> /\ eventName[1].v = Event)
  /\ dataLine[1].v = "spot"

\* Faulty: the event name is kept for the next event.
ScanBlankKeepsName ==
  /\ Scan("blank")
  /\ published' = IF Wanted THEN Append(published, dataLine[1].n) ELSE published
  /\ dataLine' = <<>>
  /\ scanned' = scanned \cup {Head(wire).n}
  /\ UNCHANGED eventName

\* The end of an event: hub.Publish, which never blocks.
ScanBlank ==
  /\ Scan("blank")
  /\ published' = IF Wanted THEN Append(published, dataLine[1].n) ELSE published
  /\ dataLine' = <<>> /\ eventName' = <<>>
  /\ scanned' = scanned \cup {Head(wire).n}

\* The default case empties dataLine.
ScanOther ==
  /\ Scan("other")
  /\ dataLine' = <<>>
  /\ UNCHANGED <<eventName, published, scanned>>

ReadLine == ScanData \/ ScanEvent \/ ScanBlank \/ ScanOther

Server == SendData \/ SendName \/ SendOther \/ SendBlank \/ Drop

Next ==
  \/ Server \/ Cancel
  \/ Check \/ Connect \/ ConnectFails \/ ReadEnds \/ Wait
  \/ ReadLine

Spec == Init /\ [][Next]_vars

\* The goroutine runs, its timer fires and a request is answered or fails.
\* Nothing is assumed of the server, which may keep a connection for ever.
FairSpec ==
  /\ Spec
  /\ WF_vars(Check) /\ WF_vars(Connect \/ ConnectFails)
  /\ WF_vars(ReadLine \/ ReadEnds) /\ WF_vars(ReadEnds)
  /\ WF_vars(Wait)

-----------------------------------------------------------------------------
(* Properties.                                                             *)

\* Every variable has its type, the wait between two attempts keeps between
\* its limits, and the consumer holds the one connection it reads from.
TypeOK ==
  /\ pc \in {"check", "connect", "read", "wait", "stopped"}
  /\ ctxDone \in BOOLEAN
  /\ backoff \in BackoffMin..BackoffMax
  /\ conn \in {"none", "up", "down"} /\ (conn # "none" <=> pc = "read")
  /\ Len(wire) <= MaxWire /\ \A i \in 1..Len(wire) : wire[i].kind \in LineKind
  /\ Len(dataLine) <= 1 /\ Len(eventName) <= 1
  /\ published \in Seq(1..Len(events))
  /\ scanned \subseteq 1..Len(events)
  /\ lines \in 0..MaxLines

\* The server meant event n to carry a spot for this stream.
Meant(n) == /\ events[n].data = "spot"
            /\ Event = NoEvent \/ events[n].name = Event

Increasing(q) == \A i, j \in 1..Len(q) : i < j => q[i] < q[j]

Published == {published[i] : i \in 1..Len(published)}

\* Of the events read to their end, those that carry a spot for this stream
\* are published, once each and in order, and no other: no data or name of
\* one event, or of a broken connection, reaches another event.  An event
\* with a line of another field behind its data is lost.
PublishedIsMeant ==
  /\ TypeOK
  /\ Increasing(published)
  /\ Published = {n \in scanned : Meant(n) /\ ~events[n].split}

\* A consumer whose context is cancelled ends, whatever it was doing.
StopsWhenCancelled == ctxDone ~> pc = "stopped"

\* A dropped connection is followed by another attempt (README.md:659).
KeepsTrying == conn = "down" ~> (pc = "connect" \/ ctxDone)
=============================================================================
