--------------------------- MODULE TelnetSession ---------------------------
(***************************************************************************)
(* One telnet connection and the goroutines that serve it (handleConn in   *)
(* telnet.go), for a set of connections that share the client counter and  *)
(* the client map.  Each connection has the handler itself, the 15-second  *)
(* login timer, a reader that feeds commands to the handler, the QRZ       *)
(* welcome lookup, and that lookup's 2-second timeout.  The remote client  *)
(* types lines and may hang up at any time.  A WebSocket terminal enters   *)
(* the same handler; module TerminalProxy has its way in and out.          *)
(*                                                                         *)
(* Output to the client is left out except where its failure ends the      *)
(* session.  What a command does is not modelled here, only when it is     *)
(* handled.  Timers fire at any moment after they are armed.               *)
(***************************************************************************)
EXTENDS Naturals, Sequences, FiniteSets

CONSTANTS Conn,          \* connections
          RequireLogin,  \* the -require-login flag
          Lookup,        \* a UberSDR URL is configured, so QRZ is asked
          CmdCap,        \* capacity of cmdCh (16)
          MaxLines       \* bound on the lines a client types

ASSUME SessionAssumption ==
  /\ IsFiniteSet(Conn)
  /\ RequireLogin \in BOOLEAN /\ Lookup \in BOOLEAN
  /\ CmdCap \in Nat \ {0} /\ MaxLines \in Nat

VARIABLES pc,        \* pc[c]: where the handler is
          open,      \* open[c]: the server side of the connection is open
          peer,      \* peer[c]: the client has not hung up
          wire,      \* wire[c]: lines typed and not yet read, with their number
          typed,     \* typed[c]: how many lines the client has typed
          timer,     \* timer[c]: the login timer and its function
          loginDone, \* loginDone[c]: that channel is closed
          line,      \* line[c]: the login line that was read
          name,      \* name[c]: state.Name is set
          sub,       \* sub[c]: the hub subscription
          reader,    \* reader[c]: the reader goroutine
          cmdCh,     \* cmdCh[c]: commands for the handler, by line number
          quit,      \* quit[c]: that channel is closed
          lookup,    \* lookup[c]: the goroutine that asks QRZ
          limit,     \* limit[c]: the goroutine that sleeps two seconds
          qrz,       \* qrz[c]: the one-place channel c of the lookup
          listening, \* listening[c]: qrzCh is not nil
          clients,   \* TelnetServer.clients
          clientMap, \* keys of TelnetServer.clientMap
          crashed,   \* the process died of a panic
          answers,   \* history: answers[c]: how often the handler's QRZ case ran
          handled    \* history: handled[c]: number of the last command handled

netVars   == <<open, peer, wire, typed>>
loginVars == <<timer, loginDone, line, name>>
readVars  == <<reader, cmdCh, quit, handled>>
qrzVars   == <<lookup, limit, qrz, listening, answers>>
countVars == <<clients, clientMap>>
vars == <<pc, netVars, loginVars, readVars, qrzVars, countVars, sub, crashed>>

\* "call" is also an ordinary command; a "huge" line does not fit a scanner's
\* buffer of 64 KiB.
LineKind == {"call", "bad", "blank", "bye", "huge"}

All(v) == [c \in Conn |-> v]

Init ==
  /\ pc = All("accepted")
  /\ open = All(TRUE) /\ peer = All(TRUE)
  /\ wire = All(<<>>) /\ typed = All(0)
  /\ timer = All("off") /\ loginDone = All(FALSE)
  /\ line = All("none") /\ name = All(FALSE)
  /\ sub = All("none")
  /\ reader = All("off") /\ cmdCh = All(<<>>) /\ quit = All(FALSE) /\ handled = All(0)
  /\ lookup = All("off") /\ limit = All("off") /\ qrz = All(<<>>)
  /\ listening = All(FALSE) /\ answers = All(0)
  /\ clients = 0 /\ clientMap = {}
  /\ crashed = FALSE

-----------------------------------------------------------------------------
(* The remote client.                                                      *)

TypeLine(c, kind) ==
  /\ peer[c] /\ open[c]
  /\ typed[c] < MaxLines
  /\ typed' = [typed EXCEPT ![c] = @ + 1]
  /\ wire' = [wire EXCEPT ![c] = Append(@, [n |-> typed[c] + 1, kind |-> kind])]
  /\ UNCHANGED <<pc, open, peer, loginVars, readVars, qrzVars, countVars, sub, crashed>>

HangUp(c) ==
  /\ peer[c]
  /\ peer' = [peer EXCEPT ![c] = FALSE]
  /\ UNCHANGED <<pc, open, wire, typed, loginVars, readVars, qrzVars, countVars, sub, crashed>>

\* A line that fits the buffer can be read.
Readable(c) == open[c] /\ wire[c] # <<>> /\ Head(wire[c]).kind # "huge"

\* A scan fails: the connection is closed here, the client hung up and
\* everything it sent was read, or the next line is too long, which ends the
\* scanner while the client is still there.
ReadFails(c) ==
  \/ ~open[c]
  \/ ~peer[c] /\ wire[c] = <<>>
  \/ wire[c] # <<>> /\ Head(wire[c]).kind = "huge"

-----------------------------------------------------------------------------
(* Entry and login.                                                        *)

\* clients.Add(1)
Count(c) ==
  /\ pc[c] = "accepted"
  /\ clients' = clients + 1
  /\ pc' = [pc EXCEPT ![c] = "counted"]
  /\ UNCHANGED <<netVars, loginVars, readVars, qrzVars, clientMap, sub, crashed>>

\* registerConn, then the banner; the timer is armed when a login is needed.
Register(c) ==
  /\ pc[c] = "counted"
  /\ clientMap' = clientMap \cup {c}
  /\ IF RequireLogin
     THEN /\ timer' = [timer EXCEPT ![c] = "armed"]
          /\ pc' = [pc EXCEPT ![c] = "login"]
     ELSE /\ pc' = [pc EXCEPT ![c] = "subscribe"]
          /\ UNCHANGED timer
  /\ UNCHANGED <<netVars, loginDone, line, name, readVars, qrzVars,
                 clients, sub, crashed>>

\* loginScanner.Scan returns a line.  The scanner reads whatever has arrived,
\* so it may swallow later lines too: they stay in a buffer nobody reads.
LoginScan(c) ==
  /\ pc[c] = "login"
  /\ Readable(c)
  /\ line' = [line EXCEPT ![c] = Head(wire[c]).kind]
  /\ \E k \in 1..Len(wire[c]) :
       /\ \A i \in 1..k : wire[c][i].kind # "huge"
       /\ wire' = [wire EXCEPT ![c] = SubSeq(@, k + 1, Len(@))]
  /\ pc' = [pc EXCEPT ![c] = "endlogin"]
  /\ UNCHANGED <<open, peer, typed, timer, loginDone, name, readVars,
                 qrzVars, countVars, sub, crashed>>

\* The scan fails: the client hung up or the timer closed the connection.
LoginFails(c) ==
  /\ pc[c] = "login"
  /\ ReadFails(c)
  /\ pc' = [pc EXCEPT ![c] = "endlogin"]
  /\ UNCHANGED <<netVars, loginVars, readVars, qrzVars, countVars, sub, crashed>>

\* loginTimer.Stop, which does not wait for a function already running, and
\* close(loginDone); then the line is checked.  strings.Fields of a blank
\* line has no element 0: the handler panics, and so does the process.  (In a
\* WebSocket terminal the HTTP server would recover the panic; these are the
\* connections of ListenAndServe.)
EndLogin(c) ==
  /\ pc[c] = "endlogin"
  /\ timer' = [timer EXCEPT ![c] = IF @ = "armed" THEN "stopped" ELSE @]
  /\ loginDone' = [loginDone EXCEPT ![c] = TRUE]
  /\ name' = [name EXCEPT ![c] = (line[c] = "call")]
  /\ crashed' = (line[c] = "blank")
  /\ pc' = [pc EXCEPT ![c] = IF line[c] = "call" THEN "subscribe" ELSE "uncount"]
  /\ UNCHANGED <<netVars, line, readVars, qrzVars, countVars, sub>>

TimerFires(c) ==
  /\ timer[c] = "armed"
  /\ timer' = [timer EXCEPT ![c] = "fired"]
  /\ UNCHANGED <<pc, netVars, loginDone, line, name, readVars, qrzVars,
                 countVars, sub, crashed>>

\* The select on loginDone at the head of the timer's function.
TimerChecks(c) ==
  /\ timer[c] = "fired"
  /\ timer' = [timer EXCEPT ![c] = IF loginDone[c] THEN "over" ELSE "closing"]
  /\ UNCHANGED <<pc, netVars, loginDone, line, name, readVars, qrzVars,
                 countVars, sub, crashed>>

TimerCloses(c) ==
  /\ timer[c] = "closing"
  /\ timer' = [timer EXCEPT ![c] = "over"]
  /\ open' = [open EXCEPT ![c] = FALSE]
  /\ UNCHANGED <<pc, peer, wire, typed, loginDone, line, name, readVars, qrzVars,
                 countVars, sub, crashed>>

-----------------------------------------------------------------------------
(* The streaming session.                                                  *)

\* Subscribe; the lookup, its time limit and the reader are started.
StartStreaming(c) ==
  /\ pc[c] = "subscribe"
  /\ sub' = [sub EXCEPT ![c] = "on"]
  /\ IF Lookup /\ name[c]
     THEN /\ lookup' = [lookup EXCEPT ![c] = "asking"]
          /\ limit' = [limit EXCEPT ![c] = "asleep"]
          /\ listening' = [listening EXCEPT ![c] = TRUE]
     ELSE UNCHANGED <<lookup, limit, listening>>
  /\ reader' = [reader EXCEPT ![c] = "run"]
  /\ pc' = [pc EXCEPT ![c] = "loop"]
  /\ UNCHANGED <<netVars, loginVars, cmdCh, quit, handled, qrz, answers,
                 countVars, crashed>>

\* lookupQRZ returns: its HTTP client gives up after ten seconds.
LookupReturns(c) ==
  /\ lookup[c] = "asking"
  /\ lookup' = [lookup EXCEPT ![c] = "sending"]
  /\ UNCHANGED <<pc, netVars, loginVars, readVars, limit, qrz, listening, answers,
                 countVars, sub, crashed>>

\* The blocking send of the answer, nil or not.
LookupSends(c) ==
  /\ lookup[c] = "sending"
  /\ qrz[c] = <<>>
  /\ \E r \in {"nil", "found"} : qrz' = [qrz EXCEPT ![c] = <<r>>]
  /\ lookup' = [lookup EXCEPT ![c] = "over"]
  /\ UNCHANGED <<pc, netVars, loginVars, readVars, limit, listening, answers,
                 countVars, sub, crashed>>

\* After two seconds: a send of nil that gives way when the place is taken.
LimitPasses(c) ==
  /\ limit[c] = "asleep"
  /\ limit' = [limit EXCEPT ![c] = "over"]
  /\ qrz' = IF qrz[c] = <<>> THEN [qrz EXCEPT ![c] = <<"nil">>] ELSE qrz
  /\ UNCHANGED <<pc, netVars, loginVars, readVars, lookup, listening, answers,
                 countVars, sub, crashed>>

\* Faulty: the reader puts a line in front of the ones that wait.
ReaderPutsFirst(c) ==
  LET l == Head(wire[c])
  IN  /\ reader[c] = "run"
      /\ Readable(c)
      /\ wire' = [wire EXCEPT ![c] = Tail(@)]
      /\ cmdCh' = IF Len(cmdCh[c]) < CmdCap
                  THEN [cmdCh EXCEPT ![c] = <<l.n>> \o @] ELSE cmdCh
      /\ UNCHANGED <<pc, open, peer, typed, loginVars, reader, quit, handled, qrzVars,
                     countVars, sub, crashed>>

\* The reader takes a line: a blank one is skipped, BYE closes quit, any
\* other goes to the handler unless its channel is full.
ReaderTakes(c) ==
  LET l == Head(wire[c])
  IN  /\ reader[c] = "run"
      /\ Readable(c)
      /\ wire' = [wire EXCEPT ![c] = Tail(@)]
      /\ quit' = [quit EXCEPT ![c] = (l.kind = "bye")]
      /\ reader' = [reader EXCEPT ![c] = IF l.kind = "bye" THEN "over" ELSE @]
      /\ cmdCh' = IF l.kind \notin {"bye", "blank"} /\ Len(cmdCh[c]) < CmdCap
                  THEN [cmdCh EXCEPT ![c] = Append(@, l.n)] ELSE cmdCh
      /\ UNCHANGED <<pc, open, peer, typed, loginVars, handled, qrzVars, countVars,
                     sub, crashed>>

\* Faulty: the reader ends without closing quit.
ReaderEndsSilently(c) ==
  /\ reader[c] = "run"
  /\ ReadFails(c)
  /\ reader' = [reader EXCEPT ![c] = "over"]
  /\ UNCHANGED <<pc, netVars, loginVars, cmdCh, quit, handled, qrzVars, countVars,
                 sub, crashed>>

ReaderEnds(c) ==
  /\ reader[c] = "run"
  /\ ReadFails(c)
  /\ reader' = [reader EXCEPT ![c] = "over"]
  /\ quit' = [quit EXCEPT ![c] = TRUE]
  /\ UNCHANGED <<pc, netVars, loginVars, cmdCh, handled, qrzVars, countVars, sub, crashed>>

\* The handler's select, one action per case; which ready case runs is open.
LoopQuit(c) ==
  /\ pc[c] = "loop"
  /\ quit[c]
  /\ pc' = [pc EXCEPT ![c] = "unsubscribe"]
  /\ UNCHANGED <<netVars, loginVars, readVars, qrzVars, countVars, sub, crashed>>

\* Faulty: the channel is not set to nil after its first value.
LoopQrzListens(c) ==
  /\ pc[c] = "loop"
  /\ listening[c] /\ qrz[c] # <<>>
  /\ qrz' = [qrz EXCEPT ![c] = <<>>]
  /\ answers' = [answers EXCEPT ![c] = @ + 1]
  /\ UNCHANGED <<netVars, loginVars, readVars, lookup, limit, listening, countVars,
                 sub, crashed, pc>>

LoopQrz(c) ==
  /\ pc[c] = "loop"
  /\ listening[c] /\ qrz[c] # <<>>
  /\ qrz' = [qrz EXCEPT ![c] = <<>>]
  /\ listening' = [listening EXCEPT ![c] = FALSE]
  /\ answers' = [answers EXCEPT ![c] = @ + 1]
  /\ UNCHANGED <<netVars, loginVars, readVars, lookup, limit, countVars, sub,
                 crashed, pc>>

LoopCmd(c) ==
  /\ pc[c] = "loop"
  /\ cmdCh[c] # <<>>
  /\ cmdCh' = [cmdCh EXCEPT ![c] = Tail(@)]
  /\ handled' = [handled EXCEPT ![c] = Head(cmdCh[c])]
  /\ UNCHANGED <<pc, netVars, loginVars, reader, quit, qrzVars, countVars, sub, crashed>>

\* A spot arrives and the write fails: the connection is gone.  A spot that
\* is filtered out or written changes nothing here.
LoopSpotFails(c) ==
  /\ pc[c] = "loop"
  /\ ~open[c] \/ ~peer[c]
  /\ pc' = [pc EXCEPT ![c] = "unsubscribe"]
  /\ UNCHANGED <<netVars, loginVars, readVars, qrzVars, countVars, sub, crashed>>

-----------------------------------------------------------------------------
(* The way out: the deferred calls, last first.                            *)

\* Faulty: no deferred Unsubscribe.
LeaveHubForgets(c) ==
  /\ pc[c] = "unsubscribe"
  /\ pc' = [pc EXCEPT ![c] = "uncount"]
  /\ UNCHANGED <<netVars, loginVars, readVars, qrzVars, countVars, crashed, sub>>

LeaveHub(c) ==
  /\ pc[c] = "unsubscribe"
  /\ sub' = [sub EXCEPT ![c] = "off"]
  /\ pc' = [pc EXCEPT ![c] = "uncount"]
  /\ UNCHANGED <<netVars, loginVars, readVars, qrzVars, countVars, crashed>>

Uncount(c) ==
  /\ pc[c] = "uncount"
  /\ clients' = clients - 1
  /\ pc' = [pc EXCEPT ![c] = "unregister"]
  /\ UNCHANGED <<netVars, loginVars, readVars, qrzVars, clientMap, sub, crashed>>

Unregister(c) ==
  /\ pc[c] = "unregister"
  /\ clientMap' = clientMap \ {c}
  /\ open' = [open EXCEPT ![c] = FALSE]
  /\ pc' = [pc EXCEPT ![c] = "done"]
  /\ UNCHANGED <<peer, wire, typed, loginVars, readVars, qrzVars, clients, sub, crashed>>

Handler(c) ==
  \/ Count(c) \/ Register(c) \/ LoginScan(c) \/ LoginFails(c) \/ EndLogin(c)
  \/ StartStreaming(c) \/ LoopQuit(c) \/ LoopQrz(c) \/ LoopCmd(c)
  \/ LeaveHub(c) \/ Uncount(c) \/ Unregister(c)

Timer(c) == TimerFires(c) \/ TimerChecks(c) \/ TimerCloses(c)

Reader(c) == ReaderTakes(c) \/ ReaderEnds(c)

Welcome(c) == LookupReturns(c) \/ LookupSends(c) \/ LimitPasses(c)

Next ==
  /\ ~crashed
  /\ \E c \in Conn :
       \/ \E kind \in LineKind : TypeLine(c, kind)
       \/ HangUp(c)
       \/ Handler(c) \/ LoopSpotFails(c) \/ Timer(c) \/ Reader(c) \/ Welcome(c)

Spec == Init /\ [][Next]_vars

\* Every goroutine is scheduled and both timers run; a closed quit stays
\* ready, so select takes it in the end.  Nothing is assumed of the client,
\* nor that spots keep arriving.
FairSpec ==
  /\ Spec
  /\ \A c \in Conn :
       /\ WF_vars(~crashed /\ Handler(c))
       /\ WF_vars(~crashed /\ LoopQuit(c))
       /\ WF_vars(~crashed /\ Timer(c))
       /\ WF_vars(~crashed /\ Reader(c))
       /\ WF_vars(~crashed /\ (LookupReturns(c) \/ LookupSends(c)))
       /\ WF_vars(~crashed /\ LimitPasses(c))

-----------------------------------------------------------------------------
(* Properties.                                                             *)

\* Every variable has its type, and cmdCh and the lookup's channel keep
\* within their capacities.
TypeOK ==
  /\ pc \in [Conn -> {"accepted", "counted", "login", "endlogin", "subscribe", "loop",
                      "unsubscribe", "uncount", "unregister", "done"}]
  /\ open \in [Conn -> BOOLEAN] /\ peer \in [Conn -> BOOLEAN]
  /\ \A c \in Conn : \A i \in 1..Len(wire[c]) : wire[c][i].kind \in LineKind
  /\ typed \in [Conn -> 0..MaxLines]
  /\ timer \in [Conn -> {"off", "armed", "stopped", "fired", "closing", "over"}]
  /\ loginDone \in [Conn -> BOOLEAN] /\ name \in [Conn -> BOOLEAN]
  /\ line \in [Conn -> LineKind \cup {"none"}]
  /\ sub \in [Conn -> {"none", "on", "off"}]
  /\ reader \in [Conn -> {"off", "run", "over"}]
  /\ \A c \in Conn : cmdCh[c] \in Seq(1..MaxLines) /\ Len(cmdCh[c]) <= CmdCap
  /\ quit \in [Conn -> BOOLEAN] /\ listening \in [Conn -> BOOLEAN]
  /\ lookup \in [Conn -> {"off", "asking", "sending", "over"}]
  /\ limit \in [Conn -> {"off", "asleep", "over"}]
  /\ \A c \in Conn : qrz[c] \in Seq({"nil", "found"}) /\ Len(qrz[c]) <= 1
  /\ clients \in 0..Cardinality(Conn)
  /\ clientMap \subseteq Conn
  /\ answers \in [Conn -> Nat] /\ handled \in [Conn -> 0..MaxLines]
  /\ crashed \in BOOLEAN

\* A handler that has left the loop by whatever way holds no subscription,
\* and one that never subscribed does not unsubscribe (telnet.go:320-321).
SubscriptionReleased ==
  \A c \in Conn : /\ pc[c] \in {"uncount", "unregister", "done"} => sub[c] # "on"
                  /\ sub[c] = "off" => reader[c] # "off"

\* The handler takes one answer from the lookup's channel and no more: the
\* welcome is written at most once, and never after the two-second limit won
\* the race (telnet.go:328-344, 376-381).
AnswerTakenOnce == \A c \in Conn : answers[c] <= 1

\* Commands are handled in the order they were typed; some may be dropped,
\* none is overtaken, and neither channel outgrows its capacity
\* (telnet.go:362-365, 383).
CommandsInOrder ==
  /\ TypeOK
  /\ \A c \in Conn :
       LET rest == <<handled[c]>> \o cmdCh[c]
       IN  \A i, j \in 1..Len(rest) : i < j => rest[i] < rest[j]

\* Nothing in a connection waits for ever, unless the process died.  A client
\* that hung up, or was closed, is forgotten: its handler finishes, whatever it
\* was doing.  One that never answers the login prompt does not hold its place
\* (telnet.go:242-245).  While the session stays, the lookup goroutine can
\* always deliver: the nil of its time limit is taken out of its way.
NothingHangs ==
  \A c \in Conn :
    /\ (~peer[c] \/ ~open[c]) ~> (pc[c] = "done" \/ crashed)
    /\ pc[c] = "login" ~> (pc[c] # "login" \/ crashed)
    /\ lookup[c] = "sending" ~> (lookup[c] = "over" \/ pc[c] # "loop" \/ crashed)
=============================================================================
