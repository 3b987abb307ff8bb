--------------------------- MODULE DesktopProofs ---------------------------
(***************************************************************************)
(* Theorems about the desktop client: its session, for any number of       *)
(* upstream clients, of listeners and of telnet peers, slow or not, and    *)
(* its rig control, for any number of timers, any spots and any clicks.    *)
(***************************************************************************)
EXTENDS Desktop, RigSync, SequenceTheorems, TLAPS

At == {"new", "dial", "reading", "callback", "pause", "backoff", "done"}

-----------------------------------------------------------------------------
(* The steps of the upstream goroutines.                                   *)

\* What one client's goroutine or its Stop may do; the rest of the session
\* stays as it is.
Goroutine(c) == Dial(c) \/ DialFails(c) \/ Retry(c) \/ ReadFails(c) \/ Read(c)

Untouched == UNCHANGED <<listenVars, deskVars, histVars>>

LEMMA UpstreamSteps ==
  ASSUME NEW c \in Client, Upstream(c)
  PROVE  Untouched /\ (Goroutine(c) \/ Cancels(c) \/ StopReturns(c))
  BY DEF Upstream, ClientRuns, StopRuns, SessionEnds, SessionGoesOn, Connects, Stops,
         Goroutine, Untouched

\* Where the goroutine gets to, and what that means for the connection.
ClientsTyped ==
  /\ at \in [Client -> At]
  /\ open \in [Client -> BOOLEAN]
  /\ backoff \in [Client -> BackoffMin..BackoffMax]
  /\ stopper \in [Client -> {"none", "asked", "wait", "returned"}]
  /\ showing \subseteq Client
  /\ \A c \in Client : open[c] <=> at[c] \in {"reading", "callback"}
  /\ \A c \in showing : at[c] = "callback"

LEMMA DelaysAreBounded == BackoffMin \in BackoffMin..BackoffMax /\ BackoffMin..BackoffMax \subseteq Nat
  BY WSClientAssumption

LEMMA GoroutineTyped ==
  ASSUME ClientsTyped, NEW c \in Client, Goroutine(c), showing' = showing
  PROVE  ClientsTyped' /\ stopper' = stopper /\ at[c] # "new" /\ at' = [at EXCEPT ![c] = at'[c]] /\ at'[c] # "new"
<1>1. CASE Dial(c)
  BY <1>1, DelaysAreBounded DEF Dial, ClientsTyped, At
<1>2. CASE DialFails(c)
  BY <1>2, DelaysAreBounded DEF DialFails, ClientsTyped, At
<1>3. CASE Retry(c)
  <2>. DEFINE next == CASE at[c] = "pause"           -> backoff[c]
                        [] 2 * backoff[c] <= BackoffMax -> 2 * backoff[c]
                        [] OTHER                     -> BackoffMax
  <2>1. backoff[c] \in BackoffMin..BackoffMax /\ at[c] \in {"pause", "backoff"}
    BY <1>3 DEF Retry, ClientsTyped
  <2>2. next \in BackoffMin..BackoffMax
    BY <2>1, WSClientAssumption
  <2>3. \/ at' = [at EXCEPT ![c] = "done"] /\ backoff' = [backoff EXCEPT ![c] = BackoffMin]
        \/ at' = [at EXCEPT ![c] = "dial"] /\ backoff' = [backoff EXCEPT ![c] = next]
    BY <1>3 DEF Retry
  <2>4. UNCHANGED <<open, stopper>>
    BY <1>3 DEF Retry
  <2>. HIDE DEF next
  <2>. QED
    BY <2>1, <2>2, <2>3, <2>4, DelaysAreBounded DEF ClientsTyped, At
<1>4. CASE ReadFails(c)
  BY <1>4, DelaysAreBounded DEF ReadFails, ClientsTyped, At
<1>5. CASE Read(c)
  BY <1>5, DelaysAreBounded DEF Read, ClientsTyped, At
<1>. QED
  BY <1>1, <1>2, <1>3, <1>4, <1>5 DEF Goroutine

-----------------------------------------------------------------------------
(* The window's thread.                                                    *)

\* Startup that leaves the choice to the user.
UserChooses ==
  /\ ui = "start" /\ ui' = "idle"
  /\ UNCHANGED <<wsVars, listenVars, active, listener, bound, showing, holder, histVars>>

LEMMA WindowSteps ==
  ASSUME Window
  PROVE  \/ /\ \E c \in Client, l \in Listener : ConnectTo(c, l)
            /\ ui \in {"start", "idle"} /\ ui' = "idle"
         \/ Switch \/ SwitchEnds \/ Disconnect \/ DisconnectEnds \/ UserChooses
  BY DEF Window, Startup, Choose, LocalFound, Connect, UserChooses

\* What the steps of the other goroutines leave alone.
LEMMA OthersKeepDesk ==
  ASSUME \/ \E c \in Client : Upstream(c) \/ Texts(c)
         \/ \E p \in Peer : Downstream(p) \/ Lines(p)
         \/ UNCHANGED vars
  PROVE  UNCHANGED <<active, listener, ui, running, socket, bound>>
<1>1. ASSUME NEW c \in Client, Upstream(c) PROVE UNCHANGED <<active, listener, ui, running, socket, bound>>
  BY <1>1, UpstreamSteps DEF Untouched, listenVars, deskVars
<1>2. ASSUME NEW c \in Client, Texts(c) PROVE UNCHANGED <<active, listener, ui, running, socket, bound>>
  BY <1>2 DEF Texts, CheckText, DropText, ShowText, listenVars, deskVars
<1>3. ASSUME NEW p \in Peer, Downstream(p) PROVE UNCHANGED <<active, listener, ui, running, socket, bound>>
  BY <1>3 DEF Downstream, Serves, Peers, Accept, Register, HandlerEnds, PeerComes, PeerLeaves,
              PeerStalls, PeerReads, deskVars
<1>4. ASSUME NEW p \in Peer, Lines(p) PROVE UNCHANGED <<active, listener, ui, running, socket, bound>>
  BY <1>4 DEF Lines, TakeLine, LoadClient, LoseLine, SendLine, ScanLine, Forwarded, deskVars,
              listenVars
<1>5. ASSUME UNCHANGED vars PROVE UNCHANGED <<active, listener, ui, running, socket, bound>>
  BY <1>5 DEF vars, listenVars, deskVars
<1>. QED
  BY <1>1, <1>2, <1>3, <1>4, <1>5

\* Only an idle window has a session, and a session or a switch under way has
\* a telnet port that runs; the one Disconnect is stopping is still open.
DeskTyped ==
  /\ active \in Client \cup {Nobody}
  /\ listener \in Listener \cup {Nobody}
  /\ running \in [Listener -> BOOLEAN]
  /\ socket \in [Listener -> {"none", "open", "closed"}]
  /\ ui \in {"start", "idle", "switch", "stop"}
  /\ ui # "idle" => active = Nobody
  /\ active # Nobody \/ ui = "switch" => listener # Nobody /\ running[listener]
  /\ ui = "stop" => listener # Nobody /\ ~running[listener] /\ socket[listener] = "open"
  /\ \A l \in Listener : running[l] => socket[l] = "open"

LEMMA DeskStep ==
  ASSUME DeskTyped, [Next]_vars
  PROVE  DeskTyped'
<1>1. ASSUME NEW c \in Client, NEW l \in Listener, ConnectTo(c, l),
             ui \in {"start", "idle"}, ui' = "idle"
      PROVE  DeskTyped'
  BY <1>1, DesktopAssumption DEF ConnectTo, StartListener, Begin, Activate, DeskTyped
<1>2. CASE Switch
  BY <1>2, DesktopAssumption DEF Switch, Retire, DeskTyped, listenVars
<1>3. CASE SwitchEnds
  BY <1>3, DesktopAssumption DEF SwitchEnds, Begin, Activate, DeskTyped, listenVars
<1>4. CASE Disconnect
  BY <1>4, DesktopAssumption DEF Disconnect, Retire, StopTakesClients, DeskTyped
<1>5. CASE DisconnectEnds
  BY <1>5, DesktopAssumption DEF DisconnectEnds, StopCloses, DeskTyped
<1>6. CASE UserChooses
  BY <1>6 DEF UserChooses, DeskTyped, listenVars
<1>7. CASE UNCHANGED <<active, listener, ui, running, socket, bound>>
  BY <1>7 DEF DeskTyped
<1>. QED
  BY <1>1, <1>2, <1>3, <1>4, <1>5, <1>6, <1>7, WindowSteps, OthersKeepDesk DEF Next

-----------------------------------------------------------------------------
(* One active client, and what a replaced one may still show.              *)

\* A client that was started is active or being stopped, never both, and one
\* that showed a chunk after it was replaced is past its last one.
Replaced ==
  /\ stray \in [Client -> 0..1]
  /\ \A c \in Client : stopper[c] # "none" => at[c] # "new"
  /\ \A c \in Client : active = c => stopper[c] = "none" /\ at[c] # "new"
  /\ \A c \in Client : at[c] # "new" => active = c \/ stopper[c] # "none"
  /\ \A c \in Client : stray[c] = 1 => c \notin showing /\ active # c /\ at[c] # "new"

ClientsInv == ClientsTyped /\ Replaced

\* A client is begun while no other is active.
LEMMA BeginKeeps ==
  ASSUME ClientsInv, active = Nobody, NEW c \in Client, NEW l, Begin(c, l),
         UNCHANGED <<open, backoff, stopper, showing, stray>>
  PROVE  ClientsInv'
<1>1. at' = [at EXCEPT ![c] = "dial"] /\ at[c] = "new" /\ active' = c
  BY DEF Begin, Unused, Activate
<1>2. ClientsTyped'
  BY <1>1 DEF ClientsInv, ClientsTyped, At
<1>3. Replaced'
  BY <1>1, DesktopAssumption DEF ClientsInv, ClientsTyped, Replaced, At
<1>. QED
  BY <1>2, <1>3 DEF ClientsInv

LEMMA RetireKeeps ==
  ASSUME ClientsInv, active \in Client \cup {Nobody}, Retire, UNCHANGED <<showing, stray>>
  PROVE  ClientsInv'
<1>1. /\ active \in Client /\ active' = Nobody
      /\ stopper' = [stopper EXCEPT ![active] = "asked"]
      /\ UNCHANGED <<at, open, backoff>>
  BY DEF Retire
<1>2. ClientsTyped'
  BY <1>1 DEF ClientsInv, ClientsTyped
<1>3. Replaced'
  BY <1>1, DesktopAssumption DEF ClientsInv, ClientsTyped, Replaced
<1>. QED
  BY <1>2, <1>3 DEF ClientsInv

LEMMA UpstreamKeeps ==
  ASSUME ClientsInv, NEW c \in Client, Upstream(c)
  PROVE  ClientsInv'
<1>1. UNCHANGED <<showing, stray, active>>
  BY UpstreamSteps DEF Untouched, deskVars, histVars
<1>2. CASE Goroutine(c)
  <2>1. /\ ClientsTyped' /\ stopper' = stopper /\ at[c] # "new"
        /\ at' = [at EXCEPT ![c] = at'[c]] /\ at'[c] # "new"
    BY <1>1, <1>2, GoroutineTyped DEF ClientsInv
  <2>2. Replaced'
    BY <1>1, <2>1 DEF ClientsInv, ClientsTyped, Replaced
  <2>. QED
    BY <2>1, <2>2 DEF ClientsInv
<1>3. CASE Cancels(c)
  BY <1>1, <1>3 DEF Cancels, ClientsInv, ClientsTyped, Replaced
<1>4. CASE StopReturns(c)
  BY <1>1, <1>4 DEF StopReturns, ClientsInv, ClientsTyped, Replaced
<1>. QED
  BY <1>2, <1>3, <1>4, UpstreamSteps

LEMMA TextsKeep ==
  ASSUME ClientsInv, NEW c \in Client, Texts(c)
  PROVE  ClientsInv'
<1>1. CASE CheckText(c)
  BY <1>1 DEF CheckText, ClientsInv, ClientsTyped, Replaced, wsVars, histVars
<1>2. CASE DropText(c)
  BY <1>2 DEF DropText, Relayed, ClientsInv, ClientsTyped, Replaced, At, deskVars, histVars
<1>3. CASE ShowText(c)
  <2>1. /\ c \in showing /\ showing' = showing \ {c} /\ at' = [at EXCEPT ![c] = "reading"]
        /\ stray' = [stray EXCEPT ![c] = IF active # c /\ @ < 2 THEN @ + 1 ELSE @]
        /\ UNCHANGED <<open, backoff, stopper, active>>
    BY <1>3 DEF ShowText, Relayed
  <2>2. stray' = [stray EXCEPT ![c] = IF active # c THEN 1 ELSE 0]
    <3>1. stray[c] = 0
      BY <2>1 DEF ClientsInv, Replaced
    <3>2. (IF active # c /\ stray[c] < 2 THEN stray[c] + 1 ELSE stray[c])
            = IF active # c THEN 1 ELSE 0
      BY <3>1
    <3>. QED
      BY <2>1, <3>2
  <2>3. ClientsTyped'
    BY <2>1 DEF ClientsInv, ClientsTyped, At
  <2>4. Replaced'
    BY <2>1, <2>2 DEF ClientsInv, ClientsTyped, Replaced
  <2>. QED
    BY <2>3, <2>4 DEF ClientsInv
<1>. QED
  BY <1>1, <1>2, <1>3 DEF Texts

LEMMA ClientsStep ==
  ASSUME DeskTyped, ClientsInv, [Next]_vars
  PROVE  ClientsInv'
<1>1. ASSUME NEW c \in Client, NEW l \in Listener, ConnectTo(c, l) PROVE ClientsInv'
  BY <1>1, BeginKeeps DEF ConnectTo
<1>2. CASE Switch
  BY <1>2, RetireKeeps DEF Switch, histVars, DeskTyped
<1>3. CASE SwitchEnds
  <2>1. active = Nobody
    BY <1>3 DEF SwitchEnds, DeskTyped
  <2>. QED
    BY <1>3, <2>1, BeginKeeps DEF SwitchEnds
<1>4. CASE Disconnect
  BY <1>4, RetireKeeps DEF Disconnect, histVars, DeskTyped
<1>5. ASSUME UNCHANGED <<at, open, backoff, stopper, active, showing, stray>> PROVE ClientsInv'
  BY <1>5 DEF ClientsInv, ClientsTyped, Replaced
<1>6. CASE DisconnectEnds
  BY <1>5, <1>6 DEF DisconnectEnds, wsVars, histVars
<1>7. CASE UserChooses
  BY <1>5, <1>7 DEF UserChooses, wsVars, histVars
<1>8. ASSUME NEW p \in Peer, Downstream(p) PROVE ClientsInv'
  BY <1>5, <1>8 DEF Downstream, wsVars, deskVars, histVars
<1>9. ASSUME NEW p \in Peer, Lines(p) PROVE ClientsInv'
  BY <1>5, <1>9 DEF Lines, TakeLine, LoadClient, LoseLine, SendLine, wsVars, deskVars, histVars
<1>10. CASE UNCHANGED vars
  BY <1>5, <1>10 DEF vars, wsVars, deskVars, histVars
<1>. QED
  BY <1>1, <1>2, <1>3, <1>4, <1>6, <1>7, <1>8, <1>9, <1>10, WindowSteps, UpstreamKeeps, TextsKeep
     DEF Next

-----------------------------------------------------------------------------
(* What a session sent on logging in.                                      *)

\* A session has sent its login line exactly when it says so, and has begun
\* the startup commands only behind it.
Sessions ==
  /\ callsignSent \in [Client -> BOOLEAN]
  /\ loggedIn \in [Client -> BOOLEAN]
  /\ logins \in [Client -> Nat]
  /\ batches \in [Client -> Nat]
  /\ \A c \in Client : /\ logins[c] = IF callsignSent[c] THEN 1 ELSE 0
                       /\ batches[c] = IF loggedIn[c] THEN 1 ELSE 0
                       /\ loggedIn[c] => callsignSent[c]

LEMMA SessionsStep ==
  ASSUME Sessions, [Next]_vars
  PROVE  Sessions'
<1>1. ASSUME UNCHANGED loginVars PROVE Sessions'
  BY <1>1 DEF Sessions, loginVars
<1>2. ASSUME NEW c \in Client, ReadFails(c) PROVE Sessions'
  BY <1>2 DEF ReadFails, Sessions
<1>3. ASSUME NEW c \in Client, Read(c) PROVE Sessions'
  <2>1. PICK text \in SUBSET Mark :
          /\ callsignSent' = [callsignSent EXCEPT ![c] = callsignSent[c] \/ Answers(c, text)]
          /\ logins' = [logins EXCEPT ![c] =
                          IF Answers(c, text) /\ logins[c] < 2 THEN logins[c] + 1 ELSE logins[c]]
          /\ loggedIn' = [loggedIn EXCEPT ![c] = loggedIn[c] \/ Greeted(c, text)]
          /\ batches' = [batches EXCEPT ![c] =
                           IF Greeted(c, text) THEN batches[c] + 1 ELSE batches[c]]
    BY <1>3 DEF Read
  <2>. DEFINE answered == callsignSent[c] \/ Answers(c, text)
              greeted == loggedIn[c] \/ Greeted(c, text)
  <2>2. answered \in BOOLEAN /\ greeted \in BOOLEAN
    BY Zenon
  <2>3. /\ (IF Answers(c, text) /\ logins[c] < 2 THEN logins[c] + 1 ELSE logins[c])
             = IF answered THEN 1 ELSE 0
        /\ (IF Greeted(c, text) THEN batches[c] + 1 ELSE batches[c])
             = IF greeted THEN 1 ELSE 0
        /\ greeted => answered
    BY DEF Sessions, Answers, Greeted
  <2>4. /\ callsignSent' = [callsignSent EXCEPT ![c] = answered]
        /\ loggedIn' = [loggedIn EXCEPT ![c] = greeted]
        /\ logins' = [logins EXCEPT ![c] = IF answered THEN 1 ELSE 0]
        /\ batches' = [batches EXCEPT ![c] = IF greeted THEN 1 ELSE 0]
    BY <2>1, <2>3
  <2>. HIDE DEF answered, greeted
  <2>5. callsignSent' \in [Client -> BOOLEAN] /\ loggedIn' \in [Client -> BOOLEAN]
    BY <2>2, <2>4 DEF Sessions
  <2>6. logins' \in [Client -> Nat] /\ batches' \in [Client -> Nat]
    BY <2>4 DEF Sessions
  <2>7. ASSUME NEW d \in Client
        PROVE  /\ logins'[d] = IF callsignSent'[d] THEN 1 ELSE 0
               /\ batches'[d] = IF loggedIn'[d] THEN 1 ELSE 0
               /\ loggedIn'[d] => callsignSent'[d]
    <3>1. CASE d = c
      BY <2>3, <2>4, <3>1 DEF Sessions
    <3>2. CASE d # c
      BY <2>4, <3>2 DEF Sessions
    <3>. QED
      BY <3>1, <3>2
  <2>. QED
    BY <2>5, <2>6, <2>7 DEF Sessions
<1>4. CASE Window
  <2>1. UNCHANGED loginVars
    BY <1>4, WindowSteps DEF ConnectTo, Switch, SwitchEnds, Disconnect, DisconnectEnds,
       UserChooses, Retire, wsVars, loginVars
  <2>. QED
    BY <1>1, <2>1
<1>5. ASSUME NEW c \in Client, Upstream(c) PROVE Sessions'
  <2>1. CASE Dial(c) \/ DialFails(c) \/ Retry(c) \/ Cancels(c) \/ StopReturns(c)
    BY <1>1, <2>1 DEF Dial, DialFails, Retry, Cancels, StopReturns
  <2>. QED
    BY <1>2, <1>3, <1>5, <2>1, UpstreamSteps DEF Goroutine
<1>6. ASSUME NEW c \in Client, Texts(c) PROVE Sessions'
  BY <1>1, <1>6 DEF Texts, CheckText, DropText, ShowText, Relayed, wsVars, loginVars
<1>7. ASSUME NEW p \in Peer, Downstream(p) \/ Lines(p) PROVE Sessions'
  BY <1>1, <1>7 DEF Downstream, Lines, TakeLine, LoadClient, LoseLine, SendLine, wsVars
<1>8. CASE UNCHANGED vars
  BY <1>1, <1>8 DEF vars, wsVars
<1>. QED
  BY <1>4, <1>5, <1>6, <1>7, <1>8 DEF Next

-----------------------------------------------------------------------------
(* The telnet port.                                                        *)

Places == {"away", "backlog", "accepted", "served"}

\* A connection that is served is in its listener's map while that runs; once
\* it has stopped the connection is cut, or on the list of those Stop is about
\* to cut.
Port ==
  /\ clients \in [Listener -> SUBSET Peer]
  /\ toClose \subseteq Peer
  /\ place \in [Peer -> Places]
  /\ cut \in [Peer -> BOOLEAN]
  /\ of = [p \in Peer |-> of[p]]
  /\ \A p \in Peer : place[p] # "away" => of[p] \in Listener /\ socket[of[p]] # "none"
  /\ \A l \in Listener : ~running[l] => clients[l] = {}
  /\ ui # "stop" => toClose = {}
  /\ \A p \in Peer : place[p] = "served" =>
       IF running[of[p]] THEN p \in clients[of[p]]
       ELSE cut[p] \/ (ui = "stop" /\ of[p] = listener /\ p \in toClose)

portVars == <<socket, running, clients, toClose, place, of, cut, ui, listener>>

\* A step that leaves the port alone, or ends what the user was asked at the start.
LEMMA PortUnchanged ==
  ASSUME Port, UNCHANGED <<socket, running, clients, toClose, place, of, cut>>,
         ui # "stop", ui' # "stop"
  PROVE  Port'
  BY DEF Port

LEMMA PortStarts ==
  ASSUME DeskTyped, Port, NEW l \in Listener, StartListener(l), ui # "stop", ui' # "stop"
  PROVE  Port'
<1>1. /\ socket[l] = "none" /\ socket' = [socket EXCEPT ![l] = "open"]
      /\ running' = [running EXCEPT ![l] = TRUE]
      /\ UNCHANGED <<clients, toClose, place, of, cut>>
  BY DEF StartListener
<1>2. \A p \in Peer : place[p] # "away" => of[p] # l
  BY <1>1 DEF Port
<1>. QED
  BY <1>1, <1>2 DEF Port, DeskTyped

LEMMA PortStops ==
  ASSUME DeskTyped, Port, Disconnect
  PROVE  Port'
<1>1. /\ ui = "idle" /\ ui' = "stop" /\ listener' = listener /\ listener \in Listener
      /\ running[listener] /\ running' = [running EXCEPT ![listener] = FALSE]
      /\ toClose' = clients[listener]
      /\ clients' = [clients EXCEPT ![listener] = {}]
      /\ UNCHANGED <<socket, place, of, cut>>
  BY DEF Disconnect, StopTakesClients, Retire, DeskTyped
<1>. QED
  BY <1>1 DEF Port, DeskTyped

LEMMA PortCloses ==
  ASSUME DeskTyped, Port, DisconnectEnds
  PROVE  Port'
<1>1. /\ ui = "stop" /\ ui' = "idle" /\ listener \in Listener
      /\ socket' = [socket EXCEPT ![listener] = "closed"]
      /\ cut' = [p \in Peer |-> cut[p] \/ p \in toClose]
      /\ toClose' = {}
      /\ place' = [p \in Peer |-> IF place[p] = "backlog" /\ of[p] = listener
                                  THEN "away" ELSE place[p]]
      /\ UNCHANGED <<running, clients, of>>
  BY DEF DisconnectEnds, StopCloses, DeskTyped
<1>2. cut' \in [Peer -> BOOLEAN]
  <2>1. \A p \in Peer : (cut[p] \/ p \in toClose) \in BOOLEAN
    BY Zenon
  <2>. QED
    BY <1>1, <2>1, Zenon
<1>3. /\ \A p \in Peer : cut'[p] <=> cut[p] \/ p \in toClose
      /\ place' \in [Peer -> Places]
      /\ \A p \in Peer : place'[p] # "away" => place[p] # "away"
      /\ \A p \in Peer : place'[p] = "served" => place[p] = "served"
  BY <1>1 DEF Port, Places
<1>4. \A p \in Peer : place'[p] # "away" => of'[p] \in Listener /\ socket'[of'[p]] # "none"
  BY <1>1, <1>3 DEF Port, DeskTyped
<1>5. \A p \in Peer : place'[p] = "served" =>
        IF running'[of'[p]] THEN p \in clients'[of'[p]] ELSE cut'[p]
  BY <1>1, <1>3 DEF Port
<1>. QED
  BY <1>1, <1>2, <1>3, <1>4, <1>5 DEF Port

LEMMA PortServes ==
  ASSUME DeskTyped, Port, NEW p \in Peer, Downstream(p)
  PROVE  Port'
<1>0. UNCHANGED <<ui, listener>>
  BY DEF Downstream, deskVars
<1>1. CASE Accept(p)
  BY <1>0, <1>1 DEF Accept, Port, Places
<1>2. CASE Register(p)
  <2>1. CASE running[of[p]]
    <3>1. /\ place[p] = "accepted" /\ of[p] \in Listener
          /\ clients' = [clients EXCEPT ![of[p]] = clients[of[p]] \cup {p}]
          /\ place' = [place EXCEPT ![p] = "served"]
          /\ UNCHANGED <<socket, running, toClose, of, cut>>
      BY <1>2, <2>1 DEF Register, Port
    <3>. QED
      BY <1>0, <2>1, <3>1 DEF Port, Places
  <2>2. CASE ~running[of[p]]
    <3>1. /\ place' = [place EXCEPT ![p] = "away"] /\ cut' = [cut EXCEPT ![p] = FALSE]
          /\ UNCHANGED <<socket, running, toClose, of, clients>>
      BY <1>2, <2>2 DEF Register
    <3>. QED
      BY <1>0, <3>1 DEF Port, Places
  <2>. QED
    BY <2>1, <2>2
<1>3. CASE HandlerEnds(p)
  BY <1>0, <1>3 DEF HandlerEnds, Port, Places
<1>4. CASE PeerComes(p)
  BY <1>0, <1>4 DEF PeerComes, Port, Places
<1>5. CASE PeerLeaves(p)
  BY <1>0, <1>5 DEF PeerLeaves, Port, Places
<1>6. CASE PeerStalls(p) \/ PeerReads(p)
  BY <1>0, <1>6 DEF PeerStalls, PeerReads, Port
<1>. QED
  BY <1>1, <1>2, <1>3, <1>4, <1>5, <1>6 DEF Downstream, Serves, Peers

LEMMA PortStep ==
  ASSUME DeskTyped, Port, [Next]_vars
  PROVE  Port'
<1>1. ASSUME NEW c \in Client, NEW l \in Listener, ConnectTo(c, l),
             ui \in {"start", "idle"}, ui' = "idle"
      PROVE  Port'
  BY <1>1, PortStarts DEF ConnectTo
<1>2. CASE Switch \/ SwitchEnds \/ UserChooses
  BY <1>2, PortUnchanged DEF Switch, SwitchEnds, UserChooses, listenVars
<1>3. ASSUME UNCHANGED portVars PROVE Port'
  BY <1>3 DEF portVars, Port
<1>4. ASSUME NEW c \in Client, Upstream(c) \/ Texts(c) PROVE Port'
  BY <1>3, <1>4, UpstreamSteps DEF Untouched, Texts, CheckText, DropText, ShowText, listenVars,
     deskVars, portVars
<1>5. ASSUME NEW p \in Peer, Lines(p) PROVE Port'
  BY <1>3, <1>5 DEF Lines, TakeLine, LoadClient, LoseLine, SendLine, ScanLine, Forwarded,
     listenVars, deskVars, portVars
<1>6. CASE UNCHANGED vars
  BY <1>3, <1>6 DEF vars, listenVars, deskVars, portVars
<1>. QED
  BY <1>1, <1>2, <1>4, <1>5, <1>6, WindowSteps, PortStops, PortCloses, PortServes DEF Next

-----------------------------------------------------------------------------
(* The lines on their way from a telnet peer to the upstream.              *)

\* While a line is being forwarded, the active client, and the one the handler
\* has loaded, were active after the line came.
Forwarding ==
  /\ handler \in [Peer -> {"none", "scan", "forward"}]
  /\ holder \in [Peer -> Client \cup {Nobody}]
  /\ since \in [Peer -> SUBSET Client]
  /\ astray = {}
  /\ \A p \in Peer : place[p] # "served" => handler[p] = "none"
  /\ \A p \in Peer : handler[p] = "forward" => active \in since[p] \cup {Nobody}
  /\ \A p \in Peer : holder[p] # Nobody => handler[p] = "forward" /\ holder[p] \in since[p]

forwardVars == <<handler, holder, since, astray, place, active>>

LEMMA BeginForwards ==
  ASSUME Forwarding, NEW c \in Client, Activate(c), UNCHANGED <<handler, holder, astray, place>>
  PROVE  Forwarding'
<1>1. /\ active' = c
      /\ since' = [p \in Peer |-> IF handler[p] = "forward" THEN since[p] \cup {c} ELSE since[p]]
  BY DEF Activate
<1>2. since' \in [Peer -> SUBSET Client]
  BY <1>1 DEF Forwarding
<1>3. \A p \in Peer : since[p] \subseteq since'[p] /\ (handler[p] = "forward" => c \in since'[p])
  BY <1>1
<1>. QED
  BY <1>1, <1>2, <1>3 DEF Forwarding

LEMMA LinesForward ==
  ASSUME DeskTyped, Forwarding, NEW p \in Peer, Lines(p)
  PROVE  Forwarding'
<1>0. active \in Client \cup {Nobody} /\ active' = active
  BY DEF DeskTyped, Lines, TakeLine, LoadClient, LoseLine, SendLine, deskVars
<1>1. CASE TakeLine(p)
  <2>1. /\ handler[p] = "scan" /\ handler' = [handler EXCEPT ![p] = "forward"]
        /\ since' = [since EXCEPT ![p] = {active} \ {Nobody}]
        /\ UNCHANGED <<holder, astray, place>>
    BY <1>1 DEF TakeLine, ScanLine, deskVars
  <2>. QED
    BY <1>0, <2>1 DEF Forwarding
<1>2. CASE LoadClient(p)
  BY <1>0, <1>2 DEF LoadClient, Forwarding, listenVars, histVars
<1>3. CASE LoseLine(p)
  BY <1>0, <1>3 DEF LoseLine, Forwarded, Forwarding, deskVars
<1>4. CASE SendLine(p)
  <2>1. /\ holder[p] # Nobody
        /\ astray' = astray \cup {q \in {p} : open[holder[p]] /\ holder[p] \notin since[p]}
        /\ since' = [since EXCEPT ![p] = {}]
        /\ holder' = [holder EXCEPT ![p] = Nobody]
        /\ handler' = [handler EXCEPT ![p] = "scan"]
        /\ place' = place
    BY <1>4 DEF SendLine, Forwarded
  <2>2. holder[p] \in since[p] /\ handler[p] = "forward"
    BY <2>1 DEF Forwarding
  <2>3. astray' = {}
    BY <2>1, <2>2 DEF Forwarding
  <2>. QED
    BY <1>0, <2>1, <2>2, <2>3 DEF Forwarding
<1>. QED
  BY <1>1, <1>2, <1>3, <1>4 DEF Lines

LEMMA ServesForward ==
  ASSUME Port, Forwarding, NEW p \in Peer, Downstream(p)
  PROVE  Forwarding'
<1>0. UNCHANGED <<active, holder, since, astray>>
  BY DEF Downstream, deskVars, histVars
<1>1. CASE Accept(p)
  BY <1>0, <1>1 DEF Accept, Forwarding
<1>2. CASE Register(p)
  <2>1. /\ place[p] = "accepted"
        /\ \/ place' = [place EXCEPT ![p] = "served"] /\ handler' = [handler EXCEPT ![p] = "scan"]
           \/ place' = [place EXCEPT ![p] = "away"] /\ handler' = handler
    BY <1>2 DEF Register
  <2>2. handler[p] = "none" /\ holder[p] = Nobody
    BY <2>1 DEF Forwarding
  <2>3. CASE place' = [place EXCEPT ![p] = "served"] /\ handler' = [handler EXCEPT ![p] = "scan"]
    <3>1. /\ handler' \in [Peer -> {"none", "scan", "forward"}]
          /\ handler'[p] = "scan" /\ \A q \in Peer : q # p => handler'[q] = handler[q]
      BY <2>3 DEF Forwarding
    <3>2. place'[p] = "served"
      BY <2>3 DEF Port
    <3>3. \A q \in Peer : q # p => place'[q] = place[q]
      BY <2>3
    <3>. QED
      BY <1>0, <2>2, <3>1, <3>2, <3>3 DEF Forwarding
  <2>4. CASE place' = [place EXCEPT ![p] = "away"] /\ handler' = handler
    BY <1>0, <2>2, <2>4 DEF Forwarding
  <2>. QED
    BY <2>1, <2>3, <2>4
<1>3. CASE HandlerEnds(p)
  BY <1>0, <1>3 DEF HandlerEnds, Forwarding
<1>4. CASE PeerComes(p)
  BY <1>0, <1>4 DEF PeerComes, Forwarding
<1>5. CASE PeerLeaves(p) \/ PeerStalls(p) \/ PeerReads(p)
  BY <1>0, <1>5 DEF PeerLeaves, PeerStalls, PeerReads, Forwarding
<1>. QED
  BY <1>1, <1>2, <1>3, <1>4, <1>5 DEF Downstream, Serves, Peers

LEMMA ForwardingStep ==
  ASSUME DeskTyped, Port, Forwarding, [Next]_vars
  PROVE  Forwarding'
<1>1. ASSUME NEW c \in Client, NEW l \in Listener, ConnectTo(c, l) PROVE Forwarding'
  BY <1>1, BeginForwards DEF ConnectTo, StartListener, Begin
<1>2. CASE SwitchEnds
  BY <1>2, BeginForwards DEF SwitchEnds, Begin, listenVars
<1>3. CASE Switch
  BY <1>3 DEF Switch, Retire, listenVars, histVars, Forwarding
<1>4. CASE Disconnect
  BY <1>4 DEF Disconnect, StopTakesClients, Retire, histVars, Forwarding
<1>5. CASE DisconnectEnds
  <2>1. /\ place' = [p \in Peer |-> IF place[p] = "backlog" /\ of[p] = listener
                                    THEN "away" ELSE place[p]]
        /\ UNCHANGED <<handler, holder, since, astray, active>>
    BY <1>5 DEF DisconnectEnds, StopCloses, histVars
  <2>2. \A p \in Peer : place'[p] # "served" => place[p] # "served"
    BY <2>1
  <2>. QED
    BY <2>1, <2>2 DEF Forwarding
<1>6. ASSUME UNCHANGED forwardVars PROVE Forwarding'
  BY <1>6 DEF forwardVars, Forwarding
<1>7. CASE UserChooses
  BY <1>6, <1>7 DEF UserChooses, listenVars, histVars, forwardVars
<1>8. ASSUME NEW c \in Client, Upstream(c) \/ Texts(c) PROVE Forwarding'
  BY <1>6, <1>8, UpstreamSteps DEF Untouched, Texts, CheckText, DropText, ShowText, listenVars,
     deskVars, histVars, forwardVars
<1>9. CASE UNCHANGED vars
  BY <1>6, <1>9 DEF vars, listenVars, deskVars, histVars, forwardVars
<1>. QED
  BY <1>1, <1>2, <1>3, <1>4, <1>5, <1>7, <1>8, <1>9, WindowSteps, LinesForward, ServesForward
     DEF Next

-----------------------------------------------------------------------------
(* The inductive invariant and the theorems.                               *)

Inv == DeskTyped /\ ClientsInv /\ Sessions /\ Port /\ Forwarding

LEMMA InitInv == Init => Inv
<1>. SUFFICES ASSUME Init PROVE Inv
  OBVIOUS
<1>1. DeskTyped
  BY DEF Init, ListenInit, DeskTyped
<1>2. ClientsInv
  BY DesktopAssumption, DelaysAreBounded
     DEF Init, WSInit, ClientsInv, ClientsTyped, Replaced, At
<1>3. Sessions
  BY DEF Init, WSInit, Sessions
<1>4. Port
  BY DEF Init, ListenInit, Port, Places
<1>5. Forwarding
  BY DEF Init, ListenInit, Forwarding
<1>. QED
  BY <1>1, <1>2, <1>3, <1>4, <1>5 DEF Inv

LEMMA NextInv == Inv /\ [Next]_vars => Inv'
  BY DeskStep, ClientsStep, SessionsStep, PortStep, ForwardingStep DEF Inv

LEMMA AlwaysInv == Spec => []Inv
  BY InitInv, NextInv, PTL DEF Spec

\* Nothing crosses a switch of instances but what was on its way: whoever
\* holds a connection is active or being stopped, a client that was replaced
\* shows one more chunk at most, and no line typed before a switch goes to a
\* client that was replaced before the line came (client/main.go:1103-1130).
THEOREM SwitchesAreClean == Spec => []SwitchIsClean
<1>1. Inv => SwitchIsClean
  <2>. SUFFICES ASSUME Inv PROVE SwitchIsClean
    OBVIOUS
  <2>1. \A c \in Client : open[c] => active = c \/ stopper[c] # "none"
    BY DEF Inv, ClientsInv, ClientsTyped, Replaced
  <2>2. ASSUME NEW c \in Client PROVE stray[c] <= 1
    <3>1. stray[c] \in 0..1
      BY DEF Inv, ClientsInv, Replaced
    <3>. QED
      BY <3>1
  <2>. QED
    BY <2>1, <2>2 DEF SwitchIsClean, Inv, Forwarding
<1>. QED
  BY <1>1, AlwaysInv, PTL

\* A telnet port that was stopped has nobody left: a connection that was being
\* accepted while Stop ran is turned away or cut like the others
\* (client/telnetlistener.go:60-99).
THEOREM StoppedPortIsEmpty == Spec => []StoppedListenerHoldsNoOne
<1>1. Inv => TypeOK
  <2>. SUFFICES ASSUME Inv PROVE TypeOK
    OBVIOUS
  <2>1. ASSUME NEW c \in Client
        PROVE  logins[c] <= 1 /\ batches[c] <= logins[c]
    BY DEF Inv, Sessions
  <2>. QED
    BY <2>1 DEF Inv, ClientsInv, ClientsTyped, DeskTyped, TypeOK, At
<1>2. Inv => \A l \in Listener : socket[l] = "closed" =>
               /\ clients[l] = {}
               /\ \A p \in Peer : of[p] = l /\ place[p] = "served" => cut[p]
  BY DEF Inv, DeskTyped, Port
<1>. QED
  BY <1>1, <1>2, AlwaysInv, PTL DEF StoppedListenerHoldsNoOne

-----------------------------------------------------------------------------
(* Rig control.                                                            *)

\* What the line of a spot can say to tune to, and where the rig then is.
Worked == {v \in {ParseSpotLine(FormatDXCluster(s)) : s \in Spots} : v.mode # NoMode}
Target(val) == [hz |-> val.hz, mode |-> FlrigMode[val.mode]]
RigMode == {"USB", "LSB", "CW", "CWR", NoMode}
Tuning == [hz : Int, mode : RigMode]
PushPlace == {"idle", "armed", "fired", "taken", "setHz", "setMode"}
PushState == [pc : PushPlace, val : {Unknown} \cup Worked, setHz : BOOLEAN, setMode : BOOLEAN]

SyncTyped ==
  /\ RigTypeOK
  /\ flush \in [Flusher -> PushState]
  /\ pending \in {Unknown} \cup Worked
  /\ lastSdr \in Tuning /\ rig = [hz |-> rig.hz, mode |-> rig.mode]
  /\ \A f \in Pushing : flush[f].val \in Worked

\* The click whose spot is asked for is the one that is pending.
AskedIsPending ==
  \A s \in asked : asked = {s} /\ pending = ParseSpotLine(FormatDXCluster(s)) /\ pending \in Worked

\* Timers that have stamped a setting and not sent it.
Due(k) == {f \in Flusher : IF k = "hz" THEN flush[f].pc = "setHz"
                            ELSE \/ flush[f].pc = "setMode"
                                 \/ flush[f].pc = "setHz" /\ flush[f].setMode}

\* Unless pushes overlapped, one is under way at most, and what it has left to
\* send is stamped.
OnePushStamped ==
  alone =>
    /\ \A f, g \in Pushing : f = g
    /\ \A f \in Due("hz") : lastSdr.hz = flush[f].val.hz
    /\ \A f \in Due("mode") : lastSdr.mode = FlrigMode[flush[f].val.mode]

\* After an overlap nothing counts as delivered until the next push; what does
\* is as it was stamped last, unless it is about to be sent.
PushedIsStamped ==
  \A k \in Setting : fate[k] = "pushed" =>
    alone /\ (Due(k) = {} => rig[k] = lastSdr[k])

\* Unless a timer is still to take it, the pending click is taken or stamped.
Waiting == {f \in Flusher : flush[f].pc \in {"armed", "fired"}}
Taken == {f \in Flusher : flush[f].pc = "taken"}

ClickIsUnderWay ==
  alone /\ asked # {} /\ uiThread \in {"idle", "disabling"} /\ Waiting = {} =>
    /\ \A f \in Taken : flush[f].val = pending
    /\ Taken = {} => lastSdr = Target(pending)

SyncInv ==
  SyncTyped /\ AskedIsPending /\ OnePushStamped /\ PushedIsStamped /\ ClickIsUnderWay

\* In a comment that starts or ends with more words, each keeps its place.
LEMMA CommentWords ==
  ASSUME NEW V, NEW W, NEW a \in Seq(V), NEW b \in Seq(W), NEW word
  PROVE  /\ Has(a \o b, word) <=> Has(a, word) \/ Has(b, word)
         /\ a # <<>> => (a \o b)[1] = a[1]
<1>1. Has(a, word) => Has(a \o b, word)
  BY DEF Has
<1>2. Has(b, word) => Has(a \o b, word)
  <2>. SUFFICES ASSUME NEW i \in 1..Len(b), b[i] = word PROVE Has(a \o b, word)
    BY DEF Has
  <2>. Len(a) + i \in 1..Len(a \o b) /\ (a \o b)[Len(a) + i] = word
    OBVIOUS
  <2>. QED
    BY DEF Has
<1>3. Has(a \o b, word) => Has(a, word) \/ Has(b, word)
  <2>. SUFFICES ASSUME NEW i \in 1..Len(a \o b), (a \o b)[i] = word
                PROVE  Has(a, word) \/ Has(b, word)
    BY DEF Has
  <2>1. CASE i <= Len(a)
    BY <2>1 DEF Has
  <2>2. CASE i > Len(a)
    <3>. i - Len(a) \in 1..Len(b) /\ b[i - Len(a)] = word
      BY <2>2
    <3>. QED
      BY DEF Has
  <2>. QED
    BY <2>1, <2>2
<1>. QED
  BY <1>1, <1>2, <1>3

\* The time at the end of a free text is none of the words that are looked for.
LEMMA StrippedText ==
  ASSUME NEW W, NEW text \in Seq(W)
  PROVE  /\ StripTrailingTime(text) \in Seq(W)
         /\ Has(StripTrailingTime(text), "WPM") <=> Has(text, "WPM")
         /\ StripTrailingTime(text) # <<>> => text # <<>> /\ StripTrailingTime(text)[1] = text[1]
         /\ StripTrailingTime(text) = <<>> => text = <<>> \/ text[1] = "T"
<1>1. CASE text # <<>> /\ text[Len(text)] = "T"
  <2>. DEFINE s == SubSeq(text, 1, Len(text) - 1)
  <2>1. /\ StripTrailingTime(text) = s
        /\ s \in Seq(W) /\ Len(s) = Len(text) - 1 /\ Len(text) \in Nat \ {0}
        /\ \A i \in 1..Len(s) : s[i] = text[i]
    <3>1. Len(text) \in Nat /\ Len(text) # 0
      BY <1>1
    <3>. DEFINE k == Len(text) - 1
    <3>2. k \in Nat /\ \A i \in 1..k : text[i] \in W
      BY <3>1
    <3>. HIDE DEF k
    <3>3. /\ SubSeq(text, 1, k) \in Seq(W) /\ Len(SubSeq(text, 1, k)) = k
          /\ \A i \in 1..k : SubSeq(text, 1, k)[i] = text[i]
      BY <3>2, SubSeqProperties
    <3>4. s \in Seq(W) /\ Len(s) = Len(text) - 1 /\ \A i \in 1..Len(s) : s[i] = text[i]
      BY <3>3 DEF k
    <3>. QED
      BY <1>1, <3>1, <3>4 DEF StripTrailingTime
  <2>. HIDE DEF s
  <2>2. Has(s, "WPM") <=> Has(text, "WPM")
    BY <1>1, <2>1 DEF Has
  <2>3. s # <<>> => s[1] = text[1]
    BY <2>1
  <2>4. s = <<>> => Len(text) = 1
    BY <2>1
  <2>. QED
    BY <1>1, <2>1, <2>2, <2>3, <2>4
<1>2. CASE ~(text # <<>> /\ text[Len(text)] = "T")
  BY <1>2 DEF StripTrailingTime
<1>. QED
  BY <1>1, <1>2

LEMMA RoundedToTenths ==
  ASSUME NEW n \in Nat
  PROVE  LET hz == ((n + 50) \div 100) * 100 IN
         hz \in Nat /\ hz - n \in -49..50 /\ (hz >= TenMHz <=> n + 50 >= TenMHz)
<1>. DEFINE q == (n + 50) \div 100
<1>1. q \in Nat /\ 100 * q <= n + 50 /\ n + 50 < 100 * q + 100 /\ q * 100 = 100 * q
  BY SMT
<1>. HIDE DEF q
<1>2. 100 * q >= TenMHz <=> n + 50 >= TenMHz
  BY <1>1, SMT DEF TenMHz
<1>3. 100 * q \in Nat /\ 100 * q - n \in -49..50
  BY <1>1, SMT
<1>. QED
  BY <1>1, <1>2, <1>3, SMT DEF q

\* A line that is tuned to is tuned to where and how its spot is worked.
LEMMA LineMeansSpot ==
  ASSUME NEW s \in Spots, ParseSpotLine(FormatDXCluster(s)).mode # NoMode
  PROVE  LET v == ParseSpotLine(FormatDXCluster(s)) IN
         /\ v \in [hz : Int, mode : {"usb", "lsb", "cwu", "cwl"}]
         /\ s.stream # "decoder"
         /\ v.hz - s.hz \in -50..50
         /\ FlrigMode[v.mode] = WantedMode(s)
<1>. DEFINE v == ParseSpotLine(FormatDXCluster(s))
            hz == ((s.hz + 50) \div 100) * 100
            c == Comment(s)
            high == s.hz + 50 >= TenMHz
<1>0. s.hz \in Nat
  BY LineAssumption
<1>1. s.text \in Seq(STRING)
  BY LineAssumption
<1>2. hz \in Nat /\ hz - s.hz \in -49..50 /\ (hz >= TenMHz <=> high)
  BY <1>0, RoundedToTenths
<1>3. /\ v = [hz |-> IF hz \in Truncated THEN hz - 1 ELSE hz, mode |-> ModeFromSpotLine(hz, c)]
      /\ ModeFromSpotLine(hz, c) # NoMode
  BY DEF ParseSpotLine, FormatDXCluster
<1>. HIDE DEF hz, c
<1>4. v.hz \in Int /\ v.hz - s.hz \in -50..50
  <2>1. v.hz = hz \/ v.hz = hz - 1
    BY <1>3
  <2>2. hz \in Int /\ s.hz \in Int /\ -49 <= hz - s.hz /\ hz - s.hz <= 50
    BY <1>0, <1>2
  <2>. HIDE DEF v
  <2>. QED
    BY <2>1, <2>2
<1>5. /\ FlrigMode["usb"] = "USB" /\ FlrigMode["lsb"] = "LSB"
      /\ FlrigMode["cwu"] = "CW" /\ FlrigMode["cwl"] = "CWR"
  BY DEF FlrigMode
<1>6. /\ v.mode = ModeFromSpotLine(hz, c) /\ v \in [hz : Int, mode : {v.mode}]
      /\ Has(c, "WPM") => v.mode = IF high THEN "cwu" ELSE "cwl"
      /\ ~Has(c, "WPM") /\ c[1] = "USB" => v.mode = "usb"
      /\ ~Has(c, "WPM") /\ c[1] = "LSB" => v.mode = "lsb"
      /\ ~Has(c, "WPM") /\ c[1] \notin {"USB", "LSB"} =>
           /\ v.mode = IF high THEN "usb" ELSE "lsb"
           /\ c[1] = "SSTV" \/ ~Digital(c)
  <2>. HIDE DEF high
  <2>1. BySideband(hz) = IF high THEN "usb" ELSE "lsb"
    BY <1>2 DEF BySideband
  <2>2. v.mode = ModeFromSpotLine(hz, c) /\ v \in [hz : Int, mode : {v.mode}]
    BY <1>3, <1>4
  <2>. QED
    BY <1>2, <1>3, <2>1, <2>2, Zenon DEF ModeFromSpotLine
<1>. HIDE DEF v
<1>. SUFFICES /\ v.mode \in {"usb", "lsb", "cwu", "cwl"}
              /\ s.stream # "decoder" /\ FlrigMode[v.mode] = WantedMode(s)
  BY <1>4, <1>6 DEF v
<1>7. v.mode \in {"usb", "lsb", "cwu", "cwl"}
  BY <1>6
<1>. DEFINE dB == <<"N", "dB">>
<1>8. dB \in Seq({"N", "dB"}) /\ dB # <<>> /\ ~Has(dB, "WPM")
  BY DEF Has
<1>9. CASE s.stream = "decoder"
  <2>1. c = <<s.mode, "N", "dB">> /\ s.mode \in {"FT8", "FT4", "WSPR", "JS8", "FT2"}
    BY <1>9, LineAssumption, SMT DEF c, Comment, Skimmed
  <2>2. ~Has(c, "WPM") /\ Digital(c) /\ c[1] \notin {"USB", "LSB", "SSTV"}
    BY <2>1 DEF Has, Digital
  <2>. QED
    BY <1>6, <2>2
<1>10. CASE s.stream = "cwskimmer"
  <2>. DEFINE head == <<"N", "dB", "N", SpeedUnit(s)>>
  <2>1. c = head \o s.text /\ (s.mode = "CW" \/ (s.mode \in {"RTTY", "JTTY"} /\ ~Has(s.text, "WPM")))
    <3>1. s.mode = "CW" \/ (s.mode \in {"RTTY", "JTTY"} /\ ~Has(s.text, "WPM"))
      BY <1>10, LineAssumption DEF Skimmed
    <3>2. c = head \o s.text
      BY <1>10, SMT DEF c, Comment
    <3>. QED
      BY <3>1, <3>2
  <2>2. SpeedUnit(s) = IF s.mode = "CW" THEN "WPM" ELSE "BPS"
    BY <2>1 DEF SpeedUnit
  <2>3. head \in Seq({"N", "dB", "WPM", "BPS"}) /\ head # <<>> /\ head[1] = "N" /\ (Has(head, "WPM") <=> s.mode = "CW")
    BY <2>1, <2>2 DEF Has
  <2>. HIDE DEF head
  <2>4. c[1] = "N" /\ (Has(c, "WPM") <=> s.mode = "CW")
    BY <1>1, <2>1, <2>3, CommentWords
  <2>5. WantedMode(s) = IF s.mode = "CW" THEN (IF high THEN "CW" ELSE "CWR")
                                          ELSE (IF high THEN "USB" ELSE "LSB")
    BY <1>10, SMT DEF WantedMode
  <2>. QED
    BY <1>5, <1>6, <1>10, <2>4, <2>5
<1>11. CASE s.stream = "voice"
  <2>1. c = <<s.mode, "N", "dB">> /\ s.mode \in {"USB", "LSB"}
    BY <1>11, LineAssumption, SMT DEF c, Comment, Skimmed
  <2>2. ~Has(c, "WPM") /\ c[1] = s.mode
    BY <2>1 DEF Has
  <2>3. WantedMode(s) = s.mode
    BY <1>11, SMT DEF WantedMode
  <2>. QED
    BY <1>5, <1>6, <1>11, <2>1, <2>2, <2>3
<1>12. CASE s.stream = "sstv"
  <2>1. c = s.text \o dB /\ s.text # <<>> /\ s.text[1] = "SSTV" /\ ~Has(s.text, "WPM")
    BY <1>12, LineAssumption, SMT DEF c, Comment, Skimmed
  <2>. HIDE DEF dB
  <2>2. ~Has(c, "WPM") /\ c[1] = "SSTV"
    BY <1>1, <1>8, <2>1, CommentWords
  <2>3. WantedMode(s) = IF high THEN "USB" ELSE "LSB"
    BY <1>12, SMT DEF WantedMode
  <2>. QED
    BY <1>5, <1>6, <1>12, <2>2, <2>3
<1>13. CASE s.stream = "cluster"
  <2>. DEFINE t == StripTrailingTime(s.text)
  <2>1. c = IF t = <<>> THEN <<"DX">> ELSE t
    BY <1>13, SMT DEF c, Comment
  <2>2. /\ t \in Seq(STRING) /\ (Has(t, "WPM") <=> Has(s.text, "WPM"))
        /\ t # <<>> => s.text # <<>> /\ t[1] = s.text[1]
        /\ t = <<>> => s.text = <<>> \/ s.text[1] = "T"
    BY <1>1, StrippedText
  <2>. HIDE DEF t
  <2>3. (Has(c, "WPM") <=> Has(s.text, "WPM")) /\ (t = <<>> => c[1] = "DX")
    BY <2>1, <2>2 DEF Has
  <2>4. /\ Has(s.text, "WPM") => WantedMode(s) = IF high THEN "CW" ELSE "CWR"
        /\ ~Has(s.text, "WPM") => WantedMode(s) =
             IF s.text # <<>> /\ s.text[1] \in {"USB", "LSB"} THEN s.text[1]
             ELSE IF high THEN "USB" ELSE "LSB"
    <3>. HIDE DEF high
    <3>. QED
      BY <1>13, SMT DEF WantedMode, high
  <2>5. CASE Has(s.text, "WPM")
    BY <1>5, <1>6, <1>13, <2>3, <2>4, <2>5
  <2>6. CASE ~Has(s.text, "WPM") /\ t = <<>>
    BY <1>5, <1>6, <1>13, <2>2, <2>3, <2>4, <2>6
  <2>7. CASE ~Has(s.text, "WPM") /\ t # <<>>
    BY <1>5, <1>6, <1>13, <2>1, <2>2, <2>3, <2>4, <2>7
  <2>. QED
    BY <2>5, <2>6, <2>7
<1>. QED
  BY <1>7, <1>9, <1>10, <1>11, <1>12, <1>13, LineAssumption DEF Skimmed

LEMMA WorkedTyped ==
  /\ Worked \subseteq [hz : Int, mode : {"usb", "lsb", "cwu", "cwl"}]
  /\ \A v \in Worked : Target(v) \in Tuning /\ FlrigMode[v.mode] \in RigMode
  /\ Unknown \in Tuning
<1>1. Worked \subseteq [hz : Int, mode : {"usb", "lsb", "cwu", "cwl"}]
  BY LineMeansSpot DEF Worked
<1>2. \A m \in {"usb", "lsb", "cwu", "cwl"} : FlrigMode[m] \in RigMode
  BY DEF FlrigMode, RigMode
<1>3. Unknown \in Tuning
  BY DEF Unknown, Tuning, RigMode
<1>. QED
  BY <1>1, <1>2, <1>3 DEF Target, Tuning

\* What is typed besides the pushes.
ControlTyped ==
  /\ enabled \in BOOLEAN /\ connected \in BOOLEAN /\ up \in BOOLEAN
  /\ alone \in BOOLEAN /\ fresh \in BOOLEAN
  /\ fate \in [Setting -> {"pushed", "off", "left"}]
  /\ handle \subseteq Flusher /\ events \in 0..MaxEvents
  /\ asked \subseteq Spots /\ stopCh \in {"open", "closed", "lost"}
  /\ loop \in {"begin", "start", "select", "test", "getHz", "getMode", "ended"}
  /\ uiThread \in {"idle", "disabling", "stopping", "closed"}

PushTyped ==
  /\ flush \in [Flusher -> PushState]
  /\ pending \in {Unknown} \cup Worked
  /\ lastSdr \in Tuning /\ rig = [hz |-> rig.hz, mode |-> rig.mode]
  /\ \A f \in Pushing : flush[f].val \in Worked

LEMMA SyncTypedParts == SyncTyped <=> ControlTyped /\ PushTyped
<1>1. RigTypeOK => ControlTyped
  BY DEF RigTypeOK, ControlTyped
<1>2. ControlTyped /\ PushTyped => RigTypeOK
  <2>. SUFFICES ASSUME ControlTyped, PushTyped PROVE RigTypeOK
    OBVIOUS
  <2>1. {enabled, connected, up, alone, fresh} \subseteq BOOLEAN
    BY DEF ControlTyped
  <2>2. \A f \in Flusher : flush[f].val \in {Unknown} \cup Worked
    BY DEF PushTyped, PushState
  <2>3. Worked \subseteq {ParseSpotLine(FormatDXCluster(s)) : s \in Spots}
    BY DEF Worked
  <2>4. {pending} \cup {flush[f].val : f \in Flusher} \subseteq
          {Unknown} \cup {ParseSpotLine(FormatDXCluster(s)) : s \in Spots}
    BY <2>2, <2>3, Zenon DEF PushTyped
  <2>. QED
    BY <2>1, <2>4 DEF ControlTyped, RigTypeOK
<1>. QED
  BY <1>1, <1>2 DEF SyncTyped, PushTyped

-----------------------------------------------------------------------------
(* The steps of rig control.                                               *)

\* What neither arms, moves nor drops a push, and asks for no spot; the rig
\* may be turned or changed.
Disturbs ==
  /\ rig' = [hz |-> rig'.hz, mode |-> rig'.mode]
  /\ \A k \in Setting : fate'[k] = "pushed" => fate[k] = "pushed" /\ rig'[k] = rig[k]

Quiet ==
  /\ UNCHANGED <<push, asked, alone>> /\ Disturbs
  /\ uiThread' \in {"idle", "disabling"} => uiThread \in {"idle", "disabling"}

LEMMA OffEffect ==
  ASSUME NEW S
  PROVE  \A k \in Setting : Off(S)[k] = IF k \in S THEN "off" ELSE fate[k]
  BY DEF Off

LEMMA TurnedRig == \A d \in DialSettings : d = [hz |-> d.hz, mode |-> d.mode]
  BY SyncAssumption

LEMMA QuietSteps ==
  ASSUME SyncTyped, [RigNext]_rigVars
  PROVE  \/ \E s \in Spots, f \in Flusher : DoubleTap(s, f)
         \/ Stop
         \/ \E f \in Flusher : Fire(f) \/ Take(f) \/ Stamp(f) \/ SetFreq(f) \/ SetMode(f)
         \/ Quiet
<1>0. ASSUME UNCHANGED <<rig, fate>> PROVE Disturbs
  BY <1>0 DEF Disturbs, SyncTyped
<1>1. ASSUME NEW on \in BOOLEAN, NEW another \in BOOLEAN, Configure(on, another) PROVE Quiet
  <2>1. Disturbs
    <3>1. CASE another
      <4>1. rig' \in DialSettings /\ fate' = Off(Setting)
        BY <1>1, <3>1 DEF Configure
      <4>. QED
        BY <4>1, OffEffect, TurnedRig DEF Disturbs
    <3>2. CASE ~another
      BY <1>0, <1>1, <3>2 DEF Configure
    <3>. QED
      BY <3>1, <3>2
  <2>. QED
    BY <1>1, <2>1 DEF Configure, Quiet, push
<1>2. CASE MarkDisconnected \/ StopReturnsFromWait
  BY <1>0, <1>2 DEF MarkDisconnected, StopReturnsFromWait, Quiet, push, past, world
<1>3. CASE Loop \/ StopSeen
  BY <1>0, <1>3 DEF Loop, LoopBegins, StartConnect, ReconnectTick, PollTick, TryConnect, Poll,
              LoseConnection, GetFreq, GetMode, StopSeen, LoopTo, Quiet, past, world
<1>4. ASSUME NEW d \in DialSettings, TurnDial(d) PROVE Quiet
  <2>1. rig' = d /\ fate' = Off({k \in Setting : d[k] # rig[k]})
    BY <1>4 DEF TurnDial
  <2>2. Disturbs
    <3>1. \A k \in Setting : fate'[k] = "pushed" => fate[k] = "pushed" /\ d[k] = rig[k]
      BY <2>1, OffEffect
    <3>. QED
      BY <2>1, <3>1, TurnedRig DEF Disturbs
  <2>. QED
    BY <1>4, <2>2 DEF TurnDial, Quiet, config
<1>5. CASE SwitchRig
  BY <1>0, <1>5 DEF SwitchRig, Quiet, config, past
<1>6. CASE UNCHANGED rigVars
  BY <1>0, <1>6 DEF rigVars, config, past, world, Quiet
<1>. QED
  BY <1>1, <1>2, <1>3, <1>4, <1>5, <1>6 DEF RigNext, UI, Flush

LEMMA DisarmedTyped ==
  ASSUME PushTyped
  PROVE  /\ Disarmed \in [Flusher -> PushState]
         /\ \A f \in Flusher : Disarmed[f] = flush[f] \/ (flush[f].pc = "armed" /\ Disarmed[f] = Idle)
         /\ Idle \in PushState /\ Idle.pc = "idle"
<1>1. Idle \in PushState /\ Idle.pc = "idle"
  BY DEF Idle, PushState, PushPlace
<1>. QED
  BY <1>1 DEF Disarmed, PushTyped

\* A click: its timer is armed, another may be stopped, the rest goes on.
LEMMA TapEffect ==
  ASSUME PushTyped, NEW s \in Spots, NEW f \in Flusher, DoubleTap(s, f)
  PROVE  /\ flush' \in [Flusher -> PushState] /\ flush'[f].pc = "armed"
         /\ \A g \in Flusher : flush'[g] = flush[g] \/ flush'[g].pc \in {"idle", "armed"}
         /\ flush[f].pc \in {"idle", "armed"}
         /\ \A g \in Flusher : flush'[g] = flush[g] \/ flush[g].pc \in {"idle", "armed"}
         /\ pending' = ParseSpotLine(FormatDXCluster(s)) /\ pending' \in Worked
         /\ asked' = {s} /\ lastSdr' = lastSdr /\ alone' = alone /\ Disturbs
<1>. DEFINE armed == [Idle EXCEPT !.pc = "armed"]
<1>1. armed \in PushState /\ armed.pc = "armed"
  BY DisarmedTyped DEF PushState, PushPlace
<1>. HIDE DEF armed
<1>2. flush' = [Disarmed EXCEPT ![f] = armed]
  BY DEF DoubleTap, PushSDRState, Arm, armed
<1>3. /\ pending' = ParseSpotLine(FormatDXCluster(s)) /\ pending' \in Worked
      /\ asked' = {s} /\ lastSdr' = lastSdr /\ alone' = alone
      /\ flush[f].pc \in {"idle", "armed"}
  BY DEF DoubleTap, PushSDRState, Worked
<1>4. rig' = rig /\ fate' = Leave
  BY DEF DoubleTap
<1>5. Disturbs
  BY <1>4 DEF Disturbs, Leave, PushTyped
<1>. QED
  BY <1>1, <1>2, <1>3, <1>5, DisarmedTyped

LEMMA PushTypedStep ==
  ASSUME SyncTyped, [RigNext]_rigVars
  PROVE  PushTyped'
<1>. PushTyped
  BY SyncTypedParts
<1>1. ASSUME NEW s \in Spots, NEW f \in Flusher, DoubleTap(s, f) PROVE PushTyped'
  BY <1>1, TapEffect DEF PushTyped, Pushing, Disturbs
<1>2. ASSUME Stop PROVE PushTyped'
  <2>1. flush' = Disarmed /\ UNCHANGED <<pending, lastSdr, rig>>
    BY <1>2 DEF Stop, world
  <2>. QED
    BY <2>1, DisarmedTyped DEF PushTyped, Pushing
<1>3. ASSUME NEW f \in Flusher, Fire(f) PROVE PushTyped'
  <2>1. flush' = [flush EXCEPT ![f].pc = "fired"] /\ UNCHANGED <<pending, lastSdr, rig>>
    BY <1>3 DEF Fire, Goto, world
  <2>2. flush' \in [Flusher -> PushState]
    BY <2>1 DEF PushTyped, PushState, PushPlace
  <2>3. \A g \in Pushing' : g \in Pushing /\ flush'[g].val = flush[g].val
    BY <2>1, <2>2 DEF PushTyped, Pushing, PushState
  <2>. QED
    BY <2>1, <2>2, <2>3 DEF PushTyped
<1>4. ASSUME NEW f \in Flusher, Take(f) PROVE PushTyped'
  <2>1. /\ flush' = [flush EXCEPT ![f].pc = "taken", ![f].val = pending]
        /\ UNCHANGED <<pending, lastSdr, rig>> /\ pending \in Worked
    BY <1>4 DEF Take, PushTyped, Unknown, world
  <2>2. flush' \in [Flusher -> PushState]
    BY <2>1 DEF PushTyped, PushState, PushPlace
  <2>3. /\ flush'[f].val = pending
        /\ \A g \in Flusher : g # f => flush'[g] = flush[g]
    BY <2>1 DEF PushTyped, PushState
  <2>4. \A g \in Pushing' : flush'[g].val = pending \/ (g \in Pushing /\ flush'[g].val = flush[g].val)
    BY <2>3 DEF Pushing
  <2>. QED
    BY <2>1, <2>2, <2>4 DEF PushTyped
<1>5. ASSUME NEW f \in Flusher, Stamp(f) PROVE PushTyped'
  <2>. DEFINE val == flush[f].val
              ch == Changes(val)
  <2>1. val \in Worked /\ ch.hz \in BOOLEAN /\ ch.mode \in BOOLEAN
    BY <1>5 DEF Stamp, PushTyped, Pushing, Changes
  <2>2. /\ lastSdr' = [hz |-> IF ch.hz THEN val.hz ELSE lastSdr.hz,
                       mode |-> IF ch.mode THEN FlrigMode[val.mode] ELSE lastSdr.mode]
        /\ UNCHANGED <<pending, rig>>
        /\ \/ flush' = [flush EXCEPT ![f] = Idle]
           \/ \E next \in {"setHz", "setMode"} : flush' = [flush EXCEPT ![f] =
                  [flush[f] EXCEPT !.pc = next, !.setHz = ch.hz, !.setMode = ch.mode]]
    BY <1>5 DEF Stamp, world
  <2>. HIDE DEF ch, val
  <2>3. lastSdr' \in Tuning
    BY <2>1, <2>2, WorkedTyped DEF PushTyped, Tuning, Target
  <2>4. flush' \in [Flusher -> PushState] /\ \A g \in Flusher : flush'[g] = Idle \/ flush'[g].val = flush[g].val
    <3>1. CASE flush' = [flush EXCEPT ![f] = Idle]
      BY <3>1, DisarmedTyped DEF PushTyped
    <3>2. ASSUME NEW next \in {"setHz", "setMode"}, flush' = [flush EXCEPT ![f] =
                  [flush[f] EXCEPT !.pc = next, !.setHz = ch.hz, !.setMode = ch.mode]]
          PROVE  /\ flush' \in [Flusher -> PushState]
                 /\ \A g \in Flusher : flush'[g] = Idle \/ flush'[g].val = flush[g].val
      <4>. DEFINE to == [flush[f] EXCEPT !.pc = next, !.setHz = ch.hz, !.setMode = ch.mode]
      <4>1. to \in PushState /\ to.val = flush[f].val
        BY <2>1 DEF PushTyped, PushState, PushPlace
      <4>. HIDE DEF to
      <4>2. flush' = [flush EXCEPT ![f] = to]
        BY <3>2 DEF to
      <4>. QED
        BY <4>1, <4>2 DEF PushTyped
    <3>. QED
      BY <2>2, <3>1, <3>2
  <2>5. \A g \in Flusher : flush'[g].pc \in {"taken", "setHz", "setMode"} => flush[g].pc \in {"taken", "setHz", "setMode"}
    BY <1>5, <2>2, DisarmedTyped DEF PushTyped, PushState, Stamp
  <2>. QED
    BY <2>2, <2>3, <2>4, <2>5, DisarmedTyped DEF PushTyped, Pushing
<1>6. ASSUME NEW f \in Flusher, SetFreq(f) \/ SetMode(f) PROVE PushTyped'
  <2>1. /\ flush[f].val \in Worked /\ UNCHANGED <<pending, lastSdr>>
        /\ flush' = [flush EXCEPT ![f] = Idle] \/ flush' = [flush EXCEPT ![f].pc = "setMode"]
        /\ \/ rig' = rig
           \/ rig' = [rig EXCEPT !.hz = flush[f].val.hz]
           \/ rig' = [rig EXCEPT !.mode = FlrigMode[flush[f].val.mode]]
        /\ flush[f].pc \in {"setHz", "setMode"}
    BY <1>6 DEF SetFreq, SetMode, SetRig, PushTyped, Pushing
  <2>2. rig' = [hz |-> rig'.hz, mode |-> rig'.mode]
    BY <2>1 DEF PushTyped
  <2>3. flush' \in [Flusher -> PushState]
    <3>1. [flush[f] EXCEPT !.pc = "setMode"] \in PushState
      BY DEF PushTyped, PushState, PushPlace
    <3>. QED
      BY <2>1, <3>1, DisarmedTyped DEF PushTyped
  <2>4. \A g \in Pushing' : flush'[g].val \in Worked
    BY <2>1, DisarmedTyped DEF PushTyped, Pushing, PushState
  <2>. QED
    BY <2>1, <2>2, <2>3, <2>4 DEF PushTyped
<1>7. ASSUME Quiet PROVE PushTyped'
  BY <1>7 DEF Quiet, push, PushTyped, Pushing, Disturbs
<1>. QED
  BY <1>1, <1>2, <1>3, <1>4, <1>5, <1>6, <1>7, QuietSteps

LEMMA ControlTypedStep ==
  ASSUME SyncTyped, [RigNext]_rigVars
  PROVE  ControlTyped'
<1>. ControlTyped /\ PushTyped
  BY SyncTypedParts
<1>. MaxEvents \in Nat
  BY SyncAssumption
<1>0. \A S : Off(S) \in [Setting -> {"pushed", "off", "left"}]
  BY DEF Off, ControlTyped
<1>1. ASSUME NEW s \in Spots, NEW f \in Flusher, DoubleTap(s, f) PROVE ControlTyped'
  <2>1. Leave \in [Setting -> {"pushed", "off", "left"}]
    BY DEF Leave, ControlTyped
  <2>. QED
    BY <1>1, <2>1 DEF DoubleTap, PushSDRState, Arm, Event, config, poll, ControlTyped
<1>2. ASSUME NEW on \in BOOLEAN, NEW another \in BOOLEAN, Configure(on, another) PROVE ControlTyped'
  <2>1. up' \in BOOLEAN /\ fate' \in [Setting -> {"pushed", "off", "left"}]
    BY <1>0, <1>2 DEF Configure, ControlTyped
  <2>. QED
    BY <1>2, <2>1 DEF Configure, Event, push, poll, ControlTyped
<1>3. CASE MarkDisconnected \/ StopReturnsFromWait
  BY <1>3 DEF MarkDisconnected, StopReturnsFromWait, push, poll, past, world, ControlTyped
<1>4. CASE Stop
  BY <1>4 DEF Stop, poll, past, world, ControlTyped
<1>5. ASSUME NEW f \in Flusher, Fire(f) \/ Stamp(f) PROVE ControlTyped'
  BY <1>5 DEF Fire, Stamp, config, poll, past, world, ControlTyped
<1>6. ASSUME NEW f \in Flusher, Take(f) PROVE ControlTyped'
  <2>1. alone' \in BOOLEAN /\ fate' \in [Setting -> {"pushed", "off", "left"}]
    BY <1>0, <1>6 DEF Take, ControlTyped
  <2>. QED
    BY <1>6, <2>1 DEF Take, config, poll, world, ControlTyped
<1>7. ASSUME NEW f \in Flusher, SetFreq(f) \/ SetMode(f) PROVE ControlTyped'
  <2>1. \E S, k : fate' = Off(S) \/ fate' = [Off(S) EXCEPT ![k] = "pushed"]
    <3>1. CASE SetFreq(f)
      BY <3>1 DEF SetFreq, SetRig
    <3>2. CASE SetMode(f)
      BY <3>2 DEF SetMode, SetRig
    <3>. QED
      BY <1>7, <3>1, <3>2
  <2>2. fate' \in [Setting -> {"pushed", "off", "left"}]
    BY <1>0, <2>1
  <2>. QED
    BY <1>7, <2>2 DEF SetFreq, SetMode, SetRig, config, poll, ControlTyped
<1>8. CASE Loop \/ StopSeen
  <2>1. UNCHANGED <<enabled, uiThread, push, world, past>> /\ connected' \in BOOLEAN
    BY <1>8 DEF Loop, LoopBegins, StartConnect, ReconnectTick, PollTick, TryConnect, Poll,
                LoseConnection, GetFreq, GetMode, StopSeen, LoopTo, world, ControlTyped
  <2>2. fresh' \in BOOLEAN /\ stopCh' \in {"open", "closed", "lost"}
    BY <1>8 DEF Loop, LoopBegins, StartConnect, ReconnectTick, PollTick, TryConnect, Poll,
                LoseConnection, GetFreq, GetMode, StopSeen, ControlTyped
  <2>3. loop' \in {"start", "test", "select", "getHz", "getMode", "ended"}
    BY <1>8 DEF Loop, LoopBegins, StartConnect, ReconnectTick, PollTick, TryConnect, Poll,
                LoseConnection, GetFreq, GetMode, StopSeen, LoopTo
  <2>. QED
    BY <2>1, <2>2, <2>3 DEF push, world, past, ControlTyped
<1>9. CASE \E d \in DialSettings : TurnDial(d)
  BY <1>0, <1>9 DEF TurnDial, Event, config, push, poll, ControlTyped
<1>11. CASE SwitchRig
  <2>1. up' \in BOOLEAN
    BY <1>11 DEF SwitchRig
  <2>. QED
    BY <1>11, <2>1 DEF SwitchRig, Event, config, push, poll, past, ControlTyped
<1>10. CASE UNCHANGED rigVars
  BY <1>10 DEF rigVars, config, push, poll, past, world, ControlTyped
<1>. QED
  BY <1>1, <1>2, <1>3, <1>4, <1>5, <1>6, <1>7, <1>8, <1>9, <1>10, <1>11 DEF RigNext, UI, Flush

\* No push and no rig changes what is asked and pending; a click sets both.
LEMMA AskedStep ==
  ASSUME SyncTyped, AskedIsPending, [RigNext]_rigVars
  PROVE  AskedIsPending'
<1>. PushTyped
  BY SyncTypedParts
<1>1. ASSUME NEW s \in Spots, NEW f \in Flusher, DoubleTap(s, f) PROVE AskedIsPending'
  BY <1>1, TapEffect DEF AskedIsPending
<1>2. ASSUME asked' = asked, pending' = pending PROVE AskedIsPending'
  BY <1>2 DEF AskedIsPending
<1>3. CASE Stop \/ Quiet
  BY <1>2, <1>3 DEF Stop, Quiet, push, past
<1>4. ASSUME NEW f \in Flusher, Fire(f) \/ Take(f) \/ Stamp(f) \/ SetFreq(f) \/ SetMode(f)
      PROVE  AskedIsPending'
  BY <1>2, <1>4 DEF Fire, Take, Stamp, SetFreq, SetMode, SetRig, past
<1>. QED
  BY <1>1, <1>3, <1>4, QuietSteps

\* Timers that are armed, fired or stopped, and no push.
Undisturbed ==
  /\ \A g \in Flusher : \/ flush'[g] = flush[g]
                        \/ /\ flush[g].pc \in {"idle", "armed", "fired"}
                           /\ flush'[g].pc \in {"idle", "armed", "fired"}
  /\ lastSdr' = lastSdr /\ alone' = alone /\ Disturbs

LEMMA UndisturbedSteps ==
  ASSUME SyncTyped
  PROVE  /\ \A s \in Spots, f \in Flusher : DoubleTap(s, f) => Undisturbed
         /\ Stop => Undisturbed
         /\ \A f \in Flusher : Fire(f) => Undisturbed
         /\ Quiet => Undisturbed
<1>. PushTyped
  BY SyncTypedParts
<1>0. ASSUME UNCHANGED <<rig, fate>> PROVE Disturbs
  BY <1>0 DEF Disturbs, PushTyped
<1>1. ASSUME NEW s \in Spots, NEW f \in Flusher, DoubleTap(s, f) PROVE Undisturbed
  <2>1. \A g \in Flusher : flush'[g] = flush[g] \/ (flush[g].pc \in {"idle", "armed"} /\ flush'[g].pc \in {"idle", "armed"})
    BY <1>1, TapEffect
  <2>. QED
    BY <1>1, <2>1, TapEffect DEF Undisturbed
<1>2. ASSUME Stop PROVE Undisturbed
  BY <1>0, <1>2, DisarmedTyped DEF Stop, past, world, Undisturbed
<1>3. ASSUME NEW f \in Flusher, Fire(f) PROVE Undisturbed
  BY <1>0, <1>3 DEF Fire, Goto, past, world, Undisturbed, PushTyped, PushState
<1>4. ASSUME Quiet PROVE Undisturbed
  BY <1>4 DEF Quiet, push, Undisturbed
<1>. QED
  BY <1>1, <1>2, <1>3, <1>4

LEMMA PushEffect ==
  ASSUME PushTyped, NEW f \in Flusher, Stamp(f) \/ SetFreq(f) \/ SetMode(f)
  PROVE  /\ flush' = [flush EXCEPT ![f] = flush'[f]]
         /\ flush'[f].pc \in {"idle", "setHz", "setMode"}
         /\ f \in Pushing /\ alone' = alone
         /\ UNCHANGED <<pending, asked, uiThread>>
<1>. DEFINE p == flush[f]
<1>1. p \in PushState /\ Idle.pc = "idle"
  BY DisarmedTyped DEF PushTyped
<1>. DEFINE ch == Changes(flush[f].val)
            Steps == {Idle, [p EXCEPT !.pc = "setMode"],
                      [p EXCEPT !.pc = "setHz", !.setHz = ch.hz, !.setMode = ch.mode],
                      [p EXCEPT !.pc = "setMode", !.setHz = ch.hz, !.setMode = ch.mode]}
<1>2. PICK to \in Steps : flush' = [flush EXCEPT ![f] = to]
  BY DEF Stamp, SetFreq, SetMode, SetRig
<1>. HIDE DEF p, ch
<1>3. to.pc \in {"idle", "setHz", "setMode"}
  BY <1>1 DEF PushState
<1>4. flush'[f] = to
  BY <1>2 DEF PushTyped
<1>5. UNCHANGED <<pending, asked, uiThread>> /\ alone' = alone /\ f \in Pushing
  <2>1. CASE Stamp(f)
    BY <2>1 DEF Stamp, config, past, Pushing
  <2>2. CASE SetFreq(f) \/ SetMode(f)
    BY <2>2 DEF SetFreq, SetMode, SetRig, config, Pushing
  <2>. QED
    BY <2>1, <2>2
<1>. QED
  BY <1>2, <1>3, <1>4, <1>5

\* A stamped push holds what it has just stamped; what it does not send keeps
\* its stamp.
LEMMA StampEffect ==
  ASSUME PushTyped, NEW f \in Flusher, Stamp(f)
  PROVE  /\ flush[f].pc = "taken"
         /\ IF flush'[f].pc = "setHz" THEN lastSdr'.hz = flush'[f].val.hz
                                      ELSE lastSdr'.hz = lastSdr.hz
         /\ IF flush'[f].pc = "setMode" \/ (flush'[f].pc = "setHz" /\ flush'[f].setMode)
              THEN lastSdr'.mode = FlrigMode[flush'[f].val.mode]
              ELSE lastSdr'.mode = lastSdr.mode
<1>. DEFINE val == flush[f].val
            ch == Changes(val)
            p == flush[f]
<1>1. /\ flush[f].pc = "taken"
      /\ lastSdr' = [hz |-> IF ch.hz THEN val.hz ELSE lastSdr.hz,
                     mode |-> IF ch.mode THEN FlrigMode[val.mode] ELSE lastSdr.mode]
      /\ ch.hz => flush'[f] = [p EXCEPT !.pc = "setHz", !.setHz = ch.hz, !.setMode = ch.mode]
      /\ ~ch.hz /\ ch.mode =>
           flush'[f] = [p EXCEPT !.pc = "setMode", !.setHz = ch.hz, !.setMode = ch.mode]
      /\ ~ch.hz /\ ~ch.mode => flush'[f] = Idle
  BY DEF Stamp, PushTyped
<1>2. ch.hz \in BOOLEAN /\ ch.mode \in BOOLEAN
  BY DEF Changes
<1>3. p \in PushState /\ p.val = val
  BY DEF PushTyped
<1>. HIDE DEF ch, val, p
<1>4. CASE ch.hz
  <2>1. flush'[f].pc = "setHz" /\ flush'[f].val = val /\ flush'[f].setMode = ch.mode
    BY <1>1, <1>3, <1>4 DEF PushState
  <2>. QED
    BY <1>1, <1>2, <1>4, <2>1
<1>5. CASE ~ch.hz /\ ch.mode
  <2>1. flush'[f].pc = "setMode" /\ flush'[f].val = val /\ flush'[f].setMode = TRUE
    BY <1>1, <1>3, <1>5 DEF PushState
  <2>. QED
    BY <1>1, <1>5, <2>1
<1>6. CASE ~ch.hz /\ ~ch.mode
  <2>1. flush'[f].pc = "idle"
    BY <1>1, <1>6, DisarmedTyped
  <2>. QED
    BY <1>1, <1>6, <2>1
<1>. QED
  BY <1>1, <1>2, <1>4, <1>5, <1>6

LEMMA StampedStep ==
  ASSUME SyncTyped, OnePushStamped, [RigNext]_rigVars
  PROVE  OnePushStamped'
<1>. PushTyped /\ PushTyped'
  BY SyncTypedParts, PushTypedStep
<1>. SUFFICES ASSUME alone'
              PROVE  /\ \A f, g \in Pushing' : f = g
                     /\ \A f \in Due("hz")' : lastSdr'.hz = flush'[f].val.hz
                     /\ \A f \in Due("mode")' : lastSdr'.mode = FlrigMode[flush'[f].val.mode]
  BY DEF OnePushStamped
<1>1. CASE Undisturbed
  <2>1. /\ alone /\ lastSdr' = lastSdr /\ Pushing' = Pushing
        /\ Due("hz")' = Due("hz") /\ Due("mode")' = Due("mode")
    BY <1>1 DEF Undisturbed, Pushing, Due
  <2>2. \A f \in Pushing : flush'[f] = flush[f]
    BY <1>1 DEF Undisturbed, Pushing
  <2>3. Due("hz") \subseteq Pushing /\ Due("mode") \subseteq Pushing
    BY DEF Due, Pushing
  <2>. QED
    BY <2>1, <2>2, <2>3 DEF OnePushStamped
<1>2. ASSUME NEW f \in Flusher, Take(f)
      PROVE  (\A g, h \in Pushing' : g = h) /\ Due("hz")' = {} /\ Due("mode")' = {}
  <2>1. Pushing = {} /\ flush' = [flush EXCEPT ![f].pc = "taken", ![f].val = pending]
    BY <1>2 DEF Take
  <2>2. \A g \in Flusher : (flush'[g].pc = "taken" /\ g = f) \/ flush'[g].pc \in {"idle", "armed", "fired"}
    BY <2>1 DEF Pushing, PushTyped, PushState, PushPlace
  <2>. QED
    BY <2>2 DEF Pushing, Due
<1>3. ASSUME NEW f \in Flusher, Stamp(f) \/ SetFreq(f) \/ SetMode(f)
      PROVE  /\ \A g, h \in Pushing' : g = h
             /\ \A g \in Due("hz")' : lastSdr'.hz = flush'[g].val.hz
             /\ \A g \in Due("mode")' : lastSdr'.mode = FlrigMode[flush'[g].val.mode]
  <2>1. alone /\ Pushing = {f} /\ flush' = [flush EXCEPT ![f] = flush'[f]]
    BY <1>3, PushEffect DEF OnePushStamped
  <2>2. \A g \in Flusher : g = f \/ flush'[g].pc \in {"idle", "armed", "fired"}
    BY <2>1 DEF Pushing, PushTyped, PushState, PushPlace
  <2>3. Pushing' \subseteq {f} /\ Due("hz")' \subseteq {f} /\ Due("mode")' \subseteq {f}
    BY <2>2 DEF Pushing, Due
  <2>. SUFFICES /\ f \in Due("hz")' => lastSdr'.hz = flush'[f].val.hz
                /\ f \in Due("mode")' => lastSdr'.mode = FlrigMode[flush'[f].val.mode]
    BY <2>3
  <2>4. CASE Stamp(f)
    BY <2>4, StampEffect DEF Due
  <2>5. CASE SetFreq(f) \/ SetMode(f)
    <3>1. /\ lastSdr' = lastSdr
          /\ \/ flush'[f] = Idle
             \/ /\ flush'[f] = [flush[f] EXCEPT !.pc = "setMode"]
                /\ flush[f].pc = "setHz" /\ flush[f].setMode
      BY <2>5 DEF SetFreq, SetMode, SetRig, PushTyped, PushState
    <3>2. CASE flush'[f] = Idle
      BY <3>2, DisarmedTyped DEF Due
    <3>3. CASE flush'[f] = [flush[f] EXCEPT !.pc = "setMode"]
      <4>1. /\ flush'[f].pc = "setMode" /\ flush'[f].val = flush[f].val
            /\ flush'[f].setMode = flush[f].setMode
        BY <3>3 DEF PushTyped, PushState
      <4>2. flush[f].pc = "setHz" /\ flush[f].setMode
        BY <3>1, <3>3, DisarmedTyped, <4>1
      <4>. QED
        BY <2>1, <3>1, <4>1, <4>2 DEF Due, OnePushStamped
    <3>. QED
      BY <3>1, <3>2, <3>3
  <2>. QED
    BY <1>3, <2>4, <2>5
<1>. QED
  BY <1>1, <1>2, <1>3, QuietSteps, UndisturbedSteps

\* A setting that counts as delivered was delivered by this step, or it did
\* before, and neither the rig nor the stamp has changed since.
LEMMA PushedStep ==
  ASSUME SyncInv, [RigNext]_rigVars
  PROVE  PushedIsStamped'
<1>. PushTyped /\ SyncTyped
  BY SyncTypedParts DEF SyncInv
<1>. SUFFICES ASSUME NEW k \in Setting, fate'[k] = "pushed"
              PROVE  alone' /\ (Due(k)' = {} => rig'[k] = lastSdr'[k])
  BY DEF PushedIsStamped
<1>0. fate[k] = "pushed" => alone /\ (Due(k) = {} => rig[k] = lastSdr[k])
  BY DEF SyncInv, PushedIsStamped
<1>1. CASE Undisturbed
  <2>1. /\ alone' = alone /\ lastSdr' = lastSdr /\ rig'[k] = rig[k] /\ fate[k] = "pushed"
        /\ Due(k)' = Due(k)
    BY <1>1 DEF Undisturbed, Disturbs, Due
  <2>. QED
    BY <1>0, <2>1
<1>2. ASSUME NEW f \in Flusher, Take(f)
      PROVE  alone' /\ (Due(k)' = {} => rig'[k] = lastSdr'[k])
  <2>1. Pushing = {} /\ alone' /\ fate' = fate /\ lastSdr' = lastSdr /\ rig' = rig
    <3>1. CASE Pushing = {}
      BY <1>2, <3>1 DEF Take, world
    <3>2. CASE Pushing # {}
      BY <1>2, <3>2, OffEffect DEF Take
    <3>. QED
      BY <3>1, <3>2
  <2>2. Due(k) = {}
    BY <2>1 DEF Due, Pushing
  <2>. QED
    BY <1>0, <2>1, <2>2
<1>3. ASSUME NEW f \in Flusher, Stamp(f) PROVE alone' /\ (Due(k)' = {} => rig'[k] = lastSdr'[k])
  <2>1. alone' = alone /\ fate' = fate /\ rig' = rig
    BY <1>3 DEF Stamp, past, world
  <2>2. alone /\ Pushing = {f}
    BY <1>0, <1>3, <2>1, PushEffect DEF SyncInv, OnePushStamped
  <2>3. Due(k) = {}
    BY <1>3, <2>2 DEF Stamp, Due, Pushing
  <2>4. Due(k)' = {} => lastSdr'[k] = lastSdr[k]
    BY <1>3, StampEffect DEF Due, Setting
  <2>. QED
    BY <1>0, <2>1, <2>2, <2>3, <2>4
<1>4. ASSUME NEW f \in Flusher, SetFreq(f) PROVE alone' /\ (Due(k)' = {} => rig'[k] = lastSdr'[k])
  <2>1. PICK done \in BOOLEAN, answered \in BOOLEAN :
          /\ rig' = IF done THEN [rig EXCEPT !.hz = flush[f].val.hz] ELSE rig
          /\ fate' = LET spoiled == IF flush[f].setMode /\ ~answered THEN {"hz", "mode"} ELSE {"hz"}
                     IN  IF done /\ alone THEN [Off(spoiled) EXCEPT !.hz = "pushed"] ELSE Off(spoiled)
          /\ flush' = [flush EXCEPT ![f] = IF ~answered \/ ~flush[f].setMode THEN Idle
                                           ELSE [@ EXCEPT !.pc = "setMode"]]
          /\ UNCHANGED <<lastSdr, alone>> /\ flush[f].pc = "setHz" /\ flush[f].setMode \in BOOLEAN
    BY <1>4 DEF SetFreq, SetRig, PushTyped, PushState
  <2>2. CASE k = "hz"
    <3>1. done /\ alone
      BY <2>1, <2>2, OffEffect DEF Setting
    <3>2. lastSdr.hz = flush[f].val.hz
      BY <2>1, <3>1 DEF SyncInv, OnePushStamped, Due
    <3>3. rig'.hz = flush[f].val.hz
      BY <2>1, <3>1 DEF PushTyped
    <3>. QED
      BY <2>1, <2>2, <3>1, <3>2, <3>3
  <2>3. CASE k = "mode"
    <3>1. fate[k] = "pushed" /\ (answered \/ ~flush[f].setMode)
      <4>1. k \notin (IF flush[f].setMode /\ ~answered THEN {"hz", "mode"} ELSE {"hz"}) /\ fate'[k] = fate[k]
        BY <2>1, <2>3, OffEffect DEF Setting, Off
      <4>. QED
        BY <2>3, <4>1
    <3>2. alone /\ rig'[k] = rig[k]
      BY <1>0, <2>1, <2>3, <3>1 DEF PushTyped
    <3>3. \A g \in Flusher : g \in Due(k)' <=> g \in Due(k)
      <4>1. CASE flush[f].setMode
        BY <2>1, <2>3, <3>1, <4>1 DEF Due, PushTyped, PushState
      <4>2. CASE ~flush[f].setMode
        BY <2>1, <2>3, <4>2, DisarmedTyped DEF Due, PushTyped, PushState
      <4>. QED
        BY <2>1, <4>1, <4>2
    <3>4. Due(k)' = Due(k)
      BY <3>3 DEF Due
    <3>. QED
      BY <1>0, <2>1, <3>1, <3>2, <3>4
  <2>. QED
    BY <2>2, <2>3 DEF Setting
<1>5. ASSUME NEW f \in Flusher, SetMode(f) PROVE alone' /\ (Due(k)' = {} => rig'[k] = lastSdr'[k])
  <2>1. PICK done \in BOOLEAN :
          /\ rig' = IF done THEN [rig EXCEPT !.mode = FlrigMode[flush[f].val.mode]] ELSE rig
          /\ fate' = IF done /\ alone THEN [Off({"mode"}) EXCEPT !.mode = "pushed"] ELSE Off({"mode"})
          /\ flush' = [flush EXCEPT ![f] = Idle]
          /\ UNCHANGED <<lastSdr, alone>> /\ flush[f].pc = "setMode"
    BY <1>5 DEF SetMode, SetRig
  <2>2. CASE k = "hz"
    <3>1. fate[k] = "pushed" /\ rig'[k] = rig[k]
      BY <2>1, <2>2, OffEffect DEF Off, PushTyped, Setting
    <3>2. \A g \in Flusher : g \in Due(k)' <=> g \in Due(k)
      BY <2>1, <2>2, DisarmedTyped DEF Due, PushTyped
    <3>3. Due(k)' = Due(k)
      BY <3>2 DEF Due
    <3>. QED
      BY <1>0, <2>1, <3>1, <3>3
  <2>3. CASE k = "mode"
    <3>1. done /\ alone
      BY <2>1, <2>3, OffEffect DEF Setting
    <3>2. lastSdr.mode = FlrigMode[flush[f].val.mode]
      BY <2>1, <3>1 DEF SyncInv, OnePushStamped, Due
    <3>3. rig'.mode = FlrigMode[flush[f].val.mode]
      BY <2>1, <3>1 DEF PushTyped
    <3>. QED
      BY <2>1, <2>3, <3>1, <3>2, <3>3
  <2>. QED
    BY <2>2, <2>3 DEF Setting
<1>. QED
  BY <1>1, <1>2, <1>3, <1>4, <1>5, QuietSteps, UndisturbedSteps

LEMMA ClickStep ==
  ASSUME SyncInv, [RigNext]_rigVars
  PROVE  ClickIsUnderWay'
<1>. PushTyped
  BY SyncTypedParts DEF SyncInv
<1>. SUFFICES ASSUME alone', asked' # {}, uiThread' \in {"idle", "disabling"}, Waiting' = {}
              PROVE  /\ \A f \in Taken' : flush'[f].val = pending'
                     /\ Taken' = {} => lastSdr' = Target(pending')
  BY DEF ClickIsUnderWay, Target
<1>1. ASSUME NEW s \in Spots, NEW f \in Flusher, DoubleTap(s, f) PROVE FALSE
  BY <1>1, TapEffect DEF Waiting
<1>2. CASE Stop
  BY <1>2 DEF Stop
<1>3. ASSUME NEW f \in Flusher, Fire(f) PROVE FALSE
  BY <1>3 DEF Fire, Goto, Waiting, PushTyped, PushState
<1>4. CASE Quiet
  <2>1. /\ alone /\ asked # {} /\ uiThread \in {"idle", "disabling"} /\ Waiting = {}
        /\ flush' = flush /\ pending' = pending /\ lastSdr' = lastSdr /\ Taken' = Taken
    BY <1>4 DEF Quiet, push, Waiting, Taken
  <2>. QED
    BY <2>1 DEF SyncInv, ClickIsUnderWay
<1>5. ASSUME NEW f \in Flusher, Take(f)
      PROVE  (\A g \in Taken' : flush'[g].val = pending') /\ Taken' # {}
  <2>1. /\ Pushing = {} /\ pending' = pending
        /\ flush' = [flush EXCEPT ![f].pc = "taken", ![f].val = pending]
    BY <1>5 DEF Take
  <2>2. f \in Taken' /\ flush'[f].val = pending
    BY <2>1 DEF Taken, PushTyped, PushState
  <2>3. \A g \in Taken' : g = f
    BY <2>1 DEF Taken, Pushing, PushTyped, PushState
  <2>. QED
    BY <2>1, <2>2, <2>3
<1>6. ASSUME NEW f \in Flusher, Stamp(f) \/ SetFreq(f) \/ SetMode(f)
      PROVE  /\ \A g \in Taken' : flush'[g].val = pending'
             /\ Taken' = {} => lastSdr' = Target(pending')
  <2>1. /\ alone /\ asked # {} /\ uiThread \in {"idle", "disabling"}
        /\ pending' = pending /\ f \in Pushing
        /\ flush' = [flush EXCEPT ![f] = flush'[f]]
        /\ flush'[f].pc \in {"idle", "setHz", "setMode"}
    BY <1>6, PushEffect
  <2>2. Pushing = {f}
    BY <2>1 DEF SyncInv, OnePushStamped
  <2>3. Waiting = {} /\ Taken' = {} /\ (Taken = {} \/ Taken = {f})
    BY <2>1, <2>2 DEF Pushing, Waiting, Taken, PushTyped
  <2>4. /\ \A g \in Taken : flush[g].val = pending
        /\ Taken = {} => lastSdr = Target(pending)
    BY <2>1, <2>3 DEF SyncInv, ClickIsUnderWay
  <2>5. CASE Stamp(f)
    <3>1. flush[f].val = pending
      BY <2>4, <2>5 DEF Stamp, Taken
    <3>2. lastSdr' = Target(pending)
      BY <2>5, <3>1 DEF Stamp, Changes, Target
    <3>. QED
      BY <2>1, <2>3, <3>2
  <2>6. CASE SetFreq(f) \/ SetMode(f)
    <3>1. Taken = {} /\ lastSdr' = lastSdr
      BY <2>3, <2>6 DEF SetFreq, SetMode, SetRig, Taken
    <3>. QED
      BY <2>1, <2>3, <2>4, <3>1
  <2>. QED
    BY <1>6, <2>5, <2>6
<1>. QED
  BY <1>1, <1>2, <1>3, <1>4, <1>5, <1>6, QuietSteps DEF SyncInv

LEMMA InitSync == RigInit => SyncInv
<1>. SUFFICES ASSUME RigInit PROVE SyncInv
  OBVIOUS
<1>1. Idle \in PushState /\ Idle.pc = "idle" /\ Unknown \in Tuning
  BY WorkedTyped DEF Idle, PushState, PushPlace
<1>2. flush = [f \in Flusher |-> Idle] /\ flush \in [Flusher -> PushState]
  BY <1>1 DEF RigInit
<1>3. Pushing = {} /\ Due("hz") = {} /\ Due("mode") = {}
  BY <1>1, <1>2 DEF Pushing, Due
<1>4. PushTyped
  BY <1>1, <1>2, <1>3, TurnedRig DEF RigInit, PushTyped
<1>5. ControlTyped
  <2>1. 0 \in 0..MaxEvents
    BY SyncAssumption
  <2>2. fate \in [Setting -> {"pushed", "off", "left"}]
    BY DEF RigInit
  <2>. QED
    BY <2>1, <2>2 DEF RigInit, ControlTyped
<1>6. OnePushStamped /\ PushedIsStamped
  BY <1>3 DEF RigInit, OnePushStamped, PushedIsStamped
<1>. QED
  BY <1>4, <1>5, <1>6, SyncTypedParts DEF RigInit, SyncInv, AskedIsPending, ClickIsUnderWay

LEMMA AlwaysSync == RigSpec => []SyncInv
<1>1. SyncInv /\ [RigNext]_rigVars => SyncInv'
  <2>. SUFFICES ASSUME SyncInv, [RigNext]_rigVars PROVE SyncInv'
    OBVIOUS
  <2>1. SyncTyped'
    <3>1. ControlTyped' /\ PushTyped'
      BY ControlTypedStep, PushTypedStep DEF SyncInv
    <3>. QED
      BY <3>1, SyncTypedParts, PTL
  <2>. QED
    BY <2>1, AskedStep, StampedStep, PushedStep, ClickStep DEF SyncInv
<1>. QED
  BY <1>1, InitSync, PTL DEF RigSpec

\* However many timers there are and whatever fails: what a push delivered and
\* nobody disturbed is the spot's clicked last, as flushSDRToRig sends it.
THEOREM RigFollows == RigSpec => []RigFollowsClicks
<1>1. SyncInv => RigFollowsClicks
  <2>. SUFFICES ASSUME SyncInv, AtRest, NEW s \in asked
                PROVE  /\ s.stream # "decoder"
                       /\ \A k \in Setting : fate[k] = "pushed" => k \in Follows(s)
    BY DEF RigFollowsClicks, SyncInv, SyncTyped
  <2>1. /\ uiThread \in {"idle", "disabling"} /\ Waiting = {} /\ Taken = {}
        /\ \A k \in Setting : Due(k) = {}
    BY DEF AtRest, Waiting, Taken, Due
  <2>2. s \in Spots /\ pending = ParseSpotLine(FormatDXCluster(s)) /\ pending.mode # NoMode
    BY DEF SyncInv, SyncTyped, RigTypeOK, AskedIsPending, Worked
  <2>3. /\ s.stream # "decoder" /\ pending.hz - s.hz \in -50..50
        /\ FlrigMode[pending.mode] = WantedMode(s)
    BY <2>2, LineMeansSpot
  <2>4. ASSUME NEW k \in Setting, fate[k] = "pushed" PROVE k \in Follows(s)
    <3>1. alone /\ rig[k] = lastSdr[k]
      BY <2>1, <2>4 DEF SyncInv, PushedIsStamped
    <3>2. lastSdr = Target(pending)
      BY <2>1, <3>1 DEF SyncInv, ClickIsUnderWay
    <3>. QED
      BY <2>3, <3>1, <3>2 DEF Target, Follows, Setting
  <2>. QED
    BY <2>3, <2>4
<1>. QED
  BY <1>1, AlwaysSync, PTL

\* A reading is dropped when the link comes up (FlrigSync.tryConnect), so what
\* is there later was read since.
THEOREM DialogIsFresh == RigSpec => []DialogFresh
<1>. DEFINE ReadSince == lastFlrig = Unknown \/ fresh = TRUE
<1>1. RigInit => ReadSince
  BY DEF RigInit
<1>2. ReadSince /\ [RigNext]_rigVars => ReadSince'
  <2>. SUFFICES ASSUME ReadSince, [RigNext]_rigVars PROVE ReadSince'
    OBVIOUS
  <2>1. CASE UNCHANGED <<lastFlrig, fresh>>
    BY <2>1
  <2>2. CASE TryConnect \/ GetMode
    BY <2>2 DEF TryConnect, GetMode
  <2>3. CASE UI \/ \E f \in Flusher : Fire(f) \/ Flush(f)
    <3>1. CASE UI
      BY <2>1, <3>1 DEF UI, DoubleTap, Configure, MarkDisconnected, Stop, StopReturnsFromWait, poll
    <3>2. CASE \E f \in Flusher : Fire(f) \/ Take(f) \/ Stamp(f)
      BY <2>1, <3>2 DEF Fire, Take, Stamp, poll
    <3>3. CASE \E f \in Flusher : SetFreq(f) \/ SetMode(f)
      BY <2>1, <3>3 DEF SetFreq, SetMode, SetRig, poll
    <3>. QED
      BY <2>3, <3>1, <3>2, <3>3 DEF Flush
  <2>4. CASE LoopBegins \/ StartConnect \/ ReconnectTick \/ PollTick \/ StopSeen \/ LoseConnection \/ GetFreq
    BY <2>1, <2>4 DEF LoopBegins, StartConnect, ReconnectTick, PollTick, StopSeen, LoseConnection, GetFreq
  <2>5. CASE (\E d \in DialSettings : TurnDial(d)) \/ SwitchRig \/ UNCHANGED rigVars
    BY <2>1, <2>5 DEF TurnDial, SwitchRig, rigVars, poll
  <2>. QED
    BY <2>2, <2>3, <2>4, <2>5 DEF RigNext, Loop, Poll
<1>3. ReadSince => DialogFresh
  BY DEF DialogFresh, Unknown
<1>. QED
  BY <1>1, <1>2, <1>3, PTL DEF RigSpec
=============================================================================
