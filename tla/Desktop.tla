------------------------------ MODULE Desktop -------------------------------
(***************************************************************************)
(* The desktop client's session (client/main.go): the window's thread      *)
(* connects, switches between instances and disconnects, with one upstream *)
(* client at a time (WSClient) and a telnet port that outlives a switch    *)
(* (TelnetListener).  The upstream goroutines check u.client before they   *)
(* show text; telnet handlers read it before they send a line.             *)
(***************************************************************************)
EXTENDS WSClient, TelnetListener

CONSTANT Nobody     \* a nil pointer

ASSUME DesktopAssumption == Nobody \notin Client \cup Listener

VARIABLES active,   \* u.client
          listener, \* u.listener
          bound,    \* the listener newClient captured, per client
          ui,       \* what the window's thread is in the middle of
          showing,  \* clients whose text has passed the check
          holder,   \* the client a handler has loaded, per peer
          stray,    \* history: chunks shown after the client was replaced
          since,    \* history: clients active since the line at hand came
          astray    \* history: peers with a line that went to any other

deskVars == <<active, listener, bound, ui, showing, holder>>
histVars == <<stray, since, astray>>
vars == <<wsVars, listenVars, deskVars, histVars>>

Init ==
  /\ WSInit /\ ListenInit
  /\ active = Nobody /\ listener = Nobody
  /\ bound = [c \in Client |-> Nobody]
  /\ ui = "start"
  /\ showing = {}
  /\ holder = [p \in Peer |-> Nobody]
  /\ stray = [c \in Client |-> 0]
  /\ since = [p \in Peer |-> {}]
  /\ astray = {}

-----------------------------------------------------------------------------
(* The window's thread.  Its clients are made one after another.           *)

Unused(c) == at[c] = "new" /\ \A d \in Client : d < c => at[d] # "new"

\* u.client.Store(c): lines under way may go to c from now on.
Activate(c) ==
  /\ active' = c
  /\ since' = [p \in Peer |-> IF handler[p] = "forward"
                              THEN since[p] \cup {c} ELSE since[p]]

\* newClient, Store and Start.
Begin(c, l) ==
  /\ Unused(c)
  /\ at' = [at EXCEPT ![c] = "dial"]
  /\ bound' = [bound EXCEPT ![c] = l]
  /\ Activate(c)

\* onConnect while nothing is connected and the port is free.
ConnectTo(c, l) ==
  /\ active = Nobody
  /\ StartListener(l)
  /\ listener' = l
  /\ Begin(c, l)
  /\ UNCHANGED <<open, backoff, loginVars, stopper, showing, holder, stray, astray>>

Connect ==
  /\ ui = "idle"
  /\ \E c \in Client, l \in Listener : ConnectTo(c, l)
  /\ UNCHANGED ui

\* Swap(nil), and the old client's Stop in a goroutine of its own.
Retire ==
  /\ active # Nobody
  /\ active' = Nobody
  /\ stopper' = [stopper EXCEPT ![active] = "asked"]
  /\ UNCHANGED <<at, open, backoff, loginVars>>

\* switchTo up to its Broadcast.
Switch ==
  /\ ui = "idle"
  /\ \E c \in Client : Unused(c)   \* the bound on clients
  /\ Retire
  /\ ui' = "switch"
  /\ UNCHANGED <<listenVars, listener, bound, showing, holder, histVars>>

\* The Broadcast has gone through, and the new client starts.
SwitchEnds ==
  \E c \in Client :
    /\ ui = "switch"
    /\ Writable(listener)
    /\ Begin(c, listener)
    /\ ui' = "idle"
    /\ UNCHANGED <<open, backoff, loginVars, stopper,
                   listenVars, listener, showing, holder, stray, astray>>

\* chooseInstance: the session there is is switched, or one is begun.
Choose == Switch \/ Connect

Disconnect ==
  /\ ui = "idle"
  /\ Retire
  /\ StopTakesClients(listener)
  /\ ui' = "stop"
  /\ UNCHANGED <<listener, bound, showing, holder, histVars>>

DisconnectEnds ==
  /\ ui = "stop"
  /\ StopCloses(listener)
  /\ listener' = Nobody
  /\ ui' = "idle"
  /\ UNCHANGED <<wsVars, active, bound, showing, holder, histVars>>

\* doStartup: an instance is known and chosen at once, or the user has to pick
\* one while a local one may be looked for.
Startup ==
  /\ ui = "start" /\ ui' = "idle"
  /\ \/ \E c \in Client, l \in Listener : ConnectTo(c, l)
     \/ UNCHANGED <<wsVars, listenVars, active, listener, bound, showing, holder, histVars>>

\* doLocalAutoConnect has found its instance and posts chooseInstance to the
\* window's thread, at any time and whatever the user has chosen meanwhile.
LocalFound == ui = "idle" /\ Choose

-----------------------------------------------------------------------------
(* Callbacks of the upstream goroutines and of the telnet handlers.        *)

\* Faulty: text is relayed without the guard.
CheckTextAlways(c) ==
  /\ at[c] = "callback" /\ c \notin showing
  /\ showing' = showing \cup {c}
  /\ UNCHANGED <<wsVars, listenVars, active, listener, bound, ui,
                 holder, histVars>>

\* onText's guard, for the client that is still the active one.
CheckText(c) ==
  /\ at[c] = "callback" /\ c \notin showing
  /\ active = c
  /\ showing' = showing \cup {c}
  /\ UNCHANGED <<wsVars, listenVars, active, listener, bound, ui,
                 holder, histVars>>

\* The guard drops the text of any other client.
DropText(c) ==
  /\ at[c] = "callback" /\ c \notin showing
  /\ active # c
  /\ Relayed(c)
  /\ UNCHANGED <<listenVars, deskVars, histVars>>

\* term.append and Broadcast.
ShowText(c) ==
  /\ c \in showing
  /\ Writable(bound[c])
  /\ showing' = showing \ {c}
  /\ stray' = [stray EXCEPT ![c] = IF active # c /\ @ < 2 THEN @ + 1 ELSE @]
  /\ Relayed(c)
  /\ UNCHANGED <<listenVars, active, listener, bound, ui, holder, since, astray>>

\* A line a peer typed; the handler echoes it before it forwards it.
TakeLine(p) ==
  /\ p \notin stalled
  /\ ScanLine(p)
  /\ since' = [since EXCEPT ![p] = {active} \ {Nobody}]
  /\ UNCHANGED <<wsVars, deskVars, stray, astray>>

\* forward's Load.
LoadClient(p) ==
  /\ handler[p] = "forward" /\ holder[p] = Nobody /\ active # Nobody
  /\ holder' = [holder EXCEPT ![p] = active]
  /\ UNCHANGED <<wsVars, listenVars, active, listener, bound, ui,
                 showing, histVars>>

\* Nothing is connected, as while a switch is under way: the line is lost.
LoseLine(p) ==
  /\ handler[p] = "forward" /\ holder[p] = Nobody /\ active = Nobody
  /\ since' = [since EXCEPT ![p] = {}]
  /\ Forwarded(p)
  /\ UNCHANGED <<wsVars, deskVars, stray, astray>>

\* c.Send: the line goes out by the loaded client's connection, if it has one.
SendLine(p) ==
  /\ holder[p] # Nobody
  /\ astray' = astray \cup {q \in {p} : open[holder[p]] /\ holder[p] \notin since[p]}
  /\ since' = [since EXCEPT ![p] = {}]
  /\ holder' = [holder EXCEPT ![p] = Nobody]
  /\ Forwarded(p)
  /\ UNCHANGED <<wsVars, active, listener, bound, ui, showing, stray>>

-----------------------------------------------------------------------------
ClientRuns(c) == Connects(c) /\ UNCHANGED <<listenVars, deskVars, histVars>>
StopRuns(c) == Stops(c) /\ UNCHANGED <<listenVars, deskVars, histVars>>
SessionEnds(c) == ReadFails(c) /\ UNCHANGED <<listenVars, deskVars, histVars>>
SessionGoesOn(c) ==
  /\ Read(c)
  /\ UNCHANGED <<listenVars, deskVars, histVars>>

Upstream(c) == ClientRuns(c) \/ StopRuns(c) \/ SessionEnds(c) \/ SessionGoesOn(c)

Downstream(p) ==
  /\ Serves(p) \/ Peers(p)
  /\ UNCHANGED <<wsVars, deskVars, histVars>>

Window ==
  \/ Startup \/ Choose \/ LocalFound
  \/ SwitchEnds \/ Disconnect \/ DisconnectEnds

Texts(c) == CheckText(c) \/ DropText(c) \/ ShowText(c)
Lines(p) == TakeLine(p) \/ LoadClient(p) \/ LoseLine(p) \/ SendLine(p)

Next ==
  \/ Window
  \/ \E c \in Client : Upstream(c) \/ Texts(c)
  \/ \E p \in Peer : Downstream(p) \/ Lines(p)

Spec == Init /\ [][Next]_vars

\* Each step a cancelled client's goroutine has left.
Unwinds(c) ==
  /\ Cancelled(c)
  /\ ClientRuns(c) \/ SessionEnds(c) \/ CheckText(c) \/ DropText(c)

\* Goroutines run; a dial and a farewell end within their time limits; a
\* slow peer reads on in the end, so that a write to it goes through.
\* Nothing is assumed of the server or of the user.
FairSpec ==
  /\ Spec
  /\ \A c \in Client :
       WF_vars(StopRuns(c)) /\ WF_vars(Unwinds(c)) /\ SF_vars(ShowText(c))
  /\ \A p \in Slow : WF_vars(PeerReads(p) /\ UNCHANGED <<wsVars, deskVars, histVars>>)

-----------------------------------------------------------------------------
(* Properties.                                                             *)

\* Every variable has its type; a session is opened with one login line at
\* most, and the startup commands are started once at most and behind it.
TypeOK ==
  /\ \A c \in Client :
       /\ at[c] \in {"new", "dial", "reading", "callback", "pause", "backoff", "done"}
       /\ open[c] <=> at[c] \in {"reading", "callback"}
       /\ stopper[c] \in {"none", "asked", "wait", "returned"}
       /\ backoff[c] \in BackoffMin..BackoffMax
       /\ logins[c] <= 1 /\ batches[c] <= logins[c]
       /\ c \in showing => at[c] = "callback"
  /\ active \in Client \cup {Nobody} /\ listener \in Listener \cup {Nobody}
  /\ active # Nobody => listener # Nobody /\ running[listener]

\* Nothing crosses a switch but what was on its way: a client that is neither
\* active nor being stopped holds no connection; of a client that was
\* replaced at most one more chunk is shown (client/main.go:1128-1130); a
\* telnet peer's line goes to a client that was active after the line was
\* read (client/main.go:1103-1104).
SwitchIsClean ==
  /\ \A c \in Client : open[c] => active = c \/ stopper[c] # "none"
  /\ \A c \in Client : stray[c] <= 1
  /\ astray = {}

\* A listener that has stopped has no connection left: none in its map, none
\* served and still open ("disconnects all
\* clients", client/telnetlistener.go:60).
StoppedListenerHoldsNoOne ==
  /\ TypeOK
  /\ \A l \in Listener : socket[l] = "closed" =>
       /\ clients[l] = {}
       /\ \A p \in Peer : of[p] = l /\ place[p] = "served" => cut[p]

\* A client that was replaced or disconnected ends and Stop returns: no
\* upstream goes on dialling or relaying on its own.
ReplacedEnds ==
  \A c \in Client : stopper[c] # "none" ~> stopper[c] = "returned"
=============================================================================
