--------------------------- MODULE TelnetListener ---------------------------
(***************************************************************************)
(* The desktop client's telnet port (client/telnetlistener.go): an accept  *)
(* loop, one handler goroutine per connection, and a Stop that takes the   *)
(* map of connections away under the lock and closes them after it.        *)
(*                                                                         *)
(* A peer is a logging program; it has one connection at a time.  A slow   *)
(* peer may stop reading for a while, which holds up whoever writes to it. *)
(* The connected-clients label is left out.                                *)
(***************************************************************************)
EXTENDS Naturals

CONSTANTS Listener,   \* the TelnetListeners, numbered as they are made
          Peer,
          Slow        \* the peers that may stop reading

ASSUME ListenerAssumption == Listener \subseteq Nat /\ Slow \subseteq Peer

VARIABLES socket,   \* the listening socket: "none", "open", "closed"
          running,  \* t.running
          clients,  \* t.clients
          toClose,  \* Stop's list of connections to close
          place,    \* the peer's connection: away, backlog, accepted, served
          of,       \* the listener it came in by
          cut,      \* closed by either side
          handler,  \* handleClient: "none", "scan", "forward"
          stalled   \* the peer does not read and its buffer is full

listenVars == <<socket, running, clients, toClose, place, of, cut, handler, stalled>>

ListenInit ==
  /\ socket = [l \in Listener |-> "none"]
  /\ running = [l \in Listener |-> FALSE]
  /\ clients = [l \in Listener |-> {}]
  /\ toClose = {}
  /\ place = [p \in Peer |-> "away"]
  /\ of \in [Peer -> {CHOOSE l \in Listener : TRUE}]
  /\ cut = [p \in Peer |-> FALSE]
  /\ handler = [p \in Peer |-> "none"]
  /\ stalled = {}

-----------------------------------------------------------------------------
(* Calls from the window's thread.                                         *)

StartListener(l) ==
  /\ socket[l] = "none" /\ \A k \in Listener : k < l => socket[k] # "none"
  /\ socket' = [socket EXCEPT ![l] = "open"]
  /\ running' = [running EXCEPT ![l] = TRUE]
  /\ UNCHANGED <<clients, toClose, place, of, cut, handler, stalled>>

\* Stop, the part under the lock.
StopTakesClients(l) ==
  /\ running[l]
  /\ running' = [running EXCEPT ![l] = FALSE]
  /\ toClose' = clients[l]
  /\ clients' = [clients EXCEPT ![l] = {}]
  /\ UNCHANGED <<socket, place, of, cut, handler, stalled>>

\* The rest of Stop; connections nobody accepted are reset.
StopCloses(l) ==
  /\ socket' = [socket EXCEPT ![l] = "closed"]
  /\ cut' = [p \in Peer |-> cut[p] \/ p \in toClose]
  /\ toClose' = {}
  /\ place' = [p \in Peer |-> IF place[p] = "backlog" /\ of[p] = l
                              THEN "away" ELSE place[p]]
  /\ stalled' = stalled \ toClose
  /\ UNCHANGED <<running, clients, of, handler>>

\* Broadcast has written to everyone: nobody it writes to is stalled.
Writable(l) == clients[l] \cap stalled = {}

-----------------------------------------------------------------------------
(* acceptLoop and handleClient                                             *)

Accept(p) ==
  /\ place[p] = "backlog" /\ socket[of[p]] = "open"
  /\ \A q \in Peer : ~(place[q] = "accepted" /\ of[q] = of[p])
  /\ place' = [place EXCEPT ![p] = "accepted"]
  /\ UNCHANGED <<socket, running, clients, toClose, of, cut, handler, stalled>>

\* Faulty: the loop does not look at running again.
RegisterAlways(p) ==
  /\ place[p] = "accepted"
  /\ clients' = [clients EXCEPT ![of[p]] = @ \cup {p}]
  /\ place' = [place EXCEPT ![p] = "served"]
  /\ handler' = [handler EXCEPT ![p] = "scan"]
  /\ UNCHANGED <<socket, running, toClose, of, cut, stalled>>

\* The lock after Accept: a connection that came in while Stop ran is closed.
Register(p) ==
  /\ place[p] = "accepted"
  /\ IF running[of[p]]
     THEN /\ clients' = [clients EXCEPT ![of[p]] = @ \cup {p}]
          /\ place' = [place EXCEPT ![p] = "served"]
          /\ handler' = [handler EXCEPT ![p] = "scan"]
          /\ UNCHANGED cut
     ELSE /\ place' = [place EXCEPT ![p] = "away"]
          /\ cut' = [cut EXCEPT ![p] = FALSE]
          /\ UNCHANGED <<clients, handler>>
  /\ UNCHANGED <<socket, running, toClose, of, stalled>>

\* Scan returns a line; one that is in its buffer even after the connection
\* was closed.
ScanLine(p) ==
  /\ handler[p] = "scan"
  /\ handler' = [handler EXCEPT ![p] = "forward"]
  /\ UNCHANGED <<socket, running, clients, toClose, place, of, cut, stalled>>

\* The call of forward returns.
Forwarded(p) ==
  /\ handler' = [handler EXCEPT ![p] = "scan"]
  /\ UNCHANGED <<socket, running, clients, toClose, place, of, cut, stalled>>

\* Scan fails, and the deferred call cleans up.
HandlerEnds(p) ==
  /\ handler[p] = "scan" /\ cut[p]
  /\ handler' = [handler EXCEPT ![p] = "none"]
  /\ place' = [place EXCEPT ![p] = "away"]
  /\ cut' = [cut EXCEPT ![p] = FALSE]
  /\ clients' = [clients EXCEPT ![of[p]] = @ \ {p}]
  /\ toClose' = toClose \ {p}
  /\ UNCHANGED <<socket, running, of, stalled>>

-----------------------------------------------------------------------------
(* The peers.                                                              *)

PeerComes(p) ==
  /\ place[p] = "away"
  /\ \E l \in Listener :
       /\ socket[l] = "open"
       /\ of' = [of EXCEPT ![p] = l]
       /\ place' = [place EXCEPT ![p] = "backlog"]
  /\ UNCHANGED <<socket, running, clients, toClose, cut, handler, stalled>>

PeerLeaves(p) ==
  /\ place[p] = "served" /\ ~cut[p]
  /\ cut' = [cut EXCEPT ![p] = TRUE]
  /\ stalled' = stalled \ {p}
  /\ UNCHANGED <<socket, running, clients, toClose, place, of, handler>>

PeerStalls(p) ==
  /\ p \in Slow /\ place[p] = "served" /\ ~cut[p]
  /\ stalled' = stalled \cup {p}
  /\ UNCHANGED <<socket, running, clients, toClose, place, of, cut, handler>>

PeerReads(p) ==
  /\ p \in stalled
  /\ stalled' = stalled \ {p}
  /\ UNCHANGED <<socket, running, clients, toClose, place, of, cut, handler>>

Serves(p) == Accept(p) \/ Register(p) \/ HandlerEnds(p)

Peers(p) == PeerComes(p) \/ PeerLeaves(p) \/ PeerStalls(p) \/ PeerReads(p)
=============================================================================
