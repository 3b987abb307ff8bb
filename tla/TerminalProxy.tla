--------------------------- MODULE TerminalProxy ---------------------------
(***************************************************************************)
(* Admission of WebSocket terminal sessions (ServeHTTP in terminal.go).    *)
(* Every request runs in its own goroutine: it looks at the global count,  *)
(* looks at the count of its address, upgrades the connection, and only    *)
(* then adds itself to both counts; the deferred calls take it out again.  *)
(* What the telnet session does in between is module TelnetSession.        *)
(***************************************************************************)
EXTENDS Naturals, FiniteSets

CONSTANTS Req,       \* request goroutines; one that has ended serves a new request
          Ip,        \* client addresses
          MaxConns,  \* WS_MAX_CONNS
          MaxPerIp   \* WS_MAX_CONNS_PER_IP

ASSUME ProxyAssumption ==
  /\ IsFiniteSet(Req)
  /\ MaxConns \in Nat /\ MaxPerIp \in Nat

VARIABLES pc,      \* pc[r]: where the request is
          ip,      \* ip[r]: the address it came from
          conns,   \* TerminalProxy.conns
          ipConns, \* TerminalProxy.ipConns: addresses with sessions, and how many
          peak,    \* history: most requests ever between check and count at once
          peakIp   \* history: the same per address

vars == <<pc, ip, conns, ipConns, peak, peakIp>>

Place == {"idle", "checkIp", "upgrade", "count", "countIp",
          "session", "uncountIp", "uncount"}

\* Requests past the global check that are not yet in both counts.
Entering == {"checkIp", "upgrade", "count", "countIp"}

At(places) == {r \in Req : pc[r] \in places}
AtFrom(places, a) == {r \in At(places) : ip[r] = a}

IpCount(a) == IF a \in DOMAIN ipConns THEN ipConns[a] ELSE 0

Init ==
  /\ pc = [r \in Req |-> "idle"]
  /\ ip \in [Req -> Ip]
  /\ conns = 0
  /\ ipConns = [a \in {} |-> 0]
  /\ peak = 0
  /\ peakIp = [a \in Ip |-> 0]

-----------------------------------------------------------------------------

Goto(r, place) == pc' = [pc EXCEPT ![r] = place]

Larger(m, n) == IF m < n THEN n ELSE m

\* Faulty: the comparison lets one more in.
ArriveOneMore(r, a) ==
  /\ pc[r] = "idle"
  /\ ip' = [ip EXCEPT ![r] = a]
  /\ conns <= MaxConns
  /\ Goto(r, "checkIp")
  /\ peak' = Larger(peak, Cardinality(At(Entering)) + 1)
  /\ peakIp' = [peakIp EXCEPT ![a] = Larger(@, Cardinality(AtFrom(Entering, a)) + 1)]
  /\ UNCHANGED <<conns, ipConns>>

\* A request arrives and conns.Load() is below the cap; one that meets the
\* cap gets a 503 and leaves no trace.
Arrive(r, a) ==
  /\ pc[r] = "idle"
  /\ ip' = [ip EXCEPT ![r] = a]
  /\ conns < MaxConns
  /\ Goto(r, "checkIp")
  /\ peak' = Larger(peak, Cardinality(At(Entering)) + 1)
  /\ peakIp' = [peakIp EXCEPT ![a] = Larger(@, Cardinality(AtFrom(Entering, a)) + 1)]
  /\ UNCHANGED <<conns, ipConns>>

\* The count of the address is read under ipMu and compared after it.
CheckIp(r) ==
  /\ pc[r] = "checkIp"
  /\ Goto(r, IF IpCount(ip[r]) >= MaxPerIp THEN "idle" ELSE "upgrade")
  /\ UNCHANGED <<ip, conns, ipConns, peak, peakIp>>

\* websocket.Accept, which may fail.
Upgrade(r) ==
  /\ pc[r] = "upgrade"
  /\ \E place \in {"idle", "count"} : Goto(r, place)
  /\ UNCHANGED <<ip, conns, ipConns, peak, peakIp>>

CountConn(r) ==
  /\ pc[r] = "count"
  /\ conns' = conns + 1
  /\ Goto(r, "countIp")
  /\ UNCHANGED <<ip, ipConns, peak, peakIp>>

\* ipAdd
CountIp(r) ==
  /\ pc[r] = "countIp"
  /\ ipConns' = [a \in DOMAIN ipConns \cup {ip[r]} |->
                   IF a = ip[r] THEN IpCount(a) + 1 ELSE ipConns[a]]
  /\ Goto(r, "session")
  /\ UNCHANGED <<ip, conns, peak, peakIp>>

\* handleConn returns, or the panic it died of unwinds: the deferred calls
\* run in the reverse order.
SessionEnds(r) ==
  /\ pc[r] = "session"
  /\ Goto(r, "uncountIp")
  /\ UNCHANGED <<ip, conns, ipConns, peak, peakIp>>

\* Faulty: the key goes with the first session that ends.
UncountIpDeletes(r) ==
  /\ pc[r] = "uncountIp"
  /\ ipConns' = [a \in DOMAIN ipConns \ {ip[r]} |-> ipConns[a]]
  /\ Goto(r, "uncount")
  /\ UNCHANGED <<ip, conns, peak, peakIp>>

\* ipRemove: the key goes when its count reaches zero.
UncountIp(r) ==
  LET left == IpCount(ip[r]) - 1
  IN  /\ pc[r] = "uncountIp"
      /\ ipConns' = IF left <= 0
                    THEN [a \in DOMAIN ipConns \ {ip[r]} |-> ipConns[a]]
                    ELSE [ipConns EXCEPT ![ip[r]] = left]
      /\ Goto(r, "uncount")
      /\ UNCHANGED <<ip, conns, peak, peakIp>>

UncountConn(r) ==
  /\ pc[r] = "uncount"
  /\ conns' = conns - 1
  /\ Goto(r, "idle")
  /\ UNCHANGED <<ip, ipConns, peak, peakIp>>

Next ==
  \E r \in Req :
    \/ \E a \in Ip : Arrive(r, a)
    \/ CheckIp(r) \/ Upgrade(r) \/ CountConn(r) \/ CountIp(r)
    \/ SessionEnds(r) \/ UncountIp(r) \/ UncountConn(r)

Spec == Init /\ [][Next]_vars

-----------------------------------------------------------------------------
(* Properties.                                                             *)

\* Every variable has its type, and a listed address has a session.
TypeOK ==
  /\ pc \in [Req -> Place]
  /\ ip \in [Req -> Ip]
  /\ conns \in Nat /\ peak \in Nat
  /\ DOMAIN ipConns \subseteq Ip
  /\ \A a \in DOMAIN ipConns : ipConns[a] \in Nat \ {0}
  /\ peakIp \in [Ip -> Nat]

Race(p) == IF p = 0 THEN 0 ELSE p - 1

\* Both counts tell exactly the sessions that are in them, and an address
\* without sessions has no key, however entries and exits interleave
\* (terminal.go:143-158, 205-210).
CountsExact ==
  /\ TypeOK
  /\ conns = Cardinality(At({"countIp", "session", "uncountIp", "uncount"}))
  /\ DOMAIN ipConns = {ip[r] : r \in At({"session", "uncountIp"})}
  /\ \A a \in DOMAIN ipConns :
       ipConns[a] = Cardinality(AtFrom({"session", "uncountIp"}, a))

\* The caps are exceeded by no more than the requests that raced each other
\* between check and count: when they come one at a time, the caps hold.
OvershootBounded ==
  /\ conns + Cardinality(At({"checkIp", "upgrade", "count"}))
       <= MaxConns + Race(peak)
  /\ \A a \in Ip :
       IpCount(a) + Cardinality(AtFrom({"upgrade", "count", "countIp"}, a))
         <= MaxPerIp + Race(peakIp[a])
=============================================================================
