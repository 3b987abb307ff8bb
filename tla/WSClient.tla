------------------------------ MODULE WSClient ------------------------------
(***************************************************************************)
(* The desktop client's upstream connections (client/wsclient.go): each    *)
(* DXClusterClient is one goroutine that dials, logs in, relays text and   *)
(* reconnects until Stop.  Stop runs in a goroutine of its own, because    *)
(* the window's thread must not wait for it.                               *)
(*                                                                         *)
(* A chunk of server text is the set of the marks the login looks for:     *)
(* "ask" (the word callsign), "greet" (hello de, or type help).            *)
(***************************************************************************)
EXTENDS Naturals

CONSTANTS Client,                 \* the DXClusterClients, numbered as they are made
          BackoffMin, BackoffMax  \* minReconnectDelay, maxReconnectDelay

ASSUME WSClientAssumption ==
  /\ Client \subseteq Nat
  /\ BackoffMin \in Nat \ {0} /\ BackoffMax \in Nat /\ BackoffMin <= BackoffMax

VARIABLES at,           \* where the client's goroutine is
          open,         \* c.conn is set
          backoff,      \* run's backoff
          callsignSent, \* connectOnce's flags, one pair per session
          loggedIn,
          stopper,      \* Stop: "none", "asked", "wait" (cancelled), "returned"
          logins,       \* history: login lines sent in this session
          batches       \* history: runs of onLoggedIn begun in this session

loginVars == <<callsignSent, loggedIn, logins, batches>>
wsVars == <<at, open, backoff, loginVars, stopper>>

Mark == {"ask", "greet"}

WSInit ==
  /\ at = [c \in Client |-> "new"]
  /\ open = [c \in Client |-> FALSE]
  /\ backoff = [c \in Client |-> BackoffMin]
  /\ callsignSent = [c \in Client |-> FALSE]
  /\ loggedIn = [c \in Client |-> FALSE]
  /\ stopper = [c \in Client |-> "none"]
  /\ logins = [c \in Client |-> 0]
  /\ batches = [c \in Client |-> 0]

\* c.cancel was called.
Cancelled(c) == stopper[c] \in {"wait", "returned"}

-----------------------------------------------------------------------------
(* run and connectOnce                                                     *)

\* A session that was established puts the back-off back.
Dial(c) ==
  /\ at[c] = "dial" /\ ~Cancelled(c)
  /\ at' = [at EXCEPT ![c] = "reading"]
  /\ open' = [open EXCEPT ![c] = TRUE]
  /\ backoff' = [backoff EXCEPT ![c] = BackoffMin]
  /\ UNCHANGED <<loginVars, stopper>>

\* Faulty: a failed attempt is retried without a look at the context.
DialFailsForever(c) ==
  /\ at[c] = "dial"
  /\ at' = [at EXCEPT ![c] = "backoff"]
  /\ UNCHANGED <<open, backoff, loginVars, stopper>>

\* Refused, timed out, or broken off by the cancelled context.
DialFails(c) ==
  /\ at[c] = "dial"
  /\ at' = [at EXCEPT ![c] = IF Cancelled(c) THEN "done" ELSE "backoff"]
  /\ backoff' = [backoff EXCEPT ![c] = IF Cancelled(c) THEN BackoffMin ELSE @]
  /\ UNCHANGED <<open, loginVars, stopper>>

Answers(c, text) == ~callsignSent[c] /\ "ask" \in text

Greeted(c, text) ==
  /\ callsignSent[c] \/ Answers(c, text)
  /\ "greet" \in text
  /\ ~loggedIn[c]

\* A chunk arrives: the login line and the startup commands are triggered
\* before onText is called.  What becomes of the lines is left out.
Read(c) ==
  \E text \in SUBSET Mark :
    /\ at[c] = "reading" /\ ~Cancelled(c)
    /\ at' = [at EXCEPT ![c] = "callback"]
    /\ callsignSent' = [callsignSent EXCEPT ![c] = @ \/ Answers(c, text)]
    /\ logins' = [logins EXCEPT ![c] =
                    IF Answers(c, text) /\ @ < 2 THEN @ + 1 ELSE @]
    /\ loggedIn' = [loggedIn EXCEPT ![c] = @ \/ Greeted(c, text)]
    /\ batches' = [batches EXCEPT ![c] = IF Greeted(c, text) THEN @ + 1 ELSE @]
    /\ UNCHANGED <<open, backoff, stopper>>

\* onText returns.
Relayed(c) ==
  /\ at' = [at EXCEPT ![c] = "reading"]
  /\ UNCHANGED <<open, backoff, loginVars, stopper>>

\* The server or the network ends the session, or the context does.  The
\* flags of the session were local to connectOnce.
ReadFails(c) ==
  /\ at[c] = "reading"
  /\ open' = [open EXCEPT ![c] = FALSE]
  /\ at' = [at EXCEPT ![c] = IF Cancelled(c) THEN "done" ELSE "pause"]
  /\ callsignSent' = [callsignSent EXCEPT ![c] = FALSE]
  /\ loggedIn' = [loggedIn EXCEPT ![c] = FALSE]
  /\ logins' = [logins EXCEPT ![c] = 0]
  /\ batches' = [batches EXCEPT ![c] = 0]
  /\ UNCHANGED <<backoff, stopper>>

\* The select between the context and the timer.  After a failed dial the
\* next wait is longer.
Retry(c) ==
  /\ at[c] \in {"pause", "backoff"}
  /\ \/ /\ Cancelled(c)
        /\ at' = [at EXCEPT ![c] = "done"]
        /\ backoff' = [backoff EXCEPT ![c] = BackoffMin]
     \/ /\ at' = [at EXCEPT ![c] = "dial"]
        /\ backoff' = [backoff EXCEPT ![c] =
             CASE at[c] = "pause"     -> @
               [] 2 * @ <= BackoffMax -> 2 * @
               [] OTHER               -> BackoffMax]
  /\ UNCHANGED <<open, loginVars, stopper>>

-----------------------------------------------------------------------------
(* Stop: takes the connection there is, says bye on it (two seconds at      *)
(* most), cancels and waits.                                               *)

Cancels(c) ==
  /\ stopper[c] = "asked"
  /\ stopper' = [stopper EXCEPT ![c] = "wait"]
  /\ UNCHANGED <<at, open, backoff, loginVars>>

StopReturns(c) ==
  /\ stopper[c] = "wait" /\ at[c] = "done"
  /\ stopper' = [stopper EXCEPT ![c] = "returned"]
  /\ UNCHANGED <<at, open, backoff, loginVars>>

Stops(c) == Cancels(c) \/ StopReturns(c)

Connects(c) == Dial(c) \/ DialFails(c) \/ Retry(c)
=============================================================================
