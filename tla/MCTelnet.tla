------------------------------ MODULE MCTelnet ------------------------------
(* A small instance of TelnetSession: one connection with all its goroutines. *)
EXTENDS TelnetSession
=============================================================================
