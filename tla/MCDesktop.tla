----------------------------- MODULE MCDesktop -----------------------------
(***************************************************************************)
(* A small instance of Desktop: two upstream clients and two listeners,    *)
(* made one after the other, and one logging program, which may be slow.   *)
(***************************************************************************)
EXTENDS Desktop

CONSTANT program

MCClient == 1..2
MCListener == 1..2
MCPeer == {program}
=============================================================================
