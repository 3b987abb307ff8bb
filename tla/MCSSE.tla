------------------------------- MODULE MCSSE -------------------------------
(* Small instances of SSEConsumer: the SSTV feed, which keeps one kind of    *)
(* event, and a UberSDR stream, which keeps every event.                     *)
EXTENDS SSEConsumer
=============================================================================
