------------------------------ MODULE MCIngest ------------------------------
(* A small instance of Ingest: a station, heard in a band and outside.      *)
EXTENDS Ingest

MCBand == {"20m"}
=============================================================================
