---------------------------- MODULE MCSpotStore ----------------------------
(* Small instances of SpotStore: one deduplicated kind and one that is not. *)
EXTENDS SpotStore

MCWindow == [kd \in Kind |-> IF kd = "voice" THEN 2 ELSE 0]
=============================================================================
