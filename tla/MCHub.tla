------------------------------- MODULE MCHub -------------------------------
(***************************************************************************)
(* Small instances of Hub for TLC.  With channels of two, a session may    *)
(* have two spots waiting, miss the third and get the fourth; two keys and *)
(* two subscribers let sessions and duplicates interleave.                 *)
(***************************************************************************)
EXTENDS Hub, TLC

Symmetry == Permutations(Sub) \cup Permutations(Key)
=============================================================================
