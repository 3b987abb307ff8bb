------------------------------- MODULE MCRig -------------------------------
(* A small instance of RigSync: a voice, a CW, a cluster and a digital spot, *)
(* two timers and one setting of the dial.                                   *)
EXTENDS RigSync

MCSpot(st, hz, mode, text) == [stream |-> st, hz |-> hz, mode |-> mode, text |-> text]

MCSpots ==
  {MCSpot("voice", 7100000, "LSB", <<>>), MCSpot("cwskimmer", 14033040, "CW", <<"CQ">>),
   MCSpot("cluster", 2048200, "", <<"T">>), MCSpot("decoder", 14074000, "FT8", <<>>)}

MCTruncated == {2048200}

MCDial == {[hz |-> 3650000, mode |-> "LSB"]}
=============================================================================
