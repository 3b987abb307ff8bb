----------------------------- MODULE MCSession -----------------------------
(***************************************************************************)
(* A small instance of ClientState: two slots, three rules over three      *)
(* spots (one of each toggled stream, one local), one list filter.         *)
(***************************************************************************)
EXTENDS ClientState

MCSpotOf(st, vals, snr) == [stream |-> st, val |-> [f \in Field |-> vals], snr |-> snr]

MCSpot == {MCSpotOf("cwskimmer", {"EU"}, 5), MCSpotOf("voice", {"NA"}, 20),
           MCSpotOf("localspot", {"EU"}, 0)}

\* Nothing, one spot, or the two others.
MCRule == {{}, {s \in MCSpot : s.stream = "cwskimmer"},
           {s \in MCSpot : s.stream # "cwskimmer"}}
=============================================================================
