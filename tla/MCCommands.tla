----------------------------- MODULE MCCommands -----------------------------
(***************************************************************************)
(* What clients type and what spots are made of, in one run: the texts of  *)
(* MCFilter, the session of MCSession and the spots of MCIngest have no    *)
(* state in common, so in each behaviour one of them moves and the others  *)
(* stay as they began.                                                     *)
(***************************************************************************)
EXTENDS MCFilter, MCSession, MCIngest

VARIABLE part

textVars == <<command, toks>>

CommandsInit ==
  /\ part \in {"text", "session", "spots"}
  /\ IF part = "text" THEN TextInit ELSE command = "none" /\ toks = <<>>
  /\ ClientInit /\ (part # "session" => named /\ canSpot)
  /\ Init

CommandsNext ==
  /\ UNCHANGED part
  /\ \/ part = "text" /\ TextNext /\ UNCHANGED <<clientVars, vars>>
     \/ part = "session" /\ ClientNext /\ UNCHANGED <<textVars, vars>>
     \/ part = "spots" /\ Next /\ UNCHANGED <<textVars, clientVars>>

CommandsSpec == CommandsInit /\ [][CommandsNext]_<<part, textVars, clientVars, vars>>
=============================================================================
