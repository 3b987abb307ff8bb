------------------------------- MODULE MCWeb -------------------------------
(***************************************************************************)
(* The two things the web server counts, in one run: terminal sessions of  *)
(* three requests from two addresses, and the searches of MCSearch.  They  *)
(* have no state in common, so in each behaviour one of them moves and the *)
(* other stays as it began.                                                *)
(***************************************************************************)
EXTENDS TerminalProxy, MCSearch

VARIABLE part

WebInit ==
  /\ part \in {"terminal", "search"}
  /\ Init /\ (part = "terminal" \/ ip = [r \in Req |-> CHOOSE a \in Ip : TRUE])
  /\ PagingInit /\ (part = "search" \/ query = [w \in Walker |-> CHOOSE q \in Queries : TRUE])

WebNext ==
  /\ UNCHANGED part
  /\ \/ part = "terminal" /\ Next /\ UNCHANGED pagingVars
     \/ part = "search" /\ PagingNext /\ UNCHANGED vars

\* The fairness of PagingFairSpec.
WebSpec ==
  /\ WebInit /\ [][WebNext]_<<part, vars, pagingVars>>
  /\ \A w \in Client : WF_pagingVars(WaitExpires(w)) /\ WF_pagingVars(QueryFails(w)) /\ WF_pagingVars(Release(w))
=============================================================================
