----------------------------- MODULE FilterExpr -----------------------------
(***************************************************************************)
(* Filter expressions (filter.go): the text after ACCEPT/SPOTS and         *)
(* REJECT/SPOTS is split into tokens, parsed by recursive descent into a   *)
(* tree of the conditions of module FilterCond, and the tree is evaluated  *)
(* against spots.                                                          *)
(***************************************************************************)
EXTENDS FilterCond

RECURSIVE Eval(_, _)
Eval(n, s) ==
  CASE n.op = "all" -> TRUE
    [] n.op = "and" -> \A i \in 1..Len(n.kids) : Eval(n.kids[i], s)
    [] n.op = "or"  -> \E i \in 1..Len(n.kids) : Eval(n.kids[i], s)
    [] n.op = "not" -> ~Eval(n.kids[1], s)
    [] OTHER -> EvalCond(n, s)

-----------------------------------------------------------------------------
(* The parser: positions are 1-based, Peek gives "" past the end.          *)

Peek(t, p) == IF p <= Len(t) THEN t[p] ELSE ""

RECURSIVE ParseOr(_, _), OrRest(_, _), ParseAnd(_, _), AndRest(_, _), ParseNot(_, _)

\* A parenthesis, a field with its value, or a bare word, which stands for a
\* callsign prefix.  A field's value is the next token whatever it is.
ParsePrimary(t, p) ==
  LET inner == ParseOr(t, p + 1)
  IN  CASE Peek(t, p) = "(" ->
             IF inner.ok /\ Peek(t, inner.pos) = ")"
             THEN Done(inner.pos + 1, inner.node) ELSE Fail(inner.pos)
        [] Peek(t, p) \in DOMAIN FieldKeyword ->
             IF p + 1 > Len(t) THEN Fail(p + 1)
             ELSE BuildLeaf(p + 2, FieldKeyword[t[p]], t[p + 1])
        [] Peek(t, p) \in {"", ")"} -> Fail(p)
        [] OTHER -> Done(p + 1, Leaf("call", {t[p]}))

\* Faulty: NOT takes everything up to the next OR.
ParseNotLoose(t, p) ==
  IF Peek(t, p) # "not" THEN ParsePrimary(t, p)
  ELSE LET kid == ParseAnd(t, p + 1)
       IN  IF kid.ok THEN Done(kid.pos, NodeOf("not", <<kid.node>>)) ELSE kid

ParseNot(t, p) ==
  IF Peek(t, p) # "not" THEN ParsePrimary(t, p)
  ELSE LET kid == ParseNot(t, p + 1)
       IN  IF kid.ok THEN Done(kid.pos, NodeOf("not", <<kid.node>>)) ELSE kid

\* Adjacent terms are joined like with "and", unless the next token could not
\* start one: a bare word cannot.
AndRest(t, left) ==
  LET tok == Peek(t, left.pos)
      right == ParseNot(t, IF tok = "and" THEN left.pos + 1 ELSE left.pos)
  IN  IF tok \notin {"and", "(", "not"} \cup DOMAIN FieldKeyword THEN left
      ELSE IF right.ok
           THEN AndRest(t, Done(right.pos, NodeOf("and", <<left.node, right.node>>)))
           ELSE right

ParseAnd(t, p) ==
  LET left == ParseNot(t, p)
  IN  IF left.ok THEN AndRest(t, left) ELSE left

OrRest(t, left) ==
  LET right == ParseAnd(t, left.pos + 1)
  IN  IF Peek(t, left.pos) # "or" THEN left
      ELSE IF right.ok
           THEN OrRest(t, Done(right.pos, NodeOf("or", <<left.node, right.node>>)))
           ELSE right

ParseOr(t, p) ==
  LET left == ParseAnd(t, p)
  IN  IF left.ok THEN OrRest(t, left) ELSE left

\* Faulty: what follows a complete expression is not looked at.
ParseFilterExprPrefix(t) ==
  IF t \in {<<>>, <<"all">>} THEN Done(Len(t) + 1, NodeOf("all", <<>>))
  ELSE ParseOr(t, 1)

\* Tokens left over are an error; "all" and nothing match every spot.
ParseFilterExpr(t) ==
  LET r == ParseOr(t, 1)
  IN  IF t \in {<<>>, <<"all">>} THEN Done(Len(t) + 1, NodeOf("all", <<>>))
      ELSE IF r.ok /\ r.pos # Len(t) + 1 THEN Fail(r.pos) ELSE r
=============================================================================
