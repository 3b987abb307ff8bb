---------------------------- MODULE FilterMeaning ----------------------------
(***************************************************************************)
(* What a filter expression means, stated without a parser, by the grammar *)
(* the parser's own comments give (filter.go:404-505): every token gets a  *)
(* role from the tokens before it; an expression is well formed when the   *)
(* roles and parentheses fit; it means what its weakest connective outside *)
(* parentheses says of its two sides.  The parser of FilterExpr is         *)
(* compared with this, and then with what HELP promises a user, which is   *)
(* more: there iota, qsl and all are terms, here they are bare words.      *)
(***************************************************************************)
EXTENDS FilterExpr

\* The role of a token behind others: a field's value is whatever follows the
\* field; any word that is no field and starts a term is a bare one, "and",
\* "or", "iota", "qsl" and "all" among them; a bare word needs a connective
\* before it.  What follows a token that fits nowhere is bad as well.
RoleBehind(before, tok) ==
  LET starts == before \in {"open", "not", "and", "or"}
  IN  CASE before = "bad" -> "bad"
        [] before = "field" -> "value"
        [] tok \in DOMAIN FieldKeyword -> "field"
        [] tok = "(" -> "open"
        [] tok = "not" -> "not"
        [] tok = ")" -> IF starts THEN "bad" ELSE "close"
        [] tok \in {"and", "or"} /\ ~starts -> tok
        [] OTHER -> IF starts THEN "bare" ELSE "bad"

RECURSIVE RolesUpTo(_, _)
RolesUpTo(t, n) ==
  IF n = 0 THEN <<>>
  ELSE LET r == RolesUpTo(t, n - 1)
       IN  Append(r, RoleBehind(IF n = 1 THEN "open" ELSE r[n - 1], t[n]))

Roles(t) == RolesUpTo(t, Len(t))

\* How many parentheses are open after token i.
Depth(r, i) ==
  LET count[j \in 0..i] ==
        IF j = 0 THEN 0
        ELSE count[j - 1] + (IF r[j] = "open" THEN 1 ELSE 0) - (IF r[j] = "close" THEN 1 ELSE 0)
  IN  count[i]

\* The terms of a field's value can be read.
ValueFits(field, v) ==
  FieldKeyword[field] = "freq" => \A x \in SplitComma(v) : DecodeFreqTerm(x) # {}

\* The grammar of filter.go, in which only a text that is nothing but "all"
\* has a meaning of its own.
WellFormed(t) ==
  LET r == Roles(t)
  IN  t \in {<<>>, <<"all">>}
      \/ /\ r[Len(t)] \in {"value", "bare", "close"}
         /\ \A i \in 1..Len(t) : Depth(r, i) >= 0
         /\ Depth(r, Len(t)) = 0
         /\ \A i \in 1..Len(t) : r[i] = "value" => ValueFits(t[i - 1], t[i])

\* Whether a spot satisfies one field with its value.
Satisfies(field, v, s) ==
  LET vals == SplitComma(v)
  IN  CASE FieldKeyword[field] = "freq" ->
             \E x \in vals : \E r \in DecodeFreqTerm(x) : Within(s.freq, r)
        [] FieldKeyword[field] = "mode" -> SpotMode(s) \in vals
        [] FieldKeyword[field] = "type" ->
             \E x \in vals : x \in DOMAIN TypeName /\ TypeName[x] = s.stream
        [] FieldKeyword[field] \in {"call", "spotter", "info"} ->
             \E x \in vals : x \in s[FieldKeyword[field]]
        [] OTHER -> s[FieldKeyword[field]] \in vals

\* What the tokens i..j of a well-formed expression say of a spot.
RECURSIVE Says(_, _, _, _, _)
Says(t, r, i, j, s) ==
  LET top(k) == Depth(r, k) = Depth(r, i - 1)
      ors == {k \in i..j : r[k] = "or" /\ top(k)}
      ands == {k \in i..j : r[k] = "and" /\ top(k)}
      \* a term starts right after the end of another one
      joins == {k \in (i + 1)..j : /\ r[k] \in {"open", "not", "field"}
                                   /\ r[k - 1] \in {"value", "bare", "close"}
                                   /\ top(k - 1)}
      pick(S) == CHOOSE k \in S : TRUE
  IN  IF ors # {} THEN \/ Says(t, r, i, pick(ors) - 1, s)
                       \/ Says(t, r, pick(ors) + 1, j, s)
      ELSE IF ands # {} THEN /\ Says(t, r, i, pick(ands) - 1, s)
                             /\ Says(t, r, pick(ands) + 1, j, s)
      ELSE IF joins # {} THEN /\ Says(t, r, i, pick(joins) - 1, s)
                              /\ Says(t, r, pick(joins), j, s)
      ELSE CASE r[i] = "not" -> ~Says(t, r, i + 1, j, s)
             [] r[i] = "open" -> Says(t, r, i + 1, j - 1, s)
             [] r[i] = "field" -> Satisfies(t[i], t[j], s)
             [] OTHER -> t[i] \in s.call

Means(t, s) == t \in {<<>>, <<"all">>} \/ Says(t, Roles(t), 1, Len(t), s)

-----------------------------------------------------------------------------
(* Properties.                                                             *)

\* The parser accepts exactly the expressions that are well formed by its own
\* grammar: nothing typed is silently cut off, no parenthesis is left open,
\* and no nesting or adjacency of terms that the grammar has is refused
\* (filter.go:386, filter.go:440).  HELP's grammar has more (HelpTermsAccepted).
AcceptedIffWellFormed ==
  command = "filter" => (ParseFilterExpr(toks).ok <=> WellFormed(toks))

\* The tree the parser builds holds of a spot exactly when the text does:
\* NOT binds tighter than AND and adjacency, these tighter than OR, and
\* parentheses group (filter.go:405-485).
TreeMeansText ==
  (command = "filter" /\ WellFormed(toks)) =>
    \A s \in Sample : Eval(ParseFilterExpr(toks).node, s) <=> Means(toks, s)

\* The terms HELP lists: a field with its value, or one of three words
\* (helptext.go:60-77).
HelpField == {"on", "freq", "call", "by", "cont", "country", "mode", "type", "info"}
HelpWord == {"iota", "qsl", "all"}

\* Nothing but such terms, one beside the other.
HelpTerms(t) ==
  LET ends[i \in 0..Len(t)] ==
        \/ i = 0
        \/ i > 0 /\ ends[i - 1] /\ t[i] \in HelpWord
        \/ i > 1 /\ ends[i - 2] /\ t[i - 1] \in HelpField /\ ValueFits(t[i - 1], t[i])
  IN  ends[Len(t)]

\* "Adjacent terms without 'and'/'or' are implicitly AND-combined"
\* (helptext.go:82), whichever of HELP's terms they are.  Not so: iota, qsl and
\* all are no fields (filter.go:340), so that one of them behind another term
\* ends the expression with an error (filter.go:387).
HelpTermsAccepted ==
  (command = "filter" /\ HelpTerms(toks)) => ParseFilterExpr(toks).ok
=============================================================================
