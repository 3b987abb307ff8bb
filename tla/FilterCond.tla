----------------------------- MODULE FilterCond -----------------------------
(***************************************************************************)
(* The conditions of a filter expression (filter.go): a field with a value *)
(* becomes a leaf of the expression's tree, and a leaf is evaluated        *)
(* against spots.  Module FilterExpr has the parser that combines them.    *)
(*                                                                         *)
(* A token stands for itself, in lower case.  A comma list is a token of   *)
(* the constant Comma, which says what it splits into.  A spot's text is   *)
(* abstracted to what a condition asks of it: the set of tokens its        *)
(* callsign or spotter starts with, or that its comment contains.          *)
(*                                                                         *)
(* The specification is a client that types a command's arguments token by *)
(* token, so that every short token sequence is a state; the command that  *)
(* takes an expression is called "filter" here.                            *)
(***************************************************************************)
EXTENDS Bands, Sequences

CONSTANTS Token,      \* Token[c]: what a client may type behind the command c
          Comma,      \* Comma[v]: the terms of the comma list v, trimmed, no empty one
          Sample,     \* spots the expressions are tried on
          MaxTokens   \* MaxTokens[c]: bound on the number of arguments

\* No band's name has a comma.
ASSUME CondAssumption ==
  /\ \A c \in DOMAIN Token : MaxTokens[c] \in Nat
  /\ Sample # {} /\ \A s \in Sample : "freq" \in DOMAIN s
  /\ DOMAIN Comma \cap DOMAIN BandRange = {}

VARIABLES command,     \* the command
          toks         \* its arguments, as tokenizeFilter splits them

-----------------------------------------------------------------------------
(* Conditions.                                                             *)

FieldKeyword ==
  [freq |-> "freq", on |-> "freq", call |-> "call", prefix |-> "call",
   spotter |-> "spotter", by |-> "spotter", info |-> "info", cont |-> "cont",
   continent |-> "cont", country |-> "country", dxcc |-> "country",
   mode |-> "mode", type |-> "type"]

TypeName ==
  [digital |-> "decoder", decoder |-> "decoder", cw |-> "cwskimmer",
   cwskimmer |-> "cwskimmer", rbn |-> "cwskimmer", voice |-> "voice",
   voiceactivity |-> "voice", dx |-> "dxcluster", dxcluster |-> "dxcluster",
   cluster |-> "dxcluster", sstv |-> "sstv"]

SplitComma(v) == IF v \in DOMAIN Comma THEN Comma[v] ELSE {v}

Leaf(cond, vals) == [op |-> "leaf", kids |-> <<>>, cond |-> cond, vals |-> vals]
NodeOf(op, kids) == [op |-> op, kids |-> kids, cond |-> "none", vals |-> {}]

NoNode == NodeOf("none", <<>>)

Fail(p) == [ok |-> FALSE, pos |-> p, node |-> NoNode]
Done(p, n) == [ok |-> TRUE, pos |-> p, node |-> n]

\* A frequency term that cannot be decoded is an error, an unknown type is
\* left out without one.
BuildLeaf(p, cond, v) ==
  LET vals == SplitComma(v)
  IN  CASE cond = "freq" ->
             IF \E x \in vals : DecodeFreqTerm(x) = {} THEN Fail(p)
             ELSE Done(p, Leaf(cond, UNION {DecodeFreqTerm(x) : x \in vals}))
        [] cond = "type" ->
             Done(p, Leaf(cond, {TypeName[x] : x \in vals \cap DOMAIN TypeName}))
        [] OTHER -> Done(p, Leaf(cond, vals))

\* The mode of a spot as filters see it.
SpotMode(s) ==
  CASE s.stream = "cwskimmer" /\ s.mode = "" -> "cw"
    [] s.stream = "voice" -> s.voicemode
    [] OTHER -> s.mode

EvalCond(n, s) ==
  CASE n.cond = "freq" -> \E r \in n.vals : r[1] <= s.freq /\ s.freq <= r[2]
    [] n.cond \in {"call", "spotter", "info"} -> n.vals \cap s[n.cond] # {}
    [] n.cond = "mode" -> SpotMode(s) \in n.vals
    [] n.cond = "type" -> s.stream \in n.vals
    [] OTHER -> s[n.cond] \in n.vals          \* cont, country

-----------------------------------------------------------------------------
(* The client.                                                             *)

TextInit == command \in DOMAIN Token /\ toks = <<>>

Type(tok) ==
  /\ Len(toks) < MaxTokens[command]
  /\ toks' = Append(toks, tok) /\ UNCHANGED command

TextNext == \E tok \in Token[command] : Type(tok)

TextSpec == TextInit /\ [][TextNext]_<<command, toks>>

-----------------------------------------------------------------------------
(* Properties.                                                             *)

\* The probed frequencies a condition with this term lets through, after the
\* field that was typed last.
Passes(term) ==
  LET leaf == BuildLeaf(1, FieldKeyword[toks[Len(toks)]], term).node
  IN  {f \in Probe : \A s \in Sample : EvalCond(leaf, [s EXCEPT !.freq = f])}

\* Whichever band is named behind ON, the expression lets through what
\* SET/FILTER BAND of that name does, edges included: the tables of
\* filter.go:23 and spot.go:314 agree.  The desktop client's table
\* (client/main.go:1819) gives the spots of one band no other band's name.
BandsAgree ==
  (command = "filter" /\ toks = <<"on">>) =>
    \A i \in DOMAIN SpotBands :
      LET band == SpotBands[i][1]
      IN  /\ Passes(band) = {f \in Probe : FreqToBand(f) = band}
          /\ \A f \in Passes(band) : FreqKHzToBand(f) \subseteq {band}
=============================================================================
