----------------------------- MODULE ParserRef -----------------------------
(***************************************************************************)
(* What the parser of pgf/parser.c has to find, defined without a chart:   *)
(* the abstract syntax trees of a concrete grammar and the token sequences *)
(* they stand for.                                                         *)
(***************************************************************************)
EXTENDS Parser

CONSTANT MaxDepth(_)  \* bound: depth of the trees of a grammar that are compared

ASSUME MaxDepthAssumption == \A g \in Grammars : MaxDepth(g) \in Nat

\* What a symbol stands for, where argument d says the pairs of a constituent and a
\* token sequence in says[d]: a KP stands for any of its forms, and a literal for
\* none, as the parser does not support them.
SymbolWords(sym, says) ==
  CASE sym.t = "cat" -> {w \in {x[2] : x \in says[sym.d]} : <<sym.r, w>> \in says[sym.d]}
    [] sym.t = "lit" -> {}
    [] OTHER -> {Forms(sym)[i] : i \in DOMAIN Forms(sym)}

Joined(xs, ys) == {x \o y : x \in xs, y \in ys}

\* The token sequences of the first k symbols of lin, for each k.
Words(lin, says) ==
  LET upTo[k \in 0..Len(lin)] ==
        IF k = 0 THEN {<<>>}
        ELSE Joined(upTo[k - 1], SymbolWords(lin[k], says))
  IN upTo

(***************************************************************************)
(* A tree is [fun, args, says], says the pairs of a constituent and a      *)
(* token sequence that it yields.  A rule [cat, ctnts, prod] is a          *)
(* production of a category with the constituents ctnts.  A coercion       *)
(* leaves no trace in a tree.                                              *)
(***************************************************************************)
SaysOf(args) == [d \in DOMAIN args |-> args[d].says]

Says(rule, args) ==
  LET words(lin) == Words(lin, SaysOf(args))[Len(lin)]
  IN UNION {{<<r, w>> : w \in words(LinOf(concr, rule.prod, r))} : r \in rule.ctnts}

Node(rule, args) ==
  IF rule.prod.fun = Coerce THEN args[1]
  ELSE [fun |-> rule.prod.fun, args |-> args, says |-> Says(rule, args)]

\* The arguments for a production, where trees has the pairs of a category and a tree.
ArgsFrom(prod, trees) ==
  {args \in [DOMAIN prod.args -> {x[2] : x \in trees}] :
     \A d \in DOMAIN prod.args : <<prod.args[d], args[d]>> \in trees}

Applied(rule, trees) == {<<rule.cat, Node(rule, args)>> : args \in ArgsFrom(rule.prod, trees)}

AppliedAll(rules, trees) == UNION {Applied(rule, trees) : rule \in rules}

\* The pairs of a category and a tree of up to k rules in a row, for k up to n.
Trees(rules, n) ==
  LET upTo[k \in 0..n] == IF k = 0 THEN {} ELSE AppliedAll(rules, upTo[k - 1])
  IN upTo

RuleOf(fid, prod) == [cat |-> fid, ctnts |-> 1..NCtnts(fid), prod |-> prod]

RulesOf(fid) == {RuleOf(fid, Prods(fid)[i]) : i \in DOMAIN Prods(fid)}

\* The trees of the grammar, and those of the chart: the categories of the grammar have
\* all of their trees, and a completed category the ones of its own productions.
GrammarRules == UNION {RulesOf(c) : c \in DOMAIN concr.prods}

ChartRules == UNION {RulesOf(fid) : fid \in DOMAIN concr.prods \cup DOMAIN ccats}

TreesOf(cats, rules) ==
  {x[2] : x \in {y \in Trees(rules, MaxDepth(concr))[MaxDepth(concr)] : y[1] \in cats}}

StartCats(cat) ==
  IF cat \notin DOMAIN concr.cnccats THEN {}
  ELSE {concr.cnccats[cat].cats[i] : i \in DOMAIN concr.cnccats[cat].cats}

\* parser.h: a parse represents "the abstract syntax trees that would linearize
\* to the sequence of tokens fed to produce parse".  When a call returns, the
\* categories it completed stand for exactly the trees of the grammar whose
\* constituent yields the tokens: none is missing and none is wrong, whatever
\* the order in which the hash tables are enumerated.
FindsTheTrees ==
  Idle /\ parses # <<>> =>
    LET parse == parses[parsing.parse]
        completed == {parse.completed[i] : i \in DOMAIN parse.completed}
    IN TreesOf(completed, ChartRules)
         = {t \in TreesOf(StartCats(parse.start[1]), GrammarRules) :
              <<parse.start[2], parse.toks>> \in t.says}
=============================================================================
