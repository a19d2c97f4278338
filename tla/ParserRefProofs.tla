-------------------------- MODULE ParserRefProofs --------------------------
(***************************************************************************)
(* The parser finds the trees of the sentence, for every well-formed       *)
(* grammar, any tokens and any depth of trees.                             *)
(*                                                                         *)
(* No tree is wrong: every item, and every production of a completed       *)
(* category, comes from a production, a token or another completed         *)
(* category (ChartDerived).  By induction over the depth of trees, and for *)
(* each depth over the parses and the symbols that an item has gone over,  *)
(* what an item or a category stands for yields the tokens between the     *)
(* parse it was predicted in and the one it is in.                         *)
(*                                                                         *)
(* No tree is missing: a parse that is finished is closed (ParserProofs),  *)
(* its transitions were followed in the next one, and it stays closed      *)
(* (HistoryClosed).  By induction over the depth of a tree and the symbols *)
(* of its constituent, some item goes over all of them.                    *)
(***************************************************************************)
EXTENDS ParserRef, ParserProofs, ArithmeticLemmas

-----------------------------------------------------------------------------
(* The recursive definitions *)

\* f has the words of the first k symbols of lin, for k up to m.
WordsTo(lin, says, m, f) ==
  f = [k \in 0..m |->
         IF k = 0 THEN {<<>>} ELSE Joined(f[k - 1], SymbolWords(lin[k], says))]

\* A function of words for the first m symbols can be made one longer.
LEMMA WordsLonger ==
  ASSUME NEW lin, NEW says, NEW m \in Nat, NEW f, WordsTo(lin, says, m, f)
  PROVE  \E g : WordsTo(lin, says, m + 1, g)
<1> DEFINE next == Joined(f[m], SymbolWords(lin[m + 1], says))
           g == [k \in 0..(m + 1) |-> IF k = m + 1 THEN next ELSE f[k]]
<1>1. g[m + 1] = next /\ \A k \in 0..m : g[k] = f[k]
  OBVIOUS
<1>2. \A k \in 0..m : f[k] = IF k = 0 THEN {<<>>} ELSE Joined(f[k - 1], SymbolWords(lin[k], says))
  BY DEF WordsTo
<1>3. ASSUME NEW k \in 0..(m + 1)
      PROVE  g[k] = IF k = 0 THEN {<<>>} ELSE Joined(g[k - 1], SymbolWords(lin[k], says))
  <2>1. CASE k = 0
    BY <1>1, <1>2, <2>1
  <2>2. CASE k \in 1..m
    <3>1. k - 1 \in 0..m /\ k \in 0..m /\ k # 0
      BY <2>2
    <3>2. g[k - 1] = f[k - 1] /\ g[k] = f[k]
      BY <1>1, <3>1
    <3> HIDE DEF g
    <3> QED  BY <1>2, <3>1, <3>2
  <2>3. CASE k = m + 1
    <3>1. k - 1 = m /\ k # 0 /\ m \in 0..m
      BY <2>3
    <3>2. g[k - 1] = f[m] /\ g[k] = next
      BY <1>1, <2>3, <3>1
    <3> HIDE DEF g
    <3> QED  BY <2>3, <3>1, <3>2
  <2> QED  BY <2>1, <2>2, <2>3
<1>4. WordsTo(lin, says, m + 1, g)
  <2>1. g = [k \in 0..(m + 1) |-> g[k]]
    OBVIOUS
  <2> HIDE DEF g
  <2> QED  BY <1>3, <2>1 DEF WordsTo
<1> QED  BY <1>4

\* The words of the first symbols are what the definition says.
LEMMA WordsFacts ==
  ASSUME NEW lin, NEW says, Len(lin) \in Nat
  PROVE  /\ Words(lin, says)[0] = {<<>>}
         /\ \A k \in 1..Len(lin) :
              Words(lin, says)[k] = Joined(Words(lin, says)[k - 1], SymbolWords(lin[k], says))
<1> DEFINE T == {m \in Nat : \E f : WordsTo(lin, says, m, f)}
<1>1. 0 \in T
  <2>1. PICK f : f = [k \in 0..0 |-> {<<>>}]
    OBVIOUS
  <2>2. WordsTo(lin, says, 0, f)
    BY <2>1 DEF WordsTo
  <2> QED  BY <2>2
<1>2. \A j \in 0..(Len(lin) - 1) : j \in T => j + 1 \in T
  BY WordsLonger
<1>3. Len(lin) \in T
  <2> HIDE DEF T
  <2>1. \A n \in 0..Len(lin) : n \in T
    BY <1>1, <1>2, InductionUpTo
  <2> QED  BY <2>1
<1>4. Words(lin, says) = CHOOSE f : WordsTo(lin, says, Len(lin), f)
  BY DEF Words, WordsTo
<1>5. WordsTo(lin, says, Len(lin), Words(lin, says))
  BY <1>3, <1>4, Zenon
<1>6. PICK f : f = Words(lin, says)
  OBVIOUS
<1>7. \A k \in 0..Len(lin) : f[k] = IF k = 0 THEN {<<>>} ELSE Joined(f[k - 1], SymbolWords(lin[k], says))
  BY <1>5, <1>6 DEF WordsTo
<1>8. 0 \in 0..Len(lin) /\ \A k \in 1..Len(lin) : k \in 0..Len(lin) /\ k # 0
  OBVIOUS
<1> QED  BY <1>6, <1>7, <1>8

TreesTo(rules, m, f) ==
  f = [k \in 0..m |-> IF k = 0 THEN {} ELSE AppliedAll(rules, f[k - 1])]

\* A function of trees up to depth m can be made one longer.
LEMMA TreesLonger ==
  ASSUME NEW rules, NEW m \in Nat, NEW f, TreesTo(rules, m, f)
  PROVE  \E g : TreesTo(rules, m + 1, g)
<1> DEFINE g == [k \in 0..(m + 1) |-> IF k = m + 1 THEN AppliedAll(rules, f[m]) ELSE f[k]]
<1>1. g[m + 1] = AppliedAll(rules, f[m]) /\ \A k \in 0..m : g[k] = f[k]
  OBVIOUS
<1>2. \A k \in 0..m : f[k] = IF k = 0 THEN {} ELSE AppliedAll(rules, f[k - 1])
  BY DEF TreesTo
<1>3. ASSUME NEW k \in 0..(m + 1)
      PROVE  g[k] = IF k = 0 THEN {} ELSE AppliedAll(rules, g[k - 1])
  <2>1. CASE k = 0
    BY <1>1, <1>2, <2>1
  <2>2. CASE k \in 1..m
    <3>1. k - 1 \in 0..m /\ k \in 0..m /\ k # 0
      BY <2>2
    <3>2. g[k - 1] = f[k - 1] /\ g[k] = f[k]
      BY <1>1, <3>1
    <3> HIDE DEF g
    <3> QED  BY <1>2, <3>1, <3>2
  <2>3. CASE k = m + 1
    <3>1. k - 1 = m /\ k # 0 /\ m \in 0..m
      BY <2>3
    <3>2. g[k - 1] = f[m] /\ g[k] = AppliedAll(rules, f[m])
      BY <1>1, <2>3, <3>1
    <3> HIDE DEF g
    <3> QED  BY <2>3, <3>1, <3>2
  <2> QED  BY <2>1, <2>2, <2>3
<1>4. TreesTo(rules, m + 1, g)
  <2>1. g = [k \in 0..(m + 1) |-> g[k]]
    OBVIOUS
  <2> HIDE DEF g
  <2> QED  BY <1>3, <2>1 DEF TreesTo
<1> QED  BY <1>4

\* Trees(rules, n) is what its recursive definition says.
LEMMA TreesFacts ==
  ASSUME NEW rules, NEW n \in Nat
  PROVE  /\ Trees(rules, n)[0] = {}
         /\ \A k \in 1..n : Trees(rules, n)[k] = AppliedAll(rules, Trees(rules, n)[k - 1])
<1> DEFINE T == {m \in Nat : \E f : TreesTo(rules, m, f)}
<1>1. 0 \in T
  <2>1. PICK f : f = [k \in 0..0 |-> {}]
    OBVIOUS
  <2>2. TreesTo(rules, 0, f)
    BY <2>1 DEF TreesTo
  <2> QED  BY <2>2
<1>2. \A j \in 0..(n - 1) : j \in T => j + 1 \in T
  BY TreesLonger
<1>3. n \in T
  <2> HIDE DEF T
  <2>1. \A k \in 0..n : k \in T
    BY <1>1, <1>2, InductionUpTo
  <2> QED  BY <2>1
<1>4. Trees(rules, n) = CHOOSE f : TreesTo(rules, n, f)
  BY DEF Trees, TreesTo
<1>5. TreesTo(rules, n, Trees(rules, n))
  BY <1>3, <1>4, Zenon
<1>6. PICK f : f = Trees(rules, n)
  OBVIOUS
<1>7. \A k \in 0..n : f[k] = IF k = 0 THEN {} ELSE AppliedAll(rules, f[k - 1])
  BY <1>5, <1>6 DEF TreesTo
<1>8. 0 \in 0..n /\ \A k \in 1..n : k \in 0..n /\ k # 0
  OBVIOUS
<1> QED  BY <1>6, <1>7, <1>8

\* A word of the first k + 1 symbols is one of the first k and what the next stands for.
LEMMA WordsStep ==
  ASSUME NEW lin, NEW says, Len(lin) \in Nat, NEW k \in 0..(Len(lin) - 1)
  PROVE  Words(lin, says)[k + 1] = Joined(Words(lin, says)[k], SymbolWords(lin[k + 1], says))
<1>1. k + 1 \in 1..Len(lin) /\ (k + 1) - 1 = k
  OBVIOUS
<1> QED  BY <1>1, WordsFacts

\* The members of Joined(X, Y).
LEMMA JoinedIs ==
  ASSUME NEW X, NEW Y, NEW w
  PROVE  w \in Joined(X, Y) <=> \E x \in X : \E y \in Y : w = x \o y
  BY DEF Joined

\* What a symbol for a constituent of an argument stands for.
LEMMA ArgumentWords ==
  ASSUME NEW sym, sym.t = "cat", NEW says, NEW w
  PROVE  w \in SymbolWords(sym, says) <=> <<sym.r, w>> \in says[sym.d]
<1>1. SymbolWords(sym, says) = {v \in {x[2] : x \in says[sym.d]} : <<sym.r, v>> \in says[sym.d]}
  BY DEF SymbolWords
<1>2. <<sym.r, w>>[2] = w
  OBVIOUS
<1>3. <<sym.r, w>> \in says[sym.d] => w \in {x[2] : x \in says[sym.d]}
  BY <1>2
<1> QED  BY <1>1, <1>3

\* What a symbol of tokens stands for: its forms.
LEMMA TokenWords ==
  ASSUME NEW sym, sym.t \in {"ks", "kp"}, NEW says, NEW w
  PROVE  w \in SymbolWords(sym, says) <=> \E i \in DOMAIN Forms(sym) : w = Forms(sym)[i]
  BY DEF SymbolWords

\* Arguments for the categories cats, from the pairs S of a category and a tree.
ArgsOf(S, cats, args) ==
  args = [d \in DOMAIN cats |-> args[d]] /\ \A d \in DOMAIN cats : <<cats[d], args[d]>> \in S

\* The arguments that a set of trees has for a production.
LEMMA ArgsFromIs ==
  ASSUME NEW S, NEW prod, NEW args
  PROVE  args \in ArgsFrom(prod, S) <=> ArgsOf(S, prod.args, args)
<1>1. ASSUME ArgsOf(S, prod.args, args)
      PROVE  args \in [DOMAIN prod.args -> {x[2] : x \in S}]
  <2>1. ASSUME NEW d \in DOMAIN prod.args
        PROVE  args[d] \in {x[2] : x \in S}
    <3>1. <<prod.args[d], args[d]>> \in S /\ <<prod.args[d], args[d]>>[2] = args[d]
      BY <1>1 DEF ArgsOf
    <3> QED  BY <3>1
  <2> QED  BY <1>1, <2>1 DEF ArgsOf
<1> QED  BY <1>1 DEF ArgsFrom, ArgsOf

\* The trees that take one rule more.
LEMMA TreesStep ==
  ASSUME NEW rules, NEW n \in Nat, NEW k \in 0..(n - 1), NEW c, NEW t
  PROVE  <<c, t>> \in Trees(rules, n)[k + 1] <=>
           \E rule \in rules : \E args : /\ ArgsOf(Trees(rules, n)[k], rule.prod.args, args)
                                         /\ c = rule.cat /\ t = Node(rule, args)
<1>1. k + 1 \in 1..n /\ (k + 1) - 1 = k
  OBVIOUS
<1>2. PICK S : S = Trees(rules, n)[k]
  OBVIOUS
<1>3. Trees(rules, n)[k + 1] = AppliedAll(rules, S)
  BY <1>1, <1>2, TreesFacts
<1>4. <<c, t>> \in AppliedAll(rules, S) <=>
        \E rule \in rules : \E args \in ArgsFrom(rule.prod, S) : <<c, t>> = <<rule.cat, Node(rule, args)>>
  BY DEF AppliedAll, Applied
<1>5. \A rule, args : <<c, t>> = <<rule.cat, Node(rule, args)>> <=> c = rule.cat /\ t = Node(rule, args)
  OBVIOUS
<1> QED  BY <1>2, <1>3, <1>4, <1>5, ArgsFromIs

\* What the tree of a rule says.
LEMMA NodeSays ==
  ASSUME NEW rule, NEW args, rule.prod.fun # Coerce, NEW r, NEW w
  PROVE  LET lin == LinOf(concr, rule.prod, r) IN
         <<r, w>> \in Node(rule, args).says <=>
           r \in rule.ctnts /\ w \in Words(lin, SaysOf(args))[Len(lin)]
<1>1. Node(rule, args).says = Says(rule, args)
  BY DEF Node
<1>2. \A q, v : <<r, w>> = <<q, v>> <=> r = q /\ w = v
  OBVIOUS
<1> QED  BY <1>1, <1>2 DEF Says

-----------------------------------------------------------------------------
(* The rules of the chart *)

ChartRule(c, prod) == c \in Fids /\ HasProds(c) /\ prod \in Members(Prods(c))

\* The rules of the chart, and those of the grammar.
LEMMA RulesAre ==
  ASSUME CatsOK, NEW rule
  PROVE  /\ rule \in ChartRules <=> \E c, prod : ChartRule(c, prod) /\ rule = RuleOf(c, prod)
         /\ rule \in GrammarRules <=>
              \E c \in DOMAIN concr.cat : \E prod : ChartRule(c, prod) /\ rule = RuleOf(c, prod)
<1>1. DOMAIN concr.prods \subseteq DOMAIN concr.cat
  BY GrammarFacts DEF WellFormed
<1>2. \A c : c \in Fids /\ HasProds(c) <=> c \in DOMAIN concr.prods \cup DOMAIN ccats
  <2>1. \A c \in DOMAIN ccats : HasProds(c) /\ c \in Fids
    BY GrammarFacts DEF HasProds, Fids
  <2>2. \A c \in DOMAIN concr.cat : c \in Fids /\ (HasProds(c) <=> c \in DOMAIN concr.prods)
    BY GrammarFacts DEF HasProds, Fids
  <2> QED  BY <1>1, <2>1, <2>2 DEF Fids
<1>3. \A c \in DOMAIN concr.cat : ~Synthetic(c) /\ c \notin DOMAIN ccats
  BY GrammarFacts
<1>4. ASSUME NEW c \in Fids, HasProds(c)
      PROVE  rule \in RulesOf(c) <=> \E prod \in Members(Prods(c)) : rule = RuleOf(c, prod)
  <2>1. DOMAIN Prods(c) = 1..Len(Prods(c))
    BY <1>4, ProdsFacts, IsSeqFacts
  <2> QED  BY <2>1 DEF RulesOf, Members
<1>5. rule \in ChartRules <=> \E c \in Fids : HasProds(c) /\ rule \in RulesOf(c)
  BY <1>2 DEF ChartRules
<1>6. rule \in GrammarRules <=> \E c \in DOMAIN concr.cat : HasProds(c) /\ rule \in RulesOf(c)
  <2>1. \A c \in DOMAIN concr.cat : HasProds(c) <=> c \in DOMAIN concr.prods
    BY <1>3 DEF HasProds
  <2> QED  BY <1>1, <2>1 DEF GrammarRules
<1>7. \A c \in DOMAIN concr.cat : c \in Fids
  BY DEF Fids
<1> QED  BY <1>4, <1>5, <1>6, <1>7 DEF ChartRule

ChartTrees == Trees(ChartRules, MaxDepth(concr))

GrammarTrees == Trees(GrammarRules, MaxDepth(concr))

\* The depth is a number.
LEMMA DepthOK ==
  ASSUME CatsOK
  PROVE  MaxDepth(concr) \in Nat
  BY MaxDepthAssumption DEF CatsOK

\* The trees of the chart of depth k + 1 are made of those of depth k.
LEMMA ChartTreesStep ==
  ASSUME CatsOK, NEW k \in 0..(MaxDepth(concr) - 1), NEW c, NEW t
  PROVE  <<c, t>> \in ChartTrees[k + 1] <=>
           \E prod, args : /\ ChartRule(c, prod) /\ ArgsOf(ChartTrees[k], prod.args, args)
                           /\ t = Node(RuleOf(c, prod), args)
<1>1. <<c, t>> \in ChartTrees[k + 1] <=>
        \E rule \in ChartRules : \E args : /\ ArgsOf(ChartTrees[k], rule.prod.args, args)
                                           /\ c = rule.cat /\ t = Node(rule, args)
  BY DepthOK, TreesStep DEF ChartTrees
<1>2. \A b, prod : RuleOf(b, prod).cat = b /\ RuleOf(b, prod).prod = prod
  BY DEF RuleOf
<1>3. \A rule : rule \in ChartRules <=> \E b, prod : ChartRule(b, prod) /\ rule = RuleOf(b, prod)
  BY RulesAre
<1> QED  BY <1>1, <1>2, <1>3

\* The same of the trees of the grammar.
LEMMA GrammarTreesStep ==
  ASSUME CatsOK, NEW k \in 0..(MaxDepth(concr) - 1), NEW c \in DOMAIN concr.cat, NEW t
  PROVE  <<c, t>> \in GrammarTrees[k + 1] <=>
           \E prod, args : /\ ChartRule(c, prod) /\ ArgsOf(GrammarTrees[k], prod.args, args)
                           /\ t = Node(RuleOf(c, prod), args)
<1>1. <<c, t>> \in GrammarTrees[k + 1] <=>
        \E rule \in GrammarRules : \E args : /\ ArgsOf(GrammarTrees[k], rule.prod.args, args)
                                             /\ c = rule.cat /\ t = Node(rule, args)
  BY DepthOK, TreesStep DEF GrammarTrees
<1>2. \A b, prod : RuleOf(b, prod).cat = b /\ RuleOf(b, prod).prod = prod
  BY DEF RuleOf
<1>3. \A rule : rule \in GrammarRules <=>
        \E b \in DOMAIN concr.cat : \E prod : ChartRule(b, prod) /\ rule = RuleOf(b, prod)
  BY RulesAre
<1> QED  BY <1>1, <1>2, <1>3

\* The categories of the grammar have the same trees in both.
LEMMA SameTrees ==
  ASSUME CatsOK
  PROVE  \A n \in 0..MaxDepth(concr) : \A c \in DOMAIN concr.cat : \A t :
           <<c, t>> \in ChartTrees[n] <=> <<c, t>> \in GrammarTrees[n]
<1> DEFINE T == {n \in 0..MaxDepth(concr) : \A c \in DOMAIN concr.cat : \A t :
                   <<c, t>> \in ChartTrees[n] <=> <<c, t>> \in GrammarTrees[n]}
<1>1. MaxDepth(concr) \in Nat
  BY DepthOK
<1>2. 0 \in T
  <2>1. ChartTrees[0] = {} /\ GrammarTrees[0] = {}
    BY <1>1, TreesFacts DEF ChartTrees, GrammarTrees
  <2> QED  BY <1>1, <2>1
<1>3. ASSUME NEW k \in 0..(MaxDepth(concr) - 1), k \in T
      PROVE  k + 1 \in T
  <2>1. \A c \in DOMAIN concr.cat : \A t : <<c, t>> \in ChartTrees[k] <=> <<c, t>> \in GrammarTrees[k]
    BY <1>3
  <2>2. ASSUME NEW c \in DOMAIN concr.cat, NEW prod, ChartRule(c, prod), NEW args
        PROVE  ArgsOf(ChartTrees[k], prod.args, args) <=> ArgsOf(GrammarTrees[k], prod.args, args)
    <3>1. PICK i \in 1..Len(Prods(c)) : prod = Prods(c)[i]
      BY <2>2 DEF ChartRule, Members
    <3>2. /\ WellFormed(concr) /\ c \in DOMAIN concr.prods /\ Prods(c) = concr.prods[c]
          /\ i \in DOMAIN concr.prods[c]
      BY <2>2, <3>1, GrammarFacts, ProdsFacts, IsSeqFacts DEF ChartRule, HasProds, Prods
    <3>3. prod.args \in [DOMAIN prod.args -> DOMAIN concr.cat]
      <4>1. LET p == concr.prods[c][i] IN p.args \in [DOMAIN p.args -> DOMAIN concr.cat]
        BY <3>2, Zenon DEF WellFormed
      <4> QED  BY <3>1, <3>2, <4>1
    <3>4. \A d \in DOMAIN prod.args :
            <<prod.args[d], args[d]>> \in ChartTrees[k] <=> <<prod.args[d], args[d]>> \in GrammarTrees[k]
      BY <2>1, <3>3
    <3> QED  BY <3>4 DEF ArgsOf
  <2>3. ASSUME NEW c \in DOMAIN concr.cat, NEW t
        PROVE  <<c, t>> \in ChartTrees[k + 1] <=> <<c, t>> \in GrammarTrees[k + 1]
    BY <2>2, <2>3, ChartTreesStep, GrammarTreesStep
  <2>4. k + 1 \in 0..MaxDepth(concr)
    BY <1>1
  <2> QED  BY <2>3, <2>4
<1> HIDE DEF T
<1>4. \A n \in 0..MaxDepth(concr) : n \in T
  BY <1>1, <1>2, <1>3, InductionUpTo
<1> QED  BY <1>4 DEF T

-----------------------------------------------------------------------------
(* Trees say sequences of tokens *)

\* The empty sequence is one of tokens.
LEMMA NoTokens == <<>> \in Seq(Tokens)
  OBVIOUS

SaysTokens(S) ==
  \A c \in Fids : \A t : <<c, t>> \in S /\ NCtnts(c) # 0 =>
    \A r, w : <<r, w>> \in t.says => w \in Seq(Tokens)

\* A symbol stands for sequences of tokens if the arguments do.
LEMMA SymbolSaysTokens ==
  ASSUME CatsOK, NEW S, SaysTokens(S), NEW cats, cats \in [DOMAIN cats -> Fids], NEW args, ArgsOf(S, cats, args),
         NEW sym, SymbolFits(concr, sym, ArgCats(cats)), NEW w \in SymbolWords(sym, SaysOf(args))
  PROVE  w \in Seq(Tokens)
<1>1. CASE sym.t = "cat"
  <2>1. PICK d : d = sym.d
    OBVIOUS
  <2>2. d \in DOMAIN cats /\ sym.r \in 1..NCtnts(cats[d])
    BY <1>1, <2>1 DEF SymbolFits, ArgCats, NCtnts
  <2>3. DOMAIN args = DOMAIN cats /\ <<cats[d], args[d]>> \in S /\ cats[d] \in Fids
    BY <2>2 DEF ArgsOf
  <2>4. SaysOf(args)[d] = args[d].says
    BY <2>2, <2>3 DEF SaysOf
  <2>5. <<sym.r, w>> \in args[d].says
    BY <1>1, <2>1, <2>4, ArgumentWords
  <2>6. NCtnts(cats[d]) # 0
    BY <2>2
  <2> QED  BY <2>3, <2>5, <2>6 DEF SaysTokens
<1>2. CASE sym.t \in {"ks", "kp"}
  BY <1>2, TokenWords DEF SymbolFits
<1>3. CASE sym.t = "lit"
  BY <1>3 DEF SymbolWords
<1> QED  BY <1>1, <1>2, <1>3 DEF SymbolFits

\* The symbols of a constituent stand for sequences of tokens.
LEMMA WordsSayTokens ==
  ASSUME CatsOK, NEW S, SaysTokens(S), NEW prod, NEW k, ProdOK(prod, k),
         NEW r \in 1..concr.cnccats[k].n_ctnts, NEW args, ArgsOf(S, prod.args, args)
  PROVE  LET lin == LinOf(concr, prod, r) IN
         /\ Len(lin) \in Nat /\ DOMAIN lin = 1..Len(lin)
         /\ \A j \in 0..Len(lin) : \A w \in Words(lin, SaysOf(args))[j] : w \in Seq(Tokens)
         /\ \A i \in 1..Len(lin) : SymbolFits(concr, lin[i], ArgCats(prod.args))
<1>1. PICK lin, cats : lin = LinOf(concr, prod, r) /\ cats = prod.args
  OBVIOUS
<1>2. cats \in [DOMAIN cats -> Fids]
  BY <1>1 DEF ProdOK
<1>3. IsSeq(lin) /\ \A i \in DOMAIN lin : SymbolFits(concr, lin[i], ArgCats(cats))
  BY <1>1 DEF ProdOK, ProdFits
<1>4. Len(lin) \in Nat /\ DOMAIN lin = 1..Len(lin)
  BY <1>3, IsSeqFacts
<1> DEFINE T == {j \in 0..Len(lin) : \A w \in Words(lin, SaysOf(args))[j] : w \in Seq(Tokens)}
<1>5. 0 \in T
  <2>1. Words(lin, SaysOf(args))[0] = {<<>>}
    BY <1>4, WordsFacts
  <2>2. <<>> \in Seq(Tokens)
    BY NoTokens
  <2>3. 0 \in 0..Len(lin)
    BY <1>4
  <2>4. \A w \in Words(lin, SaysOf(args))[0] : w \in Seq(Tokens)
    BY <2>1, <2>2
  <2> QED  BY <2>3, <2>4
<1>6. ASSUME NEW j \in 0..(Len(lin) - 1), j \in T
      PROVE  j + 1 \in T
  <2>1. j + 1 \in 1..Len(lin) /\ j + 1 \in 0..Len(lin)
    BY <1>4
  <2>2. ASSUME NEW w \in Words(lin, SaysOf(args))[j + 1]
        PROVE  w \in Seq(Tokens)
    <3>1. PICK x \in Words(lin, SaysOf(args))[j], y \in SymbolWords(lin[j + 1], SaysOf(args)) : w = x \o y
      <4>1. PICK says : says = SaysOf(args)
        OBVIOUS
      <4>2. Words(lin, says)[j + 1] = Joined(Words(lin, says)[j], SymbolWords(lin[j + 1], says))
        BY <1>4, WordsStep
      <4>3. w \in Joined(Words(lin, says)[j], SymbolWords(lin[j + 1], says))
        BY <4>1, <4>2
      <4>4. \E x \in Words(lin, says)[j] : \E y \in SymbolWords(lin[j + 1], says) : w = x \o y
        BY <4>3, JoinedIs
      <4> QED  BY <4>1, <4>4
    <3>2. x \in Seq(Tokens)
      BY <1>6
    <3>3. SymbolFits(concr, lin[j + 1], ArgCats(cats))
      BY <1>3, <1>4, <2>1
    <3>4. ArgsOf(S, cats, args)
      BY <1>1
    <3>5. y \in Seq(Tokens)
      BY <1>2, <3>3, <3>4, SymbolSaysTokens
    <3> QED  BY <3>1, <3>2, <3>5, ConcatProperties
  <2> QED  BY <2>1, <2>2
<1> HIDE DEF T
<1>7. \A j \in 0..Len(lin) : j \in T
  BY <1>4, <1>5, <1>6, InductionUpTo
<1> QED  BY <1>1, <1>3, <1>4, <1>7 DEF T

\* A rule applied to trees that say sequences of tokens gives one that does.
LEMMA NodeSaysTokens ==
  ASSUME CatsOK, NEW S, SaysTokens(S), NEW c, NEW prod, ChartRule(c, prod), NEW args,
         ArgsOf(S, prod.args, args), NCtnts(c) # 0,
         NEW r, NEW w, <<r, w>> \in Node(RuleOf(c, prod), args).says
  PROVE  w \in Seq(Tokens)
<1>1. ProdOK(prod, CncCat(c)) /\ c \in Fids
  BY ProdsFacts DEF ChartRule, Members
<1>2. RuleOf(c, prod).prod = prod /\ RuleOf(c, prod).ctnts = 1..NCtnts(c)
  BY DEF RuleOf
<1>3. CASE prod.fun = Coerce
  <2>1. Node(RuleOf(c, prod), args) = args[1]
    BY <1>2, <1>3 DEF Node
  <2>2. NCtnts(c) \in Nat /\ 1 \in 1..NCtnts(c) /\ NCtnts(c) = concr.cnccats[CncCat(c)].n_ctnts
    BY <1>1, FidFacts DEF NCtnts
  <2>3. PICK sym : sym = [t |-> "cat", d |-> 1, r |-> 1]
    OBVIOUS
  <2>4. LinOf(concr, prod, 1) = <<sym>>
    BY <1>3, <2>3 DEF LinOf
  <2>5. SymbolFits(concr, sym, ArgCats(prod.args))
    <3>1. \A i \in DOMAIN <<sym>> : SymbolFits(concr, <<sym>>[i], ArgCats(prod.args))
      BY <1>1, <2>2, <2>4 DEF ProdOK, ProdFits
    <3>2. 1 \in DOMAIN <<sym>> /\ <<sym>>[1] = sym
      OBVIOUS
    <3> QED  BY <3>1, <3>2
  <2>6. 1 \in DOMAIN prod.args /\ 1 \in 1..NCtnts(prod.args[1]) /\ prod.args[1] \in Fids
    BY <1>1, <2>3, <2>5 DEF SymbolFits, ArgCats, NCtnts, ProdOK
  <2>7. <<prod.args[1], args[1]>> \in S /\ NCtnts(prod.args[1]) # 0
    BY <2>6 DEF ArgsOf
  <2> QED  BY <2>1, <2>6, <2>7 DEF SaysTokens
<1>4. CASE prod.fun # Coerce
  <2>1. PICK lin : lin = LinOf(concr, prod, r)
    OBVIOUS
  <2>2. r \in 1..NCtnts(c) /\ w \in Words(lin, SaysOf(args))[Len(lin)]
    BY <1>2, <1>4, <2>1, NodeSays
  <2>3. r \in 1..concr.cnccats[CncCat(c)].n_ctnts
    BY <2>2 DEF NCtnts
  <2>4. /\ Len(lin) \in Nat
        /\ \A j \in 0..Len(lin) : \A v \in Words(lin, SaysOf(args))[j] : v \in Seq(Tokens)
    BY <1>1, <2>1, <2>3, WordsSayTokens
  <2> QED  BY <2>2, <2>4
<1> QED  BY <1>3, <1>4

\* Trees say sequences of tokens.
LEMMA TreesSayTokens ==
  ASSUME CatsOK
  PROVE  \A n \in 0..MaxDepth(concr) : SaysTokens(ChartTrees[n])
<1> DEFINE T == {n \in 0..MaxDepth(concr) : SaysTokens(ChartTrees[n])}
<1>1. MaxDepth(concr) \in Nat
  BY DepthOK
<1>2. 0 \in T
  <2>1. ChartTrees[0] = {}
    BY <1>1, TreesFacts DEF ChartTrees
  <2> QED  BY <1>1, <2>1 DEF SaysTokens
<1>3. ASSUME NEW k \in 0..(MaxDepth(concr) - 1), k \in T
      PROVE  k + 1 \in T
  <2>1. SaysTokens(ChartTrees[k])
    BY <1>3
  <2>2. SaysTokens(ChartTrees[k + 1])
    <3> SUFFICES ASSUME NEW c \in Fids, NEW t, <<c, t>> \in ChartTrees[k + 1], NCtnts(c) # 0,
                        NEW r, NEW w, <<r, w>> \in t.says
                 PROVE  w \in Seq(Tokens)
      BY DEF SaysTokens
    <3>1. PICK prod, args : /\ ChartRule(c, prod) /\ ArgsOf(ChartTrees[k], prod.args, args)
                            /\ t = Node(RuleOf(c, prod), args)
      BY ChartTreesStep
    <3> QED  BY <2>1, <3>1, NodeSaysTokens
  <2>3. k + 1 \in 0..MaxDepth(concr)
    BY <1>1
  <2> QED  BY <2>2, <2>3
<1> HIDE DEF T
<1>4. \A n \in 0..MaxDepth(concr) : n \in T
  BY <1>1, <1>2, <1>3, InductionUpTo
<1> QED  BY <1>4 DEF T

-----------------------------------------------------------------------------
(***************************************************************************)
(* How the chart came about.  The parser forgets what a parse has met and  *)
(* completed when it begins the next one, so it is kept in h: for each     *)
(* parse, h[p] is [from, tok, seen, generated], the parse it was begun     *)
(* from (0: none) with the token, and parsing.seen and parsing.generated   *)
(* as they were when it was finished.                                      *)
(***************************************************************************)

\* What a parse has met and completed: h has it of the parses that are finished.
SeenAt(h, p) == IF p = parsing.parse THEN parsing.seen ELSE h[p].seen

GenAt(h, p) == IF p = parsing.parse THEN parsing.generated ELSE h[p].generated

\* Each parse was begun with a category or, one token longer, from an earlier parse.
Lineage(h) ==
  /\ parsing.parse = Len(parses) /\ DOMAIN h = 1..Len(parses)
  /\ \A p \in 1..Len(parses) :
       /\ h[p].from \in 0..(p - 1) /\ parses[p].toks \in Seq(Tokens)
       /\ h[p].from = 0 => parses[p].toks = <<>>
       /\ h[p].from > 0 =>
            /\ h[p].tok \in Tokens /\ parses[p].start = parses[h[p].from].start
            /\ parses[p].toks = Append(parses[h[p].from].toks, h[p].tok)

\* The continuations cid are those of a category the parse was begun with.
Begins(h, p, cid) ==
  /\ h[p].from = 0 /\ cid = <<p, cid[2], parses[p].start[2]>>
  /\ cid[2] \in StartCats(parses[p].start[1])

\* Where an item comes from: a production, a token, or a completed category.
FromProd(p, item) ==
  \E cid \in DOMAIN conts :
    /\ cid[1] = p /\ HasProds(cid[2])
    /\ \E prod \in Members(Prods(cid[2])) : item = pgf_new_item(cid, prod)

FromToken(h, p, item) ==
  /\ h[p].from > 0
  /\ \E old \in parses[h[p].from].transitions[h[p].tok] :
       \E i \in Matching(old, h[p].tok) : item = Scanned(old, i)

FromCat(h, p, item) ==
  \E cid \in DOMAIN GenAt(h, p) : \E cont \in conts[cid] :
    cont # NULL /\ item = Combined(cont, GenAt(h, p)[cid])

Derived(h, p, item) == FromProd(p, item) \/ FromToken(h, p, item) \/ FromCat(h, p, item)

\* A production of a completed category is that of an item that has come to its end.
Ended(h, p, cid, prod) ==
  \E item \in SeenAt(h, p) : AtEnd(item) /\ item.conts = cid /\ prod = DoneProd(item)

SeenDerived(h, p) ==
  \A item \in SeenAt(h, p) : ItemOK(item) /\ item.conts[1] <= p /\ Derived(h, p, item)

CatsEnded(h, p) ==
  \A cid \in DOMAIN GenAt(h, p) :
    /\ cid \in DOMAIN conts /\ cid[1] <= p /\ GenAt(h, p)[cid] \in DOMAIN ccats
    /\ CncCat(GenAt(h, p)[cid]) = CncCat(cid[2])
    /\ \A prod \in Members(ccats[GenAt(h, p)[cid]].prods) : Ended(h, p, cid, prod)

FiledSeen(h, p) == \A tok \in Tokens : parses[p].transitions[tok] \subseteq SeenAt(h, p)

SentencesEnded(h, p) ==
  \A fid \in Members(parses[p].completed) :
    \E cid \in DOMAIN GenAt(h, p) : fid = GenAt(h, p)[cid] /\ NULL \in conts[cid]

ParseDerived(h, p) ==
  SeenDerived(h, p) /\ CatsEnded(h, p) /\ FiledSeen(h, p) /\ SentencesEnded(h, p)

\* An item waits where it was met.
ContsSeen(h) ==
  \A cid \in DOMAIN conts :
    /\ cid = <<cid[1], cid[2], cid[3]>>
    /\ \A item \in conts[cid] :
         IF item = NULL THEN Begins(h, cid[1], cid) ELSE item \in SeenAt(h, cid[1])

\* What belongs to a finished parse is older than the one under way.
Older(h) ==
  /\ \A p \in 1..Len(parses) : p # parsing.parse =>
       \A cid \in DOMAIN GenAt(h, p) : GenAt(h, p)[cid] >= parses[parsing.parse].fid
  /\ \A cid \in DOMAIN conts : cid[1] # parsing.parse => cid[2] >= parses[parsing.parse].fid
  /\ \A c, d \in DOMAIN parsing.generated : parsing.generated[c] = parsing.generated[d] => c = d

\* What a call that is under way works on.
FrameDerived(h, f) ==
  LET p == parsing.parse IN
  /\ f.k = "start" =>
       /\ h[p].from = 0 /\ f.r = parses[p].start[2]
       /\ Members(f.cats) \subseteq StartCats(parses[p].start[1])
  /\ f.k = "scan" =>
       /\ h[p].from > 0 /\ f.tok = h[p].tok
       /\ f.agenda \subseteq parses[h[p].from].transitions[h[p].tok]
  /\ f.k = "forms" =>
       /\ h[p].from > 0 /\ f.item \in parses[h[p].from].transitions[h[p].tok]
       /\ f.todo \subseteq Matching(f.item, h[p].tok)
  /\ f.k = "item" => Derived(h, p, f.item)
  /\ f.k = "predict" =>
       IF f.item = NULL THEN Begins(h, p, ContsId(f.cat, f.r)) ELSE f.item \in parsing.seen
  /\ f.k = "prods" => f.conts[1] = p /\ f.item \in conts[f.conts]
  /\ f.k = "combine" =>
       \E cid \in DOMAIN parsing.generated : f.cat = parsing.generated[cid] /\ f.cont \in conts[cid]
  /\ f.k = "complete" => f.item \in parsing.seen
  /\ f.k = "contss" => f.prod \in Members(ccats[f.cat].prods)
  /\ f.k = "conts" => f.conts \in DOMAIN parsing.generated /\ f.cat = parsing.generated[f.conts]

FramesDerived(h) == \A f \in Pending : FrameDerived(h, f)

ChartDerived(h) ==
  /\ Lineage(h) /\ Older(h) /\ ContsSeen(h) /\ FramesDerived(h)
  /\ \A p \in 1..Len(parses) : ParseDerived(h, p)

-----------------------------------------------------------------------------
(* An item stands for tokens that were fed *)

\* The tokens between parse q and parse p are w.
Covers(q, p, w) ==
  /\ w \in Seq(Tokens) /\ parses[p].start = parses[q].start
  /\ parses[p].toks = parses[q].toks \o w

\* What has been scanned of the current symbol.
Begun(item) ==
  IF item.tok_idx = 0 THEN <<>>
  ELSE SubSeq(Forms(CurrSym(item))[item.alt + 1], 1, item.tok_idx)

\* The symbols before the dot stand for the tokens between the parse in which the item
\* was predicted and parse p.
Yields(p, item, says) ==
  \E w \in Words(Lin(item), says)[item.seq_idx] :
    w \in Seq(Tokens) /\ Covers(item.conts[1], p, w \o Begun(item))

\* Every way to fill the arguments of the item with trees of S fills those of its production.
ItemMeans(S, p, item) ==
  /\ HasProds(item.conts[2]) /\ item.prod \in Members(Prods(item.conts[2]))
  /\ \A args : ArgsOf(S, item.args, args) =>
       ArgsOf(S, item.prod.args, args) /\ Yields(p, item, SaysOf(args))

\* A tree of a completed category is one of the category that was predicted.
CatMeans(h, S) ==
  \A p \in 1..Len(parses) : \A cid \in DOMAIN GenAt(h, p) : \A t :
    <<GenAt(h, p)[cid], t>> \in S =>
      /\ <<cid[2], t>> \in S
      /\ \E w : Covers(cid[1], p, w) /\ <<cid[3], w>> \in t.says

\* No tokens come between a parse and itself.
LEMMA CoversSelf ==
  ASSUME NEW p, parses[p].toks \in Seq(Tokens)
  PROVE  Covers(p, p, <<>>)
  BY NoTokens, ConcatEmptySeq DEF Covers

\* Its last token comes between a parse and the one it was begun from.
LEMMA CoversToken ==
  ASSUME NEW q, NEW p, NEW tok \in Tokens, parses[q].toks \in Seq(Tokens),
         parses[p].start = parses[q].start, parses[p].toks = Append(parses[q].toks, tok)
  PROVE  Covers(q, p, <<tok>>)
<1>1. <<tok>> \in Seq(Tokens)
  OBVIOUS
<1>2. Append(parses[q].toks, tok) = parses[q].toks \o <<tok>>
  BY AppendIsConcat
<1> QED  BY <1>1, <1>2 DEF Covers

\* What is covered up to one parse, and from there to the next, is covered.
LEMMA CoversOn ==
  ASSUME NEW q, NEW m, NEW p, NEW v, NEW w, parses[q].toks \in Seq(Tokens),
         Covers(q, m, v), Covers(m, p, w)
  PROVE  Covers(q, p, v \o w)
<1>1. v \in Seq(Tokens) /\ w \in Seq(Tokens)
  BY DEF Covers
<1>2. v \o w \in Seq(Tokens)
  BY <1>1, ConcatProperties
<1>3. PICK x \in Seq(Tokens) : x = parses[q].toks
  OBVIOUS
<1>4. (x \o v) \o w = x \o (v \o w)
  BY ONLY <1>1, x \in Seq(Tokens), ConcatAssociative, SMTT(30)
<1> QED  BY <1>2, <1>3, <1>4 DEF Covers

\* What scanning a token does to an item.
LEMMA ScannedFields ==
  ASSUME NEW item, BeforeToken(item), NEW i \in OpenForms(item)
  PROVE  LET new == Scanned(item, i)
             len == Len(Forms(CurrSym(item))[i])
         IN /\ new.conts = item.conts /\ new.prod = item.prod /\ new.args = item.args
            /\ new.alt = i - 1 /\ len \in Nat /\ item.tok_idx + 1 <= len
            /\ new.tok_idx = (IF item.tok_idx + 1 = len THEN 0 ELSE item.tok_idx + 1)
            /\ new.seq_idx = (IF item.tok_idx + 1 = len THEN item.seq_idx + 1 ELSE item.seq_idx)
<1>1. PICK new, len : new = Scanned(item, i) /\ len = Len(Forms(CurrSym(item))[i])
  OBVIOUS
<1>2. DOMAIN item = {"conts", "prod", "args", "seq_idx", "tok_idx", "alt"} /\ item.tok_idx \in Nat
  BY DEF BeforeToken, ItemOK
<1>3. len \in Nat /\ item.tok_idx < len
  BY <1>1, OpenFormsFacts
<1>4. item.tok_idx + 1 <= len
  BY ONLY <1>2, <1>3
<1>5. /\ new.conts = item.conts /\ new.prod = item.prod /\ new.args = item.args /\ new.alt = i - 1
      /\ new.tok_idx = (IF item.tok_idx + 1 = len THEN 0 ELSE item.tok_idx + 1)
      /\ new.seq_idx = (IF item.tok_idx + 1 = len THEN item.seq_idx + 1 ELSE item.seq_idx)
  BY <1>1, <1>2 DEF Scanned
<1> QED  BY <1>1, <1>3, <1>4, <1>5

\* The form that an item before a token is in, and what of it has been scanned.
LEMMA BegunIs ==
  ASSUME NEW item, BeforeToken(item), NEW i \in OpenForms(item)
  PROVE  LET form == Forms(CurrSym(item))[i] IN
         form \in Seq(Tokens) /\ Begun(item) = SubSeq(form, 1, item.tok_idx)
<1>1. PICK sym, forms : sym = CurrSym(item) /\ forms = Forms(sym)
  OBVIOUS
<1>2. ItemOK(item) /\ ~AtEnd(item) /\ sym.t \in {"ks", "kp"}
  BY <1>1 DEF BeforeToken
<1>3. SymbolFits(concr, sym, ArgCats(item.prod.args))
  BY <1>1, <1>2, CurrSymFits
<1>4. \A j \in DOMAIN forms : forms[j] \in Seq(Tokens)
  BY <1>1, <1>2, <1>3 DEF SymbolFits
<1>5. i \in DOMAIN forms
  BY <1>1, OpenFormsFacts
<1>6. CASE item.tok_idx = 0
  <2>1. SubSeq(forms[i], 1, item.tok_idx) = <<>>
    BY <1>6, SubSeqEmpty
  <2> QED  BY <1>1, <1>4, <1>5, <1>6, <2>1 DEF Begun
<1>7. CASE item.tok_idx > 0
  <2>1. i = item.alt + 1 /\ item.tok_idx # 0
    BY <1>7 DEF OpenForms
  <2> QED  BY <1>1, <1>4, <1>5, <2>1 DEF Begun
<1>8. item.tok_idx \in Nat
  BY <1>2 DEF ItemOK
<1> QED  BY <1>6, <1>7, <1>8

\* Scanning one more token of a form.
LEMMA FormStep ==
  ASSUME NEW form \in Seq(Tokens), NEW k \in Nat, k + 1 <= Len(form)
  PROVE  SubSeq(form, 1, k + 1) = SubSeq(form, 1, k) \o <<form[k + 1]>>
<1>1. Len(form) \in Nat
  BY LenProperties
<1>2. 1 \in 1..Len(form) /\ k + 1 \in 1..Len(form) /\ (k + 1) - 1 = k
  BY <1>1
<1>3. PICK n : n = k + 1
  OBVIOUS
<1>4. SubSeq(form, 1, n) = SubSeq(form, 1, n - 1) \o <<form[n]>>
  BY ONLY <1>2, <1>3, form \in Seq(Tokens), SubSeqRecursiveSecond
<1> QED  BY <1>2, <1>3, <1>4

\* An item that has gone over a token yields one token more.
LEMMA ScannedYields ==
  ASSUME NEW item, BeforeToken(item), NEW tok \in Tokens, NEW i \in Matching(item, tok), NEW says,
         NEW q, NEW p, Yields(q, item, says), Covers(q, p, <<tok>>),
         parses[item.conts[1]].toks \in Seq(Tokens)
  PROVE  Yields(p, Scanned(item, i), says)
<1>1. PICK new, form, cid : new = Scanned(item, i) /\ form = Forms(CurrSym(item))[i] /\ cid = item.conts
  OBVIOUS
<1>2. i \in OpenForms(item) /\ form[item.tok_idx + 1] = tok
  BY <1>1 DEF Matching
<1>3. form \in Seq(Tokens) /\ Begun(item) = SubSeq(form, 1, item.tok_idx)
  BY <1>1, <1>2, BegunIs
<1>4. /\ new.conts = cid /\ new.prod = item.prod /\ new.alt = i - 1
      /\ Len(form) \in Nat /\ item.tok_idx + 1 <= Len(form)
      /\ new.tok_idx = (IF item.tok_idx + 1 = Len(form) THEN 0 ELSE item.tok_idx + 1)
      /\ new.seq_idx = (IF item.tok_idx + 1 = Len(form) THEN item.seq_idx + 1 ELSE item.seq_idx)
  BY <1>1, <1>2, ScannedFields
<1>5. item.tok_idx \in Nat /\ item.seq_idx \in Nat /\ Len(Lin(item)) \in Nat
      /\ item.seq_idx \in 0..(Len(Lin(item)) - 1)
  <2>1. ItemOK(item) /\ ~AtEnd(item)
    BY Zenon DEF BeforeToken
  <2>2. PICK n, s : n = Len(Lin(item)) /\ s = item.seq_idx
    OBVIOUS
  <2>3. item.tok_idx \in Nat /\ s \in 0..n
    BY <2>1, <2>2, Zenon DEF ItemOK
  <2>4. n \in Nat /\ s + 1 \in 1..n
    BY <2>1, <2>2, CurrSymFits, Zenon
  <2>5. s \in Nat /\ s \in 0..(n - 1)
    BY ONLY <2>3, <2>4
  <2> QED  BY ONLY <2>2, <2>3, <2>4, <2>5, Zenon
<1>6. Lin(new) = Lin(item)
  BY <1>1, <1>4 DEF Lin
<1>7. PICK w \in Words(Lin(item), says)[item.seq_idx] :
        w \in Seq(Tokens) /\ Covers(cid[1], q, w \o Begun(item))
  BY <1>1 DEF Yields
<1>8. Covers(cid[1], p, (w \o Begun(item)) \o <<tok>>)
  BY <1>1, <1>7, CoversOn
<1>9. PICK begun : begun = SubSeq(form, 1, item.tok_idx + 1)
  OBVIOUS
<1>10. begun = Begun(item) \o <<tok>> /\ begun \in Seq(Tokens) /\ Begun(item) \in Seq(Tokens)
  <2>1. begun = Begun(item) \o <<tok>>
    BY <1>2, <1>3, <1>4, <1>5, <1>9, FormStep
  <2>2. \A j \in 1..Len(form) : form[j] \in Tokens
    BY <1>3, ElementOfSeq
  <2>3. Begun(item) \in Seq(Tokens)
    <3>1. \A j \in 1..item.tok_idx : form[j] \in Tokens
      BY <1>4, <1>5, <2>2
    <3> QED  BY <1>3, <1>5, <3>1, SubSeqProperties
  <2>4. <<tok>> \in Seq(Tokens)
    OBVIOUS
  <2> QED  BY <2>1, <2>3, <2>4, ConcatProperties
<1>11. Covers(cid[1], p, w \o begun)
  <2>1. <<tok>> \in Seq(Tokens)
    OBVIOUS
  <2>2. (w \o Begun(item)) \o <<tok>> = w \o (Begun(item) \o <<tok>>)
    <3>1. PICK b, s : b = Begun(item) /\ s = <<tok>>
      OBVIOUS
    <3>2. (w \o b) \o s = w \o (b \o s)
      BY ONLY <1>7, <1>10, <2>1, <3>1, ConcatAssociative
    <3> QED  BY <3>1, <3>2
  <2> QED  BY <1>8, <1>10, <2>2
<1>12. CASE item.tok_idx + 1 = Len(form)
  <2>1. begun = form
    BY <1>3, <1>9, <1>12, SubSeqFull
  <2>2. Begun(new) = <<>> /\ new.seq_idx = item.seq_idx + 1
    BY <1>4, <1>12 DEF Begun
  <2>3. form \in SymbolWords(Lin(item)[item.seq_idx + 1], says)
    <3>1. i \in DOMAIN Forms(CurrSym(item)) /\ CurrSym(item).t \in {"ks", "kp"}
      BY <1>2, OpenFormsFacts DEF BeforeToken
    <3> QED  BY <1>1, <3>1, TokenWords DEF CurrSym
  <2>4. w \o form \in Joined(Words(Lin(item), says)[item.seq_idx], SymbolWords(Lin(item)[item.seq_idx + 1], says))
    BY <1>7, <2>3, JoinedIs
  <2>5. w \o form \in Words(Lin(new), says)[new.seq_idx]
    BY <1>5, <1>6, <2>2, <2>4, WordsStep, SMTT(30)
  <2>6. w \o form \in Seq(Tokens)
    BY <1>3, <1>7, ConcatProperties
  <2>7. (w \o form) \o Begun(new) = w \o form
    BY <2>2, <2>6, ConcatEmptySeq
  <2>8. Covers(new.conts[1], p, (w \o form) \o Begun(new))
    BY <1>4, <1>11, <2>1, <2>7
  <2>9. Yields(p, new, says)
    BY <2>5, <2>6, <2>8 DEF Yields
  <2> QED  BY <1>1, <2>9
<1>13. CASE item.tok_idx + 1 # Len(form)
  <2>1. new.tok_idx = item.tok_idx + 1 /\ new.seq_idx = item.seq_idx /\ new.tok_idx # 0
    BY <1>4, <1>5, <1>13
  <2>2. CurrSym(new) = CurrSym(item)
    BY <1>6, <2>1 DEF CurrSym
  <2>3. new.alt + 1 = i
    <3>1. i \in Nat
      BY <1>2, OpenFormsFacts
    <3> QED  BY <1>4, <3>1
  <2>4. Begun(new) = begun
    BY <1>1, <1>9, <2>1, <2>2, <2>3 DEF Begun
  <2>5. Yields(p, new, says)
    BY <1>4, <1>6, <1>7, <1>11, <2>1, <2>4 DEF Yields
  <2> QED  BY <1>1, <2>5
<1> QED  BY <1>12, <1>13

\* What combining an item does to it.
LEMMA CombinedFields ==
  ASSUME NEW cont, ItemOK(cont), ~AtEnd(cont), CurrSym(cont).t = "cat", NEW fid
  PROVE  LET new == Combined(cont, fid)
             d == CurrSym(cont).d
         IN /\ new.conts = cont.conts /\ new.prod = cont.prod
            /\ new.tok_idx = 0 /\ cont.tok_idx = 0 /\ new.seq_idx = cont.seq_idx + 1
            /\ DOMAIN cont.args = DOMAIN cont.prod.args /\ d \in DOMAIN cont.args
            /\ DOMAIN new.args = DOMAIN cont.args /\ new.args[d] = fid
            /\ \A c \in DOMAIN cont.args \ {d} : new.args[c] = cont.args[c]
<1>1. PICK new, d : new = Combined(cont, fid) /\ d = CurrSym(cont).d
  OBVIOUS
<1>2. d \in DOMAIN cont.prod.args
  BY <1>1, CurrSymFits DEF SymbolFits, ArgCats
<1>3. /\ DOMAIN cont = {"conts", "prod", "args", "seq_idx", "tok_idx", "alt"}
      /\ DOMAIN cont.args = DOMAIN cont.prod.args /\ cont.tok_idx \in Nat
  BY DEF ItemOK
<1>4. cont.tok_idx = 0
  BY <1>3 DEF ItemOK
<1>5. /\ new.conts = cont.conts /\ new.prod = cont.prod
      /\ new.tok_idx = cont.tok_idx /\ new.seq_idx = cont.seq_idx + 1
      /\ new.args = [cont.args EXCEPT ![d] = fid]
  BY <1>1, <1>3 DEF Combined
<1> QED  BY <1>1, <1>2, <1>3, <1>4, <1>5

\* An item that has gone over a category yields what the category covers.
LEMMA CombinedYields ==
  ASSUME NEW cont, ItemOK(cont), ~AtEnd(cont), CurrSym(cont).t = "cat", NEW fid, NEW args,
         DOMAIN args = DOMAIN cont.args,
         NEW q, NEW p, Yields(q, cont, SaysOf(args)), NEW v, Covers(q, p, v),
         <<CurrSym(cont).r, v>> \in args[CurrSym(cont).d].says,
         parses[cont.conts[1]].toks \in Seq(Tokens)
  PROVE  Yields(p, Combined(cont, fid), SaysOf(args))
<1>1. PICK new, sym, says : new = Combined(cont, fid) /\ sym = CurrSym(cont) /\ says = SaysOf(args)
  OBVIOUS
<1>2. /\ new.conts = cont.conts /\ new.prod = cont.prod /\ new.tok_idx = 0 /\ cont.tok_idx = 0
      /\ new.seq_idx = cont.seq_idx + 1 /\ sym.d \in DOMAIN args
  BY <1>1, CombinedFields
<1>3. Begun(new) = <<>> /\ Begun(cont) = <<>>
  BY <1>2 DEF Begun
<1>4. cont.seq_idx \in 0..(Len(Lin(cont)) - 1) /\ Len(Lin(cont)) \in Nat
  BY CurrSymFits, SMTT(30) DEF ItemOK
<1>5. Lin(new) = Lin(cont)
  BY <1>2 DEF Lin
<1>6. says[sym.d] = args[sym.d].says
  BY <1>1, <1>2 DEF SaysOf
<1>7. v \in SymbolWords(sym, says)
  BY <1>1, <1>6, ArgumentWords
<1>8. PICK w \in Words(Lin(cont), says)[cont.seq_idx] :
        w \in Seq(Tokens) /\ Covers(cont.conts[1], q, w \o Begun(cont))
  BY <1>1, SMTT(30) DEF Yields
<1>9. w \o <<>> = w /\ v \in Seq(Tokens)
  BY <1>8, ConcatEmptySeq, Zenon DEF Covers
<1>10. Covers(cont.conts[1], p, w \o v)
  BY <1>3, <1>8, <1>9, CoversOn
<1>11. w \o v \in Joined(Words(Lin(cont), says)[cont.seq_idx], SymbolWords(Lin(cont)[cont.seq_idx + 1], says))
  BY <1>1, <1>7, <1>8, JoinedIs DEF CurrSym
<1>12. w \o v \in Words(Lin(new), says)[new.seq_idx]
  BY <1>2, <1>4, <1>5, <1>11, WordsStep
<1>13. w \o v \in Seq(Tokens)
  BY <1>8, <1>9, ConcatProperties
<1>14. (w \o v) \o Begun(new) = w \o v
  BY <1>3, <1>13, ConcatEmptySeq
<1>15. Yields(p, new, says)
  BY <1>2, <1>10, <1>12, <1>13, <1>14 DEF Yields
<1> QED  BY <1>1, <1>15

\* An item as it is predicted stands for nothing yet.
LEMMA NewItemMeans ==
  ASSUME NEW S, NEW p, NEW cid, cid[1] = p, NEW prod, HasProds(cid[2]), prod \in Members(Prods(cid[2])),
         parses[p].toks \in Seq(Tokens),
         Len(LinOf(concr, prod, cid[3])) \in Nat
  PROVE  ItemMeans(S, p, pgf_new_item(cid, prod))
<1>1. PICK new : new = pgf_new_item(cid, prod)
  OBVIOUS
<1>2. /\ new.conts = cid /\ new.prod = prod /\ new.args = prod.args
      /\ new.seq_idx = 0 /\ new.tok_idx = 0
  BY <1>1 DEF pgf_new_item
<1>3. Begun(new) = <<>> /\ Lin(new) = LinOf(concr, prod, cid[3])
  BY <1>2 DEF Begun, Lin
<1>4. ASSUME NEW says
      PROVE  Yields(p, new, says)
  <2>1. Words(Lin(new), says)[0] = {<<>>}
    BY <1>3, WordsFacts
  <2>2. <<>> \in Words(Lin(new), says)[new.seq_idx]
    BY <1>2, <2>1
  <2>3. <<>> \o <<>> = <<>>
    BY NoTokens, ConcatEmptySeq
  <2>4. Covers(new.conts[1], p, <<>> \o Begun(new))
    BY <1>2, <1>3, <2>3, CoversSelf
  <2> QED  BY <2>2, <2>4, NoTokens DEF Yields
<1>5. ItemMeans(S, p, new)
  BY <1>2, <1>4 DEF ItemMeans
<1> QED  BY <1>1, <1>5

\* If an item is right before a token is scanned it is right after it.
LEMMA ScannedMeans ==
  ASSUME NEW S, NEW q, NEW p, NEW item, BeforeToken(item), ItemMeans(S, q, item),
         NEW tok \in Tokens, NEW i \in Matching(item, tok), Covers(q, p, <<tok>>),
         parses[item.conts[1]].toks \in Seq(Tokens)
  PROVE  ItemMeans(S, p, Scanned(item, i))
<1>1. PICK new : new = Scanned(item, i)
  OBVIOUS
<1>2. i \in OpenForms(item)
  BY DEF Matching
<1>3. new.conts = item.conts /\ new.prod = item.prod /\ new.args = item.args
  BY <1>1, <1>2, ScannedFields
<1>4. ASSUME NEW args, ArgsOf(S, new.args, args)
      PROVE  ArgsOf(S, new.prod.args, args) /\ Yields(p, new, SaysOf(args))
  <2>1. PICK says : says = SaysOf(args)
    OBVIOUS
  <2>2. ArgsOf(S, item.prod.args, args) /\ Yields(q, item, says)
    BY <1>3, <1>4, <2>1 DEF ItemMeans
  <2>3. Yields(p, new, says)
    BY <1>1, <2>2, ScannedYields
  <2> QED  BY <1>3, <2>1, <2>2, <2>3
<1>5. ItemMeans(S, p, new)
  BY <1>3, <1>4 DEF ItemMeans
<1> QED  BY <1>1, <1>5

\* If an item and a completed category are right, so is the item combined with it.
LEMMA CombinedMeans ==
  ASSUME NEW S, NEW q, NEW p, NEW cont, ItemOK(cont), ~AtEnd(cont), CurrSym(cont).t = "cat",
         ItemMeans(S, q, cont), NEW fid,
         \A t : <<fid, t>> \in S =>
           /\ <<cont.args[CurrSym(cont).d], t>> \in S
           /\ \E w : Covers(q, p, w) /\ <<CurrSym(cont).r, w>> \in t.says,
         parses[cont.conts[1]].toks \in Seq(Tokens)
  PROVE  ItemMeans(S, p, Combined(cont, fid))
<1>1. PICK new, d : new = Combined(cont, fid) /\ d = CurrSym(cont).d
  OBVIOUS
<1>2. /\ new.conts = cont.conts /\ new.prod = cont.prod
      /\ d \in DOMAIN cont.args /\ DOMAIN new.args = DOMAIN cont.args /\ new.args[d] = fid
      /\ \A c \in DOMAIN cont.args \ {d} : new.args[c] = cont.args[c]
  BY <1>1, CombinedFields
<1>3. ASSUME NEW args, ArgsOf(S, new.args, args)
      PROVE  ArgsOf(S, new.prod.args, args) /\ Yields(p, new, SaysOf(args))
  <2>1. <<fid, args[d]>> \in S /\ DOMAIN args = DOMAIN cont.args
    BY <1>2, <1>3 DEF ArgsOf
  <2>2. ArgsOf(S, cont.args, args)
    <3>1. <<cont.args[d], args[d]>> \in S
      BY <1>1, <2>1
    <3>2. \A c \in DOMAIN cont.args : <<cont.args[c], args[c]>> \in S
      BY <1>2, <1>3, <3>1 DEF ArgsOf
    <3> QED  BY <1>2, <1>3, <3>2 DEF ArgsOf
  <2>3. ArgsOf(S, cont.prod.args, args) /\ Yields(q, cont, SaysOf(args))
    BY <2>2 DEF ItemMeans
  <2>4. PICK v : Covers(q, p, v) /\ <<CurrSym(cont).r, v>> \in args[d].says
    BY <2>1
  <2>5. Yields(p, new, SaysOf(args))
    BY <1>1, <2>1, <2>3, <2>4, CombinedYields
  <2> QED  BY <1>2, <2>3, <2>5
<1>4. ItemMeans(S, p, new)
  BY <1>2, <1>3 DEF ItemMeans
<1> QED  BY <1>1, <1>4

\* What ChartDerived says of the parses.
LEMMA DerivedFacts ==
  ASSUME NEW h, ChartInv, ChartDerived(h), NEW p \in 1..Len(parses)
  PROVE  /\ parses[p].toks \in Seq(Tokens) /\ ParseDerived(h, p)
         /\ h[p].from > 0 => /\ h[p].from \in 1..(p - 1) /\ h[p].from \in 1..Len(parses)
                             /\ h[p].tok \in Tokens /\ Covers(h[p].from, p, <<h[p].tok>>)
<1>1. parses[p].toks \in Seq(Tokens) /\ ParseDerived(h, p)
  BY DEF ChartDerived, Lineage
<1>2. ASSUME h[p].from > 0
      PROVE  /\ h[p].from \in 1..(p - 1) /\ h[p].from \in 1..Len(parses)
             /\ h[p].tok \in Tokens /\ Covers(h[p].from, p, <<h[p].tok>>)
  <2>1. PICK q : q = h[p].from
    OBVIOUS
  <2>2. Len(parses) \in Nat
    BY IsSeqFacts DEF ChartInv, ParsesOK
  <2>3. q \in 0..(p - 1)
    BY <2>1 DEF ChartDerived, Lineage
  <2>4. q \in 1..(p - 1) /\ q \in 1..Len(parses)
    BY <1>2, <2>1, <2>2, <2>3
  <2>5. /\ h[p].tok \in Tokens /\ parses[p].start = parses[q].start
        /\ parses[p].toks = Append(parses[q].toks, h[p].tok)
    BY <1>2, <2>1 DEF ChartDerived, Lineage
  <2>6. parses[q].toks \in Seq(Tokens)
    BY <2>4 DEF ChartDerived, Lineage
  <2>7. Covers(q, p, <<h[p].tok>>)
    BY <2>5, <2>6, CoversToken
  <2> QED  BY <2>1, <2>4, <2>5, <2>7
<1> QED  BY <1>1, <1>2

\* The item was derived from one for which it is so.
LEMMA DerivedMeans ==
  ASSUME NEW h, NEW S, ChartInv, ChartDerived(h), CatMeans(h, S),
         NEW p \in 1..Len(parses), NEW item \in SeenAt(h, p),
         \A q \in 1..p : \A old \in SeenAt(h, q) :
           q + old.seq_idx < p + item.seq_idx => ItemMeans(S, q, old)
  PROVE  ItemMeans(S, p, item)
<1>1. Derived(h, p, item) /\ ItemOK(item)
  BY DerivedFacts DEF ParseDerived, SeenDerived
<1>2. Len(parses) \in Nat /\ DOMAIN parses = 1..Len(parses)
  BY IsSeqFacts DEF ChartInv, ParsesOK
<1>3. \A q \in 1..Len(parses) : parses[q].toks \in Seq(Tokens)
  BY DerivedFacts
<1>4. \A q \in 1..Len(parses) : \A old \in SeenAt(h, q) :
        /\ old.conts[1] \in 1..Len(parses) /\ ItemOK(old)
        /\ old.seq_idx \in Nat /\ parses[old.conts[1]].toks \in Seq(Tokens)
  <2>1. ASSUME NEW q \in 1..Len(parses), NEW old \in SeenAt(h, q)
        PROVE  ItemOK(old) /\ old.conts[1] \in DOMAIN parses /\ old.seq_idx \in Nat
    <3>1. ItemOK(old)
      BY DerivedFacts DEF ParseDerived, SeenDerived
    <3> QED  BY <3>1 DEF ItemOK, ChartInv, ContsOK
  <2> QED  BY <1>2, <1>3, <2>1
<1>5. CASE FromProd(p, item)
  <2>1. PICK cid \in DOMAIN conts : /\ cid[1] = p /\ HasProds(cid[2])
                                    /\ \E prod \in Members(Prods(cid[2])) : item = pgf_new_item(cid, prod)
    BY <1>5 DEF FromProd
  <2>2. PICK prod \in Members(Prods(cid[2])) : item = pgf_new_item(cid, prod)
    BY <2>1
  <2>3. Len(LinOf(concr, prod, cid[3])) \in Nat
    <3>1. Len(Lin(item)) \in Nat
      <4>1. item.prod = prod /\ item.conts = cid
        BY <2>2 DEF pgf_new_item
      <4>2. ProdOK(prod, CncCat(cid[2])) /\ cid[3] \in 1..NCtnts(cid[2])
        BY <1>1, <4>1 DEF ItemOK
      <4>3. IsSeq(Lin(item))
        BY <4>1, <4>2 DEF ProdOK, ProdFits, Lin, NCtnts
      <4> QED  BY <4>3, IsSeqFacts
    <3> QED  BY <2>2, <3>1 DEF Lin, pgf_new_item
  <2> QED  BY <1>3, <2>1, <2>2, <2>3, NewItemMeans
<1>6. CASE FromToken(h, p, item)
  <2>1. PICK q, tok : q = h[p].from /\ tok = h[p].tok
    OBVIOUS
  <2>2. q \in 1..(p - 1) /\ q \in 1..Len(parses) /\ tok \in Tokens /\ Covers(q, p, <<tok>>)
    BY <1>6, <2>1, DerivedFacts DEF FromToken
  <2>3. PICK old \in parses[q].transitions[tok] : \E i \in Matching(old, tok) : item = Scanned(old, i)
    BY <1>6, <2>1 DEF FromToken
  <2>4. PICK i \in Matching(old, tok) : item = Scanned(old, i)
    BY <2>3
  <2>5. old \in SeenAt(h, q)
    BY <2>2, DerivedFacts DEF ParseDerived, FiledSeen
  <2>6. BeforeToken(old)
    BY <1>2, <2>2 DEF ChartInv, ParsesOK
  <2>7. q + old.seq_idx < p + item.seq_idx
    <3>1. i \in OpenForms(old)
      BY DEF Matching
    <3>2. PICK b : b = (old.tok_idx + 1 = Len(Forms(CurrSym(old))[i]))
      OBVIOUS
    <3>3. item.seq_idx = (IF old.tok_idx + 1 = Len(Forms(CurrSym(old))[i]) THEN old.seq_idx + 1 ELSE old.seq_idx)
      BY <2>4, <2>6, <3>1, ScannedFields
    <3>4. old.seq_idx \in Nat
      BY <1>4, <2>2, <2>5
    <3>5. item.seq_idx = old.seq_idx \/ item.seq_idx = old.seq_idx + 1
      BY <3>3
    <3> QED  BY ONLY <2>2, <3>4, <3>5, p \in 1..Len(parses), <1>2
  <2>8. ItemMeans(S, q, old)
    BY <2>2, <2>5, <2>7
  <2> QED  BY <1>4, <2>2, <2>4, <2>5, <2>6, <2>8, ScannedMeans
<1>7. CASE FromCat(h, p, item)
  <2>1. PICK cid \in DOMAIN GenAt(h, p) : \E cont \in conts[cid] :
          cont # NULL /\ item = Combined(cont, GenAt(h, p)[cid])
    BY <1>7 DEF FromCat
  <2>2. PICK cont \in conts[cid] : cont # NULL /\ item = Combined(cont, GenAt(h, p)[cid])
    BY <2>1
  <2>3. PICK fid : fid = GenAt(h, p)[cid]
    OBVIOUS
  <2>4. cid \in DOMAIN conts /\ cid[1] <= p
    BY <2>1, DerivedFacts DEF ParseDerived, CatsEnded
  <2>5. cid[1] \in 1..Len(parses) /\ cid[1] \in 1..p
    BY <1>2, <2>4 DEF ChartInv, ContsOK
  <2>6. cont \in SeenAt(h, cid[1])
    BY <2>2, <2>4 DEF ChartDerived, ContsSeen
  <2>7. /\ ItemOK(cont) /\ ~AtEnd(cont) /\ CurrSym(cont).t = "cat"
        /\ cont.args[CurrSym(cont).d] = cid[2] /\ CurrSym(cont).r = cid[3]
    BY <2>2, <2>4 DEF ChartInv, ContsOK, WaitsFor
  <2>8. item.seq_idx = cont.seq_idx + 1
    BY <2>2, <2>7, CombinedFields
  <2>9. cid[1] + cont.seq_idx < p + item.seq_idx
    <3>1. cont.seq_idx \in Nat
      BY <1>4, <2>5, <2>6
    <3> QED  BY ONLY <2>5, <2>8, <3>1, p \in 1..Len(parses), <1>2
  <2>10. ItemMeans(S, cid[1], cont)
    BY <2>5, <2>6, <2>9
  <2>11. \A t : <<fid, t>> \in S =>
           /\ <<cont.args[CurrSym(cont).d], t>> \in S
           /\ \E w : Covers(cid[1], p, w) /\ <<CurrSym(cont).r, w>> \in t.says
    BY <2>1, <2>3, <2>7 DEF CatMeans
  <2>12. parses[cont.conts[1]].toks \in Seq(Tokens)
    BY <1>4, <2>5, <2>6
  <2>13. ItemMeans(S, p, Combined(cont, fid))
    BY <2>7, <2>10, <2>11, <2>12, CombinedMeans
  <2> QED  BY <2>2, <2>3, <2>13
<1> QED  BY <1>1, <1>5, <1>6, <1>7 DEF Derived

\* Every item that was met is right, if the trees of lesser depth are.
LEMMA ItemsMean ==
  ASSUME NEW h, NEW S, ChartInv, ChartDerived(h), CatMeans(h, S),
         NEW p \in 1..Len(parses), NEW item \in SeenAt(h, p)
  PROVE  ItemMeans(S, p, item)
<1>1. Len(parses) \in Nat
  BY IsSeqFacts DEF ChartInv, ParsesOK
<1>2. \A q \in 1..Len(parses) : \A old \in SeenAt(h, q) : old.seq_idx \in Nat
  <2>1. ASSUME NEW q \in 1..Len(parses), NEW old \in SeenAt(h, q)
        PROVE  old.seq_idx \in Nat
    <3>1. ItemOK(old)
      BY DerivedFacts DEF ParseDerived, SeenDerived
    <3> QED  BY <3>1 DEF ItemOK
  <2> QED  BY <2>1
<1> DEFINE T == {n \in Nat : \A q \in 1..Len(parses) : \A old \in SeenAt(h, q) :
                   q + old.seq_idx <= n => ItemMeans(S, q, old)}
<1>3. 0 \in T
  BY <1>2
<1>4. ASSUME NEW n \in Nat, n \in T
      PROVE  n + 1 \in T
  <2>1. ASSUME NEW q \in 1..Len(parses), NEW old \in SeenAt(h, q), q + old.seq_idx <= n + 1
        PROVE  ItemMeans(S, q, old)
    <3>1. ASSUME NEW r \in 1..q, NEW older \in SeenAt(h, r), r + older.seq_idx < q + old.seq_idx
          PROVE  ItemMeans(S, r, older)
      <4>1. r \in 1..Len(parses)
        BY <1>1
      <4>2. r \in Nat /\ q \in Nat /\ older.seq_idx \in Nat /\ old.seq_idx \in Nat
        BY <1>2, <4>1
      <4>3. PICK a, b : a = r + older.seq_idx /\ b = q + old.seq_idx
        OBVIOUS
      <4>4. a \in Nat /\ b \in Nat
        BY <4>2, <4>3, SMTT(30)
      <4>5. a <= n
        BY ONLY <2>1, <3>1, <4>3, <4>4, n \in Nat
      <4> QED  BY <1>4, <4>1, <4>3, <4>5
    <3> QED  BY <3>1, DerivedMeans
  <2> QED  BY <2>1
<1>5. PICK N : N = p + item.seq_idx
  OBVIOUS
<1>6. N \in Nat /\ \A j \in 0..(N - 1) : j \in Nat
  BY <1>1, <1>2, <1>5
<1>7. N \in T
  <2> HIDE DEF T
  <2>1. \A j \in 0..(N - 1) : j \in T => j + 1 \in T
    BY <1>4, <1>6
  <2>2. \A j \in 0..N : j \in T
    BY <1>3, <1>6, <2>1, InductionUpTo
  <2> QED  BY <1>6, <2>2
<1> QED  BY <1>5, <1>6, <1>7

\* What a production of a completed category builds is a tree of the category predicted.
LEMMA EndedMeans ==
  ASSUME NEW h, ChartInv, ChartDerived(h), NEW k \in 0..(MaxDepth(concr) - 1), CatMeans(h, ChartTrees[k]),
         NEW p \in 1..Len(parses), NEW cid \in DOMAIN GenAt(h, p), NEW c, c = GenAt(h, p)[cid],
         NEW prod, ChartRule(c, prod), NEW args, ArgsOf(ChartTrees[k], prod.args, args),
         NEW t, t = Node(RuleOf(c, prod), args)
  PROVE  /\ <<cid[2], t>> \in ChartTrees[k + 1]
         /\ \E w : Covers(cid[1], p, w) /\ <<cid[3], w>> \in t.says
<1>1. /\ cid \in DOMAIN conts /\ c \in DOMAIN ccats /\ CncCat(c) = CncCat(cid[2])
      /\ \A pr \in Members(ccats[c].prods) : Ended(h, p, cid, pr)
  BY DerivedFacts DEF ParseDerived, CatsEnded
<1>2. Prods(c) = ccats[c].prods
  BY <1>1, GrammarFacts DEF ChartInv, Prods
<1>3. PICK item \in SeenAt(h, p) : AtEnd(item) /\ item.conts = cid /\ prod = DoneProd(item)
  BY <1>1, <1>2 DEF ChartRule, Ended
<1>4. ItemOK(item) /\ ItemMeans(ChartTrees[k], p, item)
  BY DerivedFacts, ItemsMean DEF ParseDerived, SeenDerived
<1>5. PICK base : base = item.prod
  OBVIOUS
<1>6. prod.fun = base.fun /\ prod.args = item.args
  BY <1>3, <1>5 DEF DoneProd
<1>7. PICK says : says = SaysOf(args)
  OBVIOUS
<1>8. ArgsOf(ChartTrees[k], base.args, args) /\ Yields(p, item, says)
  BY <1>4, <1>5, <1>6, <1>7 DEF ItemMeans
<1>9. ChartRule(cid[2], base) /\ cid[2] \in Fids /\ cid[3] \in 1..NCtnts(cid[2])
  BY <1>3, <1>4, <1>5 DEF ItemMeans, ItemOK, ChartRule
<1>10. NCtnts(c) = NCtnts(cid[2])
  BY <1>1 DEF NCtnts
<1>11. t = Node(RuleOf(cid[2], base), args)
  <2>1. \A r : LinOf(concr, prod, r) = LinOf(concr, base, r)
    BY <1>6 DEF LinOf
  <2>2. PICK one, other : one = RuleOf(c, prod) /\ other = RuleOf(cid[2], base)
    OBVIOUS
  <2>3. one.prod = prod /\ other.prod = base /\ one.ctnts = other.ctnts
    BY <1>10, <2>2 DEF RuleOf
  <2>4. Says(one, args) = Says(other, args)
    BY <2>1, <2>3 DEF Says
  <2> QED  BY <1>6, <2>2, <2>3, <2>4 DEF Node
<1>12. <<cid[2], t>> \in ChartTrees[k + 1]
  BY <1>8, <1>9, <1>11, ChartTreesStep DEF ChartInv
<1>13. PICK lin : lin = Lin(item)
  OBVIOUS
<1>14. lin = LinOf(concr, base, cid[3]) /\ item.seq_idx = Len(lin) /\ Begun(item) = <<>>
  BY <1>3, <1>4, <1>5, <1>13 DEF Lin, AtEnd, ItemOK, Begun
<1>15. PICK w \in Words(lin, says)[Len(lin)] : w \in Seq(Tokens) /\ Covers(cid[1], p, w \o <<>>)
  BY <1>3, <1>8, <1>13, <1>14 DEF Yields
<1>16. Covers(cid[1], p, w)
  <2>1. w \o <<>> = w
    BY <1>15, ConcatEmptySeq
  <2> QED  BY <1>15, <2>1
<1>17. <<cid[3], w>> \in t.says
  <2>1. CASE base.fun # Coerce
    <3>1. PICK rule : rule = RuleOf(cid[2], base)
      OBVIOUS
    <3>2. rule.prod = base /\ cid[3] \in rule.ctnts
      BY <1>9, <3>1 DEF RuleOf
    <3>3. <<cid[3], w>> \in Node(rule, args).says
      BY <1>7, <1>14, <1>15, <2>1, <3>2, NodeSays
    <3> QED  BY <1>11, <3>1, <3>3
  <2>2. CASE base.fun = Coerce
    <3>1. PICK sym : sym = [t |-> "cat", d |-> 1, r |-> cid[3]]
      OBVIOUS
    <3>2. lin = <<sym>> /\ Len(lin) = 1 /\ lin[1] = sym
      BY <1>14, <2>2, <3>1 DEF LinOf
    <3>3. Words(lin, says)[1] = Joined(Words(lin, says)[0], SymbolWords(sym, says))
      <4>1. 0 \in 0..(Len(lin) - 1) /\ Len(lin) \in Nat /\ 0 + 1 = 1
        BY <3>2
      <4>2. Words(lin, says)[0 + 1] = Joined(Words(lin, says)[0], SymbolWords(lin[0 + 1], says))
        BY ONLY <4>1, WordsStep
      <4> QED  BY <3>2, <4>1, <4>2
    <3>4. PICK x \in {<<>>}, y \in SymbolWords(sym, says) : w = x \o y
      <4>1. Words(lin, says)[0] = {<<>>}
        BY <3>2, WordsFacts
      <4>2. PICK X : X = Words(lin, says)[0]
        OBVIOUS
      <4>3. w \in Joined(X, SymbolWords(sym, says))
        BY <1>15, <3>2, <3>3, <4>2
      <4>4. \E x \in X : \E y \in SymbolWords(sym, says) : w = x \o y
        BY <4>3, JoinedIs
      <4> QED  BY <4>1, <4>2, <4>4
    <3>5. <<cid[3], y>> \in says[1]
      BY <3>1, ArgumentWords
    <3>6. SymbolFits(concr, sym, ArgCats(base.args))
      <4>1. ProdOK(base, CncCat(cid[2]))
        BY <1>3, <1>4, <1>5 DEF ItemOK
      <4>2. \A i \in DOMAIN lin : SymbolFits(concr, lin[i], ArgCats(base.args))
        BY <1>9, <1>14, <4>1 DEF ProdOK, ProdFits, NCtnts
      <4> QED  BY <3>2, <4>2
    <3>7. 1 \in DOMAIN base.args
      BY <3>1, <3>6 DEF SymbolFits, ArgCats
    <3>8. says[1] = args[1].says
      BY <1>7, <1>8, <3>7 DEF ArgsOf, SaysOf
    <3>9. t = args[1]
      BY <1>11, <2>2 DEF Node, RuleOf
    <3>10. <<cid[3], y>> \in t.says
      BY <3>5, <3>8, <3>9
    <3>11. y \in Seq(Tokens)
      <4>1. k \in 0..MaxDepth(concr) /\ SaysTokens(ChartTrees[k])
        BY DepthOK, TreesSayTokens DEF ChartInv
      <4>2. RuleOf(cid[2], base).prod = base /\ NCtnts(cid[2]) # 0
        BY <1>9 DEF RuleOf
      <4>3. <<cid[3], y>> \in Node(RuleOf(cid[2], base), args).says
        BY <1>11, <3>10
      <4> QED  BY <1>8, <1>9, <4>1, <4>2, <4>3, NodeSaysTokens DEF ChartInv
    <3>12. w = y
      BY <3>4, <3>11, ConcatEmptySeq
    <3> QED  BY <3>10, <3>12
  <2> QED  BY <2>1, <2>2
<1> QED  BY <1>12, <1>16, <1>17

\* Every completed category is right, if the items are.
LEMMA CatsMean ==
  ASSUME NEW h, ChartInv, ChartDerived(h)
  PROVE  \A n \in 0..MaxDepth(concr) : CatMeans(h, ChartTrees[n])
<1> DEFINE T == {n \in 0..MaxDepth(concr) : CatMeans(h, ChartTrees[n])}
<1>1. MaxDepth(concr) \in Nat
  BY DepthOK DEF ChartInv
<1>2. 0 \in T
  <2>1. ChartTrees[0] = {}
    BY <1>1, TreesFacts DEF ChartTrees
  <2> QED  BY <1>1, <2>1 DEF CatMeans
<1>3. ASSUME NEW k \in 0..(MaxDepth(concr) - 1), k \in T
      PROVE  k + 1 \in T
  <2>1. CatMeans(h, ChartTrees[k])
    BY <1>3
  <2>2. CatMeans(h, ChartTrees[k + 1])
    <3> SUFFICES ASSUME NEW p \in 1..Len(parses), NEW cid \in DOMAIN GenAt(h, p), NEW t,
                        <<GenAt(h, p)[cid], t>> \in ChartTrees[k + 1]
                 PROVE  /\ <<cid[2], t>> \in ChartTrees[k + 1]
                        /\ \E w : Covers(cid[1], p, w) /\ <<cid[3], w>> \in t.says
      BY DEF CatMeans
    <3>1. PICK c : c = GenAt(h, p)[cid]
      OBVIOUS
    <3>2. PICK prod, args : /\ ChartRule(c, prod) /\ ArgsOf(ChartTrees[k], prod.args, args)
                            /\ t = Node(RuleOf(c, prod), args)
      BY <3>1, ChartTreesStep DEF ChartInv
    <3> QED  BY <2>1, <3>1, <3>2, EndedMeans
  <2>3. k + 1 \in 0..MaxDepth(concr)
    BY <1>1
  <2> QED  BY <2>2, <2>3
<1> HIDE DEF T
<1>4. \A n \in 0..MaxDepth(concr) : n \in T
  BY <1>1, <1>2, <1>3, InductionUpTo
<1> QED  BY <1>4 DEF T

\* The categories completed in a parse stand for trees of the grammar that say its tokens,
\* at any time.
FoundAreTrees ==
  \A p \in DOMAIN parses :
    TreesOf(Members(parses[p].completed), ChartRules)
      \subseteq {t \in TreesOf(StartCats(parses[p].start[1]), GrammarRules) :
                   <<parses[p].start[2], parses[p].toks>> \in t.says}

\* So a chart that is derived stands for trees of the sentence only.
LEMMA DerivedAreTrees ==
  ASSUME NEW h, ChartInv, ChartDerived(h)
  PROVE  FoundAreTrees
<1> SUFFICES ASSUME NEW p \in DOMAIN parses,
                    NEW t \in TreesOf(Members(parses[p].completed), ChartRules)
             PROVE  /\ t \in TreesOf(StartCats(parses[p].start[1]), GrammarRules)
                    /\ <<parses[p].start[2], parses[p].toks>> \in t.says
  BY DEF FoundAreTrees
<1>1. PICK n : n = MaxDepth(concr)
  OBVIOUS
<1>2. n \in Nat /\ n \in 0..n
  BY <1>1, DepthOK DEF ChartInv
<1>3. p \in 1..Len(parses)
  BY IsSeqFacts DEF ChartInv, ParsesOK
<1>4. PICK x \in ChartTrees[n] : x[1] \in Members(parses[p].completed) /\ t = x[2]
  BY <1>1 DEF TreesOf, ChartTrees
<1>5. \E c : <<c, t>> \in ChartTrees[n] /\ c \in Members(parses[p].completed)
  <2>1. \A k \in 0..(n - 1) : Trees(ChartRules, n)[k + 1] = AppliedAll(ChartRules, Trees(ChartRules, n)[k])
    <3>1. \A k \in 0..(n - 1) : k + 1 \in 1..n /\ (k + 1) - 1 = k
      BY <1>2
    <3> QED  BY <1>2, <3>1, TreesFacts
  <2>2. n # 0
    BY <1>1, <1>2, <1>4, TreesFacts DEF ChartTrees
  <2>3. n - 1 \in 0..(n - 1) /\ (n - 1) + 1 = n
    BY <1>2, <2>2
  <2>4. x \in AppliedAll(ChartRules, Trees(ChartRules, n)[n - 1])
    BY <1>1, <1>4, <2>1, <2>3 DEF ChartTrees
  <2>5. x = <<x[1], x[2]>>
    BY <2>4 DEF AppliedAll, Applied
  <2> QED  BY <1>4, <2>5
<1>6. PICK c : <<c, t>> \in ChartTrees[n] /\ c \in Members(parses[p].completed)
  BY <1>5
<1>7. PICK cid \in DOMAIN GenAt(h, p) : c = GenAt(h, p)[cid] /\ NULL \in conts[cid]
  BY <1>3, <1>6, DerivedFacts DEF ParseDerived, SentencesEnded
<1>8. /\ <<cid[2], t>> \in ChartTrees[n]
      /\ \E w : Covers(cid[1], p, w) /\ <<cid[3], w>> \in t.says
  BY <1>1, <1>2, <1>3, <1>6, <1>7, CatsMean DEF CatMeans
<1>9. PICK w : Covers(cid[1], p, w) /\ <<cid[3], w>> \in t.says
  BY <1>8
<1>10. cid \in DOMAIN conts /\ cid[1] \in 1..Len(parses)
  BY <1>3, <1>7, DerivedFacts, IsSeqFacts DEF ParseDerived, CatsEnded, ChartInv, ContsOK, ParsesOK
<1>11. Begins(h, cid[1], cid)
  BY <1>7, <1>10 DEF ChartDerived, ContsSeen
<1>12. /\ h[cid[1]].from = 0 /\ cid[3] = parses[p].start[2]
       /\ cid[2] \in StartCats(parses[p].start[1])
  <2>1. PICK q : q = cid[1]
    OBVIOUS
  <2>2. cid = <<q, cid[2], parses[q].start[2]>>
    BY <1>11, <2>1 DEF Begins
  <2>3. cid[3] = parses[q].start[2]
    BY <2>2
  <2> QED  BY <1>9, <1>11, <2>1, <2>3 DEF Begins, Covers
<1>13. parses[cid[1]].toks = <<>>
  BY <1>10, <1>12, SMTT(30) DEF ChartDerived, Lineage
<1>14. parses[p].toks = w
  <2>1. w \in Seq(Tokens) /\ parses[p].toks = <<>> \o w
    BY <1>9, <1>13 DEF Covers
  <2> QED  BY <2>1, ConcatEmptySeq
<1>15. cid[2] \in DOMAIN concr.cat
  <2>1. PICK cat : cat = parses[p].start[1]
    BY SMTT(30)
  <2>2. cat \in DOMAIN concr.cnccats
        /\ \E i \in DOMAIN concr.cnccats[cat].cats : cid[2] = concr.cnccats[cat].cats[i]
    BY <1>12, <2>1 DEF StartCats
  <2> QED  BY <2>2, GrammarFacts DEF ChartInv, WellFormed
<1>16. <<cid[2], t>> \in GrammarTrees[n]
  BY <1>1, <1>2, <1>8, <1>15, SameTrees DEF ChartInv
<1>17. <<cid[2], t>>[1] = cid[2] /\ <<cid[2], t>>[2] = t
  OBVIOUS
<1>18. t \in TreesOf(StartCats(parses[p].start[1]), GrammarRules)
  BY <1>1, <1>12, <1>16, <1>17 DEF TreesOf, GrammarTrees
<1> QED  BY <1>9, <1>12, <1>14, <1>18

-----------------------------------------------------------------------------
(* A step keeps what was derived *)

\* What a step of the parser leaves of the parses, and only ever adds to.
Builds ==
  /\ Grows /\ OldKept /\ parsing'.parse = parsing.parse /\ Len(parses') = Len(parses)
  /\ parsing.seen \subseteq parsing'.seen
  /\ \A cid \in DOMAIN parsing.generated :
       cid \in DOMAIN parsing'.generated /\ parsing'.generated[cid] = parsing.generated[cid]
  /\ \A p \in 1..Len(parses) :
       /\ parses'[p].start = parses[p].start /\ parses'[p].toks = parses[p].toks
       /\ parses'[p].fid = parses[p].fid
       /\ Members(parses[p].completed) \subseteq Members(parses'[p].completed)
       /\ \A tok \in Tokens : parses[p].transitions[tok] \subseteq parses'[p].transitions[tok]
  /\ \A fid \in DOMAIN ccats : Members(ccats[fid].prods) \subseteq Members(ccats'[fid].prods)
  /\ \A cid \in DOMAIN conts' : cid \in DOMAIN conts \/ cid[1] = parsing.parse

\* What has been met in a parse stays.
LEMMA SeenKept ==
  ASSUME NEW h, Builds, NEW p \in 1..Len(parses)
  PROVE  SeenAt(h, p) \subseteq SeenAt(h, p)'
  BY DEF SeenAt, Builds

\* What has been completed in a parse stays.
LEMMA GenKept ==
  ASSUME NEW h, Builds, NEW p \in 1..Len(parses), NEW cid \in DOMAIN GenAt(h, p)
  PROVE  cid \in DOMAIN GenAt(h, p)' /\ GenAt(h, p)'[cid] = GenAt(h, p)[cid]
  BY DEF GenAt, Builds

\* Categories only gain productions.
LEMMA ProdsGrow ==
  ASSUME CatsOK, Builds, NEW c \in Fids
  PROVE  Members(Prods(c)) \subseteq Members(Prods(c)') /\ HasProds(c)' = HasProds(c)
<1>1. CASE c \in DOMAIN ccats
  BY <1>1, GrammarFacts DEF Prods, HasProds, Builds, Synthetic
<1>2. CASE c \in DOMAIN concr.cat
  BY <1>2, GrammarFacts DEF Prods, HasProds, Builds, Grows, Synthetic
<1> QED  BY <1>1, <1>2 DEF Fids

\* What a parse was begun with stays so.
LEMMA BeginsKept ==
  ASSUME NEW h, Builds, NEW p \in 1..Len(parses), NEW cid, Begins(h, p, cid)
  PROVE  Begins(h, p, cid)'
<1>1. parses'[p].start = parses[p].start /\ concr' = concr
  BY DEF Builds, Grows
<1>2. StartCats(parses[p].start[1])' = StartCats(parses[p].start[1])
  BY <1>1 DEF StartCats
<1> QED  BY <1>1, <1>2 DEF Begins

\* An item that comes from a production still does after the step.
LEMMA FromProdKept ==
  ASSUME ChartInv, Builds, NEW p, NEW item, FromProd(p, item)
  PROVE  FromProd(p, item)'
<1>1. PICK cid \in DOMAIN conts : /\ cid[1] = p /\ HasProds(cid[2])
                                  /\ \E prod \in Members(Prods(cid[2])) : item = pgf_new_item(cid, prod)
  BY DEF FromProd
<1>2. PICK prod \in Members(Prods(cid[2])) : item = pgf_new_item(cid, prod)
  BY <1>1
<1>3. PICK c : c = cid[2]
  OBVIOUS
<1>4. prod \in Members(Prods(c)') /\ HasProds(c)'
  BY <1>1, <1>3, ProdsGrow DEF ChartInv, ContsOK
<1>5. cid \in DOMAIN conts'
  BY DEF Builds, Grows
<1> QED  BY <1>1, <1>2, <1>3, <1>4, <1>5 DEF FromProd

\* An item that comes from a token still does after the step.
LEMMA FromTokenKept ==
  ASSUME NEW h, Builds, NEW p, NEW item, FromToken(h, p, item),
         h[p].from > 0 => h[p].from \in 1..Len(parses) /\ h[p].tok \in Tokens
  PROVE  FromToken(h, p, item)'
<1>1. PICK q, tok : q = h[p].from /\ tok = h[p].tok
  OBVIOUS
<1>2. PICK old \in parses[q].transitions[tok] : \E i \in Matching(old, tok) : item = Scanned(old, i)
  BY <1>1 DEF FromToken
<1>3. PICK i \in Matching(old, tok) : item = Scanned(old, i)
  BY <1>2
<1>4. q > 0 /\ q \in 1..Len(parses) /\ tok \in Tokens
  BY <1>1 DEF FromToken
<1>5. old \in parses'[q].transitions[tok]
  BY <1>4 DEF Builds
<1>6. Matching(old, tok)' = Matching(old, tok) /\ CurrSym(old)' = CurrSym(old)
  BY LinKept DEF Builds
<1>7. Scanned(old, i)' = Scanned(old, i)
  BY <1>6 DEF Scanned
<1>8. i \in Matching(old, tok)' /\ item = Scanned(old, i)'
  BY <1>3, <1>6, <1>7
<1> QED  BY <1>1, <1>4, <1>5, <1>8 DEF FromToken

\* An item that comes from a completed category still does after the step.
LEMMA FromCatKept ==
  ASSUME NEW h, Builds, NEW p \in 1..Len(parses), CatsEnded(h, p), NEW item, FromCat(h, p, item)
  PROVE  FromCat(h, p, item)'
<1>1. PICK cid \in DOMAIN GenAt(h, p) : \E cont \in conts[cid] :
        cont # NULL /\ item = Combined(cont, GenAt(h, p)[cid])
  BY DEF FromCat
<1>2. PICK cont \in conts[cid] : cont # NULL /\ item = Combined(cont, GenAt(h, p)[cid])
  BY <1>1
<1>3. PICK fid : fid = GenAt(h, p)[cid]
  OBVIOUS
<1>4. cid \in DOMAIN GenAt(h, p)' /\ GenAt(h, p)'[cid] = fid
  BY <1>3, GenKept
<1>5. cont \in conts'[cid]
  BY DEF CatsEnded, Builds, Grows
<1>6. CurrSym(cont)' = CurrSym(cont)
  BY LinKept DEF Builds
<1>7. Combined(cont, fid)' = Combined(cont, fid)
  BY <1>6 DEF Combined
<1>8. item = Combined(cont, GenAt(h, p)[cid])'
  BY <1>2, <1>3, <1>4, <1>7
<1> QED  BY <1>2, <1>4, <1>5, <1>8 DEF FromCat

\* An item that is derived stays so.
LEMMA DerivedStays ==
  ASSUME NEW h, ChartInv, ChartDerived(h), Builds, NEW p \in 1..Len(parses), NEW item, Derived(h, p, item)
  PROVE  Derived(h, p, item)'
<1>1. h[p].from > 0 => h[p].from \in 1..Len(parses) /\ h[p].tok \in Tokens
  BY DerivedFacts
<1>2. CatsEnded(h, p)
  BY DerivedFacts DEF ParseDerived
<1> QED  BY <1>1, <1>2, FromProdKept, FromTokenKept, FromCatKept DEF Derived

\* An item that has come to its end stays among those met.
LEMMA EndedKept ==
  ASSUME NEW h, Builds, NEW p \in 1..Len(parses), NEW cid, NEW prod, Ended(h, p, cid, prod)
  PROVE  Ended(h, p, cid, prod)'
<1>1. PICK item \in SeenAt(h, p) : AtEnd(item) /\ item.conts = cid /\ prod = DoneProd(item)
  BY DEF Ended
<1>2. item \in SeenAt(h, p)'
  BY SeenKept
<1>3. AtEnd(item)'
  BY <1>1, LinKept DEF Builds
<1> QED  BY <1>1, <1>2, <1>3 DEF Ended, DoneProd

\* The items of a parse are derived after the step, if the new ones are.
LEMMA SeenDerivedKept ==
  ASSUME NEW h, ChartInv, ChartInv', ChartDerived(h), Builds, NEW p \in 1..Len(parses),
         p = parsing.parse =>
           \A item \in parsing'.seen : item \in parsing.seen \/ Derived(h, p, item)'
  PROVE  SeenDerived(h, p)'
<1>1. SeenDerived(h, p)
  BY DerivedFacts DEF ParseDerived
<1>2. Len(parses) \in Nat /\ DOMAIN parses' = 1..Len(parses) /\ parsing.parse = Len(parses)
  BY IsSeqFacts DEF ChartInv, ParsesOK, Builds, ChartDerived, Lineage
<1> SUFFICES ASSUME NEW item \in SeenAt(h, p)'
             PROVE  ItemOK(item)' /\ item.conts[1] <= p /\ Derived(h, p, item)'
  BY DEF SeenDerived
<1>3. CASE item \in SeenAt(h, p)
  <2>1. ItemOK(item)'
    BY <1>1, <1>3, ItemKept DEF SeenDerived, Builds, ChartInv
  <2>2. item.conts[1] <= p /\ Derived(h, p, item)
    BY <1>1, <1>3 DEF SeenDerived
  <2> QED  BY <2>1, <2>2, DerivedStays
<1>4. CASE item \notin SeenAt(h, p)
  <2>1. p = parsing.parse /\ item \in parsing'.seen /\ item \notin parsing.seen
    BY <1>4 DEF SeenAt, Builds
  <2>2. ItemOK(item)'
    BY <2>1 DEF ChartInv, ParsingOK
  <2>3. item.conts[1] \in DOMAIN parses'
    BY <2>2 DEF ItemOK, ChartInv, ContsOK
  <2>4. item.conts[1] <= p
    BY <1>2, <2>1, <2>3
  <2> QED  BY <2>1, <2>2, <2>4
<1> QED  BY <1>3, <1>4

\* The productions of completed categories come from items that ended, if the new ones do.
LEMMA CatsEndedKept ==
  ASSUME NEW h, ChartInv, ChartInv', ChartDerived(h), Builds, NEW p \in 1..Len(parses),
         p = parsing.parse =>
           \A cid \in DOMAIN parsing'.generated :
             \A prod \in Members(ccats'[parsing'.generated[cid]].prods) :
               \/ /\ cid \in DOMAIN parsing.generated
                  /\ prod \in Members(ccats[parsing.generated[cid]].prods)
               \/ Ended(h, p, cid, prod)'
  PROVE  CatsEnded(h, p)'
<1>1. CatsEnded(h, p)
  BY DerivedFacts DEF ParseDerived
<1>2. Len(parses) \in Nat /\ DOMAIN parses' = 1..Len(parses) /\ parsing.parse = Len(parses)
  BY IsSeqFacts DEF ChartInv, ParsesOK, Builds, ChartDerived, Lineage
<1>3. parsing'.parse = parsing.parse
  BY DEF Builds
<1> SUFFICES ASSUME NEW cid \in DOMAIN GenAt(h, p)'
             PROVE  /\ cid \in DOMAIN conts' /\ cid[1] <= p /\ GenAt(h, p)'[cid] \in DOMAIN ccats'
                    /\ CncCat(GenAt(h, p)[cid])' = CncCat(cid[2])'
                    /\ \A prod \in Members(ccats'[GenAt(h, p)'[cid]].prods) : Ended(h, p, cid, prod)'
  BY DEF CatsEnded
<1>4. CASE p = parsing.parse
  <2>1. GenAt(h, p) = parsing.generated /\ GenAt(h, p)' = parsing'.generated
    BY <1>3, <1>4 DEF GenAt
  <2>2. /\ cid \in DOMAIN conts' /\ GenAt(h, p)'[cid] \in DOMAIN ccats'
        /\ CncCat(GenAt(h, p)[cid])' = CncCat(cid[2])'
    BY <2>1 DEF ChartInv, ParsingOK
  <2>3. cid[1] <= p
    <3>1. cid[1] \in DOMAIN parses'
      BY <2>2 DEF ChartInv, ContsOK
    <3> QED  BY <1>2, <1>4, <3>1
  <2>4. ASSUME NEW prod \in Members(ccats'[GenAt(h, p)'[cid]].prods)
        PROVE  Ended(h, p, cid, prod)'
    <3>1. CASE cid \in DOMAIN parsing.generated /\ prod \in Members(ccats[parsing.generated[cid]].prods)
      <4>1. Ended(h, p, cid, prod)
        BY <1>1, <2>1, <3>1 DEF CatsEnded
      <4> QED  BY <4>1, EndedKept
    <3> QED  BY <1>4, <2>1, <2>4, <3>1
  <2> QED  BY <2>2, <2>3, <2>4
<1>5. CASE p # parsing.parse
  <2>1. GenAt(h, p) = h[p].generated /\ GenAt(h, p)' = h[p].generated
    BY <1>3, <1>5 DEF GenAt
  <2>2. PICK fid : fid = h[p].generated[cid]
    OBVIOUS
  <2>3. /\ cid \in DOMAIN conts /\ cid[1] <= p /\ fid \in DOMAIN ccats /\ CncCat(fid) = CncCat(cid[2])
        /\ \A prod \in Members(ccats[fid].prods) : Ended(h, p, cid, prod)
    BY <1>1, <2>1, <2>2 DEF CatsEnded
  <2>4. fid >= parses[parsing.parse].fid
    BY <1>5, <2>1, <2>2 DEF ChartDerived, Older
  <2>5. parses'[parsing'.parse].fid = parses[parsing.parse].fid
    <3>1. parsing.parse \in 1..Len(parses)
      BY <1>2
    <3> QED  BY <1>3, <3>1 DEF Builds
  <2>6. ccats'[fid] = ccats[fid]
    BY <2>3, <2>4, <2>5 DEF Builds, OldKept
  <2>7. cid \in DOMAIN conts' /\ fid \in DOMAIN ccats' /\ CncCat(fid)' = CncCat(cid[2])'
    <3>1. fid \in Fids /\ cid[2] \in Fids
      BY <2>3 DEF Fids, ChartInv, ContsOK
    <3>2. CncCat(fid)' = CncCat(fid)
      BY <3>1, CatKept DEF Builds, ChartInv
    <3>3. PICK c : c = cid[2]
      OBVIOUS
    <3>4. CncCat(c)' = CncCat(c)
      BY <3>1, <3>3, CatKept DEF Builds, ChartInv
    <3> QED  BY <2>3, <3>2, <3>3, <3>4 DEF Builds, Grows
  <2>8. \A prod \in Members(ccats'[fid].prods) : Ended(h, p, cid, prod)'
    BY <2>3, <2>6, EndedKept
  <2> QED  BY <2>1, <2>2, <2>3, <2>7, <2>8
<1> QED  BY <1>4, <1>5

\* Items filed under a token have been met, if the new ones have.
LEMMA FiledSeenKept ==
  ASSUME NEW h, ChartInv, ChartDerived(h), Builds, NEW p \in 1..Len(parses),
         p = parsing.parse =>
           \A tok \in Tokens : \A item \in parses'[p].transitions[tok] :
             item \in parses[p].transitions[tok] \/ item \in parsing'.seen
  PROVE  FiledSeen(h, p)'
<1>1. FiledSeen(h, p)
  BY DerivedFacts DEF ParseDerived
<1>2. SeenAt(h, p) \subseteq SeenAt(h, p)' /\ parsing'.parse = parsing.parse
  BY SeenKept DEF Builds
<1>3. CASE p = parsing.parse
  <2>1. SeenAt(h, p)' = parsing'.seen
    BY <1>2, <1>3 DEF SeenAt
  <2> QED  BY <1>1, <1>2, <1>3, <2>1 DEF FiledSeen
<1>4. CASE p # parsing.parse
  <2>1. parses'[p] = parses[p]
    BY <1>2, <1>4, IsSeqFacts DEF ChartInv, ParsesOK, Builds, OldKept
  <2> QED  BY <1>1, <1>2, <2>1 DEF FiledSeen
<1> QED  BY <1>3, <1>4

\* The completed sentences are those of a category, if the new ones are.
LEMMA SentencesEndedKept ==
  ASSUME NEW h, ChartInv, ChartDerived(h), Builds, NEW p \in 1..Len(parses),
         p = parsing.parse =>
           \A fid \in Members(parses'[p].completed) :
             \/ fid \in Members(parses[p].completed)
             \/ \E cid \in DOMAIN parsing'.generated :
                  fid = parsing'.generated[cid] /\ NULL \in conts'[cid]
  PROVE  SentencesEnded(h, p)'
<1>1. SentencesEnded(h, p) /\ CatsEnded(h, p)
  BY DerivedFacts DEF ParseDerived
<1>2. parsing'.parse = parsing.parse
  BY DEF Builds
<1>3. ASSUME NEW fid \in Members(parses[p].completed)
      PROVE  \E cid \in DOMAIN GenAt(h, p)' : fid = GenAt(h, p)'[cid] /\ NULL \in conts'[cid]
  <2>1. PICK cid \in DOMAIN GenAt(h, p) : fid = GenAt(h, p)[cid] /\ NULL \in conts[cid]
    BY <1>1 DEF SentencesEnded
  <2>2. cid \in DOMAIN GenAt(h, p)' /\ GenAt(h, p)'[cid] = GenAt(h, p)[cid]
    BY GenKept
  <2>3. conts[cid] \subseteq conts'[cid]
    BY <1>1 DEF CatsEnded, Builds, Grows
  <2> QED  BY <2>1, <2>2, <2>3
<1>4. CASE p = parsing.parse
  <2>1. GenAt(h, p)' = parsing'.generated
    BY <1>2, <1>4 DEF GenAt
  <2> QED  BY <1>3, <1>4, <2>1 DEF SentencesEnded
<1>5. CASE p # parsing.parse
  <2>1. parses'[p] = parses[p]
    BY <1>2, <1>5, IsSeqFacts DEF ChartInv, ParsesOK, Builds, OldKept
  <2> QED  BY <1>3, <2>1 DEF SentencesEnded
<1> QED  BY <1>4, <1>5

\* Items that wait have been met, if the new ones have.
LEMMA ContsSeenKept ==
  ASSUME NEW h, ChartInv, ChartDerived(h), Builds,
         \A cid \in DOMAIN conts' :
           /\ cid \in DOMAIN conts \/ cid = <<cid[1], cid[2], cid[3]>>
           /\ \A item \in conts'[cid] :
                \/ cid \in DOMAIN conts /\ item \in conts[cid]
                \/ /\ cid[1] = parsing.parse
                   /\ IF item = NULL THEN Begins(h, cid[1], cid)' ELSE item \in parsing'.seen
  PROVE  ContsSeen(h)'
<1> SUFFICES ASSUME NEW cid \in DOMAIN conts'
             PROVE  /\ cid = <<cid[1], cid[2], cid[3]>>
                    /\ \A item \in conts'[cid] :
                         IF item = NULL THEN Begins(h, cid[1], cid)' ELSE item \in SeenAt(h, cid[1])'
  BY DEF ContsSeen
<1>1. ContsSeen(h)
  BY DEF ChartDerived
<1>2. cid = <<cid[1], cid[2], cid[3]>>
  BY <1>1 DEF ContsSeen
<1>3. PICK q : q = cid[1]
  OBVIOUS
<1>4. ASSUME NEW item \in conts'[cid]
      PROVE  IF item = NULL THEN Begins(h, q, cid)' ELSE item \in SeenAt(h, q)'
  <2>1. CASE cid \in DOMAIN conts /\ item \in conts[cid]
    <3>1. q \in 1..Len(parses)
      BY <1>3, <2>1, IsSeqFacts DEF ChartInv, ContsOK, ParsesOK
    <3>2. IF item = NULL THEN Begins(h, q, cid) ELSE item \in SeenAt(h, q)
      BY <1>1, <1>3, <2>1 DEF ContsSeen
    <3> QED  BY <3>1, <3>2, BeginsKept, SeenKept
  <2>2. CASE q = parsing.parse /\ IF item = NULL THEN Begins(h, q, cid)' ELSE item \in parsing'.seen
    <3>1. SeenAt(h, q)' = parsing'.seen
      BY <2>2 DEF SeenAt, Builds
    <3> QED  BY <2>2, <3>1
  <2> QED  BY <1>3, <2>1, <2>2
<1> QED  BY <1>2, <1>3, <1>4

\* What belongs to finished parses stays older.
LEMMA OlderKept ==
  ASSUME NEW h, ChartInv, ChartDerived(h), Builds, parsing.parse > 0,
         \A c, d \in DOMAIN parsing'.generated : parsing'.generated[c] = parsing'.generated[d] => c = d
  PROVE  Older(h)'
<1>1. Len(parses) \in Nat /\ parsing.parse = Len(parses) /\ parsing.parse \in 1..Len(parses)
  BY IsSeqFacts DEF ChartInv, ParsesOK, ChartDerived, Lineage
<1>2. /\ parsing'.parse = parsing.parse /\ Len(parses') = Len(parses)
      /\ parses'[parsing'.parse].fid = parses[parsing.parse].fid
  BY <1>1 DEF Builds
<1>3. \A p \in 1..Len(parses) : p # parsing.parse =>
        GenAt(h, p)' = GenAt(h, p)
        /\ \A cid \in DOMAIN GenAt(h, p) : GenAt(h, p)[cid] >= parses[parsing.parse].fid
  BY <1>2 DEF GenAt, ChartDerived, Older
<1>4. \A cid \in DOMAIN conts' : cid[1] # parsing.parse => cid[2] >= parses[parsing.parse].fid
  BY DEF Builds, ChartDerived, Older
<1> QED  BY <1>2, <1>3, <1>4 DEF Older

\* A step inside a call leaves the lineage alone.
LEMMA LineageKept ==
  ASSUME NEW h, ChartInv, ChartDerived(h), Builds
  PROVE  Lineage(h)'
<1>1. Len(parses) \in Nat
  BY IsSeqFacts DEF ChartInv, ParsesOK
<1>2. ASSUME NEW p \in 1..Len(parses)
      PROVE  /\ h[p].from \in 0..(p - 1) /\ parses'[p].toks \in Seq(Tokens)
             /\ h[p].from = 0 => parses'[p].toks = <<>>
             /\ h[p].from > 0 =>
                  /\ h[p].tok \in Tokens /\ parses'[p].start = parses'[h[p].from].start
                  /\ parses'[p].toks = Append(parses'[h[p].from].toks, h[p].tok)
  <2>1. /\ h[p].from \in 0..(p - 1) /\ parses[p].toks \in Seq(Tokens)
        /\ h[p].from = 0 => parses[p].toks = <<>>
        /\ h[p].from > 0 =>
             /\ h[p].tok \in Tokens /\ parses[p].start = parses[h[p].from].start
             /\ parses[p].toks = Append(parses[h[p].from].toks, h[p].tok)
    BY DEF ChartDerived, Lineage
  <2>2. h[p].from > 0 => h[p].from \in 1..Len(parses)
    BY DerivedFacts
  <2> QED  BY <2>1, <2>2 DEF Builds
<1>3. parsing.parse = Len(parses) /\ DOMAIN h = 1..Len(parses)
  BY DEF ChartDerived, Lineage
<1> QED  BY <1>2, <1>3 DEF Lineage, Builds

\* What a frame works on stays derived.
LEMMA FrameDerivedKept ==
  ASSUME NEW h, ChartInv, ChartDerived(h), Builds, parsing.parse > 0, NEW f, FrameOK(f), FrameDerived(h, f)
  PROVE  FrameDerived(h, f)'
<1>1. PICK p : p = parsing.parse
  OBVIOUS
<1>2. p \in 1..Len(parses) /\ parsing'.parse = p
  BY <1>1, IsSeqFacts DEF ChartInv, ParsesOK, ChartDerived, Lineage, Builds
<1>3. parses'[p].start = parses[p].start /\ concr' = concr /\ conts' = conts' /\ parsing.seen \subseteq parsing'.seen
  BY <1>2 DEF Builds, Grows
<1>4. StartCats(parses[p].start[1])' = StartCats(parses[p].start[1])
  BY <1>3 DEF StartCats
<1>5. \A cid \in DOMAIN parsing.generated :
        /\ cid \in DOMAIN parsing'.generated /\ parsing'.generated[cid] = parsing.generated[cid]
        /\ cid \in DOMAIN conts /\ conts[cid] \subseteq conts'[cid]
  BY DEF Builds, Grows, ChartInv, ParsingOK
<1>6. h[p].from > 0 => /\ h[p].from \in 1..Len(parses) /\ h[p].tok \in Tokens
                       /\ parses[h[p].from].transitions[h[p].tok] \subseteq parses'[h[p].from].transitions[h[p].tok]
  BY <1>2, DerivedFacts DEF Builds
<1>7. f.k = "start" => /\ h[p].from = 0 /\ f.r = parses'[p].start[2]
                       /\ Members(f.cats) \subseteq StartCats(parses[p].start[1])'
  BY <1>1, <1>3, <1>4 DEF FrameDerived
<1>8. f.k = "scan" => /\ h[p].from > 0 /\ f.tok = h[p].tok
                      /\ f.agenda \subseteq parses'[h[p].from].transitions[h[p].tok]
  BY <1>1, <1>6 DEF FrameDerived
<1>9. f.k = "forms" => /\ h[p].from > 0 /\ f.item \in parses'[h[p].from].transitions[h[p].tok]
                       /\ f.todo \subseteq Matching(f.item, h[p].tok)'
  <2>1. PICK item : item = f.item
    OBVIOUS
  <2>2. \A tok : Matching(item, tok)' = Matching(item, tok)
    BY LinKept DEF Builds
  <2> QED  BY <1>1, <1>6, <2>1, <2>2, Zenon DEF FrameDerived
<1>10. f.k = "item" => Derived(h, p, f.item)'
  BY <1>1, <1>2, DerivedStays DEF FrameDerived
<1>11. f.k = "predict" =>
         IF f.item = NULL THEN Begins(h, p, ContsId(f.cat, f.r))' ELSE f.item \in parsing'.seen
  <2>1. PICK cid : cid = ContsId(f.cat, f.r)
    OBVIOUS
  <2>2. ContsId(f.cat, f.r)' = cid
    BY <1>1, <1>2, <2>1 DEF ContsId
  <2> QED  BY <1>1, <1>2, <1>3, <2>1, <2>2, BeginsKept DEF FrameDerived
<1>12. f.k = "prods" => f.conts[1] = p /\ f.item \in conts'[f.conts]
  BY <1>1 DEF FrameDerived, FrameOK, Builds, Grows
<1>13. f.k = "combine" =>
         \E cid \in DOMAIN parsing'.generated : f.cat = parsing'.generated[cid] /\ f.cont \in conts'[cid]
  BY <1>5 DEF FrameDerived
<1>14. f.k = "complete" => f.item \in parsing'.seen
  BY <1>3 DEF FrameDerived
<1>15. f.k = "contss" => f.prod \in Members(ccats'[f.cat].prods)
  BY DEF FrameDerived, FrameOK, Builds
<1>16. f.k = "conts" => f.conts \in DOMAIN parsing'.generated /\ f.cat = parsing'.generated[f.conts]
  BY <1>5 DEF FrameDerived
<1> QED  BY <1>1, <1>2, <1>7, <1>8, <1>9, <1>10, <1>11, <1>12, <1>13, <1>14, <1>15, <1>16 DEF FrameDerived

\* A step keeps the chart derived if what it adds is.
LEMMA DerivedKept ==
  ASSUME NEW h, ChartInv, ChartInv', ChartDerived(h), Builds, NEW p, p = parsing.parse, p > 0,
         \A item \in parsing'.seen : item \in parsing.seen \/ Derived(h, p, item)',
         \A cid \in DOMAIN parsing'.generated :
           \A prod \in Members(ccats'[parsing'.generated[cid]].prods) :
             \/ /\ cid \in DOMAIN parsing.generated
                /\ prod \in Members(ccats[parsing.generated[cid]].prods)
             \/ Ended(h, p, cid, prod)',
         \A tok \in Tokens : \A item \in parses'[p].transitions[tok] :
           item \in parses[p].transitions[tok] \/ item \in parsing'.seen,
         \A fid \in Members(parses'[p].completed) :
           \/ fid \in Members(parses[p].completed)
           \/ \E cid \in DOMAIN parsing'.generated :
                fid = parsing'.generated[cid] /\ NULL \in conts'[cid],
         \A cid \in DOMAIN conts' :
           /\ cid \in DOMAIN conts \/ cid = <<cid[1], cid[2], cid[3]>>
           /\ \A item \in conts'[cid] :
                \/ cid \in DOMAIN conts /\ item \in conts[cid]
                \/ /\ cid[1] = p
                   /\ IF item = NULL THEN Begins(h, cid[1], cid)' ELSE item \in parsing'.seen,
         \A c, d \in DOMAIN parsing'.generated : parsing'.generated[c] = parsing'.generated[d] => c = d,
         \A f \in Pending' : f \in Pending \/ FrameDerived(h, f)'
  PROVE  ChartDerived(h)'
<1>1. Lineage(h)'
  BY LineageKept
<1>2. Older(h)'
  BY OlderKept
<1>3. ContsSeen(h)'
  BY ContsSeenKept
<1>4. FramesDerived(h)'
  <2>1. ASSUME NEW f \in Pending
        PROVE  FrameDerived(h, f)'
    BY FrameDerivedKept DEF ChartDerived, FramesDerived, ChartInv, StackOK, Pending
  <2> QED  BY <2>1 DEF FramesDerived
<1>5. ASSUME NEW q \in 1..Len(parses)
      PROVE  ParseDerived(h, q)'
  <2>1. SeenDerived(h, q)'
    BY SeenDerivedKept
  <2>2. CatsEnded(h, q)'
    BY CatsEndedKept
  <2>3. FiledSeen(h, q)'
    BY FiledSeenKept
  <2>4. SentencesEnded(h, q)'
    BY SentencesEndedKept
  <2> QED  BY <2>1, <2>2, <2>3, <2>4 DEF ParseDerived
<1> QED  BY <1>1, <1>2, <1>3, <1>4, <1>5 DEF ChartDerived, Builds

\* The frames that are pending after a step.
LEMMA PopLeaves ==
  ASSUME ChartInv, ~Idle, Pop
  PROVE  Pending' \subseteq Pending
  BY TopOK, TailMembers DEF Pop, Pending, ChartInv

\* Replacing the frame on top adds no frame but the new one.
LEMMA BecomeLeaves ==
  ASSUME ChartInv, ~Idle, NEW new, Become(new)
  PROVE  Pending' \subseteq Pending \cup {new}
  BY TopOK, BecomeMembers DEF Become, Pending, ChartInv

\* A call adds no frame but the two it leaves on top.
LEMMA CallLeaves ==
  ASSUME ChartInv, ~Idle, NEW new, NEW top, Call(new, top)
  PROVE  Pending' \subseteq Pending \cup {new, top}
  BY TopOK, CallMembers DEF Call, Pending, ChartInv

\* The frame on top, in the parse that is under way.
LEMMA TopDerived ==
  ASSUME NEW h, ChartInv, ChartDerived(h), ~Idle
  PROVE  /\ FrameOK(Top) /\ FrameDerived(h, Top) /\ parsing.parse > 0
         /\ parsing.parse \in 1..Len(parses) /\ parsing.parse \in DOMAIN parses
<1>1. FrameOK(Top) /\ Top \in Pending /\ parsing.parse > 0
  BY TopOK DEF ChartInv, Pending
<1>2. parsing.parse \in 1..Len(parses) /\ parsing.parse \in DOMAIN parses
  BY <1>1, IsSeqFacts DEF ChartInv, ParsesOK, ChartDerived, Lineage
<1> QED  BY <1>1, <1>2 DEF ChartDerived, FramesDerived

\* A step that adds nothing to the chart keeps it derived.
LEMMA QuietDerived ==
  ASSUME NEW h, ChartInv, ChartInv', ChartDerived(h), ~Idle,
         UNCHANGED <<concr, next_fid, parses, ccats, conts, parsing>>,
         \A f \in Pending' : f \in Pending \/ FrameDerived(h, f)
  PROVE  ChartDerived(h)'
<1>1. PICK p : p = parsing.parse
  OBVIOUS
<1>2. Builds
  <2>1. Grows
    BY QuietGrows DEF ChartInv
  <2>2. OldKept
    BY DEF OldKept
  <2> QED  BY <2>1, <2>2 DEF Builds
<1>3. p > 0
  BY <1>1, TopDerived, SMTT(30)
<1>4. ASSUME NEW f, FrameDerived(h, f)
      PROVE  FrameDerived(h, f)'
  <2>1. \A q, item : Derived(h, q, item)' = Derived(h, q, item)
    BY DEF Derived, FromProd, FromToken, FromCat, GenAt, HasProds, Prods, Matching, OpenForms, CurrSym,
       Lin, Scanned, Combined
  <2>2. \A q, cid : Begins(h, q, cid)' = Begins(h, q, cid)
    BY DEF Begins, StartCats
  <2>3. \A item, tok : Matching(item, tok)' = Matching(item, tok)
    BY DEF Matching, OpenForms, CurrSym, Lin
  <2>4. \A cat, r : ContsId(cat, r)' = ContsId(cat, r)
    BY DEF ContsId
  <2>5. \A cat : StartCats(cat)' = StartCats(cat)
    BY DEF StartCats
  <2> QED  BY <1>4, <2>1, <2>2, <2>3, <2>4, <2>5 DEF FrameDerived
<1>5. ContsSeen(h) /\ Older(h)
  BY DEF ChartDerived
<1> QED  BY <1>1, <1>2, <1>3, <1>4, <1>5, DerivedKept DEF ContsSeen, Older

\* Start: the sentence is predicted in a category it was begun with.
LEMMA StartDerived ==
  ASSUME NEW h, ChartInv, ChartInv', ChartDerived(h), Start
  PROVE  ChartDerived(h)'
<1>1. /\ ~Idle /\ Top.k = "start" /\ UNCHANGED <<concr, next_fid, parses, ccats, conts, parsing>>
  BY DEF Start
<1>2. PICK p, top, cats : p = parsing.parse /\ top = Top /\ cats = top.cats
  OBVIOUS
<1>3. /\ DOMAIN top = {"k", "cats", "r"} /\ IsSeq(cats) /\ h[p].from = 0 /\ top.r = parses[p].start[2]
      /\ Members(cats) \subseteq StartCats(parses[p].start[1])
  BY <1>1, <1>2, TopDerived DEF FrameOK, FrameDerived
<1>4. CASE cats = <<>>
  <2>1. Pop
    BY <1>2, <1>4 DEF Start
  <2> QED  BY <1>1, <2>1, PopLeaves, QuietDerived
<1>5. CASE cats # <<>>
  <2>1. PICK f, g : /\ f = [k |-> "predict", item |-> NULL, cat |-> Head(cats), r |-> top.r]
                    /\ g = [top EXCEPT !.cats = Tail(cats)]
    OBVIOUS
  <2>2. Call(f, g)
    BY <1>2, <1>5, <2>1 DEF Start
  <2>3. Head(cats) \in Members(cats) /\ Members(Tail(cats)) \subseteq Members(cats)
    BY <1>3, <1>5, TailSeq, TailMembers DEF Members
  <2>4. FrameDerived(h, f)
    <3>1. PICK c, r : c = Head(cats) /\ r = top.r
      OBVIOUS
    <3>2. f.k = "predict" /\ f.item = NULL /\ f.cat = c /\ f.r = r
      BY <2>1, <3>1
    <3>3. Begins(h, p, ContsId(c, r))
      BY <1>2, <1>3, <2>3, <3>1 DEF Begins, ContsId
    <3> QED  BY <1>2, <3>2, <3>3 DEF FrameDerived
  <2>5. FrameDerived(h, g)
    <3>1. g.k = "start" /\ g.r = top.r /\ g.cats = Tail(cats)
      BY <1>1, <1>2, <1>3, <2>1
    <3> QED  BY <1>2, <1>3, <2>3, <3>1 DEF FrameDerived
  <2> QED  BY <1>1, <2>2, <2>4, <2>5, CallLeaves, QuietDerived
<1> QED  BY <1>4, <1>5

\* Scan: the next item of the agenda is taken.
LEMMA ScanDerived ==
  ASSUME NEW h, ChartInv, ChartInv', ChartDerived(h), Scan
  PROVE  ChartDerived(h)'
<1>1. /\ ~Idle /\ Top.k = "scan" /\ UNCHANGED <<concr, next_fid, parses, ccats, conts, parsing>>
  BY DEF Scan
<1>2. PICK p, top : p = parsing.parse /\ top = Top
  OBVIOUS
<1>3. /\ DOMAIN top = {"k", "tok", "agenda"} /\ h[p].from > 0 /\ top.tok = h[p].tok
      /\ top.agenda \subseteq parses[h[p].from].transitions[h[p].tok]
  BY <1>1, <1>2, TopDerived DEF FrameOK, FrameDerived
<1>4. CASE Pop
  BY <1>1, <1>4, PopLeaves, QuietDerived
<1>5. ASSUME NEW item \in top.agenda,
             Call([k |-> "forms", item |-> item, todo |-> Matching(item, top.tok)],
                  [top EXCEPT !.agenda = @ \ {item}])
      PROVE  ChartDerived(h)'
  <2>1. PICK f, g : /\ f = [k |-> "forms", item |-> item, todo |-> Matching(item, top.tok)]
                    /\ g = [top EXCEPT !.agenda = @ \ {item}]
    OBVIOUS
  <2>2. FrameDerived(h, f)
    <3>1. f.k = "forms" /\ f.item = item /\ f.todo = Matching(item, top.tok)
      BY <2>1
    <3> QED  BY <1>2, <1>3, <3>1 DEF FrameDerived
  <2>3. FrameDerived(h, g)
    <3>1. g.k = "scan" /\ g.tok = top.tok /\ g.agenda \subseteq top.agenda
      BY <1>1, <1>2, <1>3, <2>1
    <3> QED  BY <1>2, <1>3, <3>1 DEF FrameDerived
  <2> QED  BY <1>1, <1>5, <2>1, <2>2, <2>3, CallLeaves, QuietDerived
<1> QED  BY <1>2, <1>4, <1>5 DEF Scan

\* ScanForms: an item that goes over the token comes from it.
LEMMA ScanFormsDerived ==
  ASSUME NEW h, ChartInv, ChartInv', ChartDerived(h), ScanForms
  PROVE  ChartDerived(h)'
<1>1. /\ ~Idle /\ Top.k = "forms" /\ UNCHANGED <<concr, next_fid, parses, ccats, conts, parsing>>
  BY DEF ScanForms
<1>2. PICK p, top : p = parsing.parse /\ top = Top
  OBVIOUS
<1>3. /\ DOMAIN top = {"k", "item", "todo"} /\ h[p].from > 0
      /\ top.item \in parses[h[p].from].transitions[h[p].tok] /\ top.todo \subseteq Matching(top.item, h[p].tok)
  BY <1>1, <1>2, TopDerived DEF FrameOK, FrameDerived
<1>4. CASE Pop
  BY <1>1, <1>4, PopLeaves, QuietDerived
<1>5. ASSUME NEW i \in top.todo,
             Call(ItemFrame(Scanned(top.item, i)), [top EXCEPT !.todo = @ \ {i}])
      PROVE  ChartDerived(h)'
  <2>1. PICK f, g, item : f = ItemFrame(item) /\ g = [top EXCEPT !.todo = @ \ {i}] /\ item = Scanned(top.item, i)
    OBVIOUS
  <2>2. FrameDerived(h, f)
    <3>1. f.k = "item" /\ f.item = item
      BY <2>1 DEF ItemFrame
    <3>2. FromToken(h, p, item)
      BY <1>3, <1>5, <2>1 DEF FromToken
    <3> QED  BY <1>2, <3>1, <3>2 DEF FrameDerived, Derived
  <2>3. FrameDerived(h, g)
    <3>1. g.k = "forms" /\ g.item = top.item /\ g.todo \subseteq top.todo
      BY <1>1, <1>2, <1>3, <2>1
    <3> QED  BY <1>2, <1>3, <3>1 DEF FrameDerived
  <2> QED  BY <1>1, <1>5, <2>1, <2>2, <2>3, CallLeaves, QuietDerived
<1> QED  BY <1>2, <1>4, <1>5 DEF ScanForms

\* ItemSeen: nothing is added.
LEMMA ItemSeenDerived ==
  ASSUME NEW h, ChartInv, ChartInv', ChartDerived(h), ItemSeen
  PROVE  ChartDerived(h)'
<1>1. ~Idle /\ Pop /\ UNCHANGED <<concr, next_fid, parses, ccats, conts, parsing>>
  BY DEF ItemSeen
<1> QED  BY <1>1, PopLeaves, QuietDerived

\* ProdsLoop: a predicted item comes from its production.
LEMMA ProdsLoopDerived ==
  ASSUME NEW h, ChartInv, ChartInv', ChartDerived(h), ProdsLoop
  PROVE  ChartDerived(h)'
<1>1. /\ ~Idle /\ Top.k = "prods" /\ UNCHANGED <<concr, next_fid, parses, ccats, conts, parsing>>
  BY DEF ProdsLoop
<1>2. PICK p, top, cid : p = parsing.parse /\ top = Top /\ cid = top.conts
  OBVIOUS
<1>3. /\ DOMAIN top = {"k", "item", "conts", "i", "n"} /\ cid \in DOMAIN conts /\ HasProds(cid[2])
      /\ cid[1] = p /\ top.item \in conts[cid]
      /\ top.i \in Nat \ {0} /\ top.n \in Nat /\ top.n <= Len(Prods(cid[2]))
  BY <1>1, <1>2, TopDerived DEF FrameOK, FrameDerived
<1>4. CASE top.i <= top.n
  <2>1. PICK item, f, g : /\ item = pgf_new_item(cid, Prods(cid[2])[top.i]) /\ f = ItemFrame(item)
                          /\ g = [top EXCEPT !.i = @ + 1]
    OBVIOUS
  <2>2. Call(f, g)
    BY <1>2, <1>4, <2>1 DEF ProdsLoop
  <2>3. FrameDerived(h, f)
    <3>1. f.k = "item" /\ f.item = item
      BY <2>1 DEF ItemFrame
    <3>2. top.i \in 1..Len(Prods(cid[2]))
      <4>1. Len(Prods(cid[2])) \in Nat
        BY <1>3, ProdsFacts DEF ChartInv, ContsOK
      <4> QED  BY <1>3, <1>4, <4>1
    <3>3. FromProd(p, item)
      BY <1>3, <2>1, <3>2 DEF FromProd, Members
    <3> QED  BY <1>2, <3>1, <3>3 DEF FrameDerived, Derived
  <2>4. FrameDerived(h, g)
    <3>1. g.k = "prods" /\ g.conts = cid /\ g.item = top.item
      BY <1>1, <1>2, <1>3, <2>1
    <3> QED  BY <1>2, <1>3, <3>1 DEF FrameDerived
  <2> QED  BY <1>1, <2>2, <2>3, <2>4, CallLeaves, QuietDerived
<1>5. CASE ~(top.i <= top.n) /\ cid \in DOMAIN parsing.generated
  <2>1. PICK f : f = [k |-> "combine", cont |-> top.item, cat |-> parsing.generated[cid]]
    OBVIOUS
  <2>2. Become(f)
    BY <1>2, <1>5, <2>1 DEF ProdsLoop
  <2>3. f.k = "combine" /\ f.cont = top.item /\ f.cat = parsing.generated[cid]
    BY <2>1
  <2>4. FrameDerived(h, f)
    BY <1>3, <1>5, <2>3 DEF FrameDerived
  <2> QED  BY <1>1, <2>2, <2>4, BecomeLeaves, QuietDerived
<1>6. CASE ~(top.i <= top.n) /\ cid \notin DOMAIN parsing.generated
  <2>1. Pop
    BY <1>2, <1>6 DEF ProdsLoop
  <2> QED  BY <1>1, <2>1, PopLeaves, QuietDerived
<1> QED  BY <1>4, <1>5, <1>6

\* ContssLoop: the next continuations are taken.
LEMMA ContssLoopDerived ==
  ASSUME NEW h, ChartInv, ChartInv', ChartDerived(h), ContssLoop
  PROVE  ChartDerived(h)'
<1>1. /\ ~Idle /\ Top.k = "contss" /\ UNCHANGED <<concr, next_fid, parses, ccats, conts, parsing>>
  BY DEF ContssLoop
<1>2. PICK p, top, cid, g : /\ p = parsing.parse /\ top = Top /\ cid = ContsId(top.cat, top.i)
                            /\ g = [top EXCEPT !.i = @ + 1]
  OBVIOUS
<1>3. /\ DOMAIN top = {"k", "cat", "prod", "i"} /\ top.cat \in DOMAIN ccats
      /\ top.prod \in Members(ccats[top.cat].prods)
  BY <1>1, <1>2, TopDerived DEF FrameOK, FrameDerived
<1>4. FrameDerived(h, g)
  <2>1. g.k = "contss" /\ g.cat = top.cat /\ g.prod = top.prod
    BY <1>1, <1>2, <1>3
  <2> QED  BY <1>3, <2>1 DEF FrameDerived
<1>5. CASE top.i > NCtnts(top.cat)
  <2>1. Pop
    BY <1>2, <1>5 DEF ContssLoop
  <2> QED  BY <1>1, <2>1, PopLeaves, QuietDerived
<1>6. CASE ~(top.i > NCtnts(top.cat)) /\ cid \notin DOMAIN conts
  <2>1. Become(g)
    BY <1>2, <1>6 DEF ContssLoop
  <2> QED  BY <1>1, <1>4, <2>1, BecomeLeaves, QuietDerived
<1>7. CASE ~(top.i > NCtnts(top.cat)) /\ cid \in DOMAIN conts
  <2>1. PICK item, f : item = pgf_new_item(cid, top.prod) /\ f = ItemFrame(item)
    OBVIOUS
  <2>2. Call(f, g)
    BY <1>2, <1>7, <2>1 DEF ContssLoop
  <2>3. FrameDerived(h, f)
    <3>1. f.k = "item" /\ f.item = item
      BY <2>1 DEF ItemFrame
    <3>2. cid[1] = p /\ cid[2] = top.cat
      BY <1>2 DEF ContsId
    <3>3. HasProds(top.cat) /\ Prods(top.cat) = ccats[top.cat].prods
      BY <1>3, GrammarFacts DEF ChartInv, HasProds, Prods
    <3>4. FromProd(p, item)
      BY <1>3, <1>7, <2>1, <3>2, <3>3 DEF FromProd
    <3> QED  BY <1>2, <3>1, <3>4 DEF FrameDerived, Derived
  <2> QED  BY <1>1, <1>4, <2>2, <2>3, CallLeaves, QuietDerived
<1> QED  BY <1>5, <1>6, <1>7

\* ContsLoop: a continuation is combined with the category under it.
LEMMA ContsLoopDerived ==
  ASSUME NEW h, ChartInv, ChartInv', ChartDerived(h), ContsLoop
  PROVE  ChartDerived(h)'
<1>1. /\ ~Idle /\ Top.k = "conts" /\ UNCHANGED <<concr, next_fid, parses, ccats, conts, parsing>>
  BY DEF ContsLoop
<1>2. PICK top : top = Top
  OBVIOUS
<1>3. /\ DOMAIN top = {"k", "conts", "cat", "todo"} /\ top.todo \subseteq conts[top.conts]
      /\ top.conts \in DOMAIN parsing.generated /\ top.cat = parsing.generated[top.conts]
  BY <1>1, <1>2, TopDerived DEF FrameOK, FrameDerived
<1>4. CASE Pop
  BY <1>1, <1>4, PopLeaves, QuietDerived
<1>5. ASSUME NEW cont \in top.todo,
             Call([k |-> "combine", cont |-> cont, cat |-> top.cat], [top EXCEPT !.todo = @ \ {cont}])
      PROVE  ChartDerived(h)'
  <2>1. PICK f, g : /\ f = [k |-> "combine", cont |-> cont, cat |-> top.cat]
                    /\ g = [top EXCEPT !.todo = @ \ {cont}]
    OBVIOUS
  <2>2. f.k = "combine" /\ f.cont = cont /\ f.cat = top.cat
    BY <2>1
  <2>3. FrameDerived(h, f)
    BY <1>3, <1>5, <2>2 DEF FrameDerived
  <2>4. g.k = "conts" /\ g.conts = top.conts /\ g.cat = top.cat
    BY <1>1, <1>2, <1>3, <2>1
  <2>5. FrameDerived(h, g)
    BY <1>3, <2>4 DEF FrameDerived
  <2> QED  BY <1>1, <1>5, <2>1, <2>3, <2>5, CallLeaves, QuietDerived
<1> QED  BY <1>2, <1>4, <1>5 DEF ContsLoop

\* A step that leaves the chart alone builds on it.
LEMMA QuietBuilds ==
  ASSUME ChartInv, UNCHANGED <<concr, next_fid, parses, ccats, conts, parsing>>
  PROVE  Builds
<1>1. Grows
  BY QuietGrows DEF ChartInv
<1>2. OldKept
  BY DEF OldKept
<1> QED  BY <1>1, <1>2 DEF Builds

\* The parse that is under way is one of the parses.
LEMMA UnderWay ==
  ASSUME ChartInv, ~Idle
  PROVE  /\ parsing.parse > 0 /\ parsing.parse \in DOMAIN parses /\ DOMAIN parses = 1..Len(parses)
         /\ parsing.parse \in 1..Len(parses) /\ Len(parses) \in Nat
  BY TopOK, IsSeqFacts DEF ChartInv, ParsesOK, ParsingOK

\* pgf_parsing_combine builds on the chart.
LEMMA CombineBuilds ==
  ASSUME ChartInv, pgf_parsing_combine
  PROVE  /\ Builds
         /\ Top.cont = NULL =>
              LET p == parsing.parse IN
              /\ Pop /\ parses'[p].transitions = parses[p].transitions
              /\ Members(parses'[p].completed) \subseteq Members(parses[p].completed) \cup {Top.cat}
              /\ Top.cat \in Members(parses'[p].completed)
<1>1. /\ ~Idle /\ UNCHANGED <<concr, next_fid, ccats, conts, parsing>>
  BY DEF pgf_parsing_combine
<1>2. PICK p, top : p = parsing.parse /\ top = Top
  OBVIOUS
<1>3. p \in DOMAIN parses /\ p > 0 /\ p \in 1..Len(parses)
  BY <1>1, <1>2, UnderWay
<1>4. CASE top.cont # NULL
  <2>1. parses' = parses
    BY <1>2, <1>4, SMTT(30) DEF pgf_parsing_combine
  <2> QED  BY <1>1, <1>2, <1>4, <2>1, QuietBuilds
<1>5. CASE top.cont = NULL
  <2>1. PICK old, new : old = parses[p].completed /\ new = Append(old, top.cat)
    OBVIOUS
  <2>2. Pop /\ parses' = [parses EXCEPT ![p].completed = new]
    BY <1>2, <1>5, <2>1 DEF pgf_parsing_combine
  <2>3. /\ DOMAIN parses' = DOMAIN parses /\ parses'[p].completed = new
        /\ parses'[p].transitions = parses[p].transitions /\ parses'[p].start = parses[p].start
        /\ parses'[p].toks = parses[p].toks /\ parses'[p].fid = parses[p].fid
        /\ \A q \in DOMAIN parses : q # p => parses'[q] = parses[q]
    BY <1>3, <2>2 DEF ChartInv, ParsesOK
  <2>4. /\ Members(old) \subseteq Members(new) /\ Members(new) \subseteq Members(old) \cup {top.cat}
        /\ top.cat \in Members(new)
    BY <1>3, <2>1, AppendMembers DEF ChartInv, ParsesOK
  <2>5. Len(parses') = Len(parses) /\ DOMAIN parses = 1..Len(parses)
    BY <1>3, <2>2, IsSeqFacts, CompletedOK, QuietGrows, <1>1, <2>1 DEF ChartInv, ParsesOK
  <2>6. Grows
    BY <1>1, QuietGrows DEF ChartInv
  <2>7. OldKept
    BY <1>1, <1>2, <2>3 DEF OldKept
  <2>8. \A q \in 1..Len(parses) :
          /\ parses'[q].start = parses[q].start /\ parses'[q].toks = parses[q].toks
          /\ parses'[q].fid = parses[q].fid
          /\ Members(parses[q].completed) \subseteq Members(parses'[q].completed)
          /\ \A tok \in Tokens : parses[q].transitions[tok] \subseteq parses'[q].transitions[tok]
    BY <2>1, <2>3, <2>4, <2>5
  <2>9. Builds
    BY <1>1, <2>5, <2>6, <2>7, <2>8 DEF Builds
  <2> QED  BY <1>2, <2>1, <2>2, <2>3, <2>4, <2>9
<1> QED  BY <1>4, <1>5

\* pgf_parsing_combine: the item it makes comes from the category.
LEMMA CombineDerived ==
  ASSUME NEW h, ChartInv, ChartInv', ChartDerived(h), pgf_parsing_combine
  PROVE  ChartDerived(h)'
<1>1. /\ ~Idle /\ Top.k = "combine" /\ UNCHANGED <<concr, next_fid, ccats, conts, parsing>>
  BY DEF pgf_parsing_combine
<1>2. PICK p, top : p = parsing.parse /\ top = Top
  OBVIOUS
<1>3. PICK cid \in DOMAIN parsing.generated : top.cat = parsing.generated[cid] /\ top.cont \in conts[cid]
  BY <1>1, <1>2, TopDerived DEF FrameDerived
<1>4. CASE top.cont # NULL
  <2>1. PICK item, f : item = Combined(top.cont, top.cat) /\ f = ItemFrame(item)
    OBVIOUS
  <2>2. Become(f) /\ parses' = parses
    BY <1>2, <1>4, <2>1 DEF pgf_parsing_combine
  <2>3. f.k = "item" /\ f.item = item
    BY <2>1 DEF ItemFrame
  <2>4. GenAt(h, p) = parsing.generated
    BY <1>2 DEF GenAt
  <2>5. FromCat(h, p, item)
    BY <1>3, <1>4, <2>1, <2>4 DEF FromCat
  <2>6. FrameDerived(h, f)
    BY <1>2, <2>3, <2>5 DEF FrameDerived, Derived
  <2> QED  BY <1>1, <2>2, <2>6, BecomeLeaves, QuietDerived
<1>5. CASE top.cont = NULL
  <2>1. /\ Builds /\ Pop /\ parses'[p].transitions = parses[p].transitions
        /\ Members(parses'[p].completed) \subseteq Members(parses[p].completed) \cup {top.cat}
    BY <1>2, <1>5, CombineBuilds
  <2>2. \A fid \in Members(parses'[p].completed) :
          \/ fid \in Members(parses[p].completed)
          \/ \E d \in DOMAIN parsing'.generated : fid = parsing'.generated[d] /\ NULL \in conts'[d]
    BY <1>1, <1>3, <1>5, <2>1
  <2>3. \A f \in Pending' : f \in Pending
    BY <1>1, <2>1, PopLeaves
  <2>4. ContsSeen(h) /\ Older(h)
    BY DEF ChartDerived
  <2>5. p > 0
    BY <1>1, <1>2, UnderWay
  <2> QED  BY <1>1, <1>2, <2>1, <2>2, <2>3, <2>4, <2>5, DerivedKept DEF ContsSeen, Older
<1> QED  BY <1>4, <1>5

\* ItemNew builds on the chart.
LEMMA ItemNewBuilds ==
  ASSUME ChartInv, ItemNew
  PROVE  LET p == parsing.parse IN
         /\ Builds /\ parsing'.generated = parsing.generated
         /\ parsing'.seen = parsing.seen \cup {Top.item} /\ parses'[p].completed = parses[p].completed
         /\ \A tok \in Tokens :
              parses'[p].transitions[tok] \subseteq parses[p].transitions[tok] \cup {Top.item}
<1>1. /\ ~Idle /\ Top.k = "item" /\ UNCHANGED <<concr, next_fid, ccats, conts>>
      /\ parsing' = [parsing EXCEPT !.seen = @ \cup {Top.item}]
  BY DEF ItemNew
<1>2. PICK item, p : item = Top.item /\ p = parsing.parse
  OBVIOUS
<1>3. p \in DOMAIN parses /\ DOMAIN parses = 1..Len(parses) /\ Len(parses) \in Nat
  BY <1>1, <1>2, UnderWay
<1>4. /\ parsing'.parse = p /\ parsing'.generated = parsing.generated
      /\ parsing'.seen = parsing.seen \cup {item}
  BY <1>1, <1>2 DEF ChartInv, ParsingOK
<1>5. Grows
  BY <1>1, QuietGrows DEF ChartInv
<1>6. ASSUME Len(parses') = Len(parses), parses'[p].start = parses[p].start,
             parses'[p].toks = parses[p].toks, parses'[p].fid = parses[p].fid,
             parses'[p].completed = parses[p].completed,
             \A q \in DOMAIN parses : q # p => parses'[q] = parses[q],
             \A tok \in Tokens : parses[p].transitions[tok] \subseteq parses'[p].transitions[tok]
      PROVE  Builds
  <2>1. OldKept
    BY <1>1, <1>4, <1>6 DEF OldKept
  <2> QED  BY <1>1, <1>2, <1>3, <1>4, <1>5, <1>6, <2>1 DEF Builds
<1>7. CASE parses' = parses
  BY <1>2, <1>4, <1>6, <1>7, SMTT(30)
<1>8. CASE parses' # parses
  <2>1. ~AtEnd(item) /\ CurrSym(item).t # "cat" /\ CurrSym(item).t # "lit"
    BY <1>2, <1>8 DEF ItemNew
  <2>2. PICK old, filed : /\ old = parses[p]
                          /\ filed = [tok \in Tokens |-> IF tok \in Expected(item)
                                                         THEN old.transitions[tok] \cup {item}
                                                         ELSE old.transitions[tok]]
    OBVIOUS
  <2>3. parses' = [parses EXCEPT ![p].transitions = filed]
    BY <1>2, <2>1, <2>2 DEF ItemNew
  <2>4. /\ parses'[p].transitions = filed /\ parses'[p].completed = parses[p].completed
        /\ parses'[p].start = parses[p].start /\ parses'[p].toks = parses[p].toks
        /\ parses'[p].fid = parses[p].fid /\ \A q \in DOMAIN parses : q # p => parses'[q] = parses[q]
    BY <1>3, <2>3 DEF ChartInv, ParsesOK
  <2>5. \A tok \in Tokens : old.transitions[tok] \subseteq filed[tok]
                            /\ filed[tok] \subseteq old.transitions[tok] \cup {item}
    BY <2>2
  <2>6. ItemOK(item)
    BY <1>1, <1>2, TopOK DEF ChartInv, FrameOK
  <2>7. BeforeToken(item)
    BY <2>1, <2>6, CurrSymFits DEF BeforeToken, SymbolFits
  <2>8. Len(parses') = Len(parses)
    BY <1>3, <1>5, <2>2, <2>3, <2>7, FiledOK DEF ChartInv
  <2> QED  BY <1>2, <1>4, <1>6, <2>2, <2>4, <2>5, <2>8
<1> QED  BY <1>7, <1>8

\* ItemNew: the item has been derived before it is met.
LEMMA ItemNewDerived ==
  ASSUME NullIsNoItem, NEW h, ChartInv, ChartInv', ChartDerived(h), ItemNew
  PROVE  ChartDerived(h)'
<1>1. /\ ~Idle /\ Top.k = "item" /\ UNCHANGED <<concr, next_fid, ccats, conts>>
  BY DEF ItemNew
<1>2. PICK item, p : item = Top.item /\ p = parsing.parse
  OBVIOUS
<1>3. /\ Builds /\ parsing'.generated = parsing.generated /\ parsing'.seen = parsing.seen \cup {item}
      /\ parses'[p].completed = parses[p].completed /\ parsing'.parse = p
      /\ \A tok \in Tokens : parses'[p].transitions[tok] \subseteq parses[p].transitions[tok] \cup {item}
  BY <1>2, ItemNewBuilds DEF Builds
<1>4. Derived(h, p, item) /\ p > 0 /\ p \in 1..Len(parses)
  BY <1>1, <1>2, TopDerived DEF FrameDerived
<1>5. Derived(h, p, item)'
  BY <1>3, <1>4, DerivedStays
<1>6. \A f \in Pending' : f \in Pending \/ FrameDerived(h, f)'
  <2>1. CASE AtEnd(item)
    <3>1. PICK f : f = [k |-> "complete", item |-> item]
      OBVIOUS
    <3>2. Become(f)
      BY <1>2, <2>1, <3>1 DEF ItemNew
    <3>3. f.k = "complete" /\ f.item = item
      BY <3>1
    <3>4. FrameDerived(h, f)'
      BY <1>3, <3>3 DEF FrameDerived
    <3> QED  BY <1>1, <3>2, <3>4, BecomeLeaves
  <2>2. CASE ~AtEnd(item) /\ CurrSym(item).t = "cat"
    <3>1. PICK f : f = [k |-> "predict", item |-> item, cat |-> PredictedCat(item), r |-> CurrSym(item).r]
      OBVIOUS
    <3>2. Become(f)
      BY <1>2, <2>2, <3>1 DEF ItemNew
    <3>3. f.k = "predict" /\ f.item = item
      BY <3>1
    <3>4. item # NULL
      BY <1>1, <1>2, TopOK DEF ChartInv, FrameOK, ItemOK, NullIsNoItem
    <3>5. FrameDerived(h, f)'
      BY <1>3, <3>3, <3>4 DEF FrameDerived
    <3> QED  BY <1>1, <3>2, <3>5, BecomeLeaves
  <2>3. CASE ~AtEnd(item) /\ CurrSym(item).t # "cat"
    <3>1. Pop
      BY <1>2, <2>3 DEF ItemNew
    <3> QED  BY <1>1, <3>1, PopLeaves
  <2> QED  BY <2>1, <2>2, <2>3
<1>7. ContsSeen(h) /\ Older(h)
  BY SMTT(30) DEF ChartDerived
<1> QED  BY <1>1, <1>2, <1>3, <1>4, <1>5, <1>6, <1>7, DerivedKept DEF ContsSeen, Older

\* CompleteOld builds on the chart: a category gains a production.
LEMMA CompleteOldBuilds ==
  ASSUME ChartInv, CompleteOld
  PROVE  LET fid == parsing.generated[Top.item.conts] IN
         /\ Builds /\ \A c \in DOMAIN ccats : c # fid => ccats'[c] = ccats[c]
         /\ Members(ccats'[fid].prods) \subseteq Members(ccats[fid].prods) \cup {DoneProd(Top.item)}
         /\ DoneProd(Top.item) \in Members(ccats'[fid].prods)
<1>1. /\ ~Idle /\ Top.k = "complete" /\ Top.item.conts \in DOMAIN parsing.generated
      /\ UNCHANGED <<concr, next_fid, parses, conts, parsing>>
  BY DEF CompleteOld
<1>2. PICK prod, fid, old, new : /\ prod = DoneProd(Top.item) /\ fid = parsing.generated[Top.item.conts]
                                 /\ old = ccats[fid].prods /\ new = Append(old, prod)
  BY ZenonT(40)
<1>3. ccats' = [ccats EXCEPT ![fid].prods = Append(@, prod)]
  BY <1>2, Zenon DEF CompleteOld
<1>4. fid \in DOMAIN ccats
  BY <1>1, <1>2, ZenonT(40) DEF ChartInv, ParsingOK
<1>5. /\ Grows /\ IsSeq(old) /\ ccats'[fid].prods = new
      /\ \A c \in DOMAIN ccats : c # fid => ccats'[c] = ccats[c]
  <2>1. Grows /\ IsSeq(old)
    BY <1>1, <1>2, <1>3, <1>4, ProdAdded, ZenonT(40) DEF ChartInv, CatsOK
  <2> QED  BY <1>2, <1>3, <1>4, <2>1, ZenonT(40) DEF ChartInv, CatsOK
<1>6. /\ Members(old) \subseteq Members(new) /\ Members(new) \subseteq Members(old) \cup {prod}
      /\ prod \in Members(new)
  BY <1>2, <1>5, AppendMembers, ZenonT(40)
<1>7. OldKept
  BY StepKeepsOld DEF Step
<1>8. Builds
  BY <1>1, <1>2, <1>5, <1>6, <1>7, Zenon DEF Builds
<1> QED  BY <1>2, <1>5, <1>6, <1>8, ZenonT(40)

\* CompleteOld: the production is that of an item that has ended.
LEMMA CompleteOldDerived ==
  ASSUME NEW h, ChartInv, ChartInv', ChartDerived(h), CompleteOld
  PROVE  ChartDerived(h)'
<1>1. /\ ~Idle /\ Top.k = "complete" /\ Top.item.conts \in DOMAIN parsing.generated
      /\ UNCHANGED <<concr, next_fid, parses, conts, parsing>>
  BY DEF CompleteOld
<1>2. PICK item, done, p : item = Top.item /\ done = item.conts /\ p = parsing.parse
  OBVIOUS
<1>3. PICK prod, fid, f : /\ prod = DoneProd(item) /\ fid = parsing.generated[done]
                          /\ f = [k |-> "contss", cat |-> fid, prod |-> prod, i |-> 1]
  BY ZenonT(40)
<1>4. Become(f)
  BY <1>2, <1>3, ZenonT(40) DEF CompleteOld
<1>5. /\ Builds /\ \A c \in DOMAIN ccats : c # fid => ccats'[c] = ccats[c]
      /\ Members(ccats'[fid].prods) \subseteq Members(ccats[fid].prods) \cup {prod}
      /\ prod \in Members(ccats'[fid].prods)
  BY <1>2, <1>3, CompleteOldBuilds
<1>6. item \in parsing.seen /\ AtEnd(item) /\ p > 0
  BY <1>1, <1>2, TopDerived DEF FrameDerived, FrameOK
<1>7. Ended(h, p, done, prod)'
  <2>1. item \in SeenAt(h, p)'
    BY <1>1, <1>2, <1>6 DEF SeenAt
  <2>2. AtEnd(item)'
    BY <1>5, <1>6, LinKept DEF Builds
  <2> QED  BY <1>2, <1>3, <2>1, <2>2 DEF Ended, DoneProd
<1>8. \A cid \in DOMAIN parsing'.generated :
        \A pr \in Members(ccats'[parsing'.generated[cid]].prods) :
          \/ cid \in DOMAIN parsing.generated /\ pr \in Members(ccats[parsing.generated[cid]].prods)
          \/ Ended(h, p, cid, pr)'
  <2> SUFFICES ASSUME NEW cid \in DOMAIN parsing.generated,
                      NEW pr \in Members(ccats'[parsing.generated[cid]].prods)
               PROVE  pr \in Members(ccats[parsing.generated[cid]].prods) \/ Ended(h, p, cid, pr)'
    BY <1>1
  <2>1. parsing.generated[cid] \in DOMAIN ccats
    BY DEF ChartInv, ParsingOK
  <2>2. CASE parsing.generated[cid] # fid
    BY <1>5, <2>1, <2>2
  <2>3. CASE parsing.generated[cid] = fid
    <3>1. cid = done
      BY <1>1, <1>2, <1>3, <2>3 DEF ChartDerived, Older
    <3> QED  BY <1>5, <1>7, <2>3, <3>1
  <2> QED  BY <2>2, <2>3
<1>9. FrameDerived(h, f)'
  <2>1. f.k = "contss" /\ f.cat = fid /\ f.prod = prod
    BY <1>3
  <2> QED  BY <1>5, <2>1 DEF FrameDerived
<1>10. \A g \in Pending' : g \in Pending \/ FrameDerived(h, g)'
  BY <1>1, <1>4, <1>9, BecomeLeaves
<1>11. ContsSeen(h) /\ Older(h)
  BY DEF ChartDerived
<1> QED  BY <1>1, <1>2, <1>5, <1>6, <1>8, <1>10, <1>11, DerivedKept, SMTT(30) DEF ContsSeen, Older

\* CompleteNew builds on the chart: there is one more category.
LEMMA CompleteNewBuilds ==
  ASSUME ChartInv, CompleteNew
  PROVE  LET done == Top.item.conts IN
         /\ Builds /\ parsing'.seen = parsing.seen
         /\ next_fid - 1 \notin Fids /\ ccats'[next_fid - 1].prods = <<DoneProd(Top.item)>>
         /\ \A c \in DOMAIN ccats : ccats'[c] = ccats[c]
         /\ DOMAIN parsing'.generated = DOMAIN parsing.generated \cup {done}
         /\ parsing'.generated[done] = next_fid - 1
         /\ \A c \in DOMAIN parsing.generated : parsing'.generated[c] = parsing.generated[c]
<1>1. /\ ~Idle /\ Top.k = "complete" /\ Top.item.conts \notin DOMAIN parsing.generated
      /\ UNCHANGED <<concr, parses, conts>>
  BY DEF CompleteNew
<1>2. PICK item, done, fid : item = Top.item /\ done = item.conts /\ fid = next_fid - 1
  OBVIOUS
<1>3. PICK cat : cat = [cat |-> CncCat(done[2]), prods |-> <<DoneProd(item)>>]
  OBVIOUS
<1>4. /\ ccats' = [c \in DOMAIN ccats \cup {fid} |-> IF c = fid THEN cat ELSE ccats[c]]
      /\ parsing' = [parsing EXCEPT !.generated =
                       [c \in DOMAIN @ \cup {done} |-> IF c = done THEN fid ELSE @[c]]]
  BY <1>2, <1>3 DEF CompleteNew, FreshFid
<1>5. fid \notin Fids
  <2>1. fid \notin DOMAIN ccats /\ Synthetic(fid)
    BY <1>2 DEF ChartInv, CatsOK, Synthetic, PGF_FID_SYNTHETIC
  <2> QED  BY <2>1, GrammarFacts DEF Fids, ChartInv
<1>6. /\ DOMAIN ccats' = DOMAIN ccats \cup {fid} /\ ccats'[fid] = cat
      /\ \A c \in DOMAIN ccats : ccats'[c] = ccats[c]
  BY <1>4, <1>5 DEF Fids
<1>7. /\ parsing'.parse = parsing.parse /\ parsing'.seen = parsing.seen
      /\ DOMAIN parsing'.generated = DOMAIN parsing.generated \cup {done}
      /\ parsing'.generated[done] = fid
      /\ \A c \in DOMAIN parsing.generated : parsing'.generated[c] = parsing.generated[c]
  BY <1>1, <1>2, <1>4 DEF ChartInv, ParsingOK
<1>8. Grows
  <2>1. \A c \in DOMAIN ccats : Len(ccats[c].prods) \in Nat
    BY IsSeqFacts DEF ChartInv, CatsOK
  <2> QED  BY <1>1, <1>6, <2>1 DEF Grows
<1>9. OldKept
  BY StepKeepsOld DEF Step
<1>10. Builds
  BY <1>1, <1>6, <1>7, <1>8, <1>9 DEF Builds
<1> QED  BY <1>2, <1>3, <1>5, <1>6, <1>7, <1>10

\* CompleteNew: the new category has the production of an item that has ended.
LEMMA CompleteNewDerived ==
  ASSUME NEW h, ChartInv, ChartInv', ChartDerived(h), CompleteNew
  PROVE  ChartDerived(h)'
<1>1. /\ ~Idle /\ Top.k = "complete" /\ Top.item.conts \notin DOMAIN parsing.generated
      /\ UNCHANGED <<concr, parses, conts>>
  BY DEF CompleteNew
<1>2. PICK item, done, p, fid : item = Top.item /\ done = item.conts /\ p = parsing.parse /\ fid = next_fid - 1
  OBVIOUS
<1>3. PICK prod, f : /\ prod = DoneProd(item)
                     /\ f = [k |-> "conts", conts |-> done, cat |-> fid, todo |-> conts[done]]
  OBVIOUS
<1>4. Become(f)
  BY <1>2, <1>3 DEF CompleteNew, FreshFid
<1>5. /\ Builds /\ parsing'.seen = parsing.seen
      /\ fid \notin Fids /\ ccats'[fid].prods = <<prod>>
      /\ \A c \in DOMAIN ccats : ccats'[c] = ccats[c]
      /\ DOMAIN parsing'.generated = DOMAIN parsing.generated \cup {done}
      /\ parsing'.generated[done] = fid
      /\ \A c \in DOMAIN parsing.generated : parsing'.generated[c] = parsing.generated[c]
  BY <1>2, <1>3, CompleteNewBuilds
<1>6. item \in parsing.seen /\ AtEnd(item) /\ p > 0
  BY <1>1, <1>2, TopDerived DEF FrameDerived, FrameOK
<1>7. Ended(h, p, done, prod)'
  <2>1. item \in SeenAt(h, p)'
    BY <1>2, <1>5, <1>6 DEF SeenAt, Builds
  <2>2. AtEnd(item)'
    BY <1>5, <1>6, LinKept DEF Builds
  <2> QED  BY <1>2, <1>3, <2>1, <2>2 DEF Ended, DoneProd
<1>8. \A c \in DOMAIN parsing.generated : parsing.generated[c] \in DOMAIN ccats
  BY DEF ChartInv, ParsingOK
<1>9. \A cid \in DOMAIN parsing'.generated :
        \A pr \in Members(ccats'[parsing'.generated[cid]].prods) :
          \/ cid \in DOMAIN parsing.generated /\ pr \in Members(ccats[parsing.generated[cid]].prods)
          \/ Ended(h, p, cid, pr)'
  <2>1. Members(ccats'[fid].prods) = {prod}
    BY <1>5, NewSeqs
  <2> QED  BY <1>5, <1>7, <1>8, <2>1
<1>10. \A c, d \in DOMAIN parsing'.generated : parsing'.generated[c] = parsing'.generated[d] => c = d
  <2>1. fid \notin DOMAIN ccats
    BY <1>5 DEF Fids
  <2>2. \A c, d \in DOMAIN parsing.generated : parsing.generated[c] = parsing.generated[d] => c = d
    BY DEF ChartDerived, Older
  <2> QED  BY <1>5, <1>8, <2>1, <2>2
<1>11. FrameDerived(h, f)'
  <2>1. f.k = "conts" /\ f.conts = done /\ f.cat = fid
    BY <1>3
  <2> QED  BY <1>5, <2>1 DEF FrameDerived
<1>12. \A g \in Pending' : g \in Pending \/ FrameDerived(h, g)'
  BY <1>1, <1>4, <1>11, BecomeLeaves
<1>13. ContsSeen(h)
  BY DEF ChartDerived
<1> QED  BY <1>1, <1>2, <1>5, <1>6, <1>9, <1>10, <1>12, <1>13, DerivedKept DEF ContsSeen

\* A frame goes on with the enumeration of one that is pending.
GoesOn(f) ==
  f.k = "conts" /\ \E g \in Pending : g.k = "conts" /\ f.conts = g.conts /\ f.cat = g.cat

\* The frame of an enumeration goes on with the same category and continuations.
LEMMA InsertContLeaves ==
  ASSUME ChartInv, ~Idle, NEW cid, NEW item, NEW loop,
         NEW n \in 2..Len(stack), Enumerating(stack[n], cid),
         NEW todo \in StillToVisit(stack[n].todo, cid, item),
         stack' = [stack EXCEPT ![1] = loop, ![n].todo = todo]
  PROVE  \A f \in Pending' : f \in Pending \/ f = loop \/ GoesOn(f)
<1>1. IsSeq(stack) /\ Len(stack) \in Nat \ {0} /\ DOMAIN stack = 1..Len(stack)
  BY TopOK, IsSeqFacts DEF ChartInv
<1>2. PICK f, g, s, t : /\ f = stack[n] /\ g = [f EXCEPT !.todo = todo] /\ t = stack'
                        /\ s = [stack EXCEPT ![1] = loop]
  OBVIOUS
<1>3. f \in Pending /\ f.k = "conts" /\ f.conts = cid
  BY <1>1, <1>2 DEF Pending, Members, Enumerating
<1>4. DOMAIN f = {"k", "conts", "cat", "todo"}
  BY <1>3 DEF ChartInv, StackOK, FrameOK, Pending
<1>5. g.k = "conts" /\ g.conts = f.conts /\ g.cat = f.cat
  BY <1>2, <1>3, <1>4
<1>6. /\ DOMAIN s = DOMAIN stack /\ n \in DOMAIN s /\ n # 1 /\ 1 \in DOMAIN s
      /\ \A i \in 1..Len(stack) : s[i] = (IF i = 1 THEN loop ELSE stack[i])
  BY <1>1, <1>2
<1>7. s[n] = f /\ t = [s EXCEPT ![n].todo = todo]
  BY <1>1, <1>2, <1>6
<1>8. t = [s EXCEPT ![n] = g]
  BY <1>2, <1>7
<1>9. /\ DOMAIN t = DOMAIN stack /\ t = [i \in DOMAIN t |-> t[i]]
      /\ t[1] = loop /\ t[n] = g
      /\ \A i \in 1..Len(stack) : i # 1 /\ i # n => t[i] = stack[i]
  BY <1>1, <1>6, <1>8
<1>10. Len(t) = Len(stack)
  BY <1>1, <1>9, ExceptIsSeq
<1>11. Pending' = Members(t)
  BY <1>2 DEF Pending, Members
<1>12. \A x \in Members(t) : x \in Pending \/ x = loop \/ x = g
  BY <1>9, <1>10 DEF Members, Pending
<1>13. GoesOn(g)
  BY <1>3, <1>5 DEF GoesOn
<1> QED  BY <1>11, <1>12, <1>13

\* Predict builds on the chart: an item waits.
LEMMA PredictBuilds ==
  ASSUME ChartInv, Predict
  PROVE  LET cid == ContsId(Top.cat, Top.r) IN
         /\ Builds
         /\ conts' # conts =>
              /\ DOMAIN conts' = DOMAIN conts \cup {cid}
              /\ \A x \in conts'[cid] : x = Top.item \/ (cid \in DOMAIN conts /\ x \in conts[cid])
              /\ \A c \in DOMAIN conts : c # cid => conts'[c] = conts[c]
<1>1. /\ ~Idle /\ Top.k = "predict" /\ UNCHANGED <<concr, next_fid, parses, ccats, parsing>>
  BY DEF Predict
<1>2. CASE conts' = conts
  BY <1>1, <1>2, QuietBuilds
<1>3. CASE conts' # conts
  <2>1. PICK item, cat, r, cid : item = Top.item /\ cat = Top.cat /\ r = Top.r /\ cid = ContsId(cat, r)
    OBVIOUS
  <2>2. PICK old, n, loop :
          /\ old = (IF cid \in DOMAIN conts THEN conts[cid] ELSE {}) /\ n = Len(Prods(cat))
          /\ loop = [k |-> "prods", item |-> item, conts |-> cid, i |-> 1, n |-> n]
    OBVIOUS
  <2>3. InsertCont(cid, old, item, loop)
    BY <1>3, <2>1, <2>2 DEF Predict
  <2>4. /\ DOMAIN conts' = DOMAIN conts \cup {cid} /\ conts'[cid] = old \cup {item}
        /\ \A c \in DOMAIN conts : c # cid => conts'[c] = conts[c]
    BY <2>3 DEF InsertCont
  <2>5. Grows
    <3>1. \A fid \in DOMAIN ccats : Len(ccats[fid].prods) \in Nat
      BY IsSeqFacts DEF ChartInv, CatsOK
    <3>2. \A c \in DOMAIN conts : conts[c] \subseteq conts'[c]
      BY <2>2, <2>4
    <3> QED  BY <1>1, <2>4, <3>1, <3>2 DEF Grows
  <2>6. OldKept
    BY StepKeepsOld DEF Step
  <2>7. cid[1] = parsing.parse
    BY <2>1 DEF ContsId
  <2>8. Builds
    BY <1>1, <2>4, <2>5, <2>6, <2>7 DEF Builds
  <2> QED  BY <2>1, <2>2, <2>4, <2>8
<1> QED  BY <1>2, <1>3

\* Predict: the item that waits has been met.
LEMMA PredictDerived ==
  ASSUME NEW h, ChartInv, ChartInv', ChartDerived(h), Predict
  PROVE  ChartDerived(h)'
<1>1. /\ ~Idle /\ Top.k = "predict" /\ UNCHANGED <<concr, next_fid, parses, ccats, parsing>>
  BY DEF Predict
<1>2. PICK item, cat, r, cid, p : /\ item = Top.item /\ cat = Top.cat /\ r = Top.r
                                  /\ cid = ContsId(cat, r) /\ p = parsing.parse
  OBVIOUS
<1>3. cid = <<p, cat, r>> /\ cid[1] = p /\ cid = <<cid[1], cid[2], cid[3]>>
  BY <1>2 DEF ContsId
<1>4. p > 0 /\ p \in 1..Len(parses) /\ IF item = NULL THEN Begins(h, p, cid) ELSE item \in parsing.seen
  BY <1>1, <1>2, TopDerived DEF FrameDerived
<1>5. CASE ~HasProds(cat)
  <2>1. Pop /\ conts' = conts
    BY <1>2, <1>5 DEF Predict
  <2> QED  BY <1>1, <2>1, PopLeaves, QuietDerived
<1>6. CASE HasProds(cat)
  <2>1. PICK old, n, loop :
          /\ old = (IF cid \in DOMAIN conts THEN conts[cid] ELSE {}) /\ n = Len(Prods(cat))
          /\ loop = [k |-> "prods", item |-> item, conts |-> cid, i |-> 1, n |-> n]
    OBVIOUS
  <2>2. IF item \in old THEN Become([loop EXCEPT !.i = n + 1]) /\ UNCHANGED conts
                        ELSE InsertCont(cid, old, item, loop)
    BY <1>2, <1>6, <2>1 DEF Predict
  <2>3. CASE item \in old
    <3>1. PICK f : f = [loop EXCEPT !.i = n + 1]
      OBVIOUS
    <3>2. f.k = "prods" /\ f.item = item /\ f.conts = cid
      BY <2>1, <3>1
    <3>3. Become(f) /\ conts' = conts
      BY <2>2, <2>3, <3>1
    <3>4. item \in conts[cid]
      BY <2>1, <2>3
    <3>5. FrameDerived(h, f)
      BY <1>2, <1>3, <3>2, <3>4 DEF FrameDerived
    <3> QED  BY <1>1, <3>3, <3>5, BecomeLeaves, QuietDerived
  <2>4. CASE item \notin old
    <3>1. InsertCont(cid, old, item, loop)
      BY <2>2, <2>4
    <3>2. /\ DOMAIN conts' = DOMAIN conts \cup {cid} /\ conts'[cid] = old \cup {item}
          /\ \A c \in DOMAIN conts : c # cid => conts'[c] = conts[c]
      BY <3>1 DEF InsertCont
    <3>3. Builds
      BY PredictBuilds
    <3>4. FrameDerived(h, loop)'
      <4>1. loop.k = "prods" /\ loop.item = item /\ loop.conts = cid
        BY <2>1
      <4>2. parsing'.parse = p
        BY <1>1, <1>2
      <4> QED  BY <1>3, <3>2, <4>1, <4>2 DEF FrameDerived
    <3>5. \A f \in Pending' : f \in Pending \/ f = loop \/ GoesOn(f)
      <4>1. CASE Become(loop)
        BY <1>1, <4>1, BecomeLeaves
      <4>2. ASSUME NEW m \in 2..Len(stack), Enumerating(stack[m], cid),
                   NEW todo \in StillToVisit(stack[m].todo, cid, item),
                   stack' = [stack EXCEPT ![1] = loop, ![m].todo = todo]
            PROVE  \A f \in Pending' : f \in Pending \/ f = loop \/ GoesOn(f)
        BY <1>1, <4>2, InsertContLeaves
      <4> QED  BY <3>1, <4>1, <4>2 DEF InsertCont
    <3>6. \A f \in Pending' : f \in Pending \/ FrameDerived(h, f)'
      <4>1. ASSUME NEW f, GoesOn(f)
            PROVE  FrameDerived(h, f)'
        <5> PICK g \in Pending : f.k = "conts" /\ g.k = "conts" /\ f.conts = g.conts /\ f.cat = g.cat
          BY <4>1 DEF GoesOn
        <5>1. FrameDerived(h, g)
          BY DEF ChartDerived, FramesDerived
        <5>2. f.conts \in DOMAIN parsing'.generated /\ f.cat = parsing'.generated[f.conts]
          BY <1>1, <4>1, <5>1 DEF FrameDerived
        <5> QED  BY <4>1, <5>2 DEF FrameDerived
      <4> QED  BY <3>4, <3>5, <4>1
    <3>7. \A c \in DOMAIN conts' :
            /\ c \in DOMAIN conts \/ c = <<c[1], c[2], c[3]>>
            /\ \A x \in conts'[c] :
                 \/ c \in DOMAIN conts /\ x \in conts[c]
                 \/ /\ c[1] = p
                    /\ IF x = NULL THEN Begins(h, c[1], c)' ELSE x \in parsing'.seen
      <4>1. Begins(h, p, cid) => Begins(h, p, cid)'
        BY <1>1, Zenon DEF Begins, StartCats
      <4>2. \A x \in conts'[cid] :
              (cid \in DOMAIN conts /\ x \in conts[cid]) \/ x = item
        BY <2>1, <3>2
      <4>3. IF item = NULL THEN Begins(h, cid[1], cid)' ELSE item \in parsing'.seen
        BY <1>1, <1>3, <1>4, <4>1
      <4> QED  BY <1>3, <3>2, <4>2, <4>3, SMTT(30)
    <3>8. Older(h)
      BY DEF ChartDerived
    <3> QED  BY <1>1, <1>2, <1>4, <3>3, <3>6, <3>7, <3>8, DerivedKept DEF Older
  <2> QED  BY <2>3, <2>4
<1> QED  BY <1>5, <1>6

-----------------------------------------------------------------------------
(* A parse begins *)

\* The history, when a parse begins from an earlier one with a token.
Extended(h, from, tok) ==
  [q \in 1..(Len(parses) + 1) |->
     IF q = Len(parses) + 1
     THEN [from |-> from, tok |-> tok, seen |-> {}, generated |-> <<>>]
     ELSE [from |-> h[q].from, tok |-> h[q].tok, seen |-> SeenAt(h, q), generated |-> GenAt(h, q)]]

\* What there is at the beginning of a parse.
LEMMA BegunFacts ==
  ASSUME NEW h, ChartInv, ChartDerived(h), NEW start, NEW toks, NEW calls, Begin(start, toks, calls),
         NEW from, NEW tok, NEW g, g = Extended(h, from, tok), NEW n, n = Len(parses),
         NEW m, m = n + 1
  PROVE  /\ n \in Nat /\ Len(parses') = m /\ parsing'.parse = m /\ DOMAIN g = 1..m
         /\ parses'[m] = NewParse(start, toks) /\ g[m].from = from /\ g[m].tok = tok
         /\ SeenAt(g, m)' = {} /\ DOMAIN GenAt(g, m)' = {}
<1>1. /\ parses' = Append(parses, NewParse(start, toks)) /\ parsing' = NewParsing(m)
  BY DEF Begin
<1>2. n \in Nat /\ m = n + 1 /\ IsSeq(parses)
  BY IsSeqFacts DEF ChartInv, ParsesOK
<1>3. Len(parses') = m /\ parses'[m] = NewParse(start, toks)
  BY <1>1, <1>2, AppendSeq
<1>4. parsing'.parse = m /\ parsing'.seen = {} /\ parsing'.generated = <<>>
  BY <1>1 DEF NewParsing
<1>5. SeenAt(g, m)' = {} /\ DOMAIN GenAt(g, m)' = {}
  BY <1>4 DEF SeenAt, GenAt
<1>6. DOMAIN g = 1..(m) /\ g[m].from = from /\ g[m].tok = tok
  BY <1>2 DEF Extended
<1> QED  BY <1>2, <1>3, <1>4, <1>5, <1>6

\* What an earlier parse holds is the same when one begins.
LEMMA BegunSame ==
  ASSUME NEW h, ChartInv, ChartDerived(h), NEW start, NEW toks, NEW calls, Begin(start, toks, calls),
         NEW from, NEW tok, NEW g, g = Extended(h, from, tok), NEW n, n = Len(parses),
         NEW m, m = n + 1, NEW q \in 1..n
  PROVE  /\ q \in 1..m /\ q # m /\ parses'[q] = parses[q]
         /\ g[q].from = h[q].from /\ g[q].tok = h[q].tok
         /\ SeenAt(g, q)' = SeenAt(h, q) /\ GenAt(g, q)' = GenAt(h, q)
<1>1. /\ parses' = Append(parses, NewParse(start, toks)) /\ parsing' = NewParsing(m)
  BY DEF Begin
<1>2. n \in Nat /\ m = n + 1 /\ IsSeq(parses)
  BY IsSeqFacts DEF ChartInv, ParsesOK
<1>3. parses'[q] = parses[q]
  BY <1>1, <1>2, AppendSeq
<1>4. parsing'.parse = m
  BY <1>1 DEF NewParsing
<1>5. /\ q \in 1..m /\ q # m /\ g[q].from = h[q].from /\ g[q].tok = h[q].tok
      /\ g[q].seen = SeenAt(h, q) /\ g[q].generated = GenAt(h, q)
  BY <1>2 DEF Extended
<1>6. SeenAt(g, q)' = SeenAt(h, q) /\ GenAt(g, q)' = GenAt(h, q)
  <2>1. q # parsing'.parse
    BY <1>2, <1>4
  <2>2. SeenAt(g, q)' = g[q].seen /\ GenAt(g, q)' = g[q].generated
    BY <2>1 DEF SeenAt, GenAt
  <2> QED  BY <1>5, <2>2
<1> QED  BY <1>3, <1>5, <1>6

\* The parses there are stay as they are.
LEMMA BegunOld ==
  ASSUME NEW h, ChartInv, ChartDerived(h), NEW start, NEW toks, NEW calls, Begin(start, toks, calls),
         NEW from, NEW tok, NEW g, g = Extended(h, from, tok), NEW p \in 1..Len(parses)
  PROVE  ParseDerived(g, p)'
<1>1. UNCHANGED <<concr, next_fid, ccats, conts>>
  BY DEF Begin
<1>2. PICK n : n = Len(parses)
  OBVIOUS
<1>3. /\ parses'[p] = parses[p] /\ g[p].from = h[p].from /\ g[p].tok = h[p].tok
      /\ SeenAt(g, p)' = SeenAt(h, p) /\ GenAt(g, p)' = GenAt(h, p)
  BY <1>2, BegunSame
<1>4. h[p].from > 0 => parses'[h[p].from] = parses[h[p].from]
  <2>1. ASSUME NEW q \in 1..n
        PROVE  parses'[q] = parses[q]
    BY <1>2, BegunSame
  <2> QED  BY <1>2, <2>1, DerivedFacts
<1>5. ParseDerived(h, p) /\ Grows
  BY <1>1, DerivedFacts, QuietGrows DEF ChartInv
<1>6. \A item : /\ AtEnd(item)' = AtEnd(item) /\ \A tk : Matching(item, tk)' = Matching(item, tk)
                /\ \A i : Scanned(item, i)' = Scanned(item, i)
                /\ \A f : Combined(item, f)' = Combined(item, f)
  BY <1>1 DEF AtEnd, Matching, OpenForms, Scanned, Combined, CurrSym, Lin
<1>7. \A c : Prods(c)' = Prods(c) /\ HasProds(c)' = HasProds(c) /\ CncCat(c)' = CncCat(c)
  BY <1>1 DEF Prods, HasProds, CncCat
<1>8. ASSUME NEW item, Derived(h, p, item)
      PROVE  Derived(g, p, item)'
  <2>1. CASE FromProd(p, item)
    <3>1. FromProd(p, item)'
      BY <1>1, <1>7, <2>1 DEF FromProd
    <3> QED  BY <3>1 DEF Derived
  <2>2. CASE FromToken(h, p, item)
    <3>1. FromToken(g, p, item)'
      BY <1>3, <1>4, <1>6, <2>2 DEF FromToken
    <3> QED  BY <3>1 DEF Derived
  <2>3. CASE FromCat(h, p, item)
    <3>1. FromCat(g, p, item)'
      BY <1>1, <1>3, <1>6, <2>3 DEF FromCat
    <3> QED  BY <3>1 DEF Derived
  <2> QED  BY <1>8, <2>1, <2>2, <2>3 DEF Derived
<1>9. SeenDerived(g, p)'
  <2>1. ASSUME NEW item \in SeenAt(h, p)
        PROVE  ItemOK(item)' /\ item.conts[1] <= p /\ Derived(g, p, item)'
    BY <1>5, <1>8, ItemKept DEF ParseDerived, SeenDerived, ChartInv
  <2> QED  BY <1>3, <2>1 DEF SeenDerived
<1>10. CatsEnded(g, p)'
  <2>1. \A cid, prod : Ended(h, p, cid, prod) => Ended(g, p, cid, prod)'
    BY <1>3, <1>6 DEF Ended, DoneProd
  <2> QED  BY <1>1, <1>3, <1>5, <1>7, <2>1 DEF ParseDerived, CatsEnded
<1>11. FiledSeen(g, p)'
  BY <1>3, <1>5 DEF ParseDerived, FiledSeen
<1>12. SentencesEnded(g, p)'
  BY <1>1, <1>3, <1>5 DEF ParseDerived, SentencesEnded
<1> QED  BY <1>9, <1>10, <1>11, <1>12 DEF ParseDerived

\* A parse begins with a category, or from an earlier parse with a token.
GoesOnFrom(from, tok, start, toks) ==
  /\ from \in 0..Len(parses) /\ toks \in Seq(Tokens)
  /\ from = 0 => toks = <<>>
  /\ from > 0 => /\ tok \in Tokens /\ start = parses[from].start
                 /\ toks = Append(parses[from].toks, tok)

AllDerived(h, frames) == \A f \in frames : FrameDerived(h, f)

\* The chart is derived when a parse begins.
LEMMA BeginDerived ==
  ASSUME NEW h, ChartInv, ChartInv', ChartDerived(h),
         NEW start, NEW toks, NEW calls, Begin(start, toks, calls),
         NEW from, NEW tok, GoesOnFrom(from, tok, start, toks),
         NEW g, g = Extended(h, from, tok), NEW frames, frames = Members(calls), AllDerived(g, frames)'
  PROVE  ChartDerived(g)'
<1>0. /\ from \in 0..Len(parses) /\ toks \in Seq(Tokens)
      /\ from = 0 => toks = <<>>
      /\ from > 0 => /\ tok \in Tokens /\ start = parses[from].start
                     /\ toks = Append(parses[from].toks, tok)
  BY DEF GoesOnFrom
<1>1. UNCHANGED <<concr, next_fid, ccats, conts>> /\ stack' = calls /\ Idle
  BY DEF Begin
<1>2. PICK n, m : n = Len(parses) /\ m = n + 1
  OBVIOUS
<1>3. /\ n \in Nat /\ Len(parses') = m /\ parsing'.parse = m /\ DOMAIN g = 1..m
      /\ parses'[m] = NewParse(start, toks) /\ g[m].from = from /\ g[m].tok = tok
      /\ SeenAt(g, m)' = {} /\ DOMAIN GenAt(g, m)' = {}
  BY <1>2, BegunFacts
<1>4. ASSUME NEW q \in 1..n
      PROVE  /\ q \in 1..m /\ q # m /\ parses'[q] = parses[q]
             /\ g[q].from = h[q].from /\ g[q].tok = h[q].tok
             /\ SeenAt(g, q)' = SeenAt(h, q) /\ GenAt(g, q)' = GenAt(h, q)
  BY <1>2, <1>4, BegunSame
<1>5. \A q \in 1..m : q = m \/ q \in 1..n
  BY <1>2, <1>3
<1>6. /\ parses'[m].start = start /\ parses'[m].toks = toks /\ parses'[m].fid = next_fid
      /\ parses'[m].completed = <<>> /\ \A tk \in Tokens : parses'[m].transitions[tk] = {}
  BY <1>3, SMTT(30) DEF NewParse
<1>7. Lineage(g)'
  <2>1. ASSUME NEW q \in 1..n
        PROVE  /\ g[q].from \in 0..(q - 1) /\ parses'[q].toks \in Seq(Tokens)
               /\ g[q].from = 0 => parses'[q].toks = <<>>
               /\ g[q].from > 0 =>
                    /\ g[q].tok \in Tokens /\ parses'[q].start = parses'[g[q].from].start
                    /\ parses'[q].toks = Append(parses'[g[q].from].toks, g[q].tok)
    <3>1. h[q].from > 0 => parses'[h[q].from] = parses[h[q].from]
      <4>1. \A x \in 1..n : parses'[x] = parses[x]
        BY <1>4
      <4> QED  BY <1>2, <4>1, DerivedFacts
    <3>2. /\ h[q].from \in 0..(q - 1) /\ parses[q].toks \in Seq(Tokens)
          /\ h[q].from = 0 => parses[q].toks = <<>>
          /\ h[q].from > 0 =>
               /\ h[q].tok \in Tokens /\ parses[q].start = parses[h[q].from].start
               /\ parses[q].toks = Append(parses[h[q].from].toks, h[q].tok)
      BY <1>2 DEF ChartDerived, Lineage
    <3>3. parses'[q] = parses[q] /\ g[q].from = h[q].from /\ g[q].tok = h[q].tok
      BY <1>4
    <3> QED  BY <3>1, <3>2, <3>3
  <2>2. /\ g[m].from \in 0..(m - 1) /\ parses'[m].toks \in Seq(Tokens)
        /\ g[m].from = 0 => parses'[m].toks = <<>>
        /\ g[m].from > 0 =>
             /\ g[m].tok \in Tokens /\ parses'[m].start = parses'[g[m].from].start
             /\ parses'[m].toks = Append(parses'[g[m].from].toks, g[m].tok)
    <3>0. n \in Nat /\ m = n + 1 /\ from \in 0..n
      <4>1. n \in Nat
        BY <1>3
      <4>2. from \in 0..Len(parses)
        BY <1>0
      <4> QED  BY <1>2, <4>1, <4>2
    <3>1. from > 0 => from \in 1..n
      BY ONLY <3>0
    <3>2. from \in 0..(m - 1)
      BY ONLY <3>0
    <3> QED  BY <1>0, <1>3, <1>4, <1>6, <3>1, <3>2
  <2> QED  BY <1>3, <1>5, <2>1, <2>2 DEF Lineage
<1>8. Older(g)'
  <2>1. \A c \in Fids : c >= next_fid
    <3>1. next_fid \in Int /\ next_fid <= PGF_FID_SYNTHETIC
      BY DEF ChartInv, CatsOK
    <3>2. \A c \in DOMAIN concr.cat : c \in Int /\ c > PGF_FID_SYNTHETIC
      BY GrammarFacts DEF ChartInv, WellFormed
    <3>3. \A c \in DOMAIN ccats : c >= next_fid
      BY DEF ChartInv, CatsOK
    <3>4. \A c \in DOMAIN concr.cat : c >= next_fid
      BY <3>1, <3>2 DEF PGF_FID_SYNTHETIC
    <3> QED  BY <3>3, <3>4 DEF Fids
  <2>2. ASSUME NEW q \in 1..n, NEW cid \in DOMAIN GenAt(g, q)'
        PROVE  GenAt(g, q)'[cid] >= next_fid
    <3>1. GenAt(h, q)[cid] \in DOMAIN ccats
      BY <1>2, <1>4, DerivedFacts DEF ParseDerived, CatsEnded
    <3> QED  BY <1>4, <2>1, <3>1 DEF Fids
  <2>3. \A cid \in DOMAIN conts' : cid[2] >= next_fid
    BY <1>1, <2>1 DEF ChartInv, ContsOK
  <2>4. DOMAIN parsing'.generated = {}
    BY <1>3 DEF GenAt
  <2> QED  BY <1>3, <1>5, <1>6, <2>2, <2>3, <2>4 DEF Older
<1>9. ContsSeen(g)'
  <2> SUFFICES ASSUME NEW cid \in DOMAIN conts
               PROVE  /\ cid = <<cid[1], cid[2], cid[3]>>
                      /\ \A item \in conts[cid] :
                           IF item = NULL THEN Begins(g, cid[1], cid)' ELSE item \in SeenAt(g, cid[1])'
    BY <1>1 DEF ContsSeen
  <2>1. PICK q : q = cid[1]
    OBVIOUS
  <2>2. q \in 1..n
    BY <1>2, <2>1, IsSeqFacts, SMTT(30) DEF ChartInv, ContsOK, ParsesOK
  <2>3. Begins(h, q, cid) => Begins(g, q, cid)'
    <3>1. parses'[q] = parses[q] /\ g[q].from = h[q].from
      BY <1>4, <2>2
    <3> QED  BY <1>1, <3>1, Zenon DEF Begins, StartCats
  <2> QED  BY <1>4, <2>1, <2>2, <2>3 DEF ChartDerived, ContsSeen
<1>10. FramesDerived(g)'
  BY <1>1 DEF AllDerived, FramesDerived, Pending, Members
<1>11. ParseDerived(g, m)'
  <2>1. SeenDerived(g, m)' /\ CatsEnded(g, m)'
    BY <1>3 DEF SeenDerived, CatsEnded
  <2>2. FiledSeen(g, m)' /\ SentencesEnded(g, m)'
    BY <1>6, NewSeqs DEF FiledSeen, SentencesEnded
  <2> QED  BY <2>1, <2>2 DEF ParseDerived
<1>12. \A q \in 1..m : ParseDerived(g, q)'
  BY <1>2, <1>5, <1>11, BegunOld
<1> QED  BY <1>3, <1>7, <1>8, <1>9, <1>10, <1>12 DEF ChartDerived

\* pgf_parser_parse begins a parse with a category.
LEMMA ParseDerives ==
  ASSUME NEW h, ChartInv, ChartInv', ChartDerived(h), NEW cat, NEW r, pgf_parser_parse(cat, r),
         NEW tok, NEW g, g = Extended(h, 0, tok)
  PROVE  ChartDerived(g)'
<1>1. PICK start, calls : /\ start = <<cat, r>>
                          /\ calls = IF cat \in DOMAIN concr.cnccats
                                     THEN <<[k |-> "start", cats |-> concr.cnccats[cat].cats, r |-> r]>>
                                     ELSE <<>>
  OBVIOUS
<1>2. Begin(start, <<>>, calls) /\ concr' = concr
  BY <1>1 DEF pgf_parser_parse, Begin
<1>3. PICK n, m : n = Len(parses) /\ m = n + 1
  OBVIOUS
<1>4. n \in Nat /\ 0 \in 0..n
  BY <1>3, IsSeqFacts DEF ChartInv, ParsesOK
<1>5. parsing'.parse = m /\ parses'[m] = NewParse(start, <<>>) /\ g[m].from = 0
  BY <1>1, <1>2, <1>3, BegunFacts
<1>6. parses'[m].start = <<cat, r>>
  BY <1>1, <1>5 DEF NewParse
<1>7. ASSUME NEW f \in Members(calls)
      PROVE  FrameDerived(g, f)'
  <2>1. cat \in DOMAIN concr.cnccats
    BY <1>1, <1>7, NewSeqs
  <2>2. f = [k |-> "start", cats |-> concr.cnccats[cat].cats, r |-> r]
    BY <1>1, <1>7, <2>1, NewSeqs
  <2>3. PICK cats : cats = concr.cnccats[cat].cats
    OBVIOUS
  <2>4. f.k = "start" /\ f.cats = cats /\ f.r = r
    BY <2>2, <2>3
  <2>5. IsSeq(cats)
    BY <2>1, <2>3, GrammarFacts DEF ChartInv, WellFormed
  <2>6. Members(cats) \subseteq StartCats(cat)
    BY <2>1, <2>3, <2>5, IsSeqFacts DEF Members, StartCats
  <2>8. /\ g[m].from = 0 /\ f.r = parses'[m].start[2]
        /\ Members(f.cats) \subseteq StartCats(parses[m].start[1])'
    <3>1. StartCats(parses[m].start[1])' = StartCats(cat)
      BY <1>2, <1>6 DEF StartCats
    <3> QED  BY <1>5, <1>6, <2>4, <2>6, <3>1
  <2> QED  BY <1>5, <2>4, <2>8 DEF FrameDerived
<1>8. <<>> \in Seq(Tokens)
  BY NoTokens
<1>9. AllDerived(g, Members(calls))'
  <2>1. PICK frames : frames = Members(calls)
    OBVIOUS
  <2>2. AllDerived(g, frames)'
    BY <1>7, <2>1 DEF AllDerived
  <2> QED  BY <2>1, <2>2
<1>10. GoesOnFrom(0, tok, start, <<>>)
  BY <1>3, <1>4, <1>8 DEF GoesOnFrom
<1>11. ChartDerived(g)'
  BY <1>2, <1>9, <1>10, BeginDerived
<1> QED  BY <1>11

\* pgf_parse_token begins a parse from an earlier one.
LEMMA TokenDerives ==
  ASSUME NEW h, ChartInv, ChartInv', ChartDerived(h), NEW p \in DOMAIN parses, NEW tok \in Tokens,
         pgf_parse_token(p, tok), NEW g, g = Extended(h, p, tok)
  PROVE  ChartDerived(g)'
<1>1. PICK start, toks, f : /\ start = parses[p].start /\ toks = Append(parses[p].toks, tok)
                            /\ f = [k |-> "scan", tok |-> tok, agenda |-> parses[p].transitions[tok]]
  OBVIOUS
<1>2. Begin(start, toks, <<f>>)
  BY <1>1 DEF pgf_parse_token
<1>3. PICK n, m : n = Len(parses) /\ m = n + 1
  OBVIOUS
<1>4. p \in 1..n /\ n \in Nat /\ p \in 0..n
  BY <1>3, IsSeqFacts DEF ChartInv, ParsesOK
<1>5. parsing'.parse = m /\ g[m].from = p /\ g[m].tok = tok
  BY <1>2, <1>3, BegunFacts
<1>5a. ASSUME NEW q \in 1..n
       PROVE  parses'[q] = parses[q]
  BY <1>2, <1>3, BegunSame
<1>6. FrameDerived(g, f)'
  <2>1. f.k = "scan" /\ f.tok = tok /\ f.agenda = parses[p].transitions[tok]
    BY <1>1
  <2>2. /\ g[m].from > 0 /\ f.tok = g[m].tok
        /\ f.agenda \subseteq parses'[g[m].from].transitions[g[m].tok]
    BY <1>4, <1>5, <1>5a, <2>1
  <2> QED  BY <1>5, <2>1, <2>2 DEF FrameDerived
<1>7. AllDerived(g, Members(<<f>>))'
  <2>1. PICK frames : frames = Members(<<f>>)
    OBVIOUS
  <2>2. frames = {f}
    BY <2>1, NewSeqs
  <2>3. AllDerived(g, frames)'
    BY <1>6, <2>2 DEF AllDerived
  <2> QED  BY <2>1, <2>3
<1>8. toks \in Seq(Tokens)
  <2>1. parses[p].toks \in Seq(Tokens)
    BY <1>3, <1>4, DerivedFacts
  <2> QED  BY <1>1, <2>1
<1>10. GoesOnFrom(p, tok, start, toks)
  BY <1>1, <1>3, <1>4, <1>8 DEF GoesOnFrom
<1>11. ChartDerived(g)'
  BY <1>2, <1>7, <1>10, BeginDerived
<1> QED  BY <1>11

\* When nothing happens the chart stays derived.
LEMMA StutterDerives ==
  ASSUME NEW h, ChartDerived(h), UNCHANGED vars
  PROVE  ChartDerived(h)'
<1>1. UNCHANGED <<concr, next_fid, parses, ccats, conts, parsing, stack>>
  BY DEF vars
<1>2. /\ \A c : /\ Prods(c)' = Prods(c) /\ HasProds(c)' = HasProds(c) /\ CncCat(c)' = CncCat(c)
                /\ StartCats(c)' = StartCats(c)
      /\ \A item : /\ AtEnd(item)' = AtEnd(item) /\ ItemOK(item)' = ItemOK(item)
                   /\ \A tk : Matching(item, tk)' = Matching(item, tk)
                   /\ \A i : Scanned(item, i)' = Scanned(item, i)
                   /\ \A f : Combined(item, f)' = Combined(item, f)
      /\ \A cat, r : ContsId(cat, r)' = ContsId(cat, r)
  BY <1>1 DEF Prods, HasProds, CncCat, StartCats, AtEnd, Matching, OpenForms, Scanned, Combined, CurrSym,
     Lin, ContsId, ItemOK, ProdOK, ArgCats, Fids, NCtnts
<1>3. \A p : SeenAt(h, p)' = SeenAt(h, p) /\ GenAt(h, p)' = GenAt(h, p)
  BY <1>1 DEF SeenAt, GenAt
<1>4. \A p, item : Derived(h, p, item)' = Derived(h, p, item)
  BY <1>1, <1>2, <1>3 DEF Derived, FromProd, FromToken, FromCat
<1>5. \A p, cid : Begins(h, p, cid)' = Begins(h, p, cid)
  BY <1>1, <1>2 DEF Begins
<1>6. Lineage(h)' /\ Older(h)' /\ ContsSeen(h)'
  BY <1>1, <1>3, <1>5, SMTT(30) DEF ChartDerived, Lineage, Older, ContsSeen
<1>7. FramesDerived(h)'
  <2>1. \A f : FrameDerived(h, f)' = FrameDerived(h, f)
    BY <1>1, <1>2, <1>4, <1>5 DEF FrameDerived
  <2> QED  BY <1>1, <2>1 DEF ChartDerived, FramesDerived, Pending, Members
<1>8. \A p \in 1..Len(parses) : ParseDerived(h, p)'
  <2>1. \A p, cid, prod : Ended(h, p, cid, prod)' = Ended(h, p, cid, prod)
    BY <1>2, <1>3 DEF Ended, DoneProd
  <2> QED  BY <1>1, <1>2, <1>3, <1>4, <2>1
           DEF ChartDerived, ParseDerived, SeenDerived, CatsEnded, FiledSeen, SentencesEnded
<1> QED  BY <1>1, <1>6, <1>7, <1>8 DEF ChartDerived

\* Every step inside a call keeps the chart derived.
LEMMA StepDerives ==
  ASSUME NullIsNoItem, NEW h, ChartInv, ChartInv', ChartDerived(h), Step
  PROVE  ChartDerived(h)'
  BY StartDerived, ScanDerived, ScanFormsDerived, ItemNewDerived, ItemSeenDerived, PredictDerived,
     ProdsLoopDerived, CombineDerived, CompleteOldDerived, ContssLoopDerived, CompleteNewDerived,
     ContsLoopDerived DEF Step

\* A parser without parses has a history without any.
LEMMA InitDerived ==
  ASSUME Init
  PROVE  ChartDerived(<<>>)
<1>1. IsSeq(<<>>) /\ Members(<<>>) = {} /\ DOMAIN <<>> = {} /\ Len(<<>>) = 0 /\ 1..0 = {}
  BY NewSeqs
<1>2. parses = <<>> /\ conts = <<>> /\ stack = <<>> /\ parsing.parse = 0 /\ parsing.generated = <<>>
  BY DEF Init, NewParsing
<1>3. Lineage(<<>>)
  BY <1>1, <1>2 DEF Lineage
<1>4. Older(<<>>) /\ ContsSeen(<<>>) /\ FramesDerived(<<>>)
  BY <1>1, <1>2 DEF Older, ContsSeen, FramesDerived, Pending
<1> QED  BY <1>1, <1>2, <1>3, <1>4 DEF ChartDerived

\* Every step keeps the chart derived, with some history.
LEMMA NextDerives ==
  ASSUME NullIsNoItem, ChartInv, ChartInv', [Next]_vars, \E h : ChartDerived(h)
  PROVE  \E h : ChartDerived(h)'
<1> PICK h : ChartDerived(h)
  OBVIOUS
<1>1. ASSUME NEW cat \in concr.abscats, NEW r \in CtntIds(cat), pgf_parser_parse(cat, r)
      PROVE  \E g : ChartDerived(g)'
  <2>1. PICK g : g = Extended(h, 0, 0)
    OBVIOUS
  <2>2. ChartDerived(g)'
    BY <1>1, <2>1, ParseDerives
  <2> QED  BY <2>2
<1>2. ASSUME NEW p \in DOMAIN parses, NEW tok \in Tokens, pgf_parse_token(p, tok)
      PROVE  \E g : ChartDerived(g)'
  <2>1. PICK g : g = Extended(h, p, tok)
    OBVIOUS
  <2>2. ChartDerived(g)'
    BY <1>2, <2>1, TokenDerives
  <2> QED  BY <2>2
<1>3. CASE Step
  BY <1>3, StepDerives
<1>4. CASE UNCHANGED vars
  BY <1>4, StutterDerives
<1> QED  BY <1>1, <1>2, <1>3, <1>4 DEF Next

\* At any time, some history accounts for the chart.
Accounted == \E h : ChartDerived(h)

\* Nothing wrong is ever found: in every parse, also while it is being built, every tree of
\* a category that was completed is a tree of the grammar whose constituent yields the
\* tokens of the parse, whether or not a hash table is resized while it is enumerated.
THEOREM FindsOnlyTrees ==
  ASSUME NullIsNoItem
  PROVE  Spec => []FoundAreTrees
<1>1. Init => Accounted
  <2> SUFFICES ASSUME Init
               PROVE  Accounted
    OBVIOUS
  <2>1. PICK h : h = <<>>
    OBVIOUS
  <2> QED  BY <2>1, InitDerived DEF Accounted
<1>2. ChartInv /\ ChartInv' /\ Accounted /\ [Next]_vars => Accounted'
  BY NextDerives DEF Accounted
<1>3. ChartInv /\ Accounted => FoundAreTrees
  BY DerivedAreTrees DEF Accounted
<1> QED  BY <1>1, <1>2, <1>3, ChartInvHolds, PTL DEF Spec

-----------------------------------------------------------------------------
(* A parse that is finished is closed *)

\* Everything that a rule of the parser yields is in parse p.
ProdsClosed(h, p) ==
  \A cid \in DOMAIN conts : cid[1] = p /\ HasProds(cid[2]) =>
    \A prod \in Members(Prods(cid[2])) : pgf_new_item(cid, prod) \in SeenAt(h, p)

CatsClosed(h, p) ==
  \A cid \in DOMAIN GenAt(h, p) : \A cont \in conts[cid] :
    IF cont = NULL THEN GenAt(h, p)[cid] \in Members(parses[p].completed)
    ELSE Combined(cont, GenAt(h, p)[cid]) \in SeenAt(h, p)

ItemClosed(h, p, item) ==
  /\ AtEnd(item) =>
       /\ item.conts \in DOMAIN GenAt(h, p)
       /\ DoneProd(item) \in Members(ccats[GenAt(h, p)[item.conts]].prods)
  /\ ~AtEnd(item) /\ CurrSym(item).t = "cat" /\ HasProds(PredictedCat(item)) =>
       LET cid == <<p, PredictedCat(item), CurrSym(item).r>>
       IN cid \in DOMAIN conts /\ item \in conts[cid]
  /\ ~AtEnd(item) /\ CurrSym(item).t \in {"ks", "kp"} =>
       \A tok \in Expected(item) : item \in parses[p].transitions[tok]

TokenClosed(h, p) ==
  h[p].from > 0 =>
    \A item \in parses[h[p].from].transitions[h[p].tok] :
      \A i \in Matching(item, h[p].tok) : Scanned(item, i) \in SeenAt(h, p)

StartClosedAt(h, p) ==
  h[p].from = 0 =>
    \A c \in StartCats(parses[p].start[1]) : HasProds(c) =>
      LET cid == <<p, c, parses[p].start[2]>> IN cid \in DOMAIN conts /\ NULL \in conts[cid]

ParseClosed(h, p) ==
  /\ ProdsClosed(h, p) /\ CatsClosed(h, p) /\ TokenClosed(h, p) /\ StartClosedAt(h, p)
  /\ \A item \in SeenAt(h, p) : ItemClosed(h, p, item)

AllClosed(h) == \A p \in 1..Len(parses) : ParseClosed(h, p)

-----------------------------------------------------------------------------
(* No tree is missing *)

\* The tokens i + 1 to j of toks are w.
Fed(toks, i, w, j) ==
  w \in Seq(Tokens) /\ j = i + Len(w) /\ \A l \in 1..Len(w) : w[l] = toks[i + l]

\* The parses c, each begun from the one before it, were fed the tokens toks.
Chain(h, c, toks) ==
  /\ toks \in Seq(Tokens)
  /\ \A i \in 0..Len(toks) : c[i] \in 1..Len(parses)
  /\ h[c[0]].from = 0
  /\ \A i \in 1..Len(toks) : h[c[i]].from = c[i - 1] /\ h[c[i]].tok = toks[i]

\* Tokens fed between two parses are fed up to any one between them, and from there.
LEMMA FedSplit ==
  ASSUME NEW toks, NEW i \in Nat, NEW j, NEW x \in Seq(Tokens), NEW y \in Seq(Tokens), Fed(toks, i, x \o y, j)
  PROVE  \E m \in Nat : m <= j /\ Fed(toks, i, x, m) /\ Fed(toks, m, y, j)
<1>1. PICK a, b, w, m : a = Len(x) /\ b = Len(y) /\ w = x \o y /\ m = i + a
  OBVIOUS
<1>2. a \in Nat /\ b \in Nat
  BY <1>1, LenProperties
<1>3. Len(w) = a + b /\ \A l \in 1..(a + b) : w[l] = IF l <= a THEN x[l] ELSE y[l - a]
  BY <1>1, ConcatProperties
<1>4. j = i + (a + b) /\ \A l \in 1..(a + b) : w[l] = toks[i + l]
  BY <1>1, <1>3 DEF Fed
<1>5. m \in Nat /\ m <= j /\ j = m + b
  <2>1. j = i + (a + b) /\ m = i + a
    BY <1>1, <1>4
  <2> QED  BY ONLY <1>2, <2>1, i \in Nat
<1>6. \A l \in 1..a : x[l] = toks[i + l]
  BY <1>2, <1>3, <1>4
<1>7. ASSUME NEW l \in 1..b
      PROVE  y[l] = toks[m + l]
  <2>1. a + l \in 1..(a + b) /\ ~(a + l <= a) /\ (a + l) - a = l /\ i + (a + l) = m + l
    BY <1>1, <1>2
  <2> QED  BY <1>3, <1>4, <2>1
<1> QED  BY <1>1, <1>2, <1>5, <1>6, <1>7 DEF Fed

\* The parses c led to parse p.
LedTo(h, p, c, toks) ==
  /\ Chain(h, c, toks) /\ toks = parses[p].toks
  /\ c[Len(toks)] = p /\ parses[c[0]].start = parses[p].start

\* A parse comes from one that was begun with a category, token by token.
LEMMA ChainExists ==
  ASSUME NEW h, ChartInv, ChartDerived(h), NEW p \in 1..Len(parses)
  PROVE  \E c, toks : LedTo(h, p, c, toks)
<1> DEFINE T == {k \in 0..Len(parses) : \A q \in 1..k : \E c, toks : LedTo(h, q, c, toks)}
<1>1. Len(parses) \in Nat
  BY IsSeqFacts DEF ChartInv, ParsesOK
<1>2. 0 \in T
  BY <1>1
<1>3. ASSUME NEW k \in 0..(Len(parses) - 1), k \in T
      PROVE  k + 1 \in T
  <2>1. PICK q : q = k + 1
    OBVIOUS
  <2>2. q \in 1..Len(parses) /\ \A r \in 1..k : \E c, toks : LedTo(h, r, c, toks)
    BY <1>1, <1>3, <2>1
  <2>3. /\ h[q].from \in 0..(q - 1) /\ parses[q].toks \in Seq(Tokens)
        /\ h[q].from = 0 => parses[q].toks = <<>>
        /\ h[q].from > 0 =>
             /\ h[q].tok \in Tokens /\ parses[q].start = parses[h[q].from].start
             /\ parses[q].toks = Append(parses[h[q].from].toks, h[q].tok)
    BY <2>2 DEF ChartDerived, Lineage
  <2>4. ASSUME h[q].from = 0
        PROVE  \E c, toks : LedTo(h, q, c, toks)
    <3>1. PICK c : c = [i \in 0..0 |-> q]
      OBVIOUS
    <3>2. c[0] = q /\ parses[q].toks = <<>> /\ Len(<<>>) = 0
      BY <2>3, <2>4, <3>1
    <3>3. PICK toks : toks = parses[q].toks
      OBVIOUS
    <3>4. toks \in Seq(Tokens) /\ Len(toks) = 0
      BY <2>3, <3>2, <3>3
    <3>5. \A i \in 0..0 : c[i] \in 1..Len(parses)
      BY <2>2, <3>1
    <3>6. Chain(h, c, toks)
      BY <2>4, <3>2, <3>4, <3>5 DEF Chain
    <3> QED  BY <3>2, <3>3, <3>4, <3>6 DEF LedTo
  <2>5. ASSUME h[q].from > 0
        PROVE  \E c, toks : LedTo(h, q, c, toks)
    <3>1. PICK r, tok, old, toks : /\ r = h[q].from /\ tok = h[q].tok /\ old = parses[r].toks
                                   /\ toks = parses[q].toks
      OBVIOUS
    <3>2. r \in 1..k
      BY <2>1, <2>3, <2>5, <3>1
    <3>3. PICK c : Chain(h, c, old) /\ c[Len(old)] = r /\ parses[c[0]].start = parses[r].start
      <4>1. PICK c, ts : LedTo(h, r, c, ts)
        BY <2>2, <3>2, SMTT(30)
      <4> QED  BY <3>1, <4>1 DEF LedTo
    <3>4. /\ old \in Seq(Tokens) /\ tok \in Tokens /\ toks = Append(old, tok)
          /\ parses[q].start = parses[r].start
      BY <2>3, <2>5, <3>1, <3>3 DEF Chain
    <3>5. PICK n : n = Len(old)
      OBVIOUS
    <3>6. /\ n \in Nat /\ toks \in Seq(Tokens) /\ Len(toks) = n + 1 /\ toks[n + 1] = tok
          /\ \A i \in 1..n : toks[i] = old[i]
      BY <3>4, <3>5, AppendProperties, LenProperties
    <3>7. PICK d : d = [i \in 0..(n + 1) |-> IF i = n + 1 THEN q ELSE c[i]]
      OBVIOUS
    <3>8. d[n + 1] = q /\ \A i \in 0..n : d[i] = c[i]
      BY <3>6, <3>7
    <3>9. /\ \A i \in 0..n : c[i] \in 1..Len(parses)
          /\ h[c[0]].from = 0
          /\ \A i \in 1..n : h[c[i]].from = c[i - 1] /\ h[c[i]].tok = old[i]
      BY <3>3, <3>5 DEF Chain
    <3>10. ASSUME NEW i \in 0..(n + 1)
           PROVE  d[i] \in 1..Len(parses)
      <4>1. i = n + 1 \/ i \in 0..n
        BY <3>6
      <4> QED  BY <2>2, <3>8, <3>9, <4>1
    <3>11. \A i \in 1..n : i \in 0..n /\ i - 1 \in 0..n
      BY <3>6
    <3>12. 0 \in 0..n /\ (n + 1) - 1 = n /\ n \in 0..n
      BY <3>6
    <3>13. ASSUME NEW i \in 1..(n + 1)
           PROVE  h[d[i]].from = d[i - 1] /\ h[d[i]].tok = toks[i]
      <4>1. CASE i = n + 1
        BY <3>1, <3>3, <3>5, <3>6, <3>8, <3>12, <4>1
      <4>2. CASE i \in 1..n
        BY <3>6, <3>8, <3>9, <3>11, <4>2
      <4> QED  BY <3>6, <4>1, <4>2, SMTT(30)
    <3>14. h[d[0]].from = 0 /\ d[0] = c[0]
      BY <3>8, <3>9, <3>12
    <3>15. Chain(h, d, toks) /\ d[Len(toks)] = q
      BY <3>6, <3>8, <3>10, <3>13, <3>14 DEF Chain
    <3>16. parses[d[0]].start = parses[q].start
      BY <3>3, <3>4, <3>14
    <3> QED  BY <3>1, <3>15, <3>16 DEF LedTo
  <2>6. \E c, toks : LedTo(h, q, c, toks)
    BY <2>3, <2>4, <2>5
  <2>7. \A r \in 1..(k + 1) : r = q \/ r \in 1..k
    BY <2>1
  <2> QED  BY <1>1, <2>2, <2>6, <2>7, SMTT(30)
<1>4. \A k \in 0..Len(parses) : k \in T
  <2> HIDE DEF T
  <2> QED  BY <1>1, <1>2, <1>3, InductionUpTo
<1>5. p \in 0..Len(parses) /\ p \in 1..p
  BY <1>1
<1> QED  BY <1>4, <1>5

\* From one parse of the chain to the next.
LEMMA ChainStep ==
  ASSUME NEW h, NEW c, NEW toks, Chain(h, c, toks), NEW q \in Nat, q + 1 <= Len(toks)
  PROVE  /\ c[q] \in 1..Len(parses) /\ c[q + 1] \in 1..Len(parses)
         /\ h[c[q + 1]].from = c[q] /\ h[c[q + 1]].tok = toks[q + 1] /\ toks[q + 1] \in Tokens
<1>1. Len(toks) \in Nat /\ toks \in Seq(Tokens)
  BY LenProperties DEF Chain
<1>2. q \in 0..Len(toks) /\ q + 1 \in 0..Len(toks) /\ q + 1 \in 1..Len(toks) /\ (q + 1) - 1 = q
  BY <1>1
<1>3. toks[q + 1] \in Tokens
  BY <1>1, <1>2, ElementOfSeq
<1> QED  BY <1>2, <1>3 DEF Chain

\* An item that waits for the next token meets it in the next parse.
LEMMA ScanOn ==
  ASSUME NEW h, ChartInv, ChartDerived(h), AllClosed(h), NEW c, NEW toks, Chain(h, c, toks),
         NEW q \in Nat, q + 1 <= Len(toks), NEW item \in SeenAt(h, c[q]), BeforeToken(item),
         NEW i \in OpenForms(item), Forms(CurrSym(item))[i][item.tok_idx + 1] = toks[q + 1]
  PROVE  Scanned(item, i) \in SeenAt(h, c[q + 1]) /\ ItemOK(Scanned(item, i))
<1>1. PICK a, b, tok : a = c[q] /\ b = c[q + 1] /\ tok = toks[q + 1]
  OBVIOUS
<1>2. a \in 1..Len(parses) /\ b \in 1..Len(parses) /\ h[b].from = a /\ h[b].tok = tok /\ tok \in Tokens
  <2>1. /\ c[q] \in 1..Len(parses) /\ c[q + 1] \in 1..Len(parses)
        /\ h[c[q + 1]].from = c[q] /\ h[c[q + 1]].tok = toks[q + 1] /\ toks[q + 1] \in Tokens
    BY ChainStep, Zenon
  <2> QED  BY ONLY <1>1, <2>1, Zenon
<1>3. tok \in Expected(item) /\ i \in Matching(item, tok)
  BY <1>1 DEF Expected, Matching
<1>4. item \in parses[a].transitions[tok]
  <2>1. ItemClosed(h, a, item)
    BY <1>1, <1>2 DEF AllClosed, ParseClosed
  <2>2. ~AtEnd(item) /\ CurrSym(item).t \in {"ks", "kp"}
    BY DEF BeforeToken
  <2> QED  BY <1>3, <2>1, <2>2 DEF ItemClosed
<1>5. Scanned(item, i) \in SeenAt(h, b)
  <2>1. TokenClosed(h, b)
    BY <1>2 DEF AllClosed, ParseClosed
  <2>2. a > 0
    BY <1>2
  <2> QED  BY <1>2, <1>3, <1>4, <2>1, <2>2 DEF TokenClosed
<1> QED  BY <1>1, <1>5, ScannedOK

\* Item new is item with the dot further on.
SameBase(item, new) == new.conts = item.conts /\ new.prod = item.prod

\* A whole form of a symbol, fed token by token.
LEMMA FormFed ==
  ASSUME NEW h, ChartInv, ChartDerived(h), AllClosed(h), NEW c, NEW toks, Chain(h, c, toks),
         NEW m \in Nat, NEW item \in SeenAt(h, c[m]), BeforeToken(item), item.tok_idx = 0,
         NEW i \in OpenForms(item), NEW form, form = Forms(CurrSym(item))[i],
         NEW j, Fed(toks, m, form, j), j <= Len(toks)
  PROVE  \E new \in SeenAt(h, c[j]) :
           /\ SameBase(item, new) /\ new.args = item.args
           /\ new.seq_idx = item.seq_idx + 1 /\ new.tok_idx = 0
<1> DEFINE On(l, new) == /\ new \in SeenAt(h, c[m + l]) /\ BeforeToken(new) /\ i \in OpenForms(new)
                         /\ SameBase(item, new) /\ new.args = item.args
                         /\ new.seq_idx = item.seq_idx /\ new.tok_idx = l
           T == {l \in 0..(Len(form) - 1) : \E new : On(l, new)}
<1>1. Len(form) \in Nat \ {0} /\ i \in Nat
  <2>1. item.tok_idx < Len(form) /\ Len(form) \in Nat /\ i \in Nat
    BY OpenFormsFacts
  <2> QED  BY <2>1
<1>2. j = m + Len(form) /\ \A l \in 1..Len(form) : form[l] = toks[m + l]
  BY DEF Fed
<1>3. Len(toks) \in Nat
  BY LenProperties DEF Chain
<1>4. 0 \in T
  <2>1. m + 0 = m /\ 0 \in 0..(Len(form) - 1)
    BY <1>1
  <2>2. On(0, item)
    BY <2>1 DEF SameBase
  <2> QED  BY <2>1, <2>2
<1>5. ASSUME NEW l \in 0..(Len(form) - 1), NEW old, On(l, old)
      PROVE  LET new == Scanned(old, i) IN
             /\ new \in SeenAt(h, c[m + (l + 1)]) /\ ItemOK(new)
             /\ SameBase(item, new) /\ new.args = item.args /\ new.alt = i - 1
             /\ new.tok_idx = (IF l + 1 = Len(form) THEN 0 ELSE l + 1)
             /\ new.seq_idx = (IF l + 1 = Len(form) THEN item.seq_idx + 1 ELSE item.seq_idx)
  <2>1. PICK q, new : q = m + l /\ new = Scanned(old, i)
    OBVIOUS
  <2>2. q \in Nat /\ q + 1 = m + (l + 1) /\ q + 1 <= Len(toks) /\ l + 1 \in 1..Len(form)
    BY <1>1, <1>2, <1>3, <2>1, SMTT(30)
  <2>3. CurrSym(old) = CurrSym(item)
    BY <1>5 DEF CurrSym, Lin, SameBase
  <2>4. Forms(CurrSym(old))[i] = form /\ form[old.tok_idx + 1] = toks[q + 1]
    BY <1>2, <1>5, <2>2, <2>3
  <2>5. new \in SeenAt(h, c[q + 1]) /\ ItemOK(new)
    BY <1>5, <2>1, <2>2, <2>4, ScanOn
  <2>6. /\ new.conts = old.conts /\ new.prod = old.prod /\ new.args = old.args /\ new.alt = i - 1
        /\ new.tok_idx = (IF old.tok_idx + 1 = Len(form) THEN 0 ELSE old.tok_idx + 1)
        /\ new.seq_idx = (IF old.tok_idx + 1 = Len(form) THEN old.seq_idx + 1 ELSE old.seq_idx)
    BY <1>5, <2>1, <2>4, ScannedFields, SMTT(30)
  <2>7. old.tok_idx = l /\ old.seq_idx = item.seq_idx /\ SameBase(item, old) /\ old.args = item.args
    BY <1>5
  <2> QED  BY <2>1, <2>2, <2>5, <2>6, <2>7 DEF SameBase
<1>6. ASSUME NEW l \in 0..((Len(form) - 1) - 1), l \in T
      PROVE  l + 1 \in T
  <2>1. PICK old : On(l, old)
    BY <1>6
  <2>2. PICK new : new = Scanned(old, i)
    OBVIOUS
  <2>3. l \in 0..(Len(form) - 1) /\ l + 1 # Len(form) /\ l + 1 \in 0..(Len(form) - 1) /\ l + 1 > 0
    BY <1>1
  <2>4. /\ new \in SeenAt(h, c[m + (l + 1)]) /\ ItemOK(new)
        /\ SameBase(item, new) /\ new.args = item.args /\ new.alt = i - 1
        /\ new.tok_idx = l + 1 /\ new.seq_idx = item.seq_idx
    BY <1>5, <2>1, <2>2, <2>3
  <2>5. CurrSym(new) = CurrSym(item) /\ (AtEnd(new) <=> AtEnd(item))
    BY <2>4 DEF CurrSym, AtEnd, Lin, SameBase
  <2>6. BeforeToken(new)
    BY <2>4, <2>5 DEF BeforeToken
  <2>7. i \in OpenForms(new)
    <3>1. new.tok_idx > 0 /\ new.alt + 1 = i
      BY <1>1, <2>3, <2>4
    <3> QED  BY <3>1 DEF OpenForms
  <2> QED  BY <2>3, <2>4, <2>6, <2>7
<1>7. PICK old : On(Len(form) - 1, old)
  <2>1. Len(form) - 1 \in T
    <3>1. Len(form) - 1 \in Nat
      BY <1>1
    <3> HIDE DEF T
    <3>2. \A l \in 0..(Len(form) - 1) : l \in T
      BY <1>4, <1>6, <3>1, InductionUpTo
    <3> QED  BY <3>1, <3>2
  <2> HIDE DEF On
  <2> QED  BY <2>1
<1>8. PICK new : new = Scanned(old, i)
  OBVIOUS
<1>9. Len(form) - 1 \in 0..(Len(form) - 1) /\ (Len(form) - 1) + 1 = Len(form)
  BY <1>1
<1>10. /\ new \in SeenAt(h, c[m + Len(form)]) /\ SameBase(item, new) /\ new.args = item.args
       /\ new.tok_idx = 0 /\ new.seq_idx = item.seq_idx + 1
  BY <1>5, <1>7, <1>8, <1>9
<1> QED  BY <1>2, <1>10

\* A token symbol, whichever of its forms the tokens are.
LEMMA TokensFed ==
  ASSUME NEW h, ChartInv, ChartDerived(h), AllClosed(h), NEW c, NEW toks, Chain(h, c, toks),
         NEW m \in Nat, NEW item \in SeenAt(h, c[m]), BeforeToken(item), item.tok_idx = 0,
         NEW says, NEW y \in SymbolWords(CurrSym(item), says),
         NEW j, Fed(toks, m, y, j), j <= Len(toks)
  PROVE  \E new \in SeenAt(h, c[j]) :
           /\ SameBase(item, new) /\ new.args = item.args
           /\ new.seq_idx = item.seq_idx + 1 /\ new.tok_idx = 0
<1>1. PICK sym, forms : sym = CurrSym(item) /\ forms = Forms(sym)
  OBVIOUS
<1>2. ItemOK(item) /\ ~AtEnd(item) /\ sym.t \in {"ks", "kp"}
  BY <1>1 DEF BeforeToken
<1>3. IsSeq(forms)
  BY <1>1, <1>2, CurrSymFits DEF SymbolFits
<1>4. DOMAIN forms = 1..Len(forms) /\ Len(forms) \in Nat
  BY <1>3, IsSeqFacts
<1>5. PICK k \in DOMAIN forms : y = forms[k]
  BY <1>1, <1>2, TokenWords
<1>6. PICK same : same = {x \in DOMAIN forms : forms[x] = y}
  OBVIOUS
<1>7. same \in SUBSET Nat /\ same # {}
  BY <1>4, <1>5, <1>6
<1>8. PICK i \in same : \A x \in same : i <= x
  BY <1>7, LeastElement
<1>9. i \in DOMAIN forms /\ forms[i] = y /\ i \in Nat
  BY <1>6, <1>7, <1>8
<1>10. \A x \in 1..(i - 1) : forms[x] # forms[i]
  <2> SUFFICES ASSUME NEW x \in 1..(i - 1), forms[x] = forms[i]
               PROVE  FALSE
    OBVIOUS
  <2>1. x \in DOMAIN forms /\ x < i /\ x \in Nat
    BY <1>4, <1>9
  <2>2. x \in same
    BY <1>6, <1>9, <2>1
  <2>3. i <= x
    BY <1>8, <2>2
  <2> QED  BY <1>9, <2>1, <2>3
<1>11. i \in OpenForms(item)
  BY <1>1, <1>9, <1>10 DEF OpenForms
<1> QED  BY <1>1, <1>9, <1>11, FormFed

\* What is predicted along the chain is completed where the tokens of its tree end.
CatsFound(h, S, c, toks) ==
  \A i \in 0..Len(toks) : \A cid \in DOMAIN conts : cid[1] = c[i] =>
    \A v, w, j : <<cid[2], v>> \in S /\ <<cid[3], w>> \in v.says /\ Fed(toks, i, w, j) /\ j <= Len(toks) =>
      cid \in DOMAIN GenAt(h, c[j]) /\ <<GenAt(h, c[j])[cid], v>> \in S

\* A category that has a tree has productions.
LEMMA TreeHasProds ==
  ASSUME CatsOK, NEW n \in 0..MaxDepth(concr), NEW a, NEW t, <<a, t>> \in ChartTrees[n]
  PROVE  HasProds(a) /\ n > 0
<1>1. MaxDepth(concr) \in Nat
  BY DepthOK
<1>2. CASE n = 0
  <2>1. ChartTrees[0] = {}
    BY <1>1, TreesFacts DEF ChartTrees
  <2> QED  BY <1>2, <2>1
<1>3. CASE n > 0
  <2>1. PICK k : k = n - 1
    OBVIOUS
  <2>2. k \in 0..(MaxDepth(concr) - 1) /\ k + 1 = n
    BY <1>1, <1>3, <2>1
  <2>3. \E prod, args : /\ ChartRule(a, prod) /\ ArgsOf(ChartTrees[k], prod.args, args)
                        /\ t = Node(RuleOf(a, prod), args)
    BY <2>2, ChartTreesStep
  <2> QED  BY <1>3, <2>3 DEF ChartRule
<1> QED  BY <1>1, <1>2, <1>3

\* An item before a category goes on over the tokens of the tree of the argument.
LEMMA ArgumentFed ==
  ASSUME NullIsNoItem, NEW h, ChartInv, ChartDerived(h), AllClosed(h),
         NEW c, NEW toks, Chain(h, c, toks), NEW n \in 0..MaxDepth(concr), NEW S, S = ChartTrees[n],
         CatsFound(h, S, c, toks),
         NEW m \in Nat, NEW item \in SeenAt(h, c[m]), ItemOK(item), ~AtEnd(item), CurrSym(item).t = "cat",
         NEW args, ArgsOf(S, item.args, args),
         NEW y \in SymbolWords(CurrSym(item), SaysOf(args)),
         NEW j, Fed(toks, m, y, j), j <= Len(toks)
  PROVE  \E new \in SeenAt(h, c[j]) :
           /\ SameBase(item, new) /\ ArgsOf(S, new.args, args)
           /\ new.seq_idx = item.seq_idx + 1 /\ new.tok_idx = 0
<1>1. PICK sym, d, a, t, q, cid : /\ sym = CurrSym(item) /\ d = sym.d /\ a = item.args[d] /\ t = args[d]
                                  /\ q = c[m] /\ cid = <<q, a, sym.r>>
  OBVIOUS
<1>2. d \in DOMAIN item.args
  BY <1>1, CombinedFields
<1>3. <<a, t>> \in S /\ DOMAIN args = DOMAIN item.args
  BY <1>1, <1>2 DEF ArgsOf
<1>4. <<sym.r, y>> \in t.says
  <2>1. SaysOf(args)[d] = t.says
    BY <1>1, <1>2, <1>3 DEF SaysOf
  <2> QED  BY <1>1, <2>1, ArgumentWords
<1>5. Len(toks) \in Nat /\ Len(y) \in Nat /\ j = m + Len(y)
  BY LenProperties DEF Chain, Fed
<1>6. m \in 0..Len(toks) /\ j \in 0..Len(toks)
  BY <1>5
<1>7. q \in 1..Len(parses) /\ c[j] \in 1..Len(parses)
  BY <1>1, <1>6 DEF Chain
<1>8. cid \in DOMAIN conts /\ item \in conts[cid]
  <2>1. ItemClosed(h, q, item)
    BY <1>1, <1>7 DEF AllClosed, ParseClosed
  <2>2. HasProds(a)
    BY <1>3, TreeHasProds DEF ChartInv
  <2> QED  BY <1>1, <2>1, <2>2 DEF ItemClosed, PredictedCat
<1>9. PICK e, fid : e = c[j] /\ fid = GenAt(h, e)[cid]
  OBVIOUS
<1>10. cid \in DOMAIN GenAt(h, e) /\ <<fid, t>> \in S
  <2>1. cid[1] = c[m] /\ cid[2] = a /\ cid[3] = sym.r
    BY <1>1
  <2> QED  BY <1>3, <1>4, <1>6, <1>8, <1>9, <2>1 DEF CatsFound
<1>11. PICK new : new = Combined(item, fid)
  OBVIOUS
<1>12. new \in SeenAt(h, e)
  <2>1. item # NULL
    BY DEF ItemOK, NullIsNoItem
  <2>2. CatsClosed(h, e)
    BY <1>7, <1>9 DEF AllClosed, ParseClosed
  <2> QED  BY <1>8, <1>9, <1>10, <1>11, <2>1, <2>2 DEF CatsClosed
<1>13. /\ new.conts = item.conts /\ new.prod = item.prod
       /\ new.tok_idx = 0 /\ new.seq_idx = item.seq_idx + 1
       /\ DOMAIN new.args = DOMAIN item.args /\ new.args[d] = fid
       /\ \A x \in DOMAIN item.args \ {d} : new.args[x] = item.args[x]
  BY <1>1, <1>11, CombinedFields
<1>14. ArgsOf(S, new.args, args)
  <2>1. \A x \in DOMAIN item.args : <<item.args[x], args[x]>> \in S
    BY DEF ArgsOf
  <2>2. \A x \in DOMAIN new.args : <<new.args[x], args[x]>> \in S
    BY <1>1, <1>10, <1>13, <2>1
  <2>3. args = [x \in DOMAIN new.args |-> args[x]]
    BY <1>13 DEF ArgsOf
  <2> QED  BY <2>2, <2>3 DEF ArgsOf
<1> QED  BY <1>9, <1>12, <1>13, <1>14 DEF SameBase

\* An item of a production of cid is there behind its first k symbols, whatever tokens
\* they stand for.
ItemsFed(h, S, c, toks, i, cid, prod, args, lin) ==
  \A k \in 0..Len(lin) : \A w \in Words(lin, SaysOf(args))[k] : \A j :
    Fed(toks, i, w, j) /\ j <= Len(toks) =>
      \E item \in SeenAt(h, c[j]) :
        /\ item.conts = cid /\ item.prod = prod /\ ArgsOf(S, item.args, args)
        /\ item.seq_idx = k /\ item.tok_idx = 0

\* If the tokens are fed, some item goes over all symbols that stand for them.
LEMMA SymbolsFed ==
  ASSUME NullIsNoItem, NEW h, ChartInv, ChartDerived(h), AllClosed(h),
         NEW c, NEW toks, Chain(h, c, toks), NEW n \in 0..MaxDepth(concr), NEW S, S = ChartTrees[n],
         CatsFound(h, S, c, toks),
         NEW i \in 0..Len(toks), NEW cid \in DOMAIN conts, cid[1] = c[i],
         NEW prod, ChartRule(cid[2], prod), NEW args, ArgsOf(S, prod.args, args),
         NEW lin, lin = LinOf(concr, prod, cid[3])
  PROVE  ItemsFed(h, S, c, toks, i, cid, prod, args, lin)
<1> DEFINE Got(k, j) == \E item \in SeenAt(h, c[j]) :
                          /\ item.conts = cid /\ item.prod = prod /\ ArgsOf(S, item.args, args)
                          /\ item.seq_idx = k /\ item.tok_idx = 0
           T == {k \in 0..Len(lin) : \A w \in Words(lin, SaysOf(args))[k] : \A j :
                   Fed(toks, i, w, j) /\ j <= Len(toks) => Got(k, j)}
<1>1. PICK says : says = SaysOf(args)
  OBVIOUS
<1>2. SaysTokens(S) /\ CatsOK /\ Len(toks) \in Nat
  BY TreesSayTokens, LenProperties DEF ChartInv, Chain
<1>3. /\ ProdOK(prod, CncCat(cid[2])) /\ cid[2] \in Fids /\ HasProds(cid[2])
      /\ cid[3] \in 1..concr.cnccats[CncCat(cid[2])].n_ctnts
  BY ProdsFacts DEF ChartRule, Members, ChartInv, ContsOK, NCtnts
<1>4. /\ Len(lin) \in Nat
      /\ \A k \in 0..Len(lin) : \A w \in Words(lin, says)[k] : w \in Seq(Tokens)
  BY <1>1, <1>2, <1>3, WordsSayTokens, ZenonT(40)
<1>5. 0 \in T
  <2>1. Words(lin, says)[0] = {<<>>}
    BY <1>4, WordsFacts
  <2>2. ASSUME NEW j, Fed(toks, i, <<>>, j)
        PROVE  Got(0, j)
    <3>1. j = i
      BY <2>2 DEF Fed
    <3>2. PICK item, q : item = pgf_new_item(cid, prod) /\ q = c[i]
      OBVIOUS
    <3>3. q \in 1..Len(parses)
      BY <3>2 DEF Chain
    <3>4. ProdsClosed(h, q)
      BY <3>3 DEF AllClosed, ParseClosed
    <3>5. item \in SeenAt(h, q)
      BY <1>3, <3>2, <3>4 DEF ProdsClosed, ChartRule
    <3>6. /\ item.conts = cid /\ item.prod = prod /\ item.args = prod.args
          /\ item.seq_idx = 0 /\ item.tok_idx = 0
      BY <3>2 DEF pgf_new_item
    <3> QED  BY <3>1, <3>2, <3>5, <3>6
  <2> HIDE DEF Got
  <2> QED  BY <1>1, <1>4, <2>1, <2>2
<1>6. ASSUME NEW k \in 0..(Len(lin) - 1), k \in T
      PROVE  k + 1 \in T
  <2>1. k + 1 \in 0..Len(lin) /\ k \in 0..Len(lin)
    BY <1>4
  <2>2. ASSUME NEW w \in Words(lin, says)[k + 1], NEW j, Fed(toks, i, w, j), j <= Len(toks)
        PROVE  Got(k + 1, j)
    <3>1. PICK X, Y : X = Words(lin, says)[k] /\ Y = SymbolWords(lin[k + 1], says)
      OBVIOUS
    <3>2. Words(lin, says)[k + 1] = Joined(X, Y)
      BY <1>4, <3>1, WordsStep
    <3>3. PICK x \in X, y \in Y : w = x \o y
      BY <2>2, <3>2, JoinedIs, SMTT(30)
    <3>4. k + 1 \in DOMAIN lin /\ SymbolFits(concr, lin[k + 1], ArgCats(prod.args))
      <4>1. IsSeq(lin) /\ \A l \in DOMAIN lin : SymbolFits(concr, lin[l], ArgCats(prod.args))
        BY <1>3 DEF ProdOK, ProdFits
      <4> QED  BY <1>4, <4>1, IsSeqFacts
    <3>5. x \in Seq(Tokens)
      BY <1>4, <2>1, <3>1
    <3>6. y \in Seq(Tokens)
      <4>1. prod.args \in [DOMAIN prod.args -> Fids]
        BY <1>3 DEF ProdOK
      <4>2. PICK sym, cats : sym = lin[k + 1] /\ cats = prod.args
        OBVIOUS
      <4>3. y \in SymbolWords(sym, SaysOf(args))
        BY <1>1, <3>1, <3>3, <4>2
      <4> QED  BY <1>2, <3>4, <4>1, <4>2, <4>3, SymbolSaysTokens
    <3>7. PICK m \in Nat : m <= j /\ Fed(toks, i, x, m) /\ Fed(toks, m, y, j)
      <4>1. i \in Nat
        BY <1>2
      <4> QED  BY <2>2, <3>3, <3>5, <3>6, <4>1, FedSplit
    <3>8. m <= Len(toks) /\ j \in Nat
      BY <1>2, <2>2, <3>6, <3>7, LenProperties, SMTT(30) DEF Fed
    <3>9. PICK item \in SeenAt(h, c[m]) :
            /\ item.conts = cid /\ item.prod = prod /\ ArgsOf(S, item.args, args)
            /\ item.seq_idx = k /\ item.tok_idx = 0
      BY <1>1, <1>6, <3>1, <3>7, <3>8
    <3>10. ItemOK(item)
      <4>1. c[m] \in 1..Len(parses)
        BY <1>2, <3>8 DEF Chain
      <4> QED  BY <4>1, DerivedFacts DEF ParseDerived, SeenDerived
    <3>11. Lin(item) = lin /\ ~AtEnd(item) /\ CurrSym(item) = lin[k + 1]
      BY <1>4, <3>9 DEF Lin, AtEnd, CurrSym
    <3>12. y \in SymbolWords(CurrSym(item), SaysOf(args))
      BY <1>1, <3>1, <3>3, <3>11
    <3>13. ASSUME NEW new \in SeenAt(h, c[j]), SameBase(item, new), ArgsOf(S, new.args, args),
                  new.seq_idx = item.seq_idx + 1, new.tok_idx = 0
           PROVE  Got(k + 1, j)
      BY <3>9, <3>13 DEF SameBase
    <3>14. CASE lin[k + 1].t = "cat"
      BY <2>2, <3>7, <3>9, <3>10, <3>11, <3>12, <3>13, <3>14, ArgumentFed
    <3>15. CASE lin[k + 1].t \in {"ks", "kp"}
      <4>1. BeforeToken(item)
        BY <3>10, <3>11, <3>15 DEF BeforeToken
      <4>2. \E new \in SeenAt(h, c[j]) :
              /\ SameBase(item, new) /\ new.args = item.args
              /\ new.seq_idx = item.seq_idx + 1 /\ new.tok_idx = 0
        BY <2>2, <3>7, <3>9, <3>12, <4>1, TokensFed
      <4> QED  BY <3>9, <3>13, <4>2
    <3>16. CASE lin[k + 1].t = "lit"
      BY <3>1, <3>16 DEF SymbolWords
    <3> QED  BY <3>4, <3>14, <3>15, <3>16 DEF SymbolFits
  <2> HIDE DEF Got
  <2> QED  BY <1>1, <2>1, <2>2
<1>7. \A k \in 0..Len(lin) : k \in T
  <2> HIDE DEF T
  <2> QED  BY <1>4, <1>5, <1>6, InductionUpTo
<1> QED  BY <1>7 DEF ItemsFed

\* What the tree of a rule says, the symbols of the constituent stand for; the tree of a
\* coercion is the one of its argument.
LEMMA SaidIsWords ==
  ASSUME CatsOK, NEW k \in 0..MaxDepth(concr), NEW S, S = ChartTrees[k],
         NEW c, NEW prod, ChartRule(c, prod), NEW args, ArgsOf(S, prod.args, args),
         NEW r \in 1..NCtnts(c), NEW w, <<r, w>> \in Node(RuleOf(c, prod), args).says,
         NEW lin, lin = LinOf(concr, prod, r)
  PROVE  w \in Seq(Tokens) /\ Len(lin) \in Nat /\ w \in Words(lin, SaysOf(args))[Len(lin)]
<1>1. PICK says : says = SaysOf(args)
  OBVIOUS
<1>2. SaysTokens(S)
  BY TreesSayTokens
<1>3. NCtnts(c) # 0
  BY FidFacts DEF NCtnts, ChartRule
<1>4. w \in Seq(Tokens)
  BY <1>2, <1>3, NodeSaysTokens
<1>5. ProdOK(prod, CncCat(c)) /\ c \in Fids
  BY ProdsFacts DEF ChartRule, Members
<1>6. r \in 1..concr.cnccats[CncCat(c)].n_ctnts
  BY DEF NCtnts
<1>7. Len(lin) \in Nat
  BY <1>2, <1>5, <1>6, WordsSayTokens
<1>8. RuleOf(c, prod).prod = prod
  BY DEF RuleOf
<1>9. CASE prod.fun # Coerce
  BY <1>4, <1>7, <1>8, <1>9, NodeSays
<1>10. CASE prod.fun = Coerce
  <2>1. PICK sym : sym = [t |-> "cat", d |-> 1, r |-> r]
    OBVIOUS
  <2>2. lin = <<sym>> /\ Len(lin) = 1 /\ lin[1] = sym /\ 1 \in DOMAIN lin
    BY <1>10, <2>1 DEF LinOf
  <2>3. Node(RuleOf(c, prod), args) = args[1]
    BY <1>8, <1>10 DEF Node
  <2>4. SymbolFits(concr, sym, ArgCats(prod.args))
    BY <1>5, <1>6, <2>2 DEF ProdOK, ProdFits
  <2>5. 1 \in DOMAIN prod.args
    BY <2>1, <2>4 DEF SymbolFits, ArgCats
  <2>6. says[1] = args[1].says
    BY <1>1, <2>5 DEF ArgsOf, SaysOf
  <2>7. w \in SymbolWords(sym, says)
    <3>1. <<sym.r, w>> \in says[sym.d] /\ sym.t = "cat"
      BY <2>1, <2>3, <2>6
    <3> QED  BY <3>1, ArgumentWords
  <2>8. Words(lin, says)[1] = Joined({<<>>}, SymbolWords(sym, says))
    <3>1. 0 \in 0..(Len(lin) - 1) /\ Len(lin) \in Nat /\ 0 + 1 = 1
      BY <2>2
    <3>2. Words(lin, says)[0 + 1] = Joined(Words(lin, says)[0], SymbolWords(lin[0 + 1], says))
      BY ONLY <3>1, WordsStep
    <3>3. Words(lin, says)[0] = {<<>>}
      BY <2>2, WordsFacts
    <3> QED  BY <2>2, <3>1, <3>2, <3>3
  <2>9. w = <<>> \o w
    BY <1>4, ConcatEmptySeq
  <2>10. w \in Joined({<<>>}, SymbolWords(sym, says))
    BY <2>7, <2>9, JoinedIs
  <2> QED  BY <1>1, <1>4, <1>7, <2>2, <2>8, <2>10
<1> QED  BY <1>9, <1>10

\* An item that has gone over all symbols completes its category with its production.
LEMMA EndedFound ==
  ASSUME NullIsNoItem, NEW h, ChartInv, ChartDerived(h), AllClosed(h),
         NEW c, NEW toks, Chain(h, c, toks), NEW n \in 0..(MaxDepth(concr) - 1),
         CatsFound(h, ChartTrees[n], c, toks),
         NEW i \in 0..Len(toks), NEW cid \in DOMAIN conts, cid[1] = c[i],
         NEW v, <<cid[2], v>> \in ChartTrees[n + 1], NEW w, <<cid[3], w>> \in v.says,
         NEW j, Fed(toks, i, w, j), j <= Len(toks)
  PROVE  cid \in DOMAIN GenAt(h, c[j]) /\ <<GenAt(h, c[j])[cid], v>> \in ChartTrees[n + 1]
<1>1. CatsOK /\ n \in 0..MaxDepth(concr) /\ MaxDepth(concr) \in Nat
  BY DepthOK DEF ChartInv
<1>2. PICK prod, args : /\ ChartRule(cid[2], prod) /\ ArgsOf(ChartTrees[n], prod.args, args)
                        /\ v = Node(RuleOf(cid[2], prod), args)
  BY <1>1, ChartTreesStep
<1>3. cid[3] \in 1..NCtnts(cid[2]) /\ cid[2] \in Fids
  BY DEF ChartInv, ContsOK, NCtnts
<1>4. PICK lin : lin = LinOf(concr, prod, cid[3])
  OBVIOUS
<1>5. /\ w \in Seq(Tokens) /\ Len(lin) \in Nat /\ Len(lin) \in 0..Len(lin)
      /\ w \in Words(lin, SaysOf(args))[Len(lin)]
  <2>1. PICK S : S = ChartTrees[n]
    OBVIOUS
  <2>2. w \in Seq(Tokens) /\ Len(lin) \in Nat /\ w \in Words(lin, SaysOf(args))[Len(lin)]
    BY <1>1, <1>2, <1>3, <1>4, <2>1, SaidIsWords
  <2> QED  BY <2>2
<1>6. PICK item \in SeenAt(h, c[j]) :
        /\ item.conts = cid /\ item.prod = prod /\ ArgsOf(ChartTrees[n], item.args, args)
        /\ item.seq_idx = Len(lin) /\ item.tok_idx = 0
  <2>1. PICK S : S = ChartTrees[n]
    OBVIOUS
  <2>2. CatsFound(h, S, c, toks) /\ ArgsOf(S, prod.args, args)
    BY <1>2, <2>1
  <2>3. ItemsFed(h, S, c, toks, i, cid, prod, args, lin)
    BY <1>1, <1>2, <1>4, <2>1, <2>2, SymbolsFed
  <2>4. Len(lin) \in 0..Len(lin) /\ w \in Words(lin, SaysOf(args))[Len(lin)]
    BY <1>5
  <2>5. \E item \in SeenAt(h, c[j]) :
          /\ item.conts = cid /\ item.prod = prod /\ ArgsOf(S, item.args, args)
          /\ item.seq_idx = Len(lin) /\ item.tok_idx = 0
    BY <2>3, <2>4, ZenonT(40) DEF ItemsFed
  <2> QED  BY <2>1, <2>5
<1>7. PICK q, fid, done : q = c[j] /\ fid = GenAt(h, q)[cid] /\ done = DoneProd(item)
  OBVIOUS
<1>8. q \in 1..Len(parses)
  <2>1. Len(toks) \in Nat /\ Len(w) \in Nat /\ j = i + Len(w)
    BY <1>5, LenProperties DEF Chain, Fed
  <2>2. j \in 0..Len(toks)
    BY <2>1
  <2> QED  BY <1>7, <2>2 DEF Chain
<1>9. AtEnd(item)
  BY <1>4, <1>6 DEF AtEnd, Lin
<1>10. cid \in DOMAIN GenAt(h, q) /\ done \in Members(ccats[fid].prods)
  <2>1. ItemClosed(h, q, item)
    BY <1>6, <1>7, <1>8 DEF AllClosed, ParseClosed
  <2> QED  BY <1>6, <1>7, <1>9, <2>1 DEF ItemClosed
<1>11. fid \in DOMAIN ccats /\ CncCat(fid) = CncCat(cid[2])
  BY <1>7, <1>8, <1>10, DerivedFacts DEF ParseDerived, CatsEnded
<1>12. ChartRule(fid, done)
  <2>1. Prods(fid) = ccats[fid].prods /\ HasProds(fid)
    BY <1>1, <1>11, GrammarFacts DEF Prods, HasProds
  <2> QED  BY <1>10, <1>11, <2>1 DEF ChartRule, Fids
<1>13. done.fun = prod.fun /\ done.args = item.args
  BY <1>6, <1>7 DEF DoneProd
<1>14. v = Node(RuleOf(fid, done), args)
  <2>1. \A r : LinOf(concr, prod, r) = LinOf(concr, done, r)
    BY <1>13 DEF LinOf
  <2>2. PICK one, other : one = RuleOf(cid[2], prod) /\ other = RuleOf(fid, done)
    OBVIOUS
  <2>3. one.prod = prod /\ other.prod = done /\ one.ctnts = other.ctnts
    BY <1>11, <2>2 DEF RuleOf, NCtnts
  <2>4. Says(one, args) = Says(other, args)
    BY <2>1, <2>3 DEF Says
  <2> QED  BY <1>2, <1>13, <2>2, <2>3, <2>4 DEF Node
<1>15. <<fid, v>> \in ChartTrees[n + 1]
  BY <1>1, <1>6, <1>12, <1>13, <1>14, ChartTreesStep
<1> QED  BY <1>7, <1>10, <1>15

\* Every tree whose constituent yields the tokens is one of a completed category.
LEMMA CatsAreFound ==
  ASSUME NullIsNoItem, NEW h, ChartInv, ChartDerived(h), AllClosed(h),
         NEW c, NEW toks, Chain(h, c, toks)
  PROVE  \A n \in 0..MaxDepth(concr) : CatsFound(h, ChartTrees[n], c, toks)
<1> DEFINE T == {n \in 0..MaxDepth(concr) : CatsFound(h, ChartTrees[n], c, toks)}
<1>1. MaxDepth(concr) \in Nat
  BY DepthOK DEF ChartInv
<1>2. 0 \in T
  <2>1. ChartTrees[0] = {}
    BY <1>1, TreesFacts DEF ChartTrees
  <2> QED  BY <1>1, <2>1 DEF CatsFound
<1>3. ASSUME NEW n \in 0..(MaxDepth(concr) - 1), n \in T
      PROVE  n + 1 \in T
  <2>1. CatsFound(h, ChartTrees[n], c, toks)
    BY <1>3
  <2>2. ASSUME NEW i \in 0..Len(toks), NEW cid \in DOMAIN conts, cid[1] = c[i], NEW v, NEW w, NEW j,
               <<cid[2], v>> \in ChartTrees[n + 1], <<cid[3], w>> \in v.says,
               Fed(toks, i, w, j), j <= Len(toks)
        PROVE  cid \in DOMAIN GenAt(h, c[j]) /\ <<GenAt(h, c[j])[cid], v>> \in ChartTrees[n + 1]
    BY <2>1, <2>2, EndedFound
  <2>3. CatsFound(h, ChartTrees[n + 1], c, toks)
    BY <2>2 DEF CatsFound
  <2>4. n + 1 \in 0..MaxDepth(concr)
    BY <1>1
  <2> QED  BY <2>3, <2>4
<1> HIDE DEF T
<1>4. \A n \in 0..MaxDepth(concr) : n \in T
  BY <1>1, <1>2, <1>3, InductionUpTo
<1> QED  BY <1>4 DEF T

\* Every tree of the grammar that says the tokens of a parse is one of its completed categories.
TreesAreFound(p) ==
  {t \in TreesOf(StartCats(parses[p].start[1]), GrammarRules) :
     <<parses[p].start[2], parses[p].toks>> \in t.says}
    \subseteq TreesOf(Members(parses[p].completed), ChartRules)

\* So a closed chart misses no tree of the sentence.
LEMMA ClosedFinds ==
  ASSUME NullIsNoItem, NEW h, ChartInv, ChartDerived(h), AllClosed(h), NEW p \in 1..Len(parses)
  PROVE  TreesAreFound(p)
<1> SUFFICES ASSUME NEW t \in TreesOf(StartCats(parses[p].start[1]), GrammarRules),
                    <<parses[p].start[2], parses[p].toks>> \in t.says
             PROVE  t \in TreesOf(Members(parses[p].completed), ChartRules)
  BY DEF TreesAreFound
<1>1. PICK n : n = MaxDepth(concr)
  OBVIOUS
<1>2. n \in Nat /\ n \in 0..n /\ CatsOK
  BY <1>1, DepthOK DEF ChartInv
<1>3. PICK c, toks : LedTo(h, p, c, toks)
  BY ChainExists
<1>4. PICK q, r, k : q = c[0] /\ r = parses[p].start[2] /\ k = parses[p].start[1]
  OBVIOUS
<1>5. /\ Chain(h, c, toks) /\ toks = parses[p].toks /\ c[Len(toks)] = p
      /\ parses[q].start[1] = k /\ parses[q].start[2] = r
  BY <1>3, <1>4 DEF LedTo
<1>6. toks \in Seq(Tokens) /\ Len(toks) \in Nat /\ 0 \in 0..Len(toks) /\ q \in 1..Len(parses) /\ h[q].from = 0
  <2>1. toks \in Seq(Tokens) /\ Len(toks) \in Nat /\ 0 \in 0..Len(toks)
    BY <1>5, LenProperties DEF Chain
  <2> QED  BY <1>4, <1>5, <2>1 DEF Chain
<1>7. PICK x \in GrammarTrees[n] : x[1] \in StartCats(k) /\ t = x[2]
  BY <1>1, <1>4 DEF TreesOf, GrammarTrees
<1>8. PICK a : a \in StartCats(k) /\ <<a, t>> \in GrammarTrees[n]
  <2>1. \A l \in 0..(n - 1) :
          Trees(GrammarRules, n)[l + 1] = AppliedAll(GrammarRules, Trees(GrammarRules, n)[l])
    <3>1. \A l \in 0..(n - 1) : l + 1 \in 1..n /\ (l + 1) - 1 = l
      BY <1>2
    <3> QED  BY <1>2, <3>1, TreesFacts
  <2>2. n # 0
    BY <1>1, <1>2, <1>7, TreesFacts DEF GrammarTrees
  <2>3. n - 1 \in 0..(n - 1) /\ (n - 1) + 1 = n
    BY <1>2, <2>2
  <2>4. x \in AppliedAll(GrammarRules, Trees(GrammarRules, n)[n - 1])
    BY <1>1, <1>7, <2>1, <2>3 DEF GrammarTrees
  <2>5. x = <<x[1], x[2]>>
    BY <2>4 DEF AppliedAll, Applied
  <2> QED  BY <1>7, <2>5
<1>9. a \in DOMAIN concr.cat
  <2>1. k \in DOMAIN concr.cnccats /\ \E l \in DOMAIN concr.cnccats[k].cats : a = concr.cnccats[k].cats[l]
    BY <1>8 DEF StartCats
  <2> QED  BY <2>1, GrammarFacts, SMTT(30) DEF ChartInv, WellFormed
<1>10. <<a, t>> \in ChartTrees[n]
  BY <1>1, <1>2, <1>8, <1>9, SameTrees
<1>11. HasProds(a)
  BY <1>1, <1>2, <1>10, TreeHasProds
<1>12. PICK cid : cid = <<q, a, r>>
  OBVIOUS
<1>13. cid \in DOMAIN conts /\ NULL \in conts[cid]
  <2>1. StartClosedAt(h, q)
    BY <1>6 DEF AllClosed, ParseClosed
  <2> QED  BY <1>5, <1>6, <1>8, <1>11, <1>12, <2>1 DEF StartClosedAt
<1>14. Fed(toks, 0, toks, Len(toks))
  BY <1>6 DEF Fed
<1>15. PICK fid : fid = GenAt(h, p)[cid]
  OBVIOUS
<1>16. cid \in DOMAIN GenAt(h, p) /\ <<fid, t>> \in ChartTrees[n]
  <2>1. CatsFound(h, ChartTrees[n], c, toks)
    BY <1>1, <1>2, <1>5, CatsAreFound
  <2>2. cid[1] = c[0] /\ cid[2] = a /\ cid[3] = r /\ <<r, toks>> \in t.says
    BY <1>4, <1>5, <1>12
  <2>3. Len(toks) <= Len(toks)
    BY <1>6
  <2>4. cid \in DOMAIN GenAt(h, c[Len(toks)]) /\ <<GenAt(h, c[Len(toks)])[cid], t>> \in ChartTrees[n]
    BY <1>6, <1>10, <1>13, <1>14, <2>1, <2>2, <2>3 DEF CatsFound
  <2> QED  BY <1>5, <1>15, <2>4
<1>17. fid \in Members(parses[p].completed)
  <2>1. CatsClosed(h, p)
    BY DEF AllClosed, ParseClosed
  <2> QED  BY <1>13, <1>15, <1>16, <2>1 DEF CatsClosed
<1>18. <<fid, t>>[1] = fid /\ <<fid, t>>[2] = t
  OBVIOUS
<1> QED  BY <1>1, <1>16, <1>17, <1>18 DEF TreesOf, ChartTrees

-----------------------------------------------------------------------------
(* A parse that is finished stays closed *)

\* What has been derived of parse p in h and of the same in g after the step is the same.
KeepsParse(h, g, p) ==
  /\ concr' = concr /\ parses'[p] = parses[p] /\ g[p].from = h[p].from /\ g[p].tok = h[p].tok
  /\ h[p].from > 0 => parses'[h[p].from] = parses[h[p].from]
  /\ SeenAt(g, p)' = SeenAt(h, p) /\ GenAt(g, p)' = GenAt(h, p)
  /\ \A cid \in DOMAIN conts' : cid[1] = p => cid \in DOMAIN conts /\ Prods(cid[2])' = Prods(cid[2])
  /\ \A cid \in DOMAIN conts : cid[1] <= p => cid \in DOMAIN conts' /\ conts'[cid] = conts[cid]
  /\ \A cid \in DOMAIN GenAt(h, p) :
       Members(ccats[GenAt(h, p)[cid]].prods) \subseteq Members(ccats'[GenAt(h, p)[cid]].prods)

\* What an item leads to stays there.
LEMMA ItemStaysClosed ==
  ASSUME ChartInv, NEW h, NEW g, NEW p \in 1..Len(parses), KeepsParse(h, g, p), ParseDerived(h, p),
         NEW item, ItemClosed(h, p, item)
  PROVE  ItemClosed(g, p, item)'
<1>1. /\ AtEnd(item)' = AtEnd(item) /\ CurrSym(item)' = CurrSym(item)
      /\ OpenForms(item)' = OpenForms(item) /\ DoneProd(item)' = DoneProd(item)
  BY DEF KeepsParse, AtEnd, CurrSym, OpenForms, Lin, DoneProd
<1>2. PredictedCat(item)' = PredictedCat(item) /\ Expected(item)' = Expected(item)
  BY <1>1 DEF PredictedCat, Expected
<1>3. \A c : HasProds(c)' = HasProds(c)
  BY DEF KeepsParse, HasProds
<1>4. ASSUME AtEnd(item)
      PROVE  /\ item.conts \in DOMAIN GenAt(g, p)'
             /\ DoneProd(item) \in Members(ccats'[GenAt(g, p)'[item.conts]].prods)
  BY <1>4 DEF ItemClosed, KeepsParse
<1>5. ASSUME ~AtEnd(item), CurrSym(item).t = "cat", HasProds(PredictedCat(item))
      PROVE  LET cid == <<p, PredictedCat(item), CurrSym(item).r>>
             IN cid \in DOMAIN conts' /\ item \in conts'[cid]
  <2>1. PICK cid : cid = <<p, PredictedCat(item), CurrSym(item).r>>
    OBVIOUS
  <2>2. cid \in DOMAIN conts /\ item \in conts[cid]
    BY <1>5, <2>1 DEF ItemClosed
  <2>3. cid[1] <= p
    <3>1. cid[1] = p /\ p \in Int
      BY <2>1
    <3> QED  BY <3>1
  <2> QED  BY <2>1, <2>2, <2>3 DEF KeepsParse
<1>6. ASSUME ~AtEnd(item), CurrSym(item).t \in {"ks", "kp"}, NEW tok \in Expected(item)
      PROVE  item \in parses'[p].transitions[tok]
  BY <1>6 DEF ItemClosed, KeepsParse
<1>7. PICK cat, r : cat = PredictedCat(item) /\ r = CurrSym(item).r
  OBVIOUS
<1>8. PICK cid : cid = <<p, cat, r>>
  OBVIOUS
<1>9. ~AtEnd(item)' /\ CurrSym(item)'.t = "cat" /\ HasProds(PredictedCat(item))' =>
        cid \in DOMAIN conts' /\ item \in conts'[cid]
  BY <1>1, <1>2, <1>3, <1>5, <1>7, <1>8
<1> QED  BY <1>1, <1>2, <1>4, <1>6, <1>7, <1>8, <1>9 DEF ItemClosed

\* A finished parse stays closed.
LEMMA ParseStaysClosed ==
  ASSUME ChartInv, NEW h, NEW g, NEW p \in 1..Len(parses), KeepsParse(h, g, p), ParseDerived(h, p),
         ParseClosed(h, p)
  PROVE  ParseClosed(g, p)'
<1>1. \A c : HasProds(c)' = HasProds(c) /\ StartCats(c)' = StartCats(c)
  BY DEF KeepsParse, HasProds, StartCats
<1>2. \A item : /\ \A tok : Matching(item, tok)' = Matching(item, tok)
                /\ \A i : Scanned(item, i)' = Scanned(item, i)
                /\ \A f : Combined(item, f)' = Combined(item, f)
  BY DEF KeepsParse, Matching, OpenForms, Scanned, Combined, CurrSym, Lin
<1>3. ProdsClosed(g, p)'
  BY <1>1 DEF ParseClosed, ProdsClosed, KeepsParse
<1>4. CatsClosed(g, p)'
  <2>1. ASSUME NEW cid \in DOMAIN GenAt(h, p), NEW cont \in conts'[cid]
        PROVE  IF cont = NULL THEN GenAt(h, p)[cid] \in Members(parses[p].completed)
               ELSE Combined(cont, GenAt(h, p)[cid]) \in SeenAt(h, p)
    <3>1. cid \in DOMAIN conts /\ cid[1] <= p
      BY DEF ParseDerived, CatsEnded
    <3>2. cont \in conts[cid]
      BY <2>1, <3>1 DEF KeepsParse
    <3> QED  BY <3>2 DEF ParseClosed, CatsClosed
  <2>2. Members(parses'[p].completed) = Members(parses[p].completed)
    BY DEF KeepsParse
  <2> QED  BY <1>2, <2>1, <2>2 DEF CatsClosed, KeepsParse
<1>5. TokenClosed(g, p)'
  BY <1>2 DEF ParseClosed, TokenClosed, KeepsParse
<1>6. StartClosedAt(g, p)'
  <2>1. PICK r, k : r = parses[p].start[2] /\ k = parses[p].start[1]
    OBVIOUS
  <2>2. ASSUME h[p].from = 0, NEW c \in StartCats(k), HasProds(c), NEW cid, cid = <<p, c, r>>
        PROVE  cid \in DOMAIN conts' /\ NULL \in conts'[cid]
    <3>1. cid \in DOMAIN conts /\ NULL \in conts[cid]
      BY <2>1, <2>2 DEF ParseClosed, StartClosedAt
    <3>2. cid[1] <= p
      <4>1. cid[1] = p /\ p \in Int
        BY <2>2
      <4> QED  BY <4>1
    <3> QED  BY <3>1, <3>2 DEF KeepsParse
  <2> QED  BY <1>1, <2>1, <2>2 DEF StartClosedAt, KeepsParse
<1>7. \A item \in SeenAt(g, p)' : ItemClosed(g, p, item)'
  <2>1. \A item \in SeenAt(h, p) : ItemClosed(h, p, item)
    BY DEF ParseClosed
  <2>2. SeenAt(g, p)' = SeenAt(h, p)
    BY DEF KeepsParse
  <2> QED  BY <2>1, <2>2, ItemStaysClosed
<1> QED  BY <1>3, <1>4, <1>5, <1>6, <1>7 DEF ParseClosed

\* Every step inside a call builds on the chart.
LEMMA StepBuilds ==
  ASSUME ChartInv, Step
  PROVE  Builds
<1>1. CASE UNCHANGED <<concr, next_fid, parses, ccats, conts, parsing>>
  BY <1>1, QuietBuilds
<1>2. CASE Start \/ Scan \/ ScanForms \/ ItemSeen \/ ProdsLoop \/ ContssLoop \/ ContsLoop
  BY <1>1, <1>2 DEF Start, Scan, ScanForms, ItemSeen, ProdsLoop, ContssLoop, ContsLoop
<1> QED  BY <1>2, CombineBuilds, ItemNewBuilds, CompleteOldBuilds, CompleteNewBuilds, PredictBuilds DEF Step

\* A step of the parser leaves the finished parses as they are.
LEMMA BuildsKeeps ==
  ASSUME ChartInv, NEW h, ChartDerived(h), Builds, NEW p \in 1..Len(parses), p # parsing.parse
  PROVE  KeepsParse(h, h, p)
<1>1. PICK q : q = parsing.parse
  OBVIOUS
<1>2. q = Len(parses) /\ q \in Nat /\ DOMAIN parses = 1..q /\ p < q /\ q \in 1..q
  BY <1>1, IsSeqFacts DEF ChartDerived, Lineage, ChartInv, ParsesOK
<1>3. parsing'.parse = q /\ concr' = concr /\ OldKept /\ parses'[q].fid = parses[q].fid
  BY <1>1, <1>2 DEF Builds, Grows
<1>4. parses'[p] = parses[p]
  BY <1>2, <1>3 DEF OldKept
<1>5. h[p].from > 0 => parses'[h[p].from] = parses[h[p].from]
  <2>1. h[p].from > 0 => h[p].from \in 1..(p - 1)
    BY DerivedFacts
  <2>2. \A x \in 1..(p - 1) : x \in DOMAIN parses /\ x # q
    BY <1>2
  <2> QED  BY <1>3, <2>1, <2>2 DEF OldKept
<1>6. SeenAt(h, p)' = SeenAt(h, p) /\ GenAt(h, p)' = GenAt(h, p)
  BY <1>1, <1>2, <1>3 DEF SeenAt, GenAt
<1>7. ASSUME NEW cid \in DOMAIN conts', cid[1] = p
      PROVE  cid \in DOMAIN conts /\ Prods(cid[2])' = Prods(cid[2])
  <2>1. cid \in DOMAIN conts /\ cid[1] # q
    BY <1>1, <1>2, <1>7 DEF Builds
  <2>2. PICK c : c = cid[2]
    OBVIOUS
  <2>3. c >= parses[q].fid /\ c \in Fids
    BY <1>1, <2>1, <2>2 DEF ChartDerived, Older, ChartInv, ContsOK
  <2>4. CASE c \in DOMAIN ccats
    <3>1. ccats'[c] = ccats[c]
      BY <1>3, <2>3, <2>4 DEF OldKept
    <3> QED  BY <2>1, <2>2, <2>4, <3>1, GrammarFacts DEF ChartInv, Prods
  <2>5. CASE c \in DOMAIN concr.cat
    BY <1>3, <2>1, <2>2, <2>5, GrammarFacts DEF ChartInv, Prods
  <2> QED  BY <2>3, <2>4, <2>5 DEF Fids
<1>8. ASSUME NEW cid \in DOMAIN conts, cid[1] <= p
      PROVE  cid \in DOMAIN conts' /\ conts'[cid] = conts[cid]
  <2>1. cid[1] # q
    BY <1>2, <1>8
  <2> QED  BY <1>3, <2>1 DEF OldKept, Builds, Grows
<1>9. ASSUME NEW cid \in DOMAIN GenAt(h, p)
      PROVE  Members(ccats[GenAt(h, p)[cid]].prods) \subseteq Members(ccats'[GenAt(h, p)[cid]].prods)
  <2>1. GenAt(h, p)[cid] \in DOMAIN ccats
    BY DerivedFacts DEF ParseDerived, CatsEnded
  <2> QED  BY <2>1 DEF Builds
<1> QED  BY <1>3, <1>4, <1>5, <1>6, <1>7, <1>8, <1>9 DEF KeepsParse

\* So does the beginning of the next.
LEMMA BeginKeeps ==
  ASSUME NEW h, ChartInv, ChartDerived(h), NEW start, NEW toks, NEW calls, Begin(start, toks, calls),
         NEW from, NEW tok, NEW g, g = Extended(h, from, tok), NEW p \in 1..Len(parses)
  PROVE  KeepsParse(h, g, p)
<1>1. UNCHANGED <<concr, ccats, conts>>
  BY DEF Begin
<1>2. PICK n : n = Len(parses)
  OBVIOUS
<1>3. /\ parses'[p] = parses[p] /\ g[p].from = h[p].from /\ g[p].tok = h[p].tok
      /\ SeenAt(g, p)' = SeenAt(h, p) /\ GenAt(g, p)' = GenAt(h, p)
  BY <1>2, BegunSame
<1>4. h[p].from > 0 => parses'[h[p].from] = parses[h[p].from]
  <2>1. ASSUME NEW q \in 1..n
        PROVE  parses'[q] = parses[q]
    BY <1>2, BegunSame
  <2> QED  BY <1>2, <2>1, DerivedFacts
<1>5. \A c : Prods(c)' = Prods(c)
  BY <1>1 DEF Prods
<1> QED  BY <1>1, <1>3, <1>4, <1>5 DEF KeepsParse

-----------------------------------------------------------------------------
(* Nothing that a call was begun with is lost *)

\* An item that waits for the token is scanned with form i, or a loop will come to it.
ScanHandled(item, tok, i) ==
  \/ Handled(Scanned(item, i))
  \/ \E f \in Pending : f.k = "scan" /\ f.tok = tok /\ item \in f.agenda
  \/ \E f \in Pending : f.k = "forms" /\ f.item = item /\ i \in f.todo

\* A category of the sentence is predicted, or the loop will come to it.
StartHandled(c, r) ==
  \/ ContsId(c, r) \in DOMAIN conts /\ NULL \in conts[ContsId(c, r)]
  \/ \E f \in Pending : f.k = "start" /\ f.r = r /\ c \in Members(f.cats)
  \/ [k |-> "predict", item |-> NULL, cat |-> c, r |-> r] \in Pending

\* What the parse under way was begun with is met, or will be.
Scanning(h) ==
  LET p == parsing.parse IN
  p > 0 /\ h[p].from > 0 =>
    \A item \in parses[h[p].from].transitions[h[p].tok] :
      \A i \in Matching(item, h[p].tok) : ScanHandled(item, h[p].tok, i)

Starting(h) ==
  LET p == parsing.parse IN
  p > 0 /\ h[p].from = 0 =>
    \A c \in StartCats(parses[p].start[1]) : HasProds(c) => StartHandled(c, parses[p].start[2])

\* The parses before it are closed.
FinishedClosed(h) == \A p \in 1..Len(parses) : p # parsing.parse => ParseClosed(h, p)

HistoryClosed(h) == Scanning(h) /\ Starting(h) /\ FinishedClosed(h)

\* What a step does to the frame on top, if it is one of those.
TopGoesOn ==
  /\ Top.k = "item" => Top.item \in parsing'.seen
  /\ Top.k = "scan" => \A item \in Top.agenda :
       \E f \in Pending' : \/ f.k = "scan" /\ f.tok = Top.tok /\ item \in f.agenda
                           \/ f.k = "forms" /\ f.item = item /\ f.todo = Matching(item, Top.tok)
  /\ Top.k = "forms" => \A i \in Top.todo :
       \/ ItemFrame(Scanned(Top.item, i)) \in Pending'
       \/ \E f \in Pending' : f.k = "forms" /\ f.item = Top.item /\ i \in f.todo
  /\ Top.k = "start" => \A c \in Members(Top.cats) :
       \/ \E f \in Pending' : f.k = "start" /\ f.r = Top.r /\ c \in Members(f.cats)
       \/ [k |-> "predict", item |-> NULL, cat |-> c, r |-> Top.r] \in Pending'
  /\ Top.k = "predict" /\ HasProds(Top.cat) =>
       LET cid == ContsId(Top.cat, Top.r) IN cid \in DOMAIN conts' /\ Top.item \in conts'[cid]

\* What is pending below it stays.
Onward == (\A f \in Pending : f \in Pending' \/ f = Top \/ f.k = "conts") /\ TopGoesOn

\* A step that scans nothing goes on with every frame.
LEMMA QuietOnward ==
  ASSUME ChartInv, ProdsLoop \/ pgf_parsing_combine \/ CompleteOld \/ ContssLoop \/ CompleteNew \/ ContsLoop
  PROVE  Onward
<1>1. ~Idle /\ StackOK /\ Top.k \in {"prods", "combine", "complete", "contss", "conts"}
  BY Zenon DEF ProdsLoop, pgf_parsing_combine, CompleteOld, ContssLoop, CompleteNew, ContsLoop, ChartInv
<1>2. \/ Pop \/ (\E f : Become(f)) \/ (\E f, g : Call(f, g))
  BY Zenon DEF ProdsLoop, pgf_parsing_combine, CompleteOld, ContssLoop, CompleteNew, ContsLoop
<1>3. \A f \in Pending : f \in Pending' \/ f = Top
  BY <1>1, <1>2, PopPending, BecomePending, CallPending
<1>4. TopGoesOn
  BY <1>1 DEF TopGoesOn
<1> QED  BY <1>3, <1>4, SMTT(30) DEF Onward

\* The item functions go on with every frame.
LEMMA ItemOnward ==
  ASSUME ChartInv, ItemNew \/ ItemSeen
  PROVE  Onward
<1>1. ~Idle /\ StackOK /\ Top.k = "item"
  BY DEF ItemNew, ItemSeen, ChartInv
<1>2. Pop \/ \E f : Become(f)
  BY Zenon DEF ItemNew, ItemSeen
<1>3. \A f \in Pending : f \in Pending' \/ f = Top
  BY <1>1, <1>2, PopPending, BecomePending
<1>4. Top.item \in parsing'.seen
  BY ItemNewBuilds DEF ItemSeen
<1>5. TopGoesOn
  BY <1>1, <1>4 DEF TopGoesOn
<1> QED  BY <1>3, <1>5 DEF Onward

\* Scan hands on the item that it takes from the agenda.
LEMMA ScanOnward ==
  ASSUME ChartInv, Scan
  PROVE  Onward
<1>1. ~Idle /\ StackOK /\ Top.k = "scan"
  BY DEF Scan, ChartInv
<1>2. PICK top : top = Top
  OBVIOUS
<1>3. DOMAIN top = {"k", "tok", "agenda"} /\ top.k = "scan"
  BY <1>1, <1>2, TopOK DEF FrameOK
<1>4. CASE top.agenda = {} /\ Pop
  <2>1. TopGoesOn
    BY <1>2, <1>3, <1>4 DEF TopGoesOn
  <2> QED  BY <1>1, <1>4, <2>1, PopPending DEF Onward
<1>5. ASSUME NEW item \in top.agenda, NEW f, NEW g, Call(f, g),
             f = [k |-> "forms", item |-> item, todo |-> Matching(item, top.tok)],
             g = [top EXCEPT !.agenda = @ \ {item}]
      PROVE  Onward
  <2>1. f \in Pending' /\ g \in Pending' /\ \A e \in Pending : e \in Pending' \/ e = Top
    BY <1>1, <1>5, CallPending
  <2>2. g.k = "scan" /\ g.tok = top.tok /\ g.agenda = top.agenda \ {item}
    BY <1>3, <1>5
  <2>3. f.k = "forms" /\ f.item = item /\ f.todo = Matching(item, top.tok)
    BY <1>5
  <2>4. \A other \in top.agenda : other = item \/ other \in g.agenda
    BY <2>2
  <2>5. TopGoesOn
    BY <1>2, <1>3, <2>1, <2>2, <2>3, <2>4 DEF TopGoesOn
  <2> QED  BY <2>1, <2>5 DEF Onward
<1> QED  BY <1>2, <1>4, <1>5 DEF Scan

\* ScanForms hands on the form that it takes.
LEMMA FormsOnward ==
  ASSUME ChartInv, ScanForms
  PROVE  Onward
<1>1. ~Idle /\ StackOK /\ Top.k = "forms"
  BY DEF ScanForms, ChartInv
<1>2. PICK top : top = Top
  OBVIOUS
<1>3. DOMAIN top = {"k", "item", "todo"} /\ top.k = "forms"
  BY <1>1, <1>2, TopOK DEF FrameOK
<1>4. CASE top.todo = {} /\ Pop
  <2>1. TopGoesOn
    BY <1>2, <1>3, <1>4 DEF TopGoesOn
  <2> QED  BY <1>1, <1>4, <2>1, PopPending DEF Onward
<1>5. ASSUME NEW i \in top.todo, NEW f, NEW g, Call(f, g),
             f = ItemFrame(Scanned(top.item, i)), g = [top EXCEPT !.todo = @ \ {i}]
      PROVE  Onward
  <2>1. f \in Pending' /\ g \in Pending' /\ \A e \in Pending : e \in Pending' \/ e = Top
    BY <1>1, <1>5, CallPending
  <2>2. g.k = "forms" /\ g.item = top.item /\ g.todo = top.todo \ {i}
    BY <1>3, <1>5
  <2>3. \A j \in top.todo : j = i \/ j \in g.todo
    BY <2>2
  <2>4. TopGoesOn
    BY <1>2, <1>3, <1>5, <2>1, <2>2, <2>3 DEF TopGoesOn
  <2> QED  BY <2>1, <2>4 DEF Onward
<1> QED  BY <1>2, <1>4, <1>5 DEF ScanForms

\* A member of a sequence is its head or one of its tail.
LEMMA HeadOrTail ==
  ASSUME NEW s, IsSeq(s), s # <<>>, NEW x \in Members(s)
  PROVE  x = Head(s) \/ x \in Members(Tail(s))
<1>1. PICK n, t : n = Len(s) /\ t = Tail(s)
  OBVIOUS
<1>2. n \in Nat \ {0} /\ Len(t) = n - 1 /\ \A j \in 1..(n - 1) : t[j] = s[j + 1]
  BY <1>1, TailSeq
<1>3. PICK i \in 1..n : x = s[i]
  BY <1>1 DEF Members
<1>4. PICK j : j = i - 1
  OBVIOUS
<1>5. i = 1 \/ (j \in 1..(n - 1) /\ j + 1 = i)
  BY <1>2, <1>4
<1>6. Head(s) = s[1]
  BY DEF Head
<1> QED  BY <1>1, <1>2, <1>3, <1>5, <1>6 DEF Members

\* Start hands on the category that it takes.
LEMMA StartOnward ==
  ASSUME ChartInv, Start
  PROVE  Onward
<1>1. ~Idle /\ StackOK /\ Top.k = "start"
  BY DEF Start, ChartInv
<1>2. PICK top : top = Top
  OBVIOUS
<1>3. DOMAIN top = {"k", "cats", "r"} /\ top.k = "start" /\ IsSeq(top.cats)
  BY <1>1, <1>2, TopOK DEF FrameOK
<1>4. CASE top.cats = <<>>
  <2>1. Members(top.cats) = {}
    BY <1>4, NewSeqs
  <2>2. TopGoesOn
    BY <1>2, <1>3, <2>1 DEF TopGoesOn
  <2>3. Pop
    BY <1>2, <1>4 DEF Start
  <2> QED  BY <1>1, <2>2, <2>3, PopPending DEF Onward
<1>5. CASE top.cats # <<>>
  <2>1. PICK c, f, g : /\ c = Head(top.cats) /\ g = [top EXCEPT !.cats = Tail(@)]
                       /\ f = [k |-> "predict", item |-> NULL, cat |-> c, r |-> top.r]
    OBVIOUS
  <2>2. Call(f, g)
    BY <1>2, <1>5, <2>1 DEF Start
  <2>3. f \in Pending' /\ g \in Pending' /\ \A e \in Pending : e \in Pending' \/ e = Top
    BY <1>1, <2>2, CallPending
  <2>4. g.k = "start" /\ g.r = top.r /\ g.cats = Tail(top.cats)
    BY <1>3, <2>1
  <2>5. \A d \in Members(top.cats) : d = c \/ d \in Members(g.cats)
    BY <1>3, <1>5, <2>1, <2>4, HeadOrTail
  <2>6. TopGoesOn
    BY <1>2, <1>3, <2>1, <2>3, <2>4, <2>5 DEF TopGoesOn
  <2> QED  BY <2>3, <2>6 DEF Onward
<1> QED  BY <1>4, <1>5

\* Predict goes on with every frame.
LEMMA PredictOnward ==
  ASSUME ChartInv, NoVisitedResize, Predict
  PROVE  Onward
<1>1. /\ ~Idle /\ Top.k = "predict" /\ StackOK
  BY DEF Predict, ChartInv
<1>2. PICK item, cat, r, cid : item = Top.item /\ cat = Top.cat /\ r = Top.r /\ cid = ContsId(cat, r)
  OBVIOUS
<1>3. CASE ~HasProds(cat)
  <2>1. Pop
    BY <1>2, <1>3 DEF Predict
  <2>2. TopGoesOn
    BY <1>1, <1>2, <1>3 DEF TopGoesOn
  <2> QED  BY <1>1, <2>1, <2>2, PopPending DEF Onward
<1>4. CASE HasProds(cat)
  <2>1. PICK old, n, loop :
          /\ old = (IF cid \in DOMAIN conts THEN conts[cid] ELSE {}) /\ n = Len(Prods(cat))
          /\ loop = [k |-> "prods", item |-> item, conts |-> cid, i |-> 1, n |-> n]
    OBVIOUS
  <2>2. IF item \in old THEN Become([loop EXCEPT !.i = n + 1]) /\ UNCHANGED conts
                        ELSE InsertCont(cid, old, item, loop)
    BY <1>2, <1>4, <2>1 DEF Predict
  <2>3. CASE item \in old
    <3>1. cid \in DOMAIN conts' /\ item \in conts'[cid]
      BY <2>1, <2>2, <2>3
    <3>2. TopGoesOn
      BY <1>1, <1>2, <3>1 DEF TopGoesOn
    <3> QED  BY <1>1, <2>2, <2>3, <3>2, BecomePending DEF Onward
  <2>4. CASE item \notin old
    <3>1. InsertCont(cid, old, item, loop)
      BY <2>2, <2>4
    <3>2. cid \in DOMAIN conts' /\ item \in conts'[cid]
      BY <3>1 DEF InsertCont
    <3>3. \A f \in Pending : f \in Pending' \/ f = Top \/ f.k = "conts"
      <4>1. CASE Become(loop)
        BY <1>1, <4>1, BecomePending
      <4>2. ASSUME NEW m \in 2..Len(stack), Enumerating(stack[m], cid),
                   NEW todo \in StillToVisit(stack[m].todo, cid, item),
                   stack' = [stack EXCEPT ![1] = loop, ![m].todo = todo]
            PROVE  \A f \in Pending : f \in Pending' \/ f = Top \/ f.k = "conts"
        BY <1>1, <4>2, InsertContPending
      <4> QED  BY <3>1, <4>1, <4>2 DEF InsertCont
    <3>4. TopGoesOn
      BY <1>1, <1>2, <3>2 DEF TopGoesOn
    <3> QED  BY <3>3, <3>4 DEF Onward
  <2> QED  BY <2>3, <2>4
<1> QED  BY <1>3, <1>4

\* Every step goes on with every frame.
LEMMA StepOnward ==
  ASSUME ChartInv, NoVisitedResize, Step
  PROVE  Onward
  BY QuietOnward, ItemOnward, ScanOnward, FormsOnward, StartOnward, PredictOnward DEF Step

\* An item that waits for the token stays seen to.
LEMMA ScanStaysHandled ==
  ASSUME Builds, Onward, NEW item, NEW tok, NEW i \in Matching(item, tok), ScanHandled(item, tok, i)
  PROVE  ScanHandled(item, tok, i)'
<1>1. PICK new : new = Scanned(item, i)
  BY SMTT(30)
<1>2. Scanned(item, i)' = new /\ Matching(item, tok)' = Matching(item, tok)
  BY <1>1 DEF Builds, Grows, Scanned, Matching, OpenForms, CurrSym, Lin
<1>3. Handled(new)' => ScanHandled(item, tok, i)'
  BY <1>2 DEF ScanHandled, Handled
<1>4. CASE Handled(new)
  <2>1. PICK f : f = ItemFrame(new)
    OBVIOUS
  <2>2. f.k = "item" /\ f.item = new
    BY <2>1 DEF ItemFrame
  <2>3. CASE new \in parsing.seen
    BY <1>3, <2>3 DEF Builds, Handled
  <2>4. CASE f \in Pending
    <3>1. f \in Pending' \/ f = Top
      BY <2>2, <2>4 DEF Onward
    <3>2. f = Top => new \in parsing'.seen
      BY <2>2 DEF Onward, TopGoesOn
    <3>3. Handled(new)'
      BY <2>1, <3>1, <3>2 DEF Handled, ItemFrame
    <3> QED  BY <1>3, <3>3
  <2> QED  BY <1>4, <2>1, <2>3, <2>4 DEF Handled
<1>5. ASSUME NEW f \in Pending, f.k = "scan", f.tok = tok, item \in f.agenda
      PROVE  ScanHandled(item, tok, i)'
  <2>1. CASE f \in Pending'
    BY <1>5, <2>1 DEF ScanHandled
  <2>2. CASE f = Top
    BY <1>5, <2>2 DEF ScanHandled, Onward, TopGoesOn
  <2> QED  BY <1>5, <2>1, <2>2 DEF Onward
<1>6. ASSUME NEW f \in Pending, f.k = "forms", f.item = item, i \in f.todo
      PROVE  ScanHandled(item, tok, i)'
  <2>1. CASE f \in Pending'
    BY <1>6, <2>1 DEF ScanHandled
  <2>2. CASE f = Top
    <3>1. \/ ItemFrame(new) \in Pending'
          \/ \E e \in Pending' : e.k = "forms" /\ e.item = item /\ i \in e.todo
      BY <1>1, <1>6, <2>2 DEF Onward, TopGoesOn
    <3>2. ItemFrame(new) \in Pending' => Handled(new)'
      BY DEF Handled, ItemFrame
    <3> QED  BY <1>3, <3>1, <3>2 DEF ScanHandled
  <2> QED  BY <1>6, <2>1, <2>2 DEF Onward
<1> QED  BY <1>1, <1>4, <1>5, <1>6 DEF ScanHandled

\* A category the parse was begun with stays seen to.
LEMMA StartStaysHandled ==
  ASSUME Builds, Onward, NEW c, NEW r, HasProds(c), StartHandled(c, r)
  PROVE  StartHandled(c, r)'
<1>1. PICK cid, frame : /\ cid = ContsId(c, r)
                        /\ frame = [k |-> "predict", item |-> NULL, cat |-> c, r |-> r]
  OBVIOUS
<1>2. ContsId(c, r)' = cid
  BY <1>1 DEF Builds, ContsId
<1>3. cid \in DOMAIN conts' /\ NULL \in conts'[cid] => StartHandled(c, r)'
  BY <1>2 DEF StartHandled
<1>4. CASE cid \in DOMAIN conts /\ NULL \in conts[cid]
  BY <1>3, <1>4 DEF Builds, Grows
<1>5. frame \in Pending' => StartHandled(c, r)'
  BY <1>1 DEF StartHandled
<1>6. CASE frame \in Pending
  <2>1. frame.k = "predict" /\ frame.item = NULL /\ frame.cat = c /\ frame.r = r
    BY <1>1
  <2>2. frame \in Pending' \/ frame = Top
    BY <1>6, <2>1 DEF Onward
  <2>3. frame = Top => cid \in DOMAIN conts' /\ NULL \in conts'[cid]
    BY <1>1, <2>1 DEF Onward, TopGoesOn
  <2> QED  BY <1>3, <1>5, <2>2, <2>3
<1>7. ASSUME NEW f \in Pending, f.k = "start", f.r = r, c \in Members(f.cats)
      PROVE  StartHandled(c, r)'
  <2>1. CASE f \in Pending'
    BY <1>7, <2>1 DEF StartHandled, Members
  <2>2. CASE f = Top
    <3>1. \/ \E e \in Pending' : e.k = "start" /\ e.r = r /\ c \in Members(e.cats)
          \/ frame \in Pending'
      BY <1>1, <1>7, <2>2 DEF Onward, TopGoesOn
    <3> QED  BY <1>5, <3>1 DEF StartHandled, Members
  <2> QED  BY <1>7, <2>1, <2>2 DEF Onward
<1> QED  BY <1>1, <1>4, <1>6, <1>7 DEF StartHandled

\* Every step inside a call keeps the history closed.
LEMMA StepClosesHistory ==
  ASSUME ChartInv, NoVisitedResize, NEW h, ChartDerived(h), HistoryClosed(h), Step
  PROVE  HistoryClosed(h)'
<1>1. Builds /\ Onward
  BY StepBuilds, StepOnward, SMTT(30)
<1>2. ~Idle
  BY Zenon DEF Step, Start, Scan, ScanForms, ItemNew, ItemSeen, Predict, ProdsLoop, pgf_parsing_combine,
     CompleteOld, ContssLoop, CompleteNew, ContsLoop
<1>3. PICK p, from, tok : p = parsing.parse /\ from = h[p].from /\ tok = h[p].tok
  OBVIOUS
<1>4. /\ p > 0 /\ p \in 1..Len(parses) /\ parsing'.parse = p /\ Len(parses') = Len(parses)
      /\ parses'[p].start = parses[p].start /\ concr' = concr
  BY <1>1, <1>2, <1>3, UnderWay DEF Builds, Grows
<1>5. ASSUME from > 0
      PROVE  parses'[from].transitions[tok] = parses[from].transitions[tok]
  <2>1. from \in 1..(p - 1) /\ from \in 1..Len(parses)
    BY <1>3, <1>4, <1>5, DerivedFacts
  <2>2. from # p /\ from \in DOMAIN parses
    BY <1>2, <1>4, <2>1, UnderWay
  <2>3. parses'[from] = parses[from]
    BY <1>1, <1>4, <2>2, SMTT(30) DEF Builds, OldKept
  <2> QED  BY <2>3
<1>6. Scanning(h)'
  <2>1. ASSUME from > 0, NEW item \in parses[from].transitions[tok], NEW i \in Matching(item, tok)
        PROVE  ScanHandled(item, tok, i)'
    <3>1. ScanHandled(item, tok, i)
      BY <1>3, <1>4, <2>1 DEF HistoryClosed, Scanning
    <3> QED  BY <1>1, <2>1, <3>1, ScanStaysHandled
  <2>2. \A item : Matching(item, tok)' = Matching(item, tok)
    BY <1>4 DEF Matching, OpenForms, CurrSym, Lin
  <2> QED  BY <1>3, <1>4, <1>5, <2>1, <2>2 DEF Scanning
<1>7. Starting(h)'
  <2>1. PICK k, r : k = parses[p].start[1] /\ r = parses[p].start[2]
    OBVIOUS
  <2>2. ASSUME from = 0, NEW c \in StartCats(k), HasProds(c)
        PROVE  StartHandled(c, r)'
    <3>1. StartHandled(c, r)
      BY <1>3, <1>4, <2>1, <2>2 DEF HistoryClosed, Starting
    <3> QED  BY <1>1, <2>2, <3>1, StartStaysHandled
  <2>3. StartCats(k)' = StartCats(k) /\ \A c : HasProds(c)' = HasProds(c)
    BY <1>4 DEF StartCats, HasProds
  <2>4. parses'[p].start[1] = k /\ parses'[p].start[2] = r
    BY <1>4, <2>1
  <2>5. StartCats(parses[p].start[1])' = StartCats(k)
    BY <1>4, <2>4 DEF StartCats
  <2> QED  BY <1>3, <1>4, <2>2, <2>3, <2>4, <2>5 DEF Starting
<1>8. FinishedClosed(h)'
  <2>1. ASSUME NEW q \in 1..Len(parses), q # p
        PROVE  ParseClosed(h, q)'
    <3>1. KeepsParse(h, h, q) /\ ParseDerived(h, q)
      BY <1>1, <1>3, <2>1, BuildsKeeps, DerivedFacts
    <3>2. ParseClosed(h, q)
      BY <1>3, <2>1 DEF HistoryClosed, FinishedClosed
    <3> QED  BY <3>1, <3>2, ParseStaysClosed
  <2> QED  BY <1>3, <1>4, <2>1 DEF FinishedClosed
<1> QED  BY <1>6, <1>7, <1>8 DEF HistoryClosed

\* With nothing on the stack, the parse under way is closed too.
LEMMA IdleIsClosed ==
  ASSUME NullIsNoItem, ChartInv, ClosedInv, Idle, NEW h, ChartDerived(h), Scanning(h), Starting(h),
         NEW p, p = parsing.parse, p > 0
  PROVE  ParseClosed(h, p)
<1>1. Pending = {}
  BY NewSeqs DEF Idle, Pending
<1>2. \A item : Handled(item) => item \in parsing.seen
  BY <1>1 DEF Handled
<1>3. SeenAt(h, p) = parsing.seen /\ GenAt(h, p) = parsing.generated
  BY DEF SeenAt, GenAt
<1>4. ProdsClosed(h, p)
  <2> SUFFICES ASSUME NEW cid \in DOMAIN conts, cid[1] = p, HasProds(cid[2]),
                      NEW prod \in Members(Prods(cid[2]))
               PROVE  pgf_new_item(cid, prod) \in parsing.seen
    BY <1>3 DEF ProdsClosed
  <2>1. PICK i \in 1..Len(Prods(cid[2])) : prod = Prods(cid[2])[i]
    BY DEF Members
  <2>2. Tried(cid, i)
    BY DEF ClosedInv, AllTried
  <2> QED  BY <1>1, <1>2, <2>1, <2>2 DEF Tried, InProds, InContss
<1>5. CatsClosed(h, p)
  <2>1. ASSUME NEW cid \in DOMAIN parsing.generated, NEW cont \in conts[cid]
        PROVE  IF cont = NULL THEN parsing.generated[cid] \in Members(parses[p].completed)
               ELSE Combined(cont, parsing.generated[cid]) \in parsing.seen
    <3>1. Met(cid, cont)
      BY <2>1 DEF ClosedInv, AllMet
    <3>2. Awaited(cont, parsing.generated[cid])
      BY <1>1, <3>1 DEF Met, InConts, EndsWith
    <3> QED  BY <1>1, <1>2, <3>2 DEF Awaited
  <2> QED  BY <1>3, <2>1 DEF CatsClosed
<1>6. TokenClosed(h, p)
  BY <1>1, <1>2, <1>3 DEF TokenClosed, Scanning, ScanHandled
<1>7. StartClosedAt(h, p)
  BY <1>1 DEF StartClosedAt, Starting, StartHandled, ContsId
<1>8. ASSUME NEW item \in parsing.seen
      PROVE  ItemClosed(h, p, item)
  <2>1. Served(item)
    BY DEF ClosedInv, AllServed
  <2>2. CASE AtEnd(item)
    BY <1>1, <1>3, <2>1, <2>2 DEF Served, Completes, ItemClosed
  <2>3. CASE ~AtEnd(item) /\ CurrSym(item).t = "cat"
    <3>1. PICK cat, cid : cat = PredictedCat(item) /\ cid = <<p, cat, CurrSym(item).r>>
      OBVIOUS
    <3>2. ContsId(cat, CurrSym(item).r) = cid
      BY <3>1 DEF ContsId
    <3>3. HasProds(cat) => cid \in DOMAIN conts /\ item \in conts[cid]
      BY <1>1, <2>1, <2>3, <3>1, <3>2 DEF Served, Waits
    <3> QED  BY <2>3, <3>1, <3>3 DEF ItemClosed
  <2>4. CASE ~AtEnd(item) /\ CurrSym(item).t # "cat"
    <3>1. CurrSym(item).t # "lit" => Filed(item)
      BY <2>1, <2>4 DEF Served
    <3> QED  BY <2>4, <3>1 DEF ItemClosed, Filed
  <2> QED  BY <2>2, <2>3, <2>4
<1> QED  BY <1>3, <1>4, <1>5, <1>6, <1>7, <1>8 DEF ParseClosed

\* When a parse begins, all of those there are closed.
LEMMA BeginFinished ==
  ASSUME NullIsNoItem, ChartInv, ClosedInv, NEW h, ChartDerived(h), HistoryClosed(h),
         NEW start, NEW toks, NEW calls, Begin(start, toks, calls),
         NEW from, NEW tok, NEW g, g = Extended(h, from, tok)
  PROVE  FinishedClosed(g)'
<1>1. PICK n, m : n = Len(parses) /\ m = n + 1
  OBVIOUS
<1>2. n \in Nat /\ Len(parses') = m /\ parsing'.parse = m /\ Idle
  <2>1. n \in Nat /\ Len(parses') = m /\ parsing'.parse = m
    BY <1>1, BegunFacts, ZenonT(40)
  <2> QED  BY <2>1 DEF Begin
<1>3. ASSUME NEW p \in 1..n
      PROVE  ParseClosed(g, p)'
  <2>1. ParseClosed(h, p)
    <3>1. CASE p = parsing.parse
      <4>1. p > 0
        BY <1>1, <1>2, <1>3
      <4> QED  BY <1>2, <3>1, <4>1, IdleIsClosed DEF HistoryClosed
    <3>2. CASE p # parsing.parse
      BY <1>1, <3>2 DEF HistoryClosed, FinishedClosed
    <3> QED  BY <3>1, <3>2
  <2>2. KeepsParse(h, g, p) /\ ParseDerived(h, p)
    BY <1>1, BeginKeeps, DerivedFacts
  <2>3. p \in 1..Len(parses)
    BY <1>1
  <2> QED  BY <2>1, <2>2, <2>3, ParseStaysClosed
<1>4. \A p \in 1..m : p = m \/ p \in 1..n
  BY <1>1, <1>2
<1> QED  BY <1>2, <1>3, <1>4 DEF FinishedClosed

\* pgf_parser_parse keeps the history closed.
LEMMA ParseClosesHistory ==
  ASSUME NullIsNoItem, ChartInv, ClosedInv, NEW h, ChartDerived(h), HistoryClosed(h),
         NEW cat, NEW r, pgf_parser_parse(cat, r), NEW tok, NEW g, g = Extended(h, 0, tok)
  PROVE  HistoryClosed(g)'
<1>1. PICK start, calls : /\ start = <<cat, r>>
                          /\ calls = IF cat \in DOMAIN concr.cnccats
                                     THEN <<[k |-> "start", cats |-> concr.cnccats[cat].cats, r |-> r]>>
                                     ELSE <<>>
  OBVIOUS
<1>2. Begin(start, <<>>, calls) /\ concr' = concr /\ stack' = calls
  BY <1>1 DEF pgf_parser_parse, Begin
<1>3. PICK n, m : n = Len(parses) /\ m = n + 1
  OBVIOUS
<1>4. parsing'.parse = m /\ parses'[m] = NewParse(start, <<>>) /\ g[m].from = 0
  BY <1>1, <1>2, <1>3, BegunFacts
<1>5. parses'[m].start[1] = cat /\ parses'[m].start[2] = r
  BY <1>1, <1>4 DEF NewParse
<1>6. FinishedClosed(g)'
  BY <1>2, BeginFinished
<1>7. Scanning(g)'
  BY <1>4 DEF Scanning
<1>8. ASSUME NEW c \in StartCats(cat)
      PROVE  StartHandled(c, r)'
  <2>1. PICK cats : cats = concr.cnccats[cat].cats
    OBVIOUS
  <2>2. cat \in DOMAIN concr.cnccats /\ \E i \in DOMAIN cats : c = cats[i]
    BY <2>1 DEF StartCats
  <2>3. IsSeq(cats)
    BY <2>1, <2>2, GrammarFacts DEF ChartInv, WellFormed
  <2>4. c \in Members(cats)
    BY <2>2, <2>3, IsSeqFacts DEF Members
  <2>5. PICK f : f = [k |-> "start", cats |-> cats, r |-> r]
    OBVIOUS
  <2>6. f \in Pending'
    BY <1>1, <1>2, <2>1, <2>2, <2>5, NewSeqs DEF Pending
  <2>7. f.k = "start" /\ f.r = r /\ c \in Members(f.cats)
    BY <2>4, <2>5
  <2> QED  BY <2>6, <2>7 DEF StartHandled, Members
<1>9. StartCats(parses[m].start[1])' = StartCats(cat)
  BY <1>2, <1>5 DEF StartCats
<1>10. Starting(g)'
  BY <1>4, <1>5, <1>8, <1>9 DEF Starting
<1> QED  BY <1>6, <1>7, <1>10 DEF HistoryClosed

\* pgf_parse_token keeps the history closed.
LEMMA TokenClosesHistory ==
  ASSUME NullIsNoItem, ChartInv, ClosedInv, NEW h, ChartDerived(h), HistoryClosed(h),
         NEW p \in DOMAIN parses, NEW tok \in Tokens, pgf_parse_token(p, tok),
         NEW g, g = Extended(h, p, tok)
  PROVE  HistoryClosed(g)'
<1>1. PICK start, toks, f : /\ start = parses[p].start /\ toks = Append(parses[p].toks, tok)
                            /\ f = [k |-> "scan", tok |-> tok, agenda |-> parses[p].transitions[tok]]
  OBVIOUS
<1>2. Begin(start, toks, <<f>>) /\ stack' = <<f>>
  BY <1>1 DEF pgf_parse_token, Begin
<1>3. PICK n, m : n = Len(parses) /\ m = n + 1
  OBVIOUS
<1>4. p \in 1..n /\ n \in Nat /\ p > 0
  BY <1>3, IsSeqFacts DEF ChartInv, ParsesOK
<1>5. parsing'.parse = m /\ g[m].from = p /\ g[m].tok = tok
  BY <1>2, <1>3, BegunFacts
<1>6. parses'[p] = parses[p]
  BY <1>2, <1>3, <1>4, BegunSame
<1>7. FinishedClosed(g)'
  BY <1>2, BeginFinished
<1>8. Starting(g)'
  BY <1>4, <1>5 DEF Starting
<1>9. ASSUME NEW item \in parses[p].transitions[tok], NEW i
      PROVE  ScanHandled(item, tok, i)'
  <2>1. f \in Pending'
    BY <1>2, NewSeqs DEF Pending
  <2>2. f.k = "scan" /\ f.tok = tok /\ item \in f.agenda
    BY <1>1
  <2> QED  BY <2>1, <2>2 DEF ScanHandled
<1>10. Scanning(g)'
  BY <1>5, <1>6, <1>9 DEF Scanning
<1> QED  BY <1>7, <1>8, <1>10 DEF HistoryClosed

\* When nothing happens the history stays closed.
LEMMA StutterClosesHistory ==
  ASSUME ChartInv, NEW h, ChartDerived(h), HistoryClosed(h), UNCHANGED vars
  PROVE  HistoryClosed(h)'
<1>1. UNCHANGED <<concr, next_fid, parses, ccats, conts, parsing, stack>>
  BY DEF vars
<1>2. /\ \A item, tok, i : ScanHandled(item, tok, i)' = ScanHandled(item, tok, i)
      /\ \A c, r : StartHandled(c, r)' = StartHandled(c, r)
      /\ \A item, tok : Matching(item, tok)' = Matching(item, tok)
      /\ \A c : StartCats(c)' = StartCats(c) /\ HasProds(c)' = HasProds(c)
  BY <1>1 DEF ScanHandled, StartHandled, Handled, Pending, Members, ItemFrame, Scanned, Matching,
     OpenForms, CurrSym, Lin, StartCats, HasProds, ContsId
<1>3. Scanning(h)' /\ Starting(h)'
  BY <1>1, <1>2 DEF HistoryClosed, Scanning, Starting
<1>4. ASSUME NEW p \in 1..Len(parses), p # parsing.parse
      PROVE  ParseClosed(h, p)'
  <2>1. SeenAt(h, p)' = SeenAt(h, p) /\ GenAt(h, p)' = GenAt(h, p)
    BY <1>1 DEF SeenAt, GenAt
  <2>2. \A c : Prods(c)' = Prods(c)
    BY <1>1 DEF Prods
  <2>3. KeepsParse(h, h, p)
    BY <1>1, <2>1, <2>2 DEF KeepsParse
  <2>4. ParseDerived(h, p) /\ ParseClosed(h, p)
    BY <1>4, DerivedFacts DEF HistoryClosed, FinishedClosed
  <2> QED  BY <2>3, <2>4, ParseStaysClosed
<1>5. FinishedClosed(h)'
  BY <1>1, <1>4 DEF FinishedClosed
<1> QED  BY <1>3, <1>5 DEF HistoryClosed

\* A history without parses is closed.
LEMMA InitCloses ==
  ASSUME Init
  PROVE  HistoryClosed(<<>>)
<1>1. parsing.parse = 0 /\ Len(parses) = 0 /\ ~(0 > 0) /\ 1..0 = {}
  BY NewSeqs DEF Init, NewParsing
<1> QED  BY <1>1 DEF HistoryClosed, Scanning, Starting, FinishedClosed

\* At any time, some history accounts for the chart, and is closed.
Complete == \E h : ChartDerived(h) /\ HistoryClosed(h)

\* Every step leads to a chart with a history that is derived and closed.
LEMMA NextCompletes ==
  ASSUME NullIsNoItem, ChartInv, ChartInv', ClosedInv, NoVisitedResize, [Next]_vars, Complete
  PROVE  Complete'
<1> PICK h : ChartDerived(h) /\ HistoryClosed(h)
  BY DEF Complete
<1>1. ASSUME NEW cat \in concr.abscats, NEW r \in CtntIds(cat), pgf_parser_parse(cat, r)
      PROVE  Complete'
  <2>1. PICK g : g = Extended(h, 0, 0)
    OBVIOUS
  <2>2. ChartDerived(g)' /\ HistoryClosed(g)'
    BY <1>1, <2>1, ParseDerives, ParseClosesHistory
  <2> QED  BY <2>2 DEF Complete
<1>2. ASSUME NEW p \in DOMAIN parses, NEW tok \in Tokens, pgf_parse_token(p, tok)
      PROVE  Complete'
  <2>1. PICK g : g = Extended(h, p, tok)
    OBVIOUS
  <2>2. ChartDerived(g)' /\ HistoryClosed(g)'
    BY <1>2, <2>1, TokenDerives, TokenClosesHistory
  <2> QED  BY <2>2 DEF Complete
<1>3. CASE Step
  BY <1>3, StepDerives, StepClosesHistory DEF Complete
<1>4. CASE UNCHANGED vars
  BY <1>4, StutterDerives, StutterClosesHistory DEF Complete
<1> QED  BY <1>1, <1>2, <1>3, <1>4 DEF Next

\* The members of a sequence are its values.
ValuesOf(s) == {s[i] : i \in DOMAIN s}

\* The values of a sequence are its members.
LEMMA MembersOfDomain ==
  ASSUME NEW s, IsSeq(s)
  PROVE  ValuesOf(s) = Members(s)
<1> PICK D : D = DOMAIN s
  OBVIOUS
<1>1. D = 1..Len(s)
  BY IsSeqFacts
<1>2. ASSUME NEW x
      PROVE  x \in {s[i] : i \in D} <=> x \in Members(s)
  BY <1>1 DEF Members
<1>3. {s[i] : i \in D} = Members(s)
  BY <1>2
<1> QED  BY <1>3, Zenon DEF ValuesOf

\* What a call returns is exactly what it has to find: both inclusions, of the last parse.
LEMMA CompleteFinds ==
  ASSUME NullIsNoItem, ChartInv, ClosedInv, Complete
  PROVE  FindsTheTrees
<1> SUFFICES ASSUME Idle, parses # <<>>
             PROVE  LET parse == parses[parsing.parse]
                        completed == {parse.completed[i] : i \in DOMAIN parse.completed}
                    IN TreesOf(completed, ChartRules)
                         = {t \in TreesOf(StartCats(parse.start[1]), GrammarRules) :
                              <<parse.start[2], parse.toks>> \in t.says}
  BY DEF FindsTheTrees
<1>1. PICK h : ChartDerived(h) /\ HistoryClosed(h)
  BY DEF Complete
<1>2. PICK p : p = parsing.parse
  OBVIOUS
<1>3. p \in 1..Len(parses) /\ DOMAIN parses = 1..Len(parses) /\ p > 0
  <2>1. IsSeq(parses) /\ p = Len(parses)
    BY <1>1, <1>2 DEF ChartDerived, Lineage, ChartInv, ParsesOK
  <2>2. Len(parses) \in Nat \ {0}
    BY <2>1, TailSeq
  <2> QED  BY <2>1, <2>2, IsSeqFacts
<1>4. AllClosed(h)
  <2>1. ParseClosed(h, p)
    BY <1>1, <1>2, <1>3, IdleIsClosed DEF HistoryClosed
  <2> QED  BY <1>1, <1>2, <2>1 DEF AllClosed, HistoryClosed, FinishedClosed
<1>5. FoundAreTrees /\ TreesAreFound(p)
  BY <1>1, <1>3, <1>4, DerivedAreTrees, ClosedFinds
<1>6. PICK completed : completed = Members(parses[p].completed)
  OBVIOUS
<1>7. {parses[p].completed[i] : i \in DOMAIN parses[p].completed} = completed
  <2>1. IsSeq(parses[p].completed)
    BY <1>3 DEF ChartInv, ParsesOK
  <2>2. ValuesOf(parses[p].completed) = completed
    BY <1>6, <2>1, MembersOfDomain, Zenon
  <2> QED  BY ONLY <2>2, Zenon DEF ValuesOf
<1>8. PICK found : found = TreesOf(completed, ChartRules)
  OBVIOUS
<1>9. PICK wanted : wanted = {t \in TreesOf(StartCats(parses[p].start[1]), GrammarRules) :
                               <<parses[p].start[2], parses[p].toks>> \in t.says}
  OBVIOUS
<1>10. found \subseteq wanted
  BY <1>3, <1>5, <1>6, <1>8, <1>9, Zenon DEF FoundAreTrees
<1>11. wanted \subseteq found
  BY <1>5, <1>6, <1>8, <1>9, Zenon DEF TreesAreFound
<1>12. found = wanted
  BY <1>10, <1>11
<1> QED  BY ONLY <1>2, <1>7, <1>8, <1>9, <1>12, Zenon

\* The parser finds the trees of the sentence: when a call returns, the categories it
\* completed stand for exactly the trees of the grammar that yield the tokens, in whatever
\* order the hash tables are enumerated, provided that no insertion resizes a set of
\* continuations while it is enumerated.
THEOREM FindsUnlessResized ==
  ASSUME NullIsNoItem
  PROVE  Spec /\ []NoVisitedResize => []FindsTheTrees
<1>1. Init => ClosedInv /\ Complete
  <2> SUFFICES ASSUME Init
               PROVE  ClosedInv /\ Complete
    OBVIOUS
  <2>1. ClosedInv
    BY DEF Init, NewParsing, ClosedInv, AllTried, AllMet, AllServed
  <2>2. PICK h : h = <<>>
    OBVIOUS
  <2>3. ChartDerived(h) /\ HistoryClosed(h)
    BY <2>2, InitDerived, InitCloses
  <2> QED  BY <2>1, <2>3 DEF Complete
<1>2. ChartInv /\ ChartInv' /\ ClosedInv /\ Complete /\ NoVisitedResize /\ [Next]_vars
        => ClosedInv' /\ Complete'
  BY ClosedNext, NextCompletes
<1>3. ChartInv /\ ClosedInv /\ Complete => FindsTheTrees
  BY CompleteFinds
<1> QED  BY <1>1, <1>2, <1>3, ChartInvHolds, PTL DEF Spec
=============================================================================
