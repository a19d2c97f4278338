---------------------------- MODULE ParseResult ----------------------------
(***************************************************************************)
(* pgf/parser.c, pgf_parse_result: the enumeration of the abstract syntax  *)
(* trees that a parse stands for.                                          *)
(*                                                                         *)
(* forest is what the parser left behind: cats, its categories; completed, *)
(* a sequence of them; and prods, the productions [fun, args] of each      *)
(* synthetic one (whose prods is a GuBuf).  A coercion is                  *)
(* [fun |-> Coerce, args |-> <<c>>].  The tree under construction is its   *)
(* sequence of functions in prefix order, and todo the categories that the *)
(* recursion of pgf_cat_to_expr and pgf_production_to_expr has yet to      *)
(* visit: a null result of any call makes all its callers return null.     *)
(***************************************************************************)
EXTENDS GuChoice, FiniteSets

CONSTANTS
  Forests, \* the forests a parse may have
  Coerce,  \* stands for the function of a coercion
  META,    \* the expression of a category that is not synthetic
  NULL,    \* the null GuChoice*
  MaxVisits \* bound: the categories that a tree of a forest visits

IsSeq(s) == s \in Seq({s[i] : i \in DOMAIN s})

ASSUME ForestsAssumption ==
  \A f \in Forests :
    /\ IsFiniteSet(f.cats)
    /\ f.completed \in Seq(f.cats)
    /\ \A cat \in DOMAIN f.prods :
         IsSeq(f.prods[cat]) /\ \A i \in DOMAIN f.prods[cat] : f.prods[cat][i].args \in Seq(f.cats)

\* The null pointer is not a GuChoice.
ASSUME NullAssumption == NULL \notin [path : Seq(Nat), path_idx : Nat]

VARIABLES
  forest,
  choice,   \* pr->choice
  mark,     \* the mark of the current round of the loop
  todo,     \* categories still to be visited
  seen,     \* seen_cats
  expr,     \* the functions of the tree built so far
  pc,       \* where the call of gu_enum_next is
  results,  \* the trees the client has been given
  ended     \* the client has been told that there are no more

vars == <<forest, choice, mark, todo, seen, expr, pc, results, ended>>

Synth(cat) == cat \in DOMAIN forest.prods

\* pgf_parse_result
Init ==
  /\ forest \in Forests
  /\ choice = gu_new_choice
  /\ mark = 0
  /\ todo = <<>>
  /\ seen = {}
  /\ expr = <<>>
  /\ pc = "idle"
  /\ results = <<>>
  /\ ended = FALSE

Return(tree) ==
  /\ pc' = "idle"
  /\ results' = Append(results, tree)
  /\ UNCHANGED ended

ReturnFalse ==
  /\ pc' = "idle"
  /\ ended' = TRUE
  /\ UNCHANGED results

\* The client calls gu_enum_next.
pgf_parse_result_enum_next ==
  /\ pc = "idle"
  /\ IF choice = NULL THEN ReturnFalse
     ELSE pc' = "loop" /\ UNCHANGED <<results, ended>>
  /\ UNCHANGED <<forest, choice, mark, todo, seen, expr>>

\* A failed gu_require or gu_assert, or a null pointer dereferenced.
Abort ==
  /\ pc' = "aborted"
  /\ UNCHANGED <<choice, mark, todo, seen, expr, results, ended>>

\* The head of the loop of pgf_parse_result_next: which completed category?
LoopHead ==
  /\ pc = "loop"
  /\ LET n == Len(forest.completed) IN
       IF choice = NULL \/ ~NextAsserts(choice, n) THEN Abort
       ELSE /\ mark' = gu_choice_mark(choice)
            /\ choice' = gu_choice_next(choice, n)
            /\ IF NextDecision(choice, n) = -1
               THEN ReturnFalse /\ UNCHANGED <<todo, seen, expr>>
               ELSE /\ todo' = <<forest.completed[NextDecision(choice, n) + 1]>>
                    /\ seen' = {}
                    /\ expr' = <<>>
                    /\ pc' = "cat"
                    /\ UNCHANGED <<results, ended>>
  /\ UNCHANGED forest

\* pgf_cat_to_expr refuses a category it has seen in this tree.
SeenCat ==
  /\ pc = "cat" /\ todo # <<>>
  /\ Head(todo) \in seen
  /\ pc' = "null"
  /\ UNCHANGED <<forest, choice, mark, todo, seen, expr, results, ended>>

\* pgf_cat_to_expr on a category that is not synthetic.
MetaCat ==
  /\ pc = "cat" /\ todo # <<>>
  /\ Head(todo) \notin seen /\ ~Synth(Head(todo))
  /\ seen' = seen \cup {Head(todo)}
  /\ expr' = Append(expr, META)
  /\ todo' = Tail(todo)
  /\ UNCHANGED <<forest, choice, mark, pc, results, ended>>

\* pgf_cat_to_expr choosing a production, and pgf_production_to_expr.
pgf_production_to_expr(prod) ==
  /\ expr' = IF prod.fun = Coerce THEN expr ELSE Append(expr, prod.fun)
  /\ todo' = prod.args \o Tail(todo)

pgf_cat_to_expr ==
  /\ pc = "cat" /\ todo # <<>>
  /\ Head(todo) \notin seen /\ Synth(Head(todo))
  /\ LET prods == forest.prods[Head(todo)]
         n == Len(prods)
     IN IF ~NextAsserts(choice, n) THEN Abort
        ELSE /\ choice' = gu_choice_next(choice, n)
             /\ seen' = seen \cup {Head(todo)}
             /\ IF NextDecision(choice, n) = -1
                THEN pc' = "null" /\ UNCHANGED <<expr, todo>>
                ELSE pgf_production_to_expr(prods[NextDecision(choice, n) + 1]) /\ UNCHANGED pc
             /\ UNCHANGED <<mark, results, ended>>
  /\ UNCHANGED forest

\* Mutation: the choice is not reset to the mark.
AdvancedUnreset == IF CanAdvance(choice) THEN gu_choice_advance(choice) ELSE NULL

\* Mutation: a candidate that is given up is tried again.
AdvancedWithTree ==
  LET back == gu_choice_reset(choice, mark) IN
  IF pc = "null" THEN back ELSE IF CanAdvance(back) THEN gu_choice_advance(back) ELSE NULL

\* After the last alternative of every decision the choice is dropped.
AdvancedChoice ==
  LET back == gu_choice_reset(choice, mark) IN
  IF CanAdvance(back) THEN gu_choice_advance(back) ELSE NULL

\* The foot of the loop, with a tree or with null.
LoopFoot ==
  /\ \/ pc = "null" /\ pc' = "loop" /\ UNCHANGED <<results, ended>>
     \/ pc = "cat" /\ todo = <<>> /\ Return(expr)
  /\ choice' = AdvancedChoice
  /\ UNCHANGED <<forest, mark, todo, seen, expr>>

Step == LoopHead \/ SeenCat \/ MetaCat \/ pgf_cat_to_expr \/ LoopFoot

Next == pgf_parse_result_enum_next \/ Step

Spec == Init /\ [][Next]_vars

\* A call that has begun runs on, and the client goes on calling until the end.
FairSpec ==
  /\ Spec
  /\ WF_vars(Step)
  /\ WF_vars(~ended /\ pgf_parse_result_enum_next)

-----------------------------------------------------------------------------
\* enum.h: "If the enumeration `en` is at the end, `false` is returned."  So the
\* end is final: once the client has been told, no call gives another tree.
EndIsFinal == [][ended => results' = results]_vars

\* Every decision that a run replays is offered at least as many alternatives as
\* it still records (gu_assert, choice.c:51): although the categories seen decide
\* which decisions there are, they depend on earlier decisions alone.
ReplaysAgree ==
  pc = "cat" /\ todo # <<>> /\ Head(todo) \notin seen /\ Synth(Head(todo)) =>
    Remaining(choice, Len(forest.prods[Head(todo)])) <= Len(forest.prods[Head(todo)])

(***************************************************************************)
(* What the enumeration should yield, defined without a GuChoice and       *)
(* without seen_cats.  A derivation under way of the forest f is           *)
(*   dec    the numbers of the alternatives taken, beginning with that of  *)
(*          the completed category,                                        *)
(*   last   whether each of them was the last one,                         *)
(*   todo   the categories still to be visited, each with those above it,  *)
(*   seen   the categories visited, twice whether one of them was visited  *)
(*          before, and                                                    *)
(*   expr   the functions of its tree.                                     *)
(* A category may not be below itself, for then there would be infinitely  *)
(* many trees; but two arguments may have the same one.                    *)
(***************************************************************************)
Begun(f, i) ==
  [dec |-> <<i>>, last |-> (i = Len(f.completed)), todo |-> <<[cat |-> f.completed[i], above |-> {}]>>,
   seen |-> {}, twice |-> FALSE, expr |-> <<>>]

\* The arguments args of a production of what was visited at.
Below(at, args) == [j \in DOMAIN args |-> [cat |-> args[j], above |-> at.above \cup {at.cat}]]

Took(f, c, i) ==
  LET at == Head(c.todo)
      prods == f.prods[at.cat]
  IN [dec |-> Append(c.dec, i), last |-> (c.last /\ i = Len(prods)),
      todo |-> Below(at, prods[i].args) \o Tail(c.todo),
      seen |-> c.seen \cup {at.cat}, twice |-> (c.twice \/ at.cat \in c.seen),
      expr |-> IF prods[i].fun = Coerce THEN c.expr ELSE Append(c.expr, prods[i].fun)]

TookMeta(c) ==
  LET at == Head(c.todo) IN
    [dec |-> c.dec, last |-> c.last, todo |-> Tail(c.todo),
     seen |-> c.seen \cup {at.cat}, twice |-> (c.twice \/ at.cat \in c.seen), expr |-> Append(c.expr, META)]

\* What c becomes by the visit of one category more.
Continued(f, c) ==
  IF c.todo = <<>> \/ Head(c.todo).cat \in Head(c.todo).above THEN {}
  ELSE IF Head(c.todo).cat \notin DOMAIN f.prods THEN {TookMeta(c)}
  ELSE {Took(f, c, i) : i \in DOMAIN f.prods[Head(c.todo).cat]}

\* The derivations after k visits, for each k.
Stages(f) ==
  LET upTo[k \in 0..(MaxVisits + 1)] ==
        IF k = 0 THEN {Begun(f, i) : i \in DOMAIN f.completed}
        ELSE UNION {Continued(f, c) : c \in upTo[k - 1]}
  IN upTo

\* No tree takes more visits than the bound.
ASSUME VisitsAssumption == MaxVisits \in Nat /\ \A f \in Forests : Stages(f)[MaxVisits + 1] = {}

Derivations == LET stages == Stages(forest) IN
  {c \in UNION {stages[k] : k \in 0..MaxVisits} : c.todo = <<>>}

\* Those without a category that is visited twice.
Unshared == {d \in Derivations : ~d.twice}

\* The order of the derivations: by the first decision in which they differ.
Precedes(s, t) ==
  \E k \in 1..Len(s) : k <= Len(t) /\ s[k] < t[k] /\ \A i \in 1..(k - 1) : s[i] = t[i]

Preceding(s, ds) == {d \in ds : Precedes(d.dec, s)}

\* The i-th tree that the client has been given is the one of the i-th of ds.
GivenOf(ds) ==
  \A i \in DOMAIN results :
    \E d \in ds : results[i] = d.expr /\ Cardinality(Preceding(d.dec, ds)) = i - 1

AllOf(ds) == Cardinality(ds) = Len(results)

\* enum.h: gu_enum_next gives "the next element".  The client is given the derivations
\* without a shared category, in order and each once, and is not told the end before it
\* has them all: retracing the decisions of the run before, giving up in the middle of
\* a tree and starting the next one from the same mark lose and repeat none of them.
\* Where a category is visited twice, below itself or beside, pgf_cat_to_expr gives up
\* (parser.c:808).
EnumeratesTheUnshared == GivenOf(Unshared) /\ (ended => AllOf(Unshared))

\* The last alternative of every decision leads to a tree that is given, or there is
\* no decision.
LastIsGiven == forest.completed = <<>> \/ \E d \in Unshared : d.last

\* The client is told the end of every enumeration unless the last candidate is given
\* up: then pr->choice is null when the loop goes on (parser.c:851 and 839), and the
\* call always comes to read through it.
EndToldUnlessLastRefused == <>(IF LastIsGiven THEN ended ELSE pc = "aborted")

\* parser.h: "An enumeration of #PgfExpr elements representing the abstract syntax
\* trees that would linearize to the sequence of tokens", and enum.h: "If the
\* enumeration `en` is at the end, `false` is returned."  A client that goes on calling
\* is given every tree of the forest, in order and each once, and is then told false.
EnumeratesTheForest == <>(ended /\ GivenOf(Derivations) /\ AllOf(Derivations))
=============================================================================
