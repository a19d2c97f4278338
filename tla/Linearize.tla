----------------------------- MODULE Linearize -----------------------------
(***************************************************************************)
(* pgf/linearize.c, pgf_lzr_concretize: the enumeration of the concrete    *)
(* syntax trees of an abstract one, by bottom-up inference of its category *)
(* with nested backtracking over one GuChoice.                             *)
(*                                                                         *)
(* A grammar is [cnccats, extra_ccats, prods]: the ccats of each concrete  *)
(* category and the others, as sequences, and the productions of each ccat *)
(* that has some: [fun, cnc, args], an application of the abstract         *)
(* function fun linearized as the PgfCncFun cnc, or                        *)
(* [fun |-> Coerce, args |-> <<c>>].  An abstract tree is [fun, args]; one *)
(* that is not an application is [fun |-> Other, args |-> <<>>], and a     *)
(* literal is [fun |-> Literal, args |-> <<>>].  stack holds the calls of  *)
(* pgf_lzn_next, pgf_lzn_infer and pgf_lzn_infer_application, top first.   *)
(***************************************************************************)
EXTENDS GuChoice, SequencesExt

CONSTANTS
  Inputs,       \* pairs [g, expr] of a grammar and an abstract tree
  Coerce,       \* stands for the function of a coercion
  Literal,      \* stands for the function of a literal
  Other,        \* stands for the function of any other tree
  LitCat,       \* pgf_literal_cat of the literal
  NULL          \* the null PgfCCat*, the null PgfExpr

IsSeq(s) == s \in Seq({s[i] : i \in DOMAIN s})

\* A grammar is finite, its ccats and productions are in sequences, and the tree is
\* not the null one.
ASSUME InputsAssumption ==
  \A in \in Inputs :
    /\ IsFiniteSet(DOMAIN in.g.cnccats)
    /\ \A cat \in DOMAIN in.g.cnccats : IsSeq(in.g.cnccats[cat])
    /\ IsSeq(in.g.extra_ccats)
    /\ \A ccat \in DOMAIN in.g.prods : IsSeq(in.g.prods[ccat])
    /\ in.expr # NULL

VARIABLES
  input,    \* the grammar, and the abstract tree pgf_lzr_concretize was given
  lzr,      \* the indices of the PgfLzr: the productions in the order indexed
  expr,     \* lzn->expr
  ch,       \* lzn->ch
  mark,     \* the mark of pgf_lzn_next
  stack,
  results,  \* the trees the client has been given
  ended     \* the client has been told that there are no more

vars == <<input, lzr, expr, ch, mark, stack, results, ended>>

-----------------------------------------------------------------------------
(* pgf_new_lzr *)

\* pgf_lzr_index_ccat: the productions of cat, if its prods are not null.
Indexed(g, cat) ==
  IF cat \notin DOMAIN g.prods THEN <<>>
  ELSE [i \in DOMAIN g.prods[cat] |-> [cat |-> cat, prod |-> g.prods[cat][i]]]

\* The ccats of the concrete categories in the order of the hash table, here
\* names, and then the others.
IndexOrder(g, names) ==
  FlattenSeq([i \in DOMAIN names |-> g.cnccats[names[i]]]) \o g.extra_ccats

pgf_new_lzr(g, names) ==
  LET order == IndexOrder(g, names) IN
  FlattenSeq([i \in DOMAIN order |-> Indexed(g, order[i])])

\* The productions at the places given, in the order indexed.
IndexedAt(places) ==
  LET upto[n \in 0..Len(lzr)] ==
        IF n = 0 THEN <<>>
        ELSE IF n \in places THEN Append(upto[n - 1], lzr[n]) ELSE upto[n - 1]
  IN upto[Len(lzr)]

\* coerce_idx: the categories that coerce cat.
Supers(cat) ==
  LET coerces(x) == x.prod.fun = Coerce /\ x.prod.args = <<cat>>
      found == IndexedAt({n \in DOMAIN lzr : coerces(lzr[n])})
  IN [i \in DOMAIN found |-> found[i].cat]

HasFun(f) == f # Coerce /\ \E i \in DOMAIN lzr : lzr[i].prod.fun = f

\* fun_indices: the productions of f for these argument categories.
InferEntries(f, cats) ==
  LET fits(x) == x.prod.fun = f /\ x.prod.args = cats IN
  IndexedAt({n \in DOMAIN lzr : fits(lzr[n])})

-----------------------------------------------------------------------------
Infer(e) == [k |-> "infer", expr |-> e]

\* pgf_lzr_concretize, for some order of the hash table.
Init ==
  /\ input \in Inputs
  /\ \E names \in SetToSeqs(DOMAIN input.g.cnccats) : lzr = pgf_new_lzr(input.g, names)
  /\ expr = input.expr
  /\ ch = gu_new_choice
  /\ mark = 0
  /\ stack = <<>>
  /\ results = <<>>
  /\ ended = FALSE

Top == stack[1]
Idle == stack = <<>>
At(k) == ~Idle /\ Top.k = k
Become(frame) == stack' = <<frame>> \o Tail(stack)

\* pgf_lzn_infer returns got, [cat, tree] or NULL, to the frame below.
Return(got) ==
  LET caller == stack[2]
      back == CASE caller.k \in {"dry", "build"} -> [caller EXCEPT !.got = got]
                [] caller.k = "args" /\ got = NULL -> [caller EXCEPT !.k = "back"]
                [] OTHER -> [caller EXCEPT !.k = "super", !.got = got]
  IN stack' = <<back>> \o Tail(Tail(stack))

\* The client, which does so until it is told the end, calls gu_enum_next;
\* pgf_lzn_next up to its first inference.
pgf_cnc_tree_enum_next ==
  /\ Idle /\ ~ended
  /\ IF expr = NULL THEN ended' = TRUE /\ UNCHANGED <<mark, stack>>
     ELSE /\ mark' = gu_choice_mark(ch)
          /\ stack' = <<Infer(expr), [k |-> "dry", got |-> NULL]>>
          /\ UNCHANGED ended
  /\ UNCHANGED <<input, lzr, expr, ch, results>>

\* Mutation: the run that builds the tree starts where the dry run ended.
DryRunUnreset ==
  /\ At("dry")
  /\ LET back == gu_choice_reset(ch, mark) IN
       IF Top.got # NULL THEN
         /\ stack' = <<Infer(expr), [k |-> "build", cat |-> Top.got.cat, got |-> NULL]>>
         /\ UNCHANGED <<ch, ended>>
       ELSE
         /\ ch' = gu_choice_advance(back)
         /\ stack' = IF CanAdvance(back) THEN <<Infer(expr)>> \o stack ELSE <<>>
         /\ ended' = (ended \/ ~CanAdvance(back))
  /\ UNCHANGED <<input, lzr, expr, mark, results>>

\* Its loop, which looks for a choice that leads to a category.
DryRun ==
  /\ At("dry")
  /\ LET back == gu_choice_reset(ch, mark) IN
       IF Top.got # NULL THEN
         /\ ch' = back
         /\ stack' = <<Infer(expr), [k |-> "build", cat |-> Top.got.cat, got |-> NULL]>>
         /\ UNCHANGED ended
       ELSE
         /\ ch' = gu_choice_advance(back)
         /\ stack' = IF CanAdvance(back) THEN <<Infer(expr)>> \o stack ELSE <<>>
         /\ ended' = (ended \/ ~CanAdvance(back))
  /\ UNCHANGED <<input, lzr, expr, mark, results>>

\* The second inference, for the tree, is over: give it to the client.
Build ==
  /\ At("build")
  /\ Top.got # NULL
  /\ LET back == gu_choice_reset(ch, mark) IN
       /\ ch' = gu_choice_advance(back)
       /\ expr' = IF CanAdvance(back) THEN expr ELSE NULL
  /\ results' = Append(results, Top.got.tree)
  /\ stack' = <<>>
  /\ UNCHANGED <<input, lzr, mark, ended>>

\* pgf_lzn_infer, and pgf_lzn_infer_application up to its loop.
pgf_lzn_infer ==
  /\ At("infer")
  /\ LET e == Top.expr IN
       CASE e.fun = Literal -> Return([cat |-> LitCat, tree |-> e])
         [] e.fun # Literal /\ ~HasFun(e.fun) -> Return(NULL)
         [] OTHER -> Become([k |-> "args", fun |-> e.fun, args |-> e.args, got |-> NULL,
                             marks |-> <<gu_choice_mark(ch)>>, cats |-> <<>>, trees |-> <<>>])
  /\ UNCHANGED <<input, lzr, expr, ch, mark, results, ended>>

\* pgf_lzn_infer_apply_try: the next argument.  i, the number of arguments that
\* have a category, is the length of cats.
InferArg ==
  /\ At("args") /\ Len(Top.cats) < Len(Top.args)
  /\ stack' = <<Infer(Top.args[Len(Top.cats) + 1])>> \o stack
  /\ UNCHANGED <<input, lzr, expr, ch, mark, results, ended>>

\* The argument gets category cat, after which the choice is c.
SetArg(cat, c) ==
  Become([Top EXCEPT !.k = "args",
                     !.got = NULL,
                     !.cats = Append(@, cat),
                     !.trees = Append(@, Top.got.tree),
                     !.marks = Append(@, gu_choice_mark(c))])

\* A round of pgf_lzn_pick_supercat.
pgf_lzn_pick_supercat ==
  /\ At("super")
  /\ LET supers == Supers(Top.got.cat)
         n == Len(supers) + 1
         d == NextDecision(ch, n)
     IN IF supers = <<>> THEN SetArg(Top.got.cat, ch) /\ UNCHANGED ch
        ELSE /\ ch' = gu_choice_next(ch, n)
             /\ IF d = 0 THEN SetArg(Top.got.cat, gu_choice_next(ch, n))
                ELSE Become([Top EXCEPT !.got.cat = supers[d]])
  /\ UNCHANGED <<input, lzr, expr, mark, results, ended>>

\* pgf_lzn_infer_apply_try once all arguments have a category.
InferEntry ==
  /\ At("args") /\ Len(Top.cats) = Len(Top.args)
  /\ LET entries == InferEntries(Top.fun, Top.cats)
         n == Len(entries)
     IN IF n = 0 THEN Become([Top EXCEPT !.k = "back"]) /\ UNCHANGED ch
        ELSE LET entry == entries[NextDecision(ch, n) + 1] IN
             /\ ch' = gu_choice_next(ch, n)
             /\ Return([cat |-> entry.cat,
                        tree |-> [fun |-> entry.prod.cnc, args |-> Top.trees]])
  /\ UNCHANGED <<input, lzr, expr, mark, results, ended>>

\* Mutations: the mark after the argument instead of the one before it; the same
\* choice over again.
BacktrackLate ==
  /\ At("back")
  /\ LET i == Len(Top.cats) - 1 IN
       IF i < 0 THEN Return(NULL) /\ UNCHANGED ch
       ELSE LET back == gu_choice_reset(ch, Top.marks[i + 2]) IN
            /\ ch' = gu_choice_advance(back)
            /\ Become([Top EXCEPT !.k = IF CanAdvance(back) THEN "args" ELSE "back",
                                  !.cats = SubSeq(@, 1, i),
                                  !.trees = SubSeq(@, 1, i),
                                  !.marks = SubSeq(@, 1, i + 1)])
  /\ UNCHANGED <<input, lzr, expr, mark, results, ended>>

BacktrackStuck ==
  /\ At("back")
  /\ LET i == Len(Top.cats) - 1 IN
       IF i < 0 THEN Return(NULL) /\ UNCHANGED ch
       ELSE /\ ch' = gu_choice_reset(ch, Top.marks[i + 1])
            /\ Become([Top EXCEPT !.k = "args",
                                  !.cats = SubSeq(@, 1, i),
                                  !.trees = SubSeq(@, 1, i),
                                  !.marks = SubSeq(@, 1, i + 1)])
  /\ UNCHANGED <<input, lzr, expr, mark, results, ended>>

\* A round of the inner loop of pgf_lzn_infer_application: back to the argument
\* before, if it has another choice.
Backtrack ==
  /\ At("back")
  /\ LET i == Len(Top.cats) - 1 IN
       IF i < 0 THEN Return(NULL) /\ UNCHANGED ch
       ELSE LET back == gu_choice_reset(ch, Top.marks[i + 1]) IN
            /\ ch' = gu_choice_advance(back)
            /\ Become([Top EXCEPT !.k = IF CanAdvance(back) THEN "args" ELSE "back",
                                  !.cats = SubSeq(@, 1, i),
                                  !.trees = SubSeq(@, 1, i),
                                  !.marks = SubSeq(@, 1, i + 1)])
  /\ UNCHANGED <<input, lzr, expr, mark, results, ended>>

Step ==
  \/ DryRun \/ Build \/ pgf_lzn_infer \/ InferArg \/ pgf_lzn_pick_supercat
  \/ InferEntry \/ Backtrack

Next == pgf_cnc_tree_enum_next \/ Step

Spec == Init /\ [][Next]_vars

\* A call that has begun runs on, and the client goes on calling until the end.
FairSpec ==
  /\ Spec
  /\ WF_vars(Step)
  /\ WF_vars(pgf_cnc_tree_enum_next)

-----------------------------------------------------------------------------
\* The choices that a run meets again offer what they offered before (gu_assert,
\* choice.c:51), and every mark lies behind the position it is reset from
\* (gu_require, choice.c:35), although the loops of all the applications on the
\* stack cut the one path they share.
ChoicesNest ==
  /\ At("super") =>
       LET n == Len(Supers(Top.got.cat)) IN n > 0 => Remaining(ch, n + 1) <= n + 1
  /\ At("args") /\ Len(Top.cats) = Len(Top.args) =>
       LET n == Len(InferEntries(Top.fun, Top.cats)) IN n > 0 => Remaining(ch, n) <= n
  /\ \A n \in DOMAIN stack : stack[n].k \in {"args", "super", "back"} =>
       /\ \A i \in DOMAIN stack[n].marks : stack[n].marks[i] <= ch.path_idx
       /\ \A i, j \in DOMAIN stack[n].marks : i <= j => stack[n].marks[i] <= stack[n].marks[j]

\* The run that builds the tree infers the category of the dry run before it
\* (gu_assert(cat == cat2), linearize.c:423), and never backtracks: the path that
\* the dry run left is the one that led to its category, through choices that
\* nest.
BuildRepeatsDryRun ==
  /\ ChoicesNest
  /\ \/ Idle \/ stack[Len(stack)].k # "build"
     \/ /\ ~At("back")
        /\ At("build") => Top.got # NULL /\ Top.got.cat = Top.cat

\* Every enumeration comes to its end.
Terminates == <>ended
=============================================================================
