---------------------------- MODULE LinearizeRef ----------------------------
(***************************************************************************)
(* What the enumeration of pgf_lzr_concretize should yield, defined on the *)
(* abstract tree and without a GuChoice.  A derivation of a tree is        *)
(* [dec, cat, tree]: the numbers of the alternatives taken, for the        *)
(* coercions of its arguments, from left to right, and for its production; *)
(* the category that it is inferred to have; and the concrete tree.        *)
(***************************************************************************)
EXTENDS Linearize

CONSTANT MaxHeight \* no abstract tree is higher, no chain of coercions longer

\* The parts of the tree e at depth k, for each k.
Levels(e) ==
  LET at[k \in 0..MaxHeight + 1] ==
        IF k = 0 THEN {e} ELSE UNION {{t.args[i] : i \in DOMAIN t.args} : t \in at[k - 1]}
  IN at

\* A coercion has a higher rank than what it coerces.
Ranked(g, rank) ==
  \A ccat \in DOMAIN g.prods : \A i \in DOMAIN g.prods[ccat] :
    LET prod == g.prods[ccat][i] IN
    prod.fun = Coerce =>
      /\ rank[ccat] >= 1
      /\ \A cat \in DOMAIN g.prods : prod.args = <<cat>> => rank[ccat] > rank[cat]

\* Abstract trees are finite, and no category coerces itself.
ASSUME FiniteAssumption ==
  /\ MaxHeight \in Nat
  /\ \A in \in Inputs :
       /\ Levels(in.expr)[MaxHeight + 1] = {}
       /\ \A k \in 0..MaxHeight : \A t \in Levels(in.expr)[k] : IsSeq(t.args)
       /\ \E rank \in [DOMAIN in.g.prods -> 0..MaxHeight] : Ranked(in.g, rank)

-----------------------------------------------------------------------------
(* Derivations *)

\* The derivations ds after k coercions, for each k.
Lifted(d) ==
  {[dec |-> Append(d.dec, i + 1), cat |-> Supers(d.cat)[i], tree |-> d.tree] :
     i \in DOMAIN Supers(d.cat)}

Lifts(ds) ==
  LET upTo[k \in 0..MaxHeight] ==
        IF k = 0 THEN ds ELSE UNION {Lifted(d) : d \in upTo[k - 1]}
  IN upTo

\* The category is kept, which is the first alternative if there are others.
Kept(d) == IF Supers(d.cat) = <<>> THEN d ELSE [d EXCEPT !.dec = Append(@, 1)]

AsArgument(ds) == UNION {{Kept(d) : d \in Lifts(ds)[k]} : k \in 0..MaxHeight}

\* The first i arguments of e, for each i: [dec, cats, trees].  D are the derivations
\* of each of them.
NoArguments == [dec |-> <<>>, cats |-> <<>>, trees |-> <<>>]

WithArgument(l, d) ==
  [dec |-> l.dec \o d.dec, cats |-> Append(l.cats, d.cat), trees |-> Append(l.trees, d.tree)]

Arguments(e, D) ==
  LET upTo[i \in 0..Len(e.args)] ==
        IF i = 0 THEN {NoArguments}
        ELSE UNION {{WithArgument(l, d) : d \in AsArgument(D[e.args[i]])} : l \in upTo[i - 1]}
  IN upTo

\* The productions of fun for the arguments l.
Applied(fun, l) ==
  LET entries == InferEntries(fun, l.cats) IN
  {[dec |-> Append(l.dec, i), cat |-> entries[i].cat,
    tree |-> [fun |-> entries[i].prod.cnc, args |-> l.trees]] : i \in DOMAIN entries}

Derived(e, D) ==
  IF e.fun = Literal THEN {[dec |-> <<>>, cat |-> LitCat, tree |-> e]}
  ELSE IF ~HasFun(e.fun) THEN {}
  ELSE UNION {Applied(e.fun, l) : l \in Arguments(e, D)[Len(e.args)]}

\* The derivations of the parts of e, from the deepest ones up.
DerivationsOfParts(e) ==
  LET upTo[h \in 0..MaxHeight + 1] ==
        IF h = 0 THEN <<>>
        ELSE [t \in Levels(e)[MaxHeight + 1 - h] |-> Derived(t, upTo[h - 1])]
  IN upTo

Derivations(e) == DerivationsOfParts(e)[MaxHeight + 1][e]

\* The order of the derivations: by the first decision in which they differ.
Precedes(s, t) ==
  \E k \in 1..Len(s) : k <= Len(t) /\ s[k] < t[k] /\ \A i \in 1..(k - 1) : s[i] = t[i]

Preceding(s, ds) == {d \in ds : Precedes(d.dec, s)}

\* The i-th tree that the client is given is the one of the i-th derivation, and it
\* is not told the end before it has them all: a loop that gives up on an argument,
\* in the middle of a tree and at any depth, skips no derivation and repeats none.
ConcretizesAll ==
  Idle =>
  LET ds == Derivations(input.expr) IN
    /\ \A i \in DOMAIN results :
         \E d \in ds : results[i] = d.tree /\ Cardinality(Preceding(d.dec, ds)) = i - 1
    /\ ended => Cardinality(ds) = Len(results)
=============================================================================
