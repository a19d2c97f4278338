------------------------------ MODULE LeafEnum ------------------------------
(***************************************************************************)
(* What an enumerator built on a GuChoice promises its client: the leaves  *)
(* of a decision tree one after another, in the order of the decisions,    *)
(* each exactly once, and then the end (gu/enum.h, gu_enum_next).          *)
(***************************************************************************)
EXTENDS Integers, Sequences

VARIABLES
  todo,  \* the set of leaves (sequences of decisions) not yet produced
  out    \* the sequence of leaves produced

absVars == <<todo, out>>

\* a comes before b in the order of decisions.
LexLess(a, b) ==
  \E j \in 1..Len(a) : /\ j <= Len(b)
                       /\ SubSeq(a, 1, j - 1) = SubSeq(b, 1, j - 1)
                       /\ a[j] < b[j]

AbsInit == out = <<>> /\ todo # {}

Produce ==
  \E leaf \in todo :
    /\ \A other \in todo \ {leaf} : LexLess(leaf, other)
    /\ out' = Append(out, leaf)
    /\ todo' = todo \ {leaf}

AbsSpec == AbsInit /\ [][Produce]_absVars /\ WF_absVars(Produce)
=============================================================================
