------------------------------ MODULE MCChoices ------------------------------
(***************************************************************************)
(* Two enumerators, each with a GuChoice of its own, called in any order:  *)
(* one of an arbitrary client and one of parse results.  To keep the       *)
(* instance small, one of the two is trivial: the client that makes no     *)
(* decision, or the forest of an unsuccessful parse.                       *)
(*                                                                         *)
(* The clients are all decision trees of depth at most 2 with at most      *)
(* MaxArity alternatives for a decision.  The forests are all those over   *)
(* two synthetic categories, 1 and 2, with one or two productions each,    *)
(* and a category 3 that is not synthetic; some are cyclic, and some use a *)
(* category twice.                                                         *)
(***************************************************************************)
EXTENDS ChoiceEnum, ParseResult

CONSTANT MaxArity

\* Inner nodes at depth 0 and 1: the root, and the children chosen to be inner.
MCTrees ==
  LET kids(n) == {<<i>> : i \in 0..(n - 1)}
      deep(n) == UNION {[{<<>>} \cup inner -> 1..MaxArity] : inner \in SUBSET kids(n)}
  IN {<<>>} \cup UNION {{t \in deep(n) : t[<<>>] = n} : n \in 1..MaxArity}

ASSUME AllTerminate == \A t \in Trees : Terminating(t)

MCProds ==
  {[fun |-> "leaf", args |-> <<>>], [fun |-> "one", args |-> <<2>>],
   [fun |-> "two", args |-> <<2, 3>>], [fun |-> "metas", args |-> <<3, 3>>],
   [fun |-> "loop", args |-> <<1>>], [fun |-> Coerce, args |-> <<2>>]}

MCForests ==
  {[cats |-> {}, completed |-> <<>>, prods |-> <<>>]} \cup
  [cats : {{1, 2, 3}},
   completed : {<<1>>, <<1, 2>>},
   prods : [{1, 2} -> {<<p>> : p \in MCProds} \cup {<<p, q>> : p, q \in MCProds}]]

\* The forest of two trees, the second of which has the same category as both of its
\* arguments.
SharingForest ==
  {[cats |-> {1, 3}, completed |-> <<1>>,
    prods |-> << <<[fun |-> "leaf", args |-> <<>>], [fun |-> "metas", args |-> <<3, 3>>]>> >>]}

-----------------------------------------------------------------------------
ClientTurn == EnumNext /\ UNCHANGED vars
ResultsTurn == Next /\ UNCHANGED enumVars

MCInit == EnumInit /\ Init /\ (tree = <<>> \/ forest.completed = <<>>)

MCSpec ==
  /\ MCInit
  /\ [][ClientTurn \/ ResultsTurn]_<<vars, enumVars>>
  /\ WF_enumVars(ClientTurn)
  /\ WF_vars(Step /\ UNCHANGED enumVars)
  /\ WF_vars(~ended /\ pgf_parse_result_enum_next /\ UNCHANGED enumVars)
=============================================================================
