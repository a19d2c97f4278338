----------------------------- MODULE ChoiceEnum -----------------------------
(***************************************************************************)
(* The enumeration protocol of pgf_parse_result_next (pgf/parser.c) and    *)
(* pgf_lzn_next (pgf/linearize.c) over one GuChoice, for an arbitrary      *)
(* client: from the mark it makes decisions until it has a result (or      *)
(* gives up), resets to the mark, and advances to the next run; the        *)
(* enumeration ends when gu_choice_advance returns false.                  *)
(*                                                                         *)
(* The client is a decision tree: tree[h] is the number of alternatives it *)
(* offers after the decisions h, and it stops where tree is not defined.   *)
(***************************************************************************)
EXTENDS GuChoice, FiniteSets

CONSTANT Trees \* the clients: functions from sequences of decisions to 1..UINT8_MAX

\* A client is deterministic and asks gu_choice_next for 1..UINT8_MAX
\* alternatives (the gu_require of choice.c:43).
ASSUME TreesAssumption ==
  \A t \in Trees : \A h \in DOMAIN t : t[h] \in 1..UINT8_MAX

VARIABLES
  tree,  \* the client
  ch,    \* its GuChoice
  hist,  \* the decisions it has made in this run
  out,   \* the results (sequences of decisions) produced so far
  more   \* false when gu_choice_advance has returned false

enumVars == <<tree, ch, hist, out, more>>

Arity(h) == IF h \in DOMAIN tree THEN tree[h] ELSE 0

\* The number of alternatives of the j-th of the decisions d.
ArityAt(d, j) == Arity(SubSeq(d, 1, j - 1))

EnumInit ==
  /\ tree \in Trees
  /\ ch = gu_new_choice
  /\ hist = <<>>
  /\ out = <<>>
  /\ more = TRUE

\* The client needs a decision.
Decide ==
  /\ more
  /\ Arity(hist) > 0
  /\ hist' = Append(hist, NextDecision(ch, Arity(hist)))
  /\ ch' = gu_choice_next(ch, Arity(hist))
  /\ UNCHANGED <<tree, out, more>>

\* The client is through: reset to the mark of the run, which is the start
\* of the path, and advance.
EndRun ==
  /\ more
  /\ Arity(hist) = 0
  /\ out' = Append(out, hist)
  /\ hist' = <<>>
  /\ LET back == gu_choice_reset(ch, 0) IN
       /\ ch' = gu_choice_advance(back)
       /\ more' = CanAdvance(back)
  /\ UNCHANGED tree

EnumNext == Decide \/ EndRun

EnumSpec == EnumInit /\ [][EnumNext]_enumVars /\ WF_enumVars(EnumNext)

-----------------------------------------------------------------------------
TypeOK ==
  /\ tree \in Trees
  /\ ch.path \in Seq(1..UINT8_MAX)
  /\ ch.path_idx \in 0..Len(ch.path)
  /\ ch = [path |-> ch.path, path_idx |-> ch.path_idx]
  /\ hist \in Seq(Nat)
  /\ out \in Seq(Seq(Nat))
  /\ more \in BOOLEAN

\* The assertions of gu_choice_next hold at every decision of every run: the
\* count recorded by an earlier run never exceeds the number of alternatives
\* the client offers when it replays that decision (choice.c:51).
AssertsHold == more /\ Arity(hist) > 0 => NextAsserts(ch, Arity(hist))

\* A run that ends has replayed the whole path: what gu_choice_advance pops
\* are decisions of this very run, never left-overs of an earlier one.
NoLeftOvers == more /\ Arity(hist) = 0 => ch.path_idx = Len(ch.path)

\* b is the leaf right after a: they part at some decision j, where b takes
\* the next alternative, after which a has only last alternatives and b only
\* first ones.
IsNextLeaf(a, b) ==
  \E j \in 1..Len(a) :
    /\ j <= Len(b)
    /\ \A i \in 1..(j - 1) : b[i] = a[i]
    /\ b[j] = a[j] + 1
    /\ \A i \in (j + 1)..Len(a) : a[i] = ArityAt(a, i) - 1
    /\ \A i \in (j + 1)..Len(b) : b[i] = 0

\* No result is skipped or produced twice: each one is the immediate successor
\* of the one before it, and the first is the one with all first alternatives.
NothingSkipped ==
  [][out' # out =>
       IF out = <<>> THEN \A i \in 1..Len(hist) : hist[i] = 0
       ELSE IsNextLeaf(out[Len(out)], hist)]_enumVars

\* gu_choice_advance returns false only when nothing is left: the last result
\* took the last alternative of each of its decisions.
EndsAtTheLast ==
  ~more => LET last == out[Len(out)] IN
             \A i \in 1..Len(last) : last[i] = ArityAt(last, i) - 1

\* path records the alternatives left at each of the decisions d.
Records(d) ==
  \A j \in 1..Len(ch.path) :
    ch.path[j] \in 1..ArityAt(d, j) /\ d[j] = ArityAt(d, j) - ch.path[j]

\* The path always stands for a sequence of decisions d: the client has made the
\* first path_idx of them in this run, and d is on its way to the leaf right
\* after the last result.  This is what gu_choice_advance relies on when it
\* cuts the path of one run and leaves the rest to be found by the next.
PathLeadsToNextLeaf ==
  \E d \in [1..Len(ch.path) -> 0..(UINT8_MAX - 1)] :
    /\ Records(d)
    /\ hist = SubSeq(d, 1, ch.path_idx)
    /\ IF out = <<>> THEN \A i \in 1..Len(d) : d[i] = 0
       ELSE more => IsNextLeaf(out[Len(out)], d)

-----------------------------------------------------------------------------
\* The leaves of a finite tree whose domain is its inner nodes.
Leaves(t) ==
  IF t = <<>> THEN {<<>>}
  ELSE (UNION {{Append(h, k) : k \in 0..(t[h] - 1)} : h \in DOMAIN t}) \ DOMAIN t

\* A client that terminates: a tree with finitely many inner nodes, each reached
\* by decisions between the alternatives offered on the way.
Terminating(t) ==
  /\ IsFiniteSet(DOMAIN t)
  /\ t = [h \in DOMAIN t |-> t[h]]
  /\ \A h \in DOMAIN t :
       /\ h \in Seq(Nat)
       /\ \A n \in 1..Len(h) : LET before == SubSeq(h, 1, n - 1)
                               IN before \in DOMAIN t /\ h[n] < t[before]

Abs == INSTANCE LeafEnum WITH
  todo <- Leaves(tree) \ {out[i] : i \in DOMAIN out}

\* The protocol implements LeafEnum: it produces exactly the leaves of the
\* client's tree, in order, and (the client being a terminating program) it
\* reaches the end.
EnumeratesLeaves == Abs!AbsSpec
=============================================================================
