------------------------------ MODULE GuChoice ------------------------------
(***************************************************************************)
(* gu/choice.c: the object that lets straight-line code enumerate every    *)
(* outcome of a sequence of nondeterministic decisions.                    *)
(*                                                                         *)
(* A GuChoice is the record [path, path_idx].  path is the GuBuf of        *)
(* uint8_t: entry j is the number of alternatives of the j-th decision     *)
(* that are still to be tried, the current one included, so n in the first *)
(* run and 1 in the last.  path_idx counts the decisions replayed or made  *)
(* so far in this run.  A client marks its position, makes its decisions   *)
(* with gu_choice_next, resets to the mark and advances.                   *)
(***************************************************************************)
EXTENDS Integers, Sequences

CONSTANT UINT8_MAX \* the largest value of a path entry: 255 in the code

ASSUME UINT8Assumption == UINT8_MAX \in Nat \ {0}

gu_new_choice == [path |-> <<>>, path_idx |-> 0]

gu_choice_mark(ch) == ch.path_idx

gu_choice_reset(ch, mark) == [ch EXCEPT !.path_idx = mark]

\* Is the next decision one that an earlier run already recorded?
Recorded(ch) == ch.path_idx < Len(ch.path)

\* The alternatives left at the next decision, of n: recorded, or all of them.
Remaining(ch, n) == IF Recorded(ch) THEN ch.path[ch.path_idx + 1] ELSE n

(***************************************************************************)
(* gu_choice_next(ch, n): the value it returns, the object it leaves and   *)
(* the gu_require / gu_assert it passes on the way.  With no alternative   *)
(* it returns -1 and neither records nor counts a decision.                *)
(***************************************************************************)
\* Mutations: the alternatives from the last to the first; the last alternative
\* taken for none.
NextDecisionReversed(ch, n) ==
  IF n = 0 \/ Remaining(ch, n) = 0 THEN -1 ELSE Remaining(ch, n) - 1

NextDecisionShort(ch, n) ==
  IF n = 0 \/ Remaining(ch, n) <= 1 THEN -1 ELSE n - Remaining(ch, n)

NextDecision(ch, n) ==
  IF n = 0 \/ Remaining(ch, n) = 0 THEN -1 ELSE n - Remaining(ch, n)

gu_choice_next(ch, n) ==
  IF n = 0 THEN ch
  ELSE [path |-> IF Recorded(ch) THEN ch.path ELSE Append(ch.path, n),
        path_idx |-> ch.path_idx + 1]

NextAsserts(ch, n) ==
  /\ n <= UINT8_MAX
  /\ ch.path_idx <= Len(ch.path)
  /\ n > 0 => Remaining(ch, n) <= n

(***************************************************************************)
(* gu_choice_advance pops the decisions after the current position until   *)
(* it meets one with an untried alternative and takes that; it returns     *)
(* whether there was one.                                                  *)
(***************************************************************************)
Untried(ch) == {j \in (ch.path_idx + 1)..Len(ch.path) : ch.path[j] > 1}

\* Mutation: only the last decision is looked at.
CanAdvanceLast(ch) == Len(ch.path) \in Untried(ch)

CanAdvance(ch) == Untried(ch) # {}

LastUntried(ch) == CHOOSE j \in Untried(ch) : \A k \in Untried(ch) : k <= j

\* Mutations: nothing is popped; the first decision with an alternative left is
\* advanced, and those after it are kept.
AdvanceUnpopped(ch) ==
  IF CanAdvance(ch) THEN [ch EXCEPT !.path[LastUntried(ch)] = @ - 1] ELSE ch

AdvanceFirst(ch) ==
  IF CanAdvance(ch)
  THEN LET j == CHOOSE j \in Untried(ch) : \A k \in Untried(ch) : j <= k
       IN [ch EXCEPT !.path[j] = @ - 1]
  ELSE ch

gu_choice_advance(ch) ==
  [ch EXCEPT !.path =
     IF CanAdvance(ch)
     THEN Append(SubSeq(@, 1, LastUntried(ch) - 1), @[LastUntried(ch)] - 1)
     ELSE SubSeq(@, 1, ch.path_idx)]
=============================================================================
