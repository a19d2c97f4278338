---------------------------- MODULE ChoiceProofs ----------------------------
(***************************************************************************)
(* Proofs about two enumerations over a GuChoice: of an arbitrary client   *)
(* (ChoiceEnum), for every set of clients and every UINT8_MAX, and of      *)
(* parse results (ParseResult), for every forest.                          *)
(*                                                                         *)
(* Of the client: the path of a GuChoice stands for a sequence of          *)
(* decisions d.  Entry j holds the alternatives left, so d[j] is the arity *)
(* of the j-th decision less that entry.  The client's decisions in this   *)
(* run are the first path_idx of d, and d is on its way to the leaf right  *)
(* after the last result.                                                  *)
(*                                                                         *)
(* Of parse results: a run is what pgf_cat_to_expr makes of the decisions  *)
(* that the choice takes; it gives up at a category that it has seen       *)
(* anywhere.  The decisions determine it, so that two runs part at a       *)
(* decision and nowhere else (OneOrOn).  Behind the path of the GuChoice   *)
(* there are decisions (Tracks), each made where a run had as many         *)
(* alternatives as the path has counted, and the client has been given the *)
(* runs that came to an end and precede them, each once.  To advance the   *)
(* choice moves past the runs that begin with the decisions of the last    *)
(* one, and past no other (MovesPast).  Apart from this, the runs that     *)
(* come to an end are the derivations of the forest that visit no category *)
(* twice (EndsAreUnshared).                                                *)
(***************************************************************************)
EXTENDS ChoiceEnum, ParseResult, ArithmeticLemmas, SequenceTheorems, FiniteSetTheorems

-----------------------------------------------------------------------------
(* Prefixes of sequences *)

Prefix(s, n) == SubSeq(s, 1, n)

\* A prefix has the elements of the sequence.
LEMMA PrefixProps ==
  ASSUME NEW S, NEW s \in Seq(S), NEW n \in 0..Len(s)
  PROVE  /\ Prefix(s, n) \in Seq(S)
         /\ Len(Prefix(s, n)) = n
         /\ \A i \in 1..n : Prefix(s, n)[i] = s[i]
<1>1. Len(s) \in Nat /\ n \in Int /\ \A i \in 1..n : s[i] \in S
  BY LenProperties, ElementOfSeq
<1>2. /\ SubSeq(s, 1, n) \in Seq(S)
      /\ Len(SubSeq(s, 1, n)) = IF 1 <= n THEN n - 1 + 1 ELSE 0
      /\ \A i \in 1..(n - 1 + 1) : SubSeq(s, 1, n)[i] = s[1 + i - 1]
  BY <1>1, SubSeqProperties
<1> QED  BY <1>1, <1>2 DEF Prefix

\* Two sequences that agree up to n have the same prefix of length n.
LEMMA PrefixEqual ==
  ASSUME NEW S, NEW s \in Seq(S), NEW t \in Seq(S),
         NEW n \in 0..Len(s), n <= Len(t),
         \A i \in 1..n : s[i] = t[i]
  PROVE  Prefix(s, n) = Prefix(t, n)
<1>1. n \in 0..Len(t)
  BY LenProperties
<1>2. Len(Prefix(s, n)) = Len(Prefix(t, n))
  BY <1>1, PrefixProps
<1>3. \A i \in 1..Len(Prefix(s, n)) : Prefix(s, n)[i] = Prefix(t, n)[i]
  BY <1>1, PrefixProps
<1>4. Prefix(s, n) \in Seq(S) /\ Prefix(t, n) \in Seq(S)
  BY <1>1, PrefixProps
<1> QED  BY <1>2, <1>3, <1>4, SeqEqual

\* Appending the next element makes the next longer prefix.
LEMMA PrefixAppend ==
  ASSUME NEW S, NEW s \in Seq(S), NEW n \in Nat, n < Len(s)
  PROVE  Append(Prefix(s, n), s[n + 1]) = Prefix(s, n + 1)
<1>1. Len(s) \in Nat /\ n \in 0..Len(s) /\ n + 1 \in 0..Len(s) /\ n + 1 \in 1..Len(s)
  BY LenProperties
<1>2. s[n + 1] \in S
  BY <1>1, ElementOfSeq
<1> DEFINE a == Append(Prefix(s, n), s[n + 1])
           b == Prefix(s, n + 1)
<1>3. /\ a \in Seq(S) /\ Len(a) = n + 1
      /\ \A i \in 1..n : a[i] = s[i]
      /\ a[n + 1] = s[n + 1]
  BY <1>1, <1>2, PrefixProps, AppendProperties
<1>4. b \in Seq(S) /\ Len(b) = n + 1 /\ \A i \in 1..(n + 1) : b[i] = s[i]
  BY <1>1, PrefixProps
<1>5. \A i \in 1..Len(a) : a[i] = b[i]
  BY <1>3, <1>4
<1> HIDE DEF a, b
<1>6. a = b
  BY <1>3, <1>4, <1>5, SeqEqual
<1> QED  BY <1>6 DEF a, b

-----------------------------------------------------------------------------
(* gu_choice_advance *)

\* LastUntried is the last entry above 1.
LEMMA LastUntriedProps ==
  ASSUME NEW c, Len(c.path) \in Nat, c.path_idx \in Nat, CanAdvance(c)
  PROVE  /\ LastUntried(c) \in Untried(c)
         /\ \A k \in Untried(c) : k <= LastUntried(c)
<1>1. Untried(c) \subseteq 0..Len(c.path) /\ Untried(c) # {}
  BY DEF Untried, CanAdvance
<1>2. \E j \in Untried(c) : \A k \in Untried(c) : k <= j
  BY <1>1, LargestExists
<1> QED  BY <1>2, Zenon DEF LastUntried

-----------------------------------------------------------------------------
(* The inductive invariant *)

IndInv ==
  /\ TypeOK
  /\ PathLeadsToNextLeaf
  /\ EndsAtTheLast

\* The number of alternatives a client offers is a uint8_t.
LEMMA ArityRange ==
  ASSUME tree \in Trees, NEW h
  PROVE  Arity(h) \in 0..UINT8_MAX /\ Arity(h) \in Nat
<1> UINT8_MAX \in Nat
  BY UINT8Assumption
<1>1. CASE h \in DOMAIN tree
  BY <1>1, TreesAssumption DEF Arity
<1>2. CASE h \notin DOMAIN tree
  BY <1>2 DEF Arity
<1> QED  BY <1>1, <1>2

\* A function from 1..n is a sequence.
LEMMA FunIsSeq ==
  ASSUME NEW S, NEW n \in Nat, NEW d \in [1..n -> S]
  PROVE  d \in Seq(S) /\ Len(d) = n
  OBVIOUS

\* A new GuChoice, before the first decision, satisfies the invariant.
LEMMA InitIndInv == EnumInit => IndInv
<1> SUFFICES ASSUME EnumInit PROVE IndInv
  OBVIOUS
<1> USE DEF EnumInit, gu_new_choice
<1> UINT8_MAX \in Nat
  BY UINT8Assumption
<1>1. TypeOK
  BY DEF TypeOK
<1>2. PathLeadsToNextLeaf
  <2>1. <<>> \in [1..Len(ch.path) -> 0..(UINT8_MAX - 1)]
    OBVIOUS
  <2>2. Records(<<>>)
    BY DEF Records
  <2>3. hist = SubSeq(<<>>, 1, ch.path_idx)
    BY SubSeqEmpty
  <2>4. \A i \in 1..Len(<<>>) : <<>>[i] = 0
    OBVIOUS
  <2> QED  BY <2>1, <2>2, <2>3, <2>4, Zenon DEF PathLeadsToNextLeaf
<1>3. EndsAtTheLast
  BY DEF EndsAtTheLast
<1> QED  BY <1>1, <1>2, <1>3 DEF IndInv

\* After a prefix of d the next arity is the one recorded for d.
LEMMA NextArity ==
  ASSUME NEW d, NEW n \in Nat
  PROVE  ArityAt(d, n + 1) = Arity(SubSeq(d, 1, n))
<1>1. SubSeq(d, 1, n + 1 - 1) = SubSeq(d, 1, n)
  <2>1. n + 1 - 1 = n
    OBVIOUS
  <2> QED  BY <2>1
<1> QED  BY <1>1 DEF ArityAt, Arity

\* What the invariant says of a decision that is about to be made: a recorded
\* one still fits.
LEMMA RemainingFits ==
  ASSUME IndInv, more, Arity(hist) > 0
  PROVE  /\ Remaining(ch, Arity(hist)) \in 1..Arity(hist)
         /\ ch.path_idx <= Len(ch.path)
<1> UINT8_MAX \in Nat /\ Len(ch.path) \in Nat /\ Arity(hist) \in Nat
  BY UINT8Assumption, ArityRange DEF IndInv, TypeOK
<1>1. ch.path_idx \in 0..Len(ch.path)
  BY DEF IndInv, TypeOK
<1>2. PICK d \in [1..Len(ch.path) -> 0..(UINT8_MAX - 1)] :
        Records(d) /\ hist = SubSeq(d, 1, ch.path_idx)
  BY DEF IndInv, PathLeadsToNextLeaf
<1>3. CASE Recorded(ch)
  <2>1. ch.path_idx + 1 \in 1..Len(ch.path)
    BY <1>1, <1>3 DEF Recorded
  <2>2. ch.path[ch.path_idx + 1] \in 1..ArityAt(d, ch.path_idx + 1)
    BY <1>2, <2>1 DEF Records
  <2>3. ArityAt(d, ch.path_idx + 1) = Arity(hist)
    BY <1>1, <1>2, NextArity
  <2> QED  BY <1>1, <1>2, <1>3, <2>2, <2>3 DEF Remaining
<1>4. CASE ~Recorded(ch)
  BY <1>1, <1>4 DEF Remaining
<1> QED  BY <1>1, <1>3, <1>4

\* A run that is over has used up the path.
LEMMA PathUsedUp ==
  ASSUME IndInv, Arity(hist) = 0
  PROVE  ch.path_idx = Len(ch.path)
<1> UINT8_MAX \in Nat /\ Len(ch.path) \in Nat
  BY UINT8Assumption DEF IndInv, TypeOK
<1>1. ch.path_idx \in 0..Len(ch.path)
  BY DEF IndInv, TypeOK
<1>2. PICK d \in [1..Len(ch.path) -> 0..(UINT8_MAX - 1)] :
        Records(d) /\ hist = SubSeq(d, 1, ch.path_idx)
  BY DEF IndInv, PathLeadsToNextLeaf
<1>3. ASSUME ch.path_idx < Len(ch.path) PROVE FALSE
  <2>1. ch.path_idx + 1 \in 1..Len(ch.path)
    BY <1>1, <1>3
  <2>2. ch.path[ch.path_idx + 1] \in 1..ArityAt(d, ch.path_idx + 1)
    BY <1>2, <2>1 DEF Records
  <2>3. ArityAt(d, ch.path_idx + 1) = Arity(hist)
    BY <1>1, <1>2, NextArity
  <2>4. ch.path[ch.path_idx + 1] \in 1..0
    BY <1>2, <2>2, <2>3
  <2> QED  BY <2>4
<1> QED  BY <1>1, <1>3

-----------------------------------------------------------------------------
(* The invariant is preserved *)

\* A decision that replays the path: d stays.
LEMMA DecideRecorded ==
  ASSUME IndInv, Decide, Recorded(ch)
  PROVE  PathLeadsToNextLeaf'
<1> UINT8_MAX \in Nat /\ Len(ch.path) \in Nat
  BY UINT8Assumption DEF IndInv, TypeOK
<1> DEFINE k == ch.path_idx
<1>1. k \in Nat /\ k < Len(ch.path) /\ k + 1 \in 1..Len(ch.path)
  BY DEF IndInv, TypeOK, Recorded
<1>2. PICK d \in [1..Len(ch.path) -> 0..(UINT8_MAX - 1)] :
        /\ Records(d)
        /\ hist = SubSeq(d, 1, k)
        /\ IF out = <<>> THEN \A i \in 1..Len(d) : d[i] = 0
           ELSE more => IsNextLeaf(out[Len(out)], d)
  BY DEF IndInv, PathLeadsToNextLeaf
<1>3. d \in Seq(0..(UINT8_MAX - 1)) /\ Len(d) = Len(ch.path)
  BY FunIsSeq
<1>4. ch'.path = ch.path /\ ch'.path_idx = k + 1 /\ UNCHANGED <<tree, out, more>>
  BY DEF Decide, gu_choice_next
<1>5. ArityAt(d, k + 1) = Arity(hist)
  BY <1>1, <1>2, NextArity
<1>6. NextDecision(ch, Arity(hist)) = d[k + 1]
  <2>1. /\ ch.path[k + 1] \in 1..Arity(hist)
        /\ d[k + 1] = Arity(hist) - ch.path[k + 1]
    BY <1>1, <1>2, <1>5 DEF Records
  <2>2. Arity(hist) \in Nat
    BY ArityRange DEF IndInv, TypeOK
  <2> QED  BY <2>1, <2>2 DEF NextDecision, Remaining, Decide
<1>7. hist' = SubSeq(d, 1, k + 1)
  <2>1. hist' = Append(SubSeq(d, 1, k), d[k + 1])
    BY <1>2, <1>6 DEF Decide
  <2> QED  BY <1>1, <1>3, <2>1, PrefixAppend DEF Prefix
<1>8. Records(d)'
  BY <1>2, <1>4 DEF Records, ArityAt, Arity
<1>9. (IF out = <<>> THEN \A i \in 1..Len(d) : d[i] = 0
       ELSE more => IsNextLeaf(out[Len(out)], d))'
  BY <1>2, <1>4 DEF IsNextLeaf, ArityAt, Arity
<1> QED  BY <1>2, <1>4, <1>7, <1>8, <1>9 DEF PathLeadsToNextLeaf

\* The last result is a sequence of decisions.
LEMMA LastIsSeq ==
  ASSUME TypeOK, out # <<>>
  PROVE  out[Len(out)] \in Seq(Nat) /\ Len(out) \in Nat
<1>1. out \in Seq(Seq(Nat))
  BY DEF TypeOK
<1>2. Len(out) \in Nat \ {0}
  BY <1>1, EmptySeq
<1> QED  BY <1>1, <1>2, ElementOfSeq

\* A decision past the end of the path: the first alternative joins d.
LEMMA DecideFresh ==
  ASSUME IndInv, Decide, ~Recorded(ch)
  PROVE  PathLeadsToNextLeaf'
<1> UINT8_MAX \in Nat \ {0} /\ ch.path \in Seq(1..UINT8_MAX) /\ Len(ch.path) \in Nat
  BY UINT8Assumption DEF IndInv, TypeOK
<1> DEFINE n == Arity(hist)
           D == 0..(UINT8_MAX - 1)
<1>0. PICK k \in Nat : k = ch.path_idx
  BY DEF IndInv, TypeOK
<1>1. k = Len(ch.path)
  BY <1>0 DEF IndInv, TypeOK, Recorded
<1>2. n \in 1..UINT8_MAX
  BY ArityRange DEF Decide, IndInv, TypeOK
<1>3. PICK d \in [1..Len(ch.path) -> D] :
        /\ Records(d)
        /\ hist = SubSeq(d, 1, k)
        /\ IF out = <<>> THEN \A i \in 1..Len(d) : d[i] = 0
           ELSE more => IsNextLeaf(out[Len(out)], d)
  BY <1>0 DEF IndInv, PathLeadsToNextLeaf
<1>4. d \in Seq(D) /\ Len(d) = k
  <2>1. d \in Seq(D) /\ Len(d) = Len(ch.path)
    BY FunIsSeq
  <2> QED  BY <1>1, <2>1
<1>5. hist = d
  <2>1. SubSeq(d, 1, Len(d)) = d
    BY <1>4, SubSeqFull, Zenon
  <2> QED  BY <1>3, <1>4, <2>1, Zenon
<1>6. PICK e : e = Append(d, 0)
  OBVIOUS
<1>7. /\ e \in Seq(D) /\ Len(e) = k + 1
      /\ \A i \in 1..k : e[i] = d[i]
      /\ e[k + 1] = 0
  <2>1. 0 \in D
    OBVIOUS
  <2> QED  BY <1>4, <1>6, <2>1, AppendProperties
<1>8. /\ ch'.path = Append(ch.path, n) /\ ch'.path_idx = k + 1
      /\ hist' = e /\ UNCHANGED <<tree, out, more>>
  <2>1. NextDecision(ch, n) = 0
    BY <1>2 DEF NextDecision, Remaining
  <2> QED  BY <1>0, <1>2, <1>5, <1>6, <2>1 DEF Decide, gu_choice_next
<1>9. /\ Len(ch'.path) = k + 1
      /\ \A i \in 1..k : ch'.path[i] = ch.path[i]
      /\ ch'.path[k + 1] = n
  BY <1>1, <1>2, <1>8, AppendProperties
<1>10. \A j \in 1..(k + 1) : ArityAt(e, j) = ArityAt(d, j)
  <2> SUFFICES ASSUME NEW j \in 1..(k + 1) PROVE ArityAt(e, j) = ArityAt(d, j)
    OBVIOUS
  <2>1. j - 1 \in 0..k
    BY <1>1
  <2>2. SubSeq(e, 1, j - 1) = SubSeq(d, 1, j - 1)
    <3>1. j - 1 \in 0..Len(d) /\ j - 1 <= Len(e) /\ \A i \in 1..(j - 1) : d[i] = e[i]
      BY <1>1, <1>4, <1>7, <2>1
    <3> QED  BY <1>4, <1>7, <3>1, PrefixEqual DEF Prefix
  <2> QED  BY <2>2 DEF ArityAt, Arity
<1>11. Records(e)'
  <2> SUFFICES ASSUME NEW j \in 1..(k + 1)
               PROVE  ch'.path[j] \in 1..ArityAt(d, j) /\ e[j] = ArityAt(d, j) - ch'.path[j]
    BY <1>8, <1>9, <1>10 DEF Records, ArityAt, Arity
  <2>1. CASE j \in 1..k
    BY <1>1, <1>3, <1>7, <1>9, <2>1 DEF Records
  <2>2. CASE j = k + 1
    <3>1. ArityAt(d, k + 1) = n
      BY <1>1, <1>3, NextArity
    <3> QED  BY <1>2, <1>7, <1>9, <2>2, <3>1
  <2>3. j \in 1..k \/ j = k + 1
    OBVIOUS
  <2> QED  BY <2>1, <2>2, <2>3, Zenon
<1>12. hist' = SubSeq(e, 1, k + 1)
  <2>1. SubSeq(e, 1, Len(e)) = e
    BY <1>7, SubSeqFull, Zenon
  <2> QED  BY <1>7, <1>8, <2>1, Zenon
<1>13. (IF out = <<>> THEN \A i \in 1..Len(e) : e[i] = 0
        ELSE more => IsNextLeaf(out[Len(out)], e))'
  <2>1. CASE out = <<>>
    <3>1. \A i \in 1..(k + 1) : i \in 1..k \/ i = k + 1
      OBVIOUS
    <3>2. \A i \in 1..Len(e) : e[i] = 0
      BY <1>3, <1>4, <1>7, <2>1, <3>1
    <3> QED  BY <1>8, <2>1, <3>2
  <2>2. CASE out # <<>>
    <3>0. PICK last : last = out[Len(out)]
      OBVIOUS
    <3>1. last \in Seq(Nat)
      BY <2>2, <3>0, LastIsSeq DEF IndInv
    <3>2. PICK j \in 1..Len(last) :
            /\ j <= Len(d)
            /\ \A i \in 1..(j - 1) : d[i] = last[i]
            /\ d[j] = last[j] + 1
            /\ \A i \in (j + 1)..Len(last) : last[i] = ArityAt(last, i) - 1
            /\ \A i \in (j + 1)..Len(d) : d[i] = 0
      BY <1>3, <2>2, <3>0 DEF IsNextLeaf, Decide
    <3>3. /\ j <= Len(e)
          /\ \A i \in 1..(j - 1) : e[i] = last[i]
          /\ e[j] = last[j] + 1
          /\ \A i \in (j + 1)..Len(e) : e[i] = 0
      <4>1. Len(last) \in Nat /\ j \in 1..k
        BY <1>4, <3>1, <3>2, LenProperties
      <4>2. \A i \in 1..(j - 1) : i \in 1..k
        BY <4>1
      <4>3. \A i \in (j + 1)..(k + 1) : i \in (j + 1)..k \/ i = k + 1
        BY <4>1
      <4>4. \A i \in (j + 1)..k : i \in 1..k
        BY <4>1
      <4>5. \A i \in (j + 1)..(k + 1) : e[i] = 0
        BY <1>4, <1>7, <3>2, <4>3, <4>4
      <4> QED  BY <1>7, <3>2, <4>1, <4>2, <4>5
    <3>4. IsNextLeaf(last, e)
      BY <3>2, <3>3 DEF IsNextLeaf
    <3> QED  BY <1>8, <2>2, <3>0, <3>4 DEF IsNextLeaf, ArityAt, Arity
  <2> QED  BY <2>1, <2>2
<1>14. e \in [1..Len(ch'.path) -> D]
  BY <1>7, <1>9, LenProperties
<1> QED  BY <1>8, <1>11, <1>12, <1>13, <1>14 DEF PathLeadsToNextLeaf

\* The last element of a sequence something was appended to.
LEMMA AppendLast ==
  ASSUME NEW S, NEW s \in Seq(S), NEW x \in S
  PROVE  /\ Append(s, x) \in Seq(S)
         /\ Append(s, x) # <<>>
         /\ Append(s, x)[Len(Append(s, x))] = x
  BY AppendProperties

\* The end of a run, in terms of the path: the whole of it was used, its
\* decisions are the result, and it is searched from its start.
LEMMA EndRunFacts ==
  ASSUME IndInv, EndRun
  PROVE  /\ ch.path \in Seq(1..UINT8_MAX) /\ Len(ch.path) \in Nat
         /\ \E d \in [1..Len(ch.path) -> 0..(UINT8_MAX - 1)] :
              /\ Records(d)
              /\ hist = d
              /\ IF out = <<>> THEN \A i \in 1..Len(d) : d[i] = 0
                 ELSE IsNextLeaf(out[Len(out)], d)
         /\ gu_choice_reset(ch, 0) = [path |-> ch.path, path_idx |-> 0]
         /\ Untried(gu_choice_reset(ch, 0)) = {j \in 1..Len(ch.path) : ch.path[j] > 1}
<1> UINT8_MAX \in Nat /\ ch.path \in Seq(1..UINT8_MAX) /\ Len(ch.path) \in Nat
  BY UINT8Assumption DEF IndInv, TypeOK
<1>1. ch.path_idx = Len(ch.path)
  BY PathUsedUp DEF EndRun
<1>2. PICK d \in [1..Len(ch.path) -> 0..(UINT8_MAX - 1)] :
        /\ Records(d)
        /\ hist = SubSeq(d, 1, ch.path_idx)
        /\ IF out = <<>> THEN \A i \in 1..Len(d) : d[i] = 0
           ELSE more => IsNextLeaf(out[Len(out)], d)
  BY DEF IndInv, PathLeadsToNextLeaf
<1>3. hist = d
  <2>1. d \in Seq(0..(UINT8_MAX - 1)) /\ Len(d) = Len(ch.path)
    BY FunIsSeq, Zenon
  <2>2. SubSeq(d, 1, Len(d)) = d
    BY <2>1, SubSeqFull, Zenon
  <2> QED  BY <1>1, <1>2, <2>1, <2>2
<1>4. gu_choice_reset(ch, 0) = [path |-> ch.path, path_idx |-> 0]
  <2>1. ch = [path |-> ch.path, path_idx |-> ch.path_idx]
    BY DEF IndInv, TypeOK
  <2> QED  BY <2>1 DEF gu_choice_reset
<1>5. Untried(gu_choice_reset(ch, 0)) = {j \in 1..Len(ch.path) : ch.path[j] > 1}
  BY <1>4 DEF Untried
<1>6. more
  BY DEF EndRun
<1> QED  BY <1>2, <1>3, <1>4, <1>5, <1>6

\* Advancing: the last decision with an untried alternative takes it, and d
\* ends there.
LEMMA EndRunAdvance ==
  ASSUME IndInv, EndRun, CanAdvance(gu_choice_reset(ch, 0))
  PROVE  PathLeadsToNextLeaf' /\ TypeOK'
<1> UINT8_MAX \in Nat /\ ch.path \in Seq(1..UINT8_MAX) /\ Len(ch.path) \in Nat
  BY UINT8Assumption, EndRunFacts
<1> DEFINE D == 0..(UINT8_MAX - 1)
           back == gu_choice_reset(ch, 0)
<1>1. PICK d \in [1..Len(ch.path) -> D] : Records(d) /\ hist = d
  BY EndRunFacts
<1>2. d \in Seq(D) /\ Len(d) = Len(ch.path)
  BY FunIsSeq
<1>3. back.path = ch.path /\ back.path_idx = 0
  BY EndRunFacts
<1>4. PICK j : j = LastUntried(back)
  OBVIOUS
<1>5. /\ j \in 1..Len(ch.path) /\ ch.path[j] > 1
      /\ \A i \in (j + 1)..Len(ch.path) : ch.path[i] = 1
  <2>1. j \in Untried(back) /\ \A i \in Untried(back) : i <= j
    BY <1>3, <1>4, LastUntriedProps
  <2>2. j \in 1..Len(ch.path) /\ ch.path[j] > 1
    BY <2>1, EndRunFacts
  <2>3. ASSUME NEW i \in (j + 1)..Len(ch.path) PROVE ch.path[i] = 1
    <3>1. i \in 1..Len(ch.path) /\ ~(i <= j)
      BY <2>2
    <3>2. ~(ch.path[i] > 1)
      BY <2>1, <3>1, EndRunFacts
    <3>3. ch.path[i] \in 1..UINT8_MAX
      BY <3>1, ElementOfSeq
    <3> QED  BY <3>2, <3>3
  <2> QED  BY <2>2, <2>3
<1>6. /\ ch' = [path |-> Append(Prefix(ch.path, j - 1), ch.path[j] - 1), path_idx |-> 0]
      /\ hist' = <<>> /\ out' = Append(out, d) /\ more' /\ tree' = tree
  <2>1. /\ ch' = gu_choice_advance(back) /\ more' /\ hist' = <<>>
        /\ out' = Append(out, d) /\ tree' = tree
    BY <1>1 DEF EndRun
  <2>2. PICK x : x = Append(Prefix(ch.path, j - 1), ch.path[j] - 1)
    OBVIOUS
  <2>3. gu_choice_advance(back) = [back EXCEPT !.path = x]
    BY <1>3, <1>4, <2>2 DEF gu_choice_advance, Prefix
  <2>4. back = [path |-> ch.path, path_idx |-> 0]
    BY EndRunFacts
  <2>5. [[path |-> ch.path, path_idx |-> 0] EXCEPT !.path = x] = [path |-> x, path_idx |-> 0]
    OBVIOUS
  <2>6. gu_choice_advance(back) = [path |-> x, path_idx |-> 0]
    BY <2>3, <2>4, <2>5, Zenon
  <2> QED  BY <2>1, <2>2, <2>6, Zenon
<1>7. PICK e : e = Append(Prefix(d, j - 1), d[j] + 1)
  OBVIOUS
<1>8. PICK a \in 0..UINT8_MAX : a = ArityAt(d, j)
  BY ArityRange DEF ArityAt, IndInv, TypeOK
<1>9. PICK p \in 2..a : p = ch.path[j] /\ d[j] = a - p
  <2>1. ch.path[j] \in 1..a /\ d[j] = a - ch.path[j]
    BY <1>1, <1>5, <1>8 DEF Records
  <2> QED  BY <1>5, <2>1
<1>9a. a - p + 1 \in D /\ p - 1 \in 1..UINT8_MAX /\ p - 1 \in 1..a /\ a - p + 1 = a - (p - 1)
  OBVIOUS
<1>10. j - 1 \in 0..Len(ch.path) /\ j - 1 \in 0..Len(d)
  BY <1>2, <1>5
<1>11. /\ e \in Seq(D) /\ Len(e) = j /\ e[j] = d[j] + 1
       /\ \A i \in 1..(j - 1) : e[i] = d[i]
  <2>1. d[j] + 1 \in D
    BY <1>9, <1>9a
  <2>2. /\ Prefix(d, j - 1) \in Seq(D) /\ Len(Prefix(d, j - 1)) = j - 1
        /\ \A i \in 1..(j - 1) : Prefix(d, j - 1)[i] = d[i]
    BY <1>2, <1>10, PrefixProps
  <2> QED  BY <1>5, <1>7, <2>1, <2>2, AppendProperties
<1>12. /\ ch'.path \in Seq(1..UINT8_MAX) /\ Len(ch'.path) = j
       /\ ch'.path[j] = ch.path[j] - 1
       /\ \A i \in 1..(j - 1) : ch'.path[i] = ch.path[i]
  <2>1. ch.path[j] - 1 \in 1..UINT8_MAX
    BY <1>9, <1>9a
  <2>2. /\ Prefix(ch.path, j - 1) \in Seq(1..UINT8_MAX)
        /\ Len(Prefix(ch.path, j - 1)) = j - 1
        /\ \A i \in 1..(j - 1) : Prefix(ch.path, j - 1)[i] = ch.path[i]
    BY <1>10, PrefixProps
  <2>3. ch'.path = Append(Prefix(ch.path, j - 1), ch.path[j] - 1)
    BY <1>6
  <2> QED  BY <1>5, <2>1, <2>2, <2>3, AppendProperties
<1>13. \A i \in 1..j : ArityAt(e, i) = ArityAt(d, i)
  <2> SUFFICES ASSUME NEW i \in 1..j PROVE ArityAt(e, i) = ArityAt(d, i)
    OBVIOUS
  <2>1. i - 1 \in 0..Len(d) /\ i - 1 <= Len(e)
    <3>1. Len(e) = j /\ Len(d) \in Nat /\ j \in 1..Len(d)
      BY <1>2, <1>5, <1>11
    <3> QED  BY <3>1
  <2>2. \A x \in 1..(i - 1) : d[x] = e[x]
    BY <1>5, <1>11
  <2>3. SubSeq(e, 1, i - 1) = SubSeq(d, 1, i - 1)
    BY <1>2, <1>11, <2>1, <2>2, PrefixEqual DEF Prefix
  <2> QED  BY <2>3 DEF ArityAt, Arity
<1>14. Records(e)'
  <2> SUFFICES ASSUME NEW i \in 1..j
               PROVE  ch'.path[i] \in 1..ArityAt(d, i) /\ e[i] = ArityAt(d, i) - ch'.path[i]
    BY <1>6, <1>12, <1>13 DEF Records, ArityAt, Arity
  <2>1. CASE i = j
    BY <1>8, <1>9, <1>9a, <1>11, <1>12, <2>1
  <2>2. CASE i # j
    <3>1. i \in 1..(j - 1) /\ i \in 1..Len(ch.path)
      BY <1>5, <2>2
    <3> QED  BY <1>1, <1>11, <1>12, <3>1 DEF Records
  <2> QED  BY <2>1, <2>2
<1>15. IsNextLeaf(d, e)
  <2>1. \A i \in (j + 1)..Len(d) : d[i] = ArityAt(d, i) - 1
    <3> SUFFICES ASSUME NEW i \in (j + 1)..Len(d) PROVE d[i] = ArityAt(d, i) - 1
      OBVIOUS
    <3>1. i \in 1..Len(ch.path)
      <4>1. PICK m \in Nat : m = Len(d) /\ m = Len(ch.path)
        BY <1>2, LenProperties
      <4>2. j \in 1..m
        BY <1>5, <4>1
      <4> QED  BY <4>1, <4>2
    <3>2. ch.path[i] = 1
      BY <1>5, <3>1
    <3> QED  BY <1>1, <3>1, <3>2 DEF Records
  <2>2. j \in 1..Len(d) /\ j <= Len(e) /\ \A i \in (j + 1)..Len(e) : e[i] = 0
    BY <1>2, <1>5, <1>11
  <2> QED  BY <1>11, <2>1, <2>2 DEF IsNextLeaf
<1>16. d \in Seq(Nat) /\ out \in Seq(Seq(Nat))
  BY <1>2, SeqMonotonic DEF IndInv, TypeOK
<1>17. out' \in Seq(Seq(Nat)) /\ out' # <<>> /\ out'[Len(out')] = d
  <2>1. out' = Append(out, d)
    BY <1>6
  <2>2. /\ Append(out, d) \in Seq(Seq(Nat))
        /\ Append(out, d) # <<>>
        /\ Append(out, d)[Len(Append(out, d))] = d
    BY <1>16, AppendLast, Zenon
  <2> QED  BY <2>1, <2>2, Zenon
<1>18. PathLeadsToNextLeaf'
  <2>1. e \in [1..Len(ch'.path) -> D]
    BY <1>11, <1>12, LenProperties
  <2>2. hist' = SubSeq(e, 1, ch'.path_idx)
    BY <1>6, SubSeqEmpty
  <2>3. IsNextLeaf(out[Len(out)], e)'
    BY <1>6, <1>15, <1>17 DEF IsNextLeaf, ArityAt, Arity
  <2> QED  BY <1>14, <1>17, <2>1, <2>2, <2>3 DEF PathLeadsToNextLeaf
<1>19. TypeOK'
  <2>1. ch'.path_idx \in 0..Len(ch'.path) /\ ch' = [path |-> ch'.path, path_idx |-> ch'.path_idx]
    BY <1>5, <1>6, <1>12
  <2>2. hist' \in Seq(Nat) /\ more' \in BOOLEAN /\ tree' \in Trees
    BY <1>6, EmptySeq DEF IndInv, TypeOK, EndRun, CanAdvance
  <2> QED  BY <1>12, <1>17, <2>1, <2>2 DEF TypeOK
<1> QED  BY <1>18, <1>19

\* The end of the enumeration: every decision took its last alternative.
LEMMA EndRunLast ==
  ASSUME IndInv, EndRun, ~CanAdvance(gu_choice_reset(ch, 0))
  PROVE  PathLeadsToNextLeaf' /\ TypeOK' /\ EndsAtTheLast'
<1> UINT8_MAX \in Nat /\ ch.path \in Seq(1..UINT8_MAX) /\ Len(ch.path) \in Nat
  BY UINT8Assumption, EndRunFacts
<1> DEFINE D == 0..(UINT8_MAX - 1)
           back == gu_choice_reset(ch, 0)
<1>1. PICK d \in [1..Len(ch.path) -> D] : Records(d) /\ hist = d
  BY EndRunFacts
<1>2. d \in Seq(D) /\ Len(d) = Len(ch.path)
  BY FunIsSeq
<1>3. /\ ch' = [path |-> <<>>, path_idx |-> 0]
      /\ hist' = <<>> /\ out' = Append(out, d) /\ tree' = tree
      /\ ~more' /\ more' \in BOOLEAN
  <2>1. /\ ch' = gu_choice_advance(back) /\ hist' = <<>> /\ out' = Append(out, d)
        /\ tree' = tree /\ more' = CanAdvance(back)
    BY <1>1 DEF EndRun
  <2>2. back = [path |-> ch.path, path_idx |-> 0]
    BY EndRunFacts
  <2>3. gu_choice_advance(back) = [back EXCEPT !.path = SubSeq(back.path, 1, back.path_idx)]
    BY DEF gu_choice_advance
  <2>4. SubSeq(back.path, 1, back.path_idx) = <<>>
    BY <2>2, SubSeqEmpty
  <2>5. [[path |-> ch.path, path_idx |-> 0] EXCEPT !.path = <<>>] = [path |-> <<>>, path_idx |-> 0]
    OBVIOUS
  <2>6. gu_choice_advance(back) = [path |-> <<>>, path_idx |-> 0]
    BY <2>2, <2>3, <2>4, <2>5, Zenon
  <2>7. CanAdvance(back) \in BOOLEAN
    BY DEF CanAdvance
  <2> QED  BY <2>1, <2>6, <2>7, Zenon
<1>4. \A i \in 1..Len(d) : d[i] = ArityAt(d, i) - 1
  <2> SUFFICES ASSUME NEW i \in 1..Len(d) PROVE d[i] = ArityAt(d, i) - 1
    OBVIOUS
  <2>1. ch.path[i] \in 1..UINT8_MAX
    BY <1>2, ElementOfSeq
  <2>2. ~(ch.path[i] > 1)
    BY <1>2, EndRunFacts DEF CanAdvance
  <2>3. ch.path[i] = 1
    BY <2>1, <2>2
  <2> QED  BY <1>1, <1>2, <2>3 DEF Records
<1>5. d \in Seq(Nat) /\ out \in Seq(Seq(Nat))
  BY <1>2, SeqMonotonic DEF IndInv, TypeOK
<1>6. out' \in Seq(Seq(Nat)) /\ out' # <<>> /\ out'[Len(out')] = d
  BY <1>3, <1>5, AppendLast
<1>7. EndsAtTheLast'
  BY <1>3, <1>4, <1>6 DEF EndsAtTheLast, ArityAt, Arity
<1>8. TypeOK'
  BY <1>3, <1>6, EmptySeq DEF TypeOK, IndInv
<1>9. PathLeadsToNextLeaf'
  <2>1. <<>> \in [1..Len(ch'.path) -> D]
    BY <1>3
  <2>2. Records(<<>>)'
    BY <1>3 DEF Records
  <2>3. hist' = SubSeq(<<>>, 1, ch'.path_idx)
    BY <1>3, SubSeqEmpty
  <2> QED  BY <1>3, <1>6, <2>1, <2>2, <2>3, Zenon DEF PathLeadsToNextLeaf
<1> QED  BY <1>7, <1>8, <1>9

\* A decision keeps the types.
LEMMA DecideTypeOK ==
  ASSUME IndInv, Decide
  PROVE  TypeOK'
<1> UINT8_MAX \in Nat /\ ch.path \in Seq(1..UINT8_MAX) /\ Len(ch.path) \in Nat
  BY UINT8Assumption DEF IndInv, TypeOK
<1>1. ch.path_idx \in 0..Len(ch.path) /\ hist \in Seq(Nat)
  BY DEF IndInv, TypeOK
<1>2. PICK n \in 1..UINT8_MAX : n = Arity(hist)
  BY ArityRange DEF Decide, IndInv, TypeOK
<1>3. PICK r \in 1..n : r = Remaining(ch, n)
  BY <1>2, RemainingFits DEF Decide
<1>4. NextDecision(ch, n) \in Nat
  BY <1>3 DEF NextDecision
<1>5. hist' \in Seq(Nat)
  BY <1>1, <1>2, <1>4, AppendProperties DEF Decide
<1>6. ch' = [path |-> IF Recorded(ch) THEN ch.path ELSE Append(ch.path, n),
             path_idx |-> ch.path_idx + 1]
  BY <1>2 DEF Decide, gu_choice_next
<1>7. ch'.path \in Seq(1..UINT8_MAX) /\ ch'.path_idx \in 0..Len(ch'.path)
  <2>1. CASE Recorded(ch)
    BY <1>1, <1>6, <2>1 DEF Recorded
  <2>2. CASE ~Recorded(ch)
    BY <1>1, <1>6, <2>2, AppendProperties DEF Recorded
  <2> QED  BY <2>1, <2>2
<1>8. ch' = [path |-> ch'.path, path_idx |-> ch'.path_idx]
  BY <1>6
<1> QED  BY <1>5, <1>7, <1>8 DEF TypeOK, Decide, IndInv

\* Each step of the protocol preserves the invariant.
LEMMA NextIndInv == IndInv /\ [EnumNext]_enumVars => IndInv'
<1> SUFFICES ASSUME IndInv, [EnumNext]_enumVars PROVE IndInv'
  OBVIOUS
<1>1. CASE Decide
  <2>1. PathLeadsToNextLeaf'
    BY <1>1, DecideRecorded, DecideFresh
  <2>2. EndsAtTheLast'
    BY <1>1 DEF Decide, EndsAtTheLast
  <2> QED  BY <1>1, <2>1, <2>2, DecideTypeOK DEF IndInv
<1>2. CASE EndRun
  <2>1. CASE CanAdvance(gu_choice_reset(ch, 0))
    <3>1. EndsAtTheLast'
      BY <1>2, <2>1 DEF EndRun, EndsAtTheLast
    <3> QED  BY <1>2, <2>1, <3>1, EndRunAdvance DEF IndInv
  <2>2. CASE ~CanAdvance(gu_choice_reset(ch, 0))
    BY <1>2, <2>2, EndRunLast DEF IndInv
  <2> QED  BY <2>1, <2>2
<1>3. CASE UNCHANGED enumVars
  <2>1. TypeOK' /\ EndsAtTheLast'
    BY <1>3 DEF enumVars, IndInv, TypeOK, EndsAtTheLast, ArityAt, Arity
  <2>2. PathLeadsToNextLeaf'
    BY <1>3 DEF enumVars, IndInv, PathLeadsToNextLeaf, Records, IsNextLeaf, ArityAt, Arity
  <2> QED  BY <2>1, <2>2 DEF IndInv
<1> QED  BY <1>1, <1>2, <1>3 DEF EnumNext

-----------------------------------------------------------------------------
(* The theorems *)

\* The invariant of a GuChoice in use holds of every client.
THEOREM Invariance == EnumSpec => []IndInv
<1>1. EnumInit => IndInv
  BY InitIndInv
<1>2. IndInv /\ [EnumNext]_enumVars => IndInv'
  BY NextIndInv
<1> QED  BY <1>1, <1>2, PTL DEF EnumSpec

\* The path of gu/choice.c stays a sequence of uint8_t counts with path_idx
\* inside it.
THEOREM TypeCorrect == EnumSpec => []TypeOK
<1>1. IndInv => TypeOK
  BY DEF IndInv
<1> QED  BY <1>1, Invariance, PTL

\* The path always stands for decisions that lead to the leaf after the last
\* result, whatever the client.
THEOREM PathCorrect == EnumSpec => []PathLeadsToNextLeaf
<1>1. IndInv => PathLeadsToNextLeaf
  BY DEF IndInv
<1> QED  BY <1>1, Invariance, PTL

\* No assertion of gu_choice_next ever fails.
THEOREM AssertsNeverFail == EnumSpec => []AssertsHold
<1>1. IndInv => AssertsHold
  <2> SUFFICES ASSUME IndInv, more, Arity(hist) > 0
               PROVE  NextAsserts(ch, Arity(hist))
    BY DEF AssertsHold
  <2>1. Arity(hist) \in 0..UINT8_MAX /\ UINT8_MAX \in Nat
    BY ArityRange, UINT8Assumption DEF IndInv, TypeOK
  <2> QED  BY <2>1, RemainingFits DEF NextAsserts
<1> QED  BY <1>1, Invariance, PTL

\* A run that ends has replayed the whole path.
THEOREM NothingLeftOver == EnumSpec => []NoLeftOvers
<1>1. IndInv => NoLeftOvers
  BY PathUsedUp DEF NoLeftOvers
<1> QED  BY <1>1, Invariance, PTL

\* The enumeration ends only after the last leaf.
THEOREM EndIsTheLast == EnumSpec => []EndsAtTheLast
<1>1. IndInv => EndsAtTheLast
  BY DEF IndInv
<1> QED  BY <1>1, Invariance, PTL

\* Each result is the leaf right after the one before it, for every client: no
\* result is skipped and none is produced twice.
THEOREM NoneSkippedOrRepeated == EnumSpec => NothingSkipped
<1> DEFINE A == out' # out =>
                  IF out = <<>> THEN \A i \in 1..Len(hist) : hist[i] = 0
                  ELSE IsNextLeaf(out[Len(out)], hist)
<1>1. IndInv /\ [EnumNext]_enumVars => [A]_enumVars
  <2> SUFFICES ASSUME IndInv, EnumNext, out' # out
               PROVE  IF out = <<>> THEN \A i \in 1..Len(hist) : hist[i] = 0
                      ELSE IsNextLeaf(out[Len(out)], hist)
    OBVIOUS
  <2>1. EndRun
    BY DEF EnumNext, Decide
  <2> QED  BY <2>1, EndRunFacts
<1> QED  BY <1>1, Invariance, PTL DEF NothingSkipped, EnumSpec

-----------------------------------------------------------------------------
(* Leaves and their order *)

\* l is a sequence of decisions after which the client makes none.
IsLeaf(l) ==
  /\ l \in Seq(Nat)
  /\ Arity(l) = 0
  /\ \A n \in 1..Len(l) : l[n] < ArityAt(l, n)

\* An arity above 0 is that of an inner node, whose arity is above 0.
LEMMA InnerArity ==
  ASSUME tree \in Trees, NEW h
  PROVE  /\ h \in DOMAIN tree <=> Arity(h) # 0
         /\ h \in DOMAIN tree => tree[h] = Arity(h)
<1> UINT8_MAX \in Nat
  BY UINT8Assumption
<1>1. h \in DOMAIN tree => tree[h] \in 1..UINT8_MAX
  BY TreesAssumption
<1> QED  BY <1>1 DEF Arity

\* A child of an inner node that is not one itself is a leaf.
LEMMA LeavesAreLeaves ==
  ASSUME tree \in Trees, Terminating(tree), NEW l \in Leaves(tree)
  PROVE  IsLeaf(l)
<1>1. CASE tree = <<>>
  <2>1. l = <<>> /\ DOMAIN tree = {}
    BY <1>1 DEF Leaves
  <2> QED  BY <2>1, EmptySeq DEF IsLeaf, Arity
<1>2. CASE tree # <<>>
  <2>0. PICK h \in DOMAIN tree : /\ l \in {Append(h, k) : k \in 0..(tree[h] - 1)}
                                 /\ l \notin DOMAIN tree
    BY <1>2 DEF Leaves
  <2>1. PICK k \in 0..(tree[h] - 1) : l = Append(h, k)
    BY <2>0
  <2>2. h \in Seq(Nat) /\ Len(h) \in Nat
    BY <2>1, LenProperties DEF Terminating
  <2>2a. k \in Nat /\ k < Arity(h)
    <3>1. Arity(h) \in Nat /\ tree[h] = Arity(h)
      BY InnerArity, ArityRange
    <3> QED  BY <3>1
  <2>3. /\ l \in Seq(Nat) /\ Len(l) = Len(h) + 1 /\ l[Len(h) + 1] = k
        /\ \A i \in 1..Len(h) : l[i] = h[i]
    BY <2>1, <2>2, <2>2a, AppendProperties
  <2>4. ASSUME NEW n \in 0..Len(h) PROVE Prefix(l, n) = Prefix(h, n)
    <3>1. n <= Len(l) /\ \A i \in 1..n : h[i] = l[i]
      BY <2>2, <2>3
    <3> QED  BY <2>2, <2>3, <3>1, PrefixEqual
  <2>5. Prefix(l, Len(h)) = h
    <3>1. Prefix(h, Len(h)) = h
      BY <2>2, SubSeqFull, Zenon DEF Prefix
    <3>2. Len(h) \in 0..Len(h)
      BY <2>2
    <3> QED  BY <2>4, <3>1, <3>2
  <2>6. ASSUME NEW n \in 1..Len(l)
        PROVE  l[n] < ArityAt(l, n)
    <3>0. ArityAt(l, n) = Arity(Prefix(l, n - 1))
      BY DEF ArityAt, Prefix
    <3>1. CASE n = Len(h) + 1
      <4>1. n - 1 = Len(h)
        BY <2>2, <3>1
      <4>2. Prefix(l, n - 1) = h
        BY <2>5, <4>1
      <4> QED  BY <2>2a, <2>3, <3>0, <3>1, <4>2
    <3>2. CASE n # Len(h) + 1
      <4>1. n \in 1..Len(h) /\ n - 1 \in 0..Len(h)
        BY <2>2, <2>3, <3>2
      <4>2. Prefix(h, n - 1) \in DOMAIN tree /\ h[n] < tree[Prefix(h, n - 1)]
        BY <4>1 DEF Terminating, Prefix
      <4>3. h[n] < Arity(Prefix(h, n - 1))
        BY <4>2, InnerArity
      <4> QED  BY <2>3, <2>4, <3>0, <4>1, <4>3
    <3> QED  BY <3>1, <3>2
  <2>7. Arity(l) = 0
    BY <2>0, InnerArity
  <2> QED  BY <2>3, <2>6, <2>7 DEF IsLeaf
<1> QED  BY <1>1, <1>2

\* A tree without a root makes no decision.
LEMMA NoDecisions ==
  ASSUME NEW t, Terminating(t), <<>> \notin DOMAIN t
  PROVE  t = <<>>
<1>1. ASSUME NEW h \in DOMAIN t PROVE FALSE
  <2>1. h \in Seq(Nat) /\ Len(h) \in Nat
    BY LenProperties DEF Terminating
  <2>2. Len(h) # 0
    BY <2>1, EmptySeq
  <2>3. 1 \in 1..Len(h)
    BY <2>1, <2>2
  <2>4. SubSeq(h, 1, 1 - 1) \in DOMAIN t
    BY <2>3 DEF Terminating
  <2>5. SubSeq(h, 1, 1 - 1) = <<>>
    BY SubSeqEmpty
  <2> QED  BY <2>4, <2>5
<1>2. DOMAIN t = {} /\ t = [h \in DOMAIN t |-> t[h]]
  BY <1>1 DEF Terminating
<1> QED  BY <1>2

\* Leaves misses none.
LEMMA LeavesAreAll ==
  ASSUME tree \in Trees, Terminating(tree), NEW l, IsLeaf(l)
  PROVE  l \in Leaves(tree)
<1>1. l \in Seq(Nat) /\ Len(l) \in Nat /\ l \notin DOMAIN tree
  BY LenProperties, InnerArity DEF IsLeaf
<1>2. CASE Len(l) = 0
  <2>1. l = <<>>
    BY <1>1, <1>2, EmptySeq
  <2>2. tree = <<>>
    BY <1>1, <2>1, NoDecisions
  <2> QED  BY <2>1, <2>2 DEF Leaves
<1>3. CASE Len(l) # 0
  <2>1. PICK m \in Nat : Len(l) = m + 1
    <3>1. Len(l) - 1 \in Nat /\ Len(l) = Len(l) - 1 + 1
      BY <1>1, <1>3
    <3> QED  BY <3>1
  <2>2. PICK h : h = Prefix(l, m)
    OBVIOUS
  <2>3. PICK k \in Nat : k = l[m + 1]
    BY <1>1, <2>1, ElementOfSeq
  <2>4. k < Arity(h)
    <3>1. m + 1 \in 1..Len(l)
      BY <2>1
    <3>2. ArityAt(l, m + 1) = Arity(Prefix(l, m))
      BY NextArity DEF Prefix
    <3> QED  BY <2>2, <2>3, <3>1, <3>2 DEF IsLeaf
  <2>5. l = Append(h, k)
    <3>1. Append(Prefix(l, m), l[m + 1]) = Prefix(l, m + 1)
      BY <1>1, <2>1, PrefixAppend
    <3>2. Prefix(l, Len(l)) = l
      BY <1>1, SubSeqFull, Zenon DEF Prefix
    <3> QED  BY <2>1, <2>2, <2>3, <3>1, <3>2
  <2>6. h \in DOMAIN tree /\ k \in 0..(tree[h] - 1)
    <3>1. Arity(h) \in Nat
      BY ArityRange
    <3>2. Arity(h) # 0
      BY <2>4, <3>1
    <3> QED  BY <2>4, <3>1, <3>2, InnerArity
  <2>7. tree # <<>>
    <3>1. DOMAIN <<>> = {}
      OBVIOUS
    <3> QED  BY <2>6, <3>1
  <2> QED  BY <1>1, <2>5, <2>6, <2>7 DEF Leaves
<1> QED  BY <1>2, <1>3

\* A tree has a leaf: after the longest of its inner nodes, the first alternative.
LEMMA LeafExists ==
  ASSUME tree \in Trees, Terminating(tree)
  PROVE  Leaves(tree) # {}
<1>1. CASE tree = <<>>
  BY <1>1 DEF Leaves
<1>2. CASE tree # <<>>
  <2>0. PICK n \in Nat : ExistsSurjection(1..n, DOMAIN tree)
    BY FS_NatSurjection, Zenon DEF Terminating
  <2>1. PICK f : f \in Surjection(1..n, DOMAIN tree)
    BY <2>0 DEF ExistsSurjection
  <2>2. f \in [1..n -> DOMAIN tree] /\ \A h \in DOMAIN tree : \E i \in 1..n : f[i] = h
    BY <2>1 DEF Surjection
  <2>3. \A h \in DOMAIN tree : h \in Seq(Nat) /\ Len(h) \in Nat
    BY LenProperties DEF Terminating
  <2>4. PICK depth \in Nat : \A i \in 1..n : Len(f[i]) <= depth
    <3> DEFINE T == {j \in 0..n : \E m \in Nat : \A i \in 1..j : Len(f[i]) <= m}
    <3>1. 0 \in T
      <4>1. \A i \in 1..0 : Len(f[i]) <= 0
        OBVIOUS
      <4> QED  BY <4>1
    <3>2. ASSUME NEW j \in 0..(n - 1), j \in T PROVE j + 1 \in T
      <4>1. PICK m \in Nat : \A i \in 1..j : Len(f[i]) <= m
        BY <3>2
      <4>2. PICK x \in Nat : x = Len(f[j + 1])
        BY <2>2, <2>3
      <4>3. \A i \in 1..(j + 1) : Len(f[i]) <= m + x
        <5> SUFFICES ASSUME NEW i \in 1..(j + 1) PROVE Len(f[i]) <= m + x
          OBVIOUS
        <5>1. CASE i = j + 1
          BY <4>2, <5>1
        <5>2. CASE i # j + 1
          <6>1. i \in 1..j /\ i \in 1..n
            BY <5>2
          <6>2. Len(f[i]) <= m /\ Len(f[i]) \in Nat
            BY <2>2, <2>3, <4>1, <6>1
          <6> QED  BY <6>2
        <5> QED  BY <5>1, <5>2
      <4>4. m + x \in Nat /\ j + 1 \in 0..n
        OBVIOUS
      <4> QED  BY <4>3, <4>4
    <3> HIDE DEF T
    <3>3. n \in T
      BY <3>1, <3>2, InductionUpTo
    <3> USE DEF T
    <3> QED  BY <3>3
  <2>5. \A h \in DOMAIN tree : Len(h) \in 0..depth
    BY <2>2, <2>3, <2>4
  <2>6. PICK m \in {Len(h) : h \in DOMAIN tree} : \A x \in {Len(h) : h \in DOMAIN tree} : x <= m
    <3> DEFINE T == {Len(h) : h \in DOMAIN tree}
    <3>1. <<>> \in DOMAIN tree
      BY <1>2, NoDecisions
    <3>2. Len(<<>>) \in T
      BY <3>1
    <3>3. T \subseteq 0..depth /\ T # {}
      BY <2>5, <3>2
    <3> HIDE DEF T
    <3>4. \E j \in T : \A k \in T : k <= j
      BY <3>3, LargestExists
    <3> QED  BY <3>4 DEF T
  <2>7. PICK h \in DOMAIN tree : Len(h) = m /\ \A g \in DOMAIN tree : Len(g) <= Len(h)
    BY <2>6
  <2>8. 0 \in 0..(tree[h] - 1)
    BY <2>7, UINT8Assumption, TreesAssumption
  <2>9. Append(h, 0) \notin DOMAIN tree
    <3>1. Len(Append(h, 0)) = Len(h) + 1
      BY <2>3, <2>7, AppendProperties
    <3>2. ~(Len(h) + 1 <= Len(h))
      BY <2>3, <2>7
    <3> QED  BY <2>7, <3>1, <3>2
  <2>10. Append(h, 0) \in {Append(h, k) : k \in 0..(tree[h] - 1)}
    BY <2>8
  <2>11. Append(h, 0) \in Leaves(tree)
    BY <1>2, <2>7, <2>9, <2>10 DEF Leaves
  <2> QED  BY <2>11
<1> QED  BY <1>1, <1>2

\* The order of decisions, element by element.
Less(a, b) ==
  \E j \in 1..Len(a) :
    /\ j <= Len(b)
    /\ \A i \in 1..(j - 1) : a[i] = b[i]
    /\ a[j] < b[j]

LEMMA LexIsLess ==
  ASSUME NEW a \in Seq(Nat), NEW b \in Seq(Nat)
  PROVE  Abs!LexLess(a, b) <=> Less(a, b)
<1>0. Len(a) \in Nat /\ Len(b) \in Nat
  BY LenProperties
<1>1. ASSUME NEW j \in 1..Len(a), j <= Len(b)
      PROVE  SubSeq(a, 1, j - 1) = SubSeq(b, 1, j - 1) <=> \A i \in 1..(j - 1) : a[i] = b[i]
  <2>1. j - 1 \in 0..Len(a) /\ j - 1 \in 0..Len(b) /\ j - 1 <= Len(b)
    BY <1>0, <1>1
  <2>2. ASSUME \A i \in 1..(j - 1) : a[i] = b[i] PROVE Prefix(a, j - 1) = Prefix(b, j - 1)
    BY <2>1, <2>2, PrefixEqual
  <2>3. ASSUME Prefix(a, j - 1) = Prefix(b, j - 1), NEW i \in 1..(j - 1) PROVE a[i] = b[i]
    <3>1. Prefix(a, j - 1)[i] = a[i] /\ Prefix(b, j - 1)[i] = b[i]
      BY <2>1, PrefixProps
    <3> QED  BY <2>3, <3>1
  <2> QED  BY <2>2, <2>3 DEF Prefix
<1> QED  BY <1>1 DEF Less, Abs!LexLess

LEMMA LessTransitive ==
  ASSUME NEW a \in Seq(Nat), NEW b \in Seq(Nat), NEW c \in Seq(Nat), Less(a, b), Less(b, c)
  PROVE  Less(a, c)
<1>0. /\ Len(a) \in Nat /\ Len(b) \in Nat /\ Len(c) \in Nat
      /\ \A i \in 1..Len(a) : a[i] \in Nat
      /\ \A i \in 1..Len(b) : b[i] \in Nat
      /\ \A i \in 1..Len(c) : c[i] \in Nat
  BY LenProperties, ElementOfSeq
<1>1. PICK j \in 1..Len(a) : j <= Len(b) /\ (\A i \in 1..(j - 1) : a[i] = b[i]) /\ a[j] < b[j]
  BY DEF Less
<1>2. PICK k \in 1..Len(b) : k <= Len(c) /\ (\A i \in 1..(k - 1) : b[i] = c[i]) /\ b[k] < c[k]
  BY DEF Less
<1>3. CASE j < k
  <2>1. j <= Len(c) /\ j \in 1..(k - 1)
    BY <1>0, <1>2, <1>3
  <2>2. \A i \in 1..(j - 1) : i \in 1..(k - 1)
    BY <1>3
  <2>3. \A i \in 1..(j - 1) : a[i] = c[i]
    BY <1>1, <1>2, <2>2
  <2>4. a[j] < c[j]
    BY <1>1, <1>2, <2>1
  <2> QED  BY <2>1, <2>3, <2>4 DEF Less
<1>4. CASE k < j
  <2>1. k \in 1..Len(a) /\ k \in 1..(j - 1)
    BY <1>0, <1>1, <1>4
  <2>2. \A i \in 1..(k - 1) : i \in 1..(j - 1)
    BY <1>4
  <2>3. \A i \in 1..(k - 1) : a[i] = c[i]
    BY <1>1, <1>2, <2>2
  <2>4. a[k] < c[k]
    BY <1>1, <1>2, <2>1
  <2> QED  BY <1>2, <2>1, <2>3, <2>4 DEF Less
<1>5. CASE j = k
  <2>1. j <= Len(c) /\ \A i \in 1..(j - 1) : a[i] = c[i]
    BY <1>1, <1>2, <1>5
  <2>2. j \in 1..Len(a) /\ j \in 1..Len(b) /\ j \in 1..Len(c)
    BY <1>0, <1>1, <1>2, <1>5
  <2>3. a[j] < c[j]
    <3>1. PICK x \in Nat, y \in Nat, z \in Nat : x = a[j] /\ y = b[j] /\ z = c[j]
      BY <1>0, <2>2
    <3>2. x < y /\ y < z
      BY <1>1, <1>2, <1>5, <3>1
    <3>3. x < z
      BY <3>2
    <3> QED  BY <3>1, <3>3
  <2> QED  BY <2>1, <2>3 DEF Less
<1> QED  BY <1>0, <1>3, <1>4, <1>5

LEMMA LessIrreflexive ==
  ASSUME NEW a \in Seq(Nat)
  PROVE  ~Less(a, a)
<1>1. \A j \in 1..Len(a) : a[j] \in Nat
  BY ElementOfSeq
<1> QED  BY <1>1 DEF Less

\* Sequences that agree on the way to the j-th decision are offered the same there.
LEMMA SameArity ==
  ASSUME NEW a \in Seq(Nat), NEW b \in Seq(Nat), NEW j \in Nat \ {0},
         j <= Len(a) + 1, j <= Len(b) + 1,
         \A i \in 1..(j - 1) : a[i] = b[i]
  PROVE  ArityAt(a, j) = ArityAt(b, j)
<1>0. Len(a) \in Nat /\ Len(b) \in Nat
  BY LenProperties
<1>1. j - 1 \in 0..Len(a) /\ j - 1 <= Len(b)
  BY <1>0
<1>2. SubSeq(a, 1, j - 1) = SubSeq(b, 1, j - 1)
  BY <1>1, PrefixEqual DEF Prefix
<1> QED  BY <1>2 DEF ArityAt

\* No leaf is a prefix of another.
LEMMA NoPrefix ==
  ASSUME NEW a, IsLeaf(a), NEW b, IsLeaf(b), Len(a) <= Len(b),
         \A i \in 1..Len(a) : a[i] = b[i]
  PROVE  a = b
<1>0. a \in Seq(Nat) /\ b \in Seq(Nat) /\ Len(a) \in Nat /\ Len(b) \in Nat
  BY LenProperties DEF IsLeaf
<1>1. ASSUME Len(a) < Len(b) PROVE FALSE
  <2>1. PICK n \in Nat : n = Len(a)
    BY <1>0
  <2>2. ArityAt(b, n + 1) = ArityAt(a, n + 1)
    <3>1. \A i \in 1..(n + 1 - 1) : b[i] = a[i]
      BY <2>1
    <3>2. n + 1 \in Nat \ {0} /\ n + 1 <= Len(a) + 1 /\ n + 1 <= Len(b) + 1
      BY <1>0, <1>1, <2>1
    <3> QED  BY <1>0, <3>1, <3>2, SameArity
  <2>3. ArityAt(a, n + 1) = 0
    <3>1. SubSeq(a, 1, Len(a)) = a
      BY <1>0, SubSeqFull, Zenon
    <3>2. ArityAt(a, n + 1) = Arity(SubSeq(a, 1, n))
      BY NextArity
    <3> QED  BY <2>1, <3>1, <3>2 DEF IsLeaf
  <2>4. n + 1 \in 1..Len(b)
    BY <1>0, <1>1, <2>1
  <2>5. b[n + 1] \in Nat /\ b[n + 1] < 0
    BY <1>0, <2>2, <2>3, <2>4, ElementOfSeq DEF IsLeaf
  <2> QED  BY <2>5
<1>2. Len(a) = Len(b)
  BY <1>0, <1>1
<1> QED  BY <1>0, <1>2, SeqEqual

\* Two leaves part at some decision.
LEMMA Parting ==
  ASSUME NEW a, IsLeaf(a), NEW b, IsLeaf(b), a # b
  PROVE  Less(a, b) \/ Less(b, a)
<1>0. /\ Len(a) \in Nat /\ Len(b) \in Nat
      /\ \A i \in 1..Len(a) : a[i] \in Nat
      /\ \A i \in 1..Len(b) : b[i] \in Nat
  BY LenProperties, ElementOfSeq DEF IsLeaf
<1> DEFINE T == {j \in 1..Len(a) : j <= Len(b) /\ a[j] # b[j]}
<1>1. T # {}
  <2> SUFFICES ASSUME T = {} PROVE FALSE
    OBVIOUS
  <2>1. CASE Len(a) <= Len(b)
    <3>1. \A i \in 1..Len(a) : a[i] = b[i]
      BY <1>0, <2>1
    <3> QED  BY <2>1, <3>1, NoPrefix
  <2>2. CASE Len(b) <= Len(a)
    <3>1. \A i \in 1..Len(b) : b[i] = a[i]
      BY <1>0, <2>2
    <3> QED  BY <2>2, <3>1, NoPrefix
  <2> QED  BY <1>0, <2>1, <2>2
<1>2. T \in SUBSET Nat
  BY <1>0
<1> HIDE DEF T
<1>3. PICK j \in T : \A i \in T : j <= i
  BY <1>1, <1>2, LeastElement
<1> USE DEF T
<1>4. \A i \in 1..(j - 1) : a[i] = b[i]
  <2> SUFFICES ASSUME NEW i \in 1..(j - 1), a[i] # b[i] PROVE FALSE
    OBVIOUS
  <2>1. i \in T /\ ~(j <= i)
    BY <1>0
  <2> QED  BY <1>3, <2>1
<1>5. a[j] < b[j] \/ b[j] < a[j]
  BY <1>0
<1>6. j \in 1..Len(a) /\ j \in 1..Len(b) /\ j <= Len(a) /\ j <= Len(b)
  BY <1>0
<1> QED  BY <1>4, <1>5, <1>6 DEF Less

\* The leaf with all first alternatives is the first.
LEMMA FirstLess ==
  ASSUME NEW b, IsLeaf(b), \A i \in 1..Len(b) : b[i] = 0, NEW l, IsLeaf(l), l # b
  PROVE  Less(b, l)
<1>1. ASSUME Less(l, b) PROVE FALSE
  <2>1. PICK j \in 1..Len(l) : j <= Len(b) /\ l[j] < b[j]
    BY <1>1 DEF Less
  <2>2. Len(l) \in Nat /\ Len(b) \in Nat /\ l[j] \in Nat
    BY LenProperties, ElementOfSeq DEF IsLeaf
  <2>3. b[j] = 0
    BY <2>1, <2>2
  <2> QED  BY <2>1, <2>2, <2>3
<1> QED  BY <1>1, Parting

\* The next leaf is a later one.
LEMMA NextIsLater ==
  ASSUME NEW a \in Seq(Nat), NEW b, IsNextLeaf(a, b)
  PROVE  Less(a, b)
<1>1. PICK j \in 1..Len(a) :
        j <= Len(b) /\ (\A i \in 1..(j - 1) : b[i] = a[i]) /\ b[j] = a[j] + 1
  BY DEF IsNextLeaf
<1>2. a[j] \in Nat
  BY <1>1, ElementOfSeq
<1>3. a[j] < b[j]
  BY <1>1, <1>2
<1> QED  BY <1>1, <1>3 DEF Less

\* No leaf lies between a leaf and the next one.
LEMMA NoneBetween ==
  ASSUME tree \in Trees, NEW a, IsLeaf(a), NEW b, IsLeaf(b), IsNextLeaf(a, b),
         NEW l, IsLeaf(l), Less(a, l), l # b
  PROVE  Less(b, l)
<1>0. /\ a \in Seq(Nat) /\ b \in Seq(Nat) /\ l \in Seq(Nat)
      /\ Len(a) \in Nat /\ Len(b) \in Nat /\ Len(l) \in Nat
      /\ \A i \in 1..Len(a) : a[i] \in Nat
      /\ \A i \in 1..Len(b) : b[i] \in Nat
      /\ \A i \in 1..Len(l) : l[i] \in Nat
  BY LenProperties, ElementOfSeq DEF IsLeaf
<1>1. ~Less(l, a)
  BY <1>0, LessTransitive, LessIrreflexive
<1>2. PICK j \in 1..Len(a) :
        /\ j <= Len(b)
        /\ \A i \in 1..(j - 1) : b[i] = a[i]
        /\ b[j] = a[j] + 1
        /\ \A i \in (j + 1)..Len(a) : a[i] = ArityAt(a, i) - 1
        /\ \A i \in (j + 1)..Len(b) : b[i] = 0
  BY DEF IsNextLeaf
<1>3. ASSUME Less(l, b) PROVE FALSE
  <2>1. PICK k \in 1..Len(l) :
          k <= Len(b) /\ (\A i \in 1..(k - 1) : l[i] = b[i]) /\ l[k] < b[k]
    BY <1>3 DEF Less
  <2>2. k <= j
    <3> SUFFICES ASSUME j < k PROVE FALSE
      BY <1>0
    <3>1. k \in (j + 1)..Len(b) /\ l[k] \in Nat
      BY <1>0, <2>1
    <3>2. b[k] = 0
      BY <1>2, <3>1
    <3> QED  BY <2>1, <3>1, <3>2
  <2>3. \A i \in 1..(k - 1) : i \in 1..(j - 1)
    BY <2>2
  <2>4. \A i \in 1..(k - 1) : l[i] = a[i]
    BY <1>2, <2>1, <2>3
  <2>5. k <= Len(a) /\ k \in 1..Len(a) /\ a[k] \in Nat /\ l[k] \in Nat
    <3>1. k \in 1..Len(a)
      BY <1>0, <2>2
    <3> QED  BY <1>0, <3>1
  <2>6. ~(l[k] < a[k])
    BY <1>1, <2>4, <2>5 DEF Less
  <2>7. k = j
    <3> SUFFICES ASSUME k # j PROVE FALSE
      OBVIOUS
    <3>1. k \in 1..(j - 1)
      BY <2>2
    <3>2. b[k] = a[k]
      BY <1>2, <3>1
    <3> QED  BY <2>1, <2>6, <3>2
  <2>8. l[j] = a[j]
    BY <1>2, <2>1, <2>5, <2>6, <2>7
  <2>9. PICK m \in 1..Len(a) :
          m <= Len(l) /\ (\A i \in 1..(m - 1) : a[i] = l[i]) /\ a[m] < l[m]
    BY DEF Less
  <2>10. m \in (j + 1)..Len(a)
    <3>1. m \in 1..(j - 1) => a[m] = l[m]
      BY <2>4, <2>7
    <3>2. a[m] \in Nat
      BY <1>0, <2>9
    <3>3. m \notin 1..(j - 1) /\ m # j
      BY <2>8, <2>9, <3>1, <3>2
    <3> QED  BY <1>0, <3>3
  <2>11. ArityAt(l, m) = ArityAt(a, m)
    <3>1. m \in Nat \ {0} /\ m <= Len(l) + 1 /\ m <= Len(a) + 1
      <4>1. Len(a) \in Nat /\ Len(l) \in Nat /\ m \in 1..Len(a) /\ m <= Len(l)
        BY <1>0, <2>9
      <4> QED  BY ONLY <4>1
    <3>2. \A i \in 1..(m - 1) : l[i] = a[i]
      BY <2>9
    <3> QED  BY <1>0, <3>1, <3>2, SameArity
  <2>12. m \in 1..Len(l)
    BY <1>0, <2>9
  <2>13. a[m] = ArityAt(a, m) - 1
    BY <1>2, <2>10
  <2>14. l[m] < ArityAt(a, m)
    BY <2>11, <2>12 DEF IsLeaf
  <2>15. l[m] \in Nat /\ a[m] \in Nat /\ ArityAt(a, m) \in Nat
    BY <1>0, <2>9, <2>12, ArityRange DEF ArityAt
  <2> QED  BY <2>9, <2>13, <2>14, <2>15
<1> QED  BY <1>3, Parting

\* No leaf comes after one that takes every last alternative.
LEMMA NoneAfterLast ==
  ASSUME tree \in Trees, NEW a, IsLeaf(a), \A i \in 1..Len(a) : a[i] = ArityAt(a, i) - 1,
         NEW l, IsLeaf(l)
  PROVE  ~Less(a, l)
<1>0. /\ a \in Seq(Nat) /\ l \in Seq(Nat) /\ Len(a) \in Nat /\ Len(l) \in Nat
  BY LenProperties DEF IsLeaf
<1> SUFFICES ASSUME Less(a, l) PROVE FALSE
  OBVIOUS
<1>1. PICK m \in 1..Len(a) :
        m <= Len(l) /\ (\A i \in 1..(m - 1) : a[i] = l[i]) /\ a[m] < l[m]
  BY DEF Less
<1>2. ArityAt(l, m) = ArityAt(a, m)
  <2>1. m \in Nat \ {0} /\ m <= Len(l) + 1 /\ m <= Len(a) + 1
    BY <1>0, <1>1
  <2>2. \A i \in 1..(m - 1) : l[i] = a[i]
    BY <1>1
  <2> QED  BY <1>0, <2>1, <2>2, SameArity
<1>3. m \in 1..Len(l)
  BY <1>0, <1>1
<1>4. l[m] < ArityAt(a, m) /\ a[m] = ArityAt(a, m) - 1
  BY <1>1, <1>2, <1>3 DEF IsLeaf
<1>5. l[m] \in Nat /\ ArityAt(a, m) \in Nat
  BY <1>0, <1>3, ElementOfSeq, ArityRange DEF ArityAt
<1> QED  BY <1>1, <1>4, <1>5

-----------------------------------------------------------------------------
(* The protocol implements LeafEnum *)

Last == out[Len(out)]

Produced(l) == \E i \in DOMAIN out : out[i] = l

\* The results so far are the leaves up to the last one.
AllBefore ==
  /\ out # <<>> => IsLeaf(Last)
  /\ \A l : IsLeaf(l) => (Produced(l) <=> out # <<>> /\ ~Less(Last, l))

\* What a run leaves behind is a leaf of the client.
LEMMA HistIsLeaf ==
  ASSUME IndInv, EndRun
  PROVE  IsLeaf(hist)
<1> UINT8_MAX \in Nat /\ Len(ch.path) \in Nat
  BY UINT8Assumption DEF IndInv, TypeOK
<1>1. PICK d \in [1..Len(ch.path) -> 0..(UINT8_MAX - 1)] : Records(d) /\ hist = d
  BY EndRunFacts
<1>2. Len(d) = Len(ch.path)
  BY FunIsSeq
<1>3. ASSUME NEW n \in 1..Len(d) PROVE d[n] < ArityAt(d, n)
  <2>1. ch.path[n] \in 1..ArityAt(d, n) /\ d[n] = ArityAt(d, n) - ch.path[n]
    BY <1>1, <1>2 DEF Records
  <2>2. ArityAt(d, n) \in Nat
    BY ArityRange DEF ArityAt, IndInv, TypeOK
  <2> QED  BY <2>1, <2>2
<1>4. hist \in Seq(Nat) /\ Arity(hist) = 0
  BY DEF IndInv, TypeOK, EndRun
<1> QED  BY <1>1, <1>3, <1>4 DEF IsLeaf

\* The result of a run is added to those before it.
LEMMA EndRunOut ==
  ASSUME IndInv, EndRun
  PROVE  /\ out' # <<>> /\ Last' = hist
         /\ \A l : Produced(l)' <=> Produced(l) \/ l = hist
         /\ UNCHANGED tree
<1>1. out \in Seq(Seq(Nat)) /\ hist \in Seq(Nat) /\ Len(out) \in Nat
  BY LenProperties DEF IndInv, TypeOK
<1>2. out' = Append(out, hist) /\ UNCHANGED tree
  BY DEF EndRun
<1>3. out' # <<>> /\ out'[Len(out')] = hist
  BY <1>1, <1>2, AppendLast
<1>4. /\ DOMAIN out' = 1..(Len(out) + 1) /\ DOMAIN out = 1..Len(out)
      /\ out'[Len(out) + 1] = hist
      /\ \A i \in 1..Len(out) : out'[i] = out[i]
  BY <1>1, <1>2, AppendProperties, LenProperties
<1>5. ASSUME NEW l PROVE Produced(l)' <=> Produced(l) \/ l = hist
  <2>1. \A i \in 1..(Len(out) + 1) : i \in 1..Len(out) \/ i = Len(out) + 1
    BY <1>1
  <2>2. \A i \in 1..Len(out) : i \in 1..(Len(out) + 1)
    BY <1>1
  <2>3. Len(out) + 1 \in 1..(Len(out) + 1)
    BY <1>1
  <2> QED  BY <1>4, <2>1, <2>2, <2>3 DEF Produced
<1> QED  BY <1>2, <1>3, <1>5 DEF Last

\* The leaf a run produces: new, and before every other that is not produced yet.
LEMMA HistIsNext ==
  ASSUME IndInv, AllBefore, EndRun
  PROVE  /\ ~Produced(hist)
         /\ \A l : IsLeaf(l) /\ ~Produced(l) /\ l # hist => Less(hist, l)
         /\ \A l : IsLeaf(l) /\ Produced(l) => ~Less(hist, l)
<1>0. tree \in Trees
  BY DEF IndInv, TypeOK
<1>1. IsLeaf(hist)
  BY HistIsLeaf
<1>2. CASE out = <<>>
  <2>1. \A l : ~Produced(l)
    BY <1>2 DEF Produced
  <2>2. \A i \in 1..Len(hist) : hist[i] = 0
    BY <1>2, EndRunFacts
  <2>3. \A l : IsLeaf(l) /\ l # hist => Less(hist, l)
    BY <1>1, <2>2, FirstLess
  <2> QED  BY <2>1, <2>3
<1>3. CASE out # <<>>
  <2>1. IsNextLeaf(Last, hist) /\ IsLeaf(Last)
    BY <1>3, EndRunFacts DEF Last, AllBefore
  <2>2. Last \in Seq(Nat) /\ hist \in Seq(Nat)
    BY <1>1, <2>1 DEF IsLeaf
  <2>3. Less(Last, hist)
    BY <2>1, <2>2, NextIsLater
  <2>4. \A l : IsLeaf(l) => (Produced(l) <=> ~Less(Last, l))
    BY <1>3 DEF AllBefore
  <2>5. ASSUME NEW l, IsLeaf(l), ~Produced(l), l # hist PROVE Less(hist, l)
    <3>1. Less(Last, l)
      BY <2>4, <2>5
    <3> QED  BY <1>0, <1>1, <2>1, <2>5, <3>1, NoneBetween
  <2>6. ASSUME NEW l, IsLeaf(l), Produced(l), Less(hist, l) PROVE FALSE
    <3>1. l \in Seq(Nat)
      BY <2>6 DEF IsLeaf
    <3>2. Less(Last, l)
      BY <2>2, <2>3, <2>6, <3>1, LessTransitive
    <3> QED  BY <2>4, <2>6, <3>2
  <2> QED  BY <1>1, <2>3, <2>4, <2>5, <2>6
<1> QED  BY <1>2, <1>3

\* The leaves are produced in order, up to the last result.
LEMMA NextAllBefore == IndInv /\ AllBefore /\ [EnumNext]_enumVars => AllBefore'
<1> SUFFICES ASSUME IndInv, AllBefore, [EnumNext]_enumVars PROVE AllBefore'
  OBVIOUS
<1>1. CASE UNCHANGED <<tree, out>>
  BY <1>1 DEF AllBefore, IsLeaf, Produced, Last, Less, ArityAt, Arity
<1>2. CASE EndRun
  <2>1. IsLeaf(hist) /\ hist \in Seq(Nat)
    BY <1>2, HistIsLeaf DEF IsLeaf
  <2>2. \A l : IsLeaf(l)' <=> IsLeaf(l)
    BY <1>2 DEF EndRun, IsLeaf, ArityAt, Arity
  <2>3. ASSUME NEW l, IsLeaf(l) PROVE Produced(l) \/ l = hist <=> ~Less(hist, l)
    BY <1>2, <2>1, <2>3, HistIsNext, LessIrreflexive
  <2>4. Last' = hist /\ out' # <<>> /\ \A l : Produced(l)' <=> Produced(l) \/ l = hist
    BY <1>2, EndRunOut
  <2>5. IsLeaf(Last)'
    BY <2>1, <2>4, <1>2 DEF EndRun, IsLeaf, ArityAt, Arity
  <2>6. ASSUME NEW l, IsLeaf(l)' PROVE Produced(l)' <=> ~Less(Last, l)'
    BY <2>2, <2>3, <2>4, <2>6 DEF Less
  <2> QED  BY <2>4, <2>5, <2>6 DEF AllBefore
<1>3. EnumNext => EndRun \/ UNCHANGED <<tree, out>>
  BY DEF EnumNext, Decide
<1> QED  BY <1>1, <1>2, <1>3 DEF enumVars

LEMMA InitAllBefore == EnumInit => AllBefore
  BY DEF EnumInit, AllBefore, Produced

\* A result is a step of LeafEnum: the first of the leaves left.
LEMMA EndRunProduces ==
  ASSUME IndInv, AllBefore, EndRun, Terminating(tree)
  PROVE  Abs!Produce
<1>0. tree \in Trees
  BY DEF IndInv, TypeOK
<1> DEFINE left == Leaves(tree) \ {out[i] : i \in DOMAIN out}
<1>1. \A l : l \in left <=> IsLeaf(l) /\ ~Produced(l)
  BY <1>0, LeavesAreLeaves, LeavesAreAll DEF Produced
<1>2. \A l : l \in left' <=> l \in Leaves(tree) /\ ~(Produced(l)')
  BY EndRunOut DEF Produced
<1>3. hist \in left
  BY <1>1, HistIsLeaf, HistIsNext
<1>4. \A other \in left \ {hist} : Abs!LexLess(hist, other)
  <2> SUFFICES ASSUME NEW other \in left, other # hist PROVE Abs!LexLess(hist, other)
    OBVIOUS
  <2>1. IsLeaf(other) /\ ~Produced(other)
    BY <1>1
  <2>2. hist \in Seq(Nat) /\ other \in Seq(Nat)
    BY <2>1, HistIsLeaf DEF IsLeaf
  <2>3. Less(hist, other)
    BY <2>1, HistIsNext
  <2> QED  BY <2>2, <2>3, LexIsLess
<1>5. \A l : l \in left' <=> l \in left \ {hist}
  BY <1>0, <1>1, <1>2, EndRunOut, LeavesAreLeaves, LeavesAreAll
<1>6. left' = left \ {hist}
  BY <1>5
<1>7. out' = Append(out, hist)
  BY DEF EndRun
<1> QED  BY <1>3, <1>4, <1>6, <1>7 DEF Abs!Produce

\* For clients that terminate, every behaviour of the protocol is one of
\* LeafEnum, liveness apart: it starts with all the leaves of the client to do,
\* and every result is the first of those left.
THEOREM ImplementsLeafEnum ==
  ASSUME \A t \in Trees : Terminating(t)
  PROVE  EnumSpec => Abs!AbsInit /\ [][Abs!Produce]_(Abs!absVars)
<1>1. EnumInit => Abs!AbsInit
  BY LeafExists DEF EnumInit, Abs!AbsInit
<1>2. EnumInit => IndInv /\ AllBefore
  BY InitIndInv, InitAllBefore
<1>3. IndInv /\ AllBefore /\ [EnumNext]_enumVars => (IndInv /\ AllBefore)'
  BY NextIndInv, NextAllBefore
<1>4. IndInv /\ AllBefore /\ [EnumNext]_enumVars => [Abs!Produce]_(Abs!absVars)
  <2> SUFFICES ASSUME IndInv, AllBefore, [EnumNext]_enumVars PROVE [Abs!Produce]_(Abs!absVars)
    OBVIOUS
  <2>1. CASE UNCHANGED <<tree, out>>
    BY <2>1 DEF Abs!absVars
  <2>2. CASE EndRun
    <3>1. Terminating(tree)
      BY DEF IndInv, TypeOK
    <3> QED  BY <2>2, <3>1, EndRunProduces
  <2>3. EnumNext => EndRun \/ UNCHANGED <<tree, out>>
    BY DEF EnumNext, Decide
  <2> QED  BY <2>1, <2>2, <2>3 DEF enumVars
<1> QED  BY <1>1, <1>2, <1>3, <1>4, PTL DEF EnumSpec

\* When gu_choice_advance has returned false, every leaf has been produced.
AllProduced == ~more => \A l : IsLeaf(l) => Produced(l)

\* The enumeration does not end early: gu_choice_advance returns false only when
\* all the results of the client have been produced.
THEOREM EndMeansAll == EnumSpec => []AllProduced
<1>1. EnumInit => IndInv /\ AllBefore /\ (more \/ out # <<>>)
  BY InitIndInv, InitAllBefore DEF EnumInit
<1>2. IndInv /\ AllBefore /\ (more \/ out # <<>>) /\ [EnumNext]_enumVars
        => (IndInv /\ AllBefore /\ (more \/ out # <<>>))'
  <2>1. (more \/ out # <<>>) /\ IndInv /\ [EnumNext]_enumVars => (more \/ out # <<>>)'
    BY EndRunOut DEF EnumNext, Decide, enumVars
  <2> QED  BY <2>1, NextIndInv, NextAllBefore
<1>3. IndInv /\ AllBefore /\ (more \/ out # <<>>)
        => AllProduced
  <2> SUFFICES ASSUME IndInv, AllBefore, out # <<>>, ~more, NEW l, IsLeaf(l)
               PROVE  Produced(l)
    BY DEF AllProduced
  <2>1. \A i \in 1..Len(Last) : Last[i] = ArityAt(Last, i) - 1
    BY DEF IndInv, EndsAtTheLast, Last
  <2>2. tree \in Trees /\ IsLeaf(Last)
    BY DEF IndInv, TypeOK, AllBefore
  <2>3. ~Less(Last, l)
    BY <2>1, <2>2, NoneAfterLast
  <2> QED  BY <2>3 DEF AllBefore
<1> QED  BY <1>1, <1>2, <1>3, PTL DEF EnumSpec

-----------------------------------------------------------------------------
(* Runs of pgf_cat_to_expr *)

Choices == [path : Seq(Nat), path_idx : Nat]

\* A run under way is [dec, last, todo, seen, expr], as a derivation is, but with the
\* categories that it has to visit alone.
RunBegun(i) ==
  [dec |-> <<i>>, last |-> (i = Len(forest.completed)), todo |-> <<forest.completed[i]>>, seen |-> {},
   expr |-> <<>>]

RunTook(c, i) ==
  LET prods == forest.prods[Head(c.todo)] IN
    [dec |-> Append(c.dec, i),
     last |-> (c.last /\ i = Len(prods)),
     todo |-> prods[i].args \o Tail(c.todo),
     seen |-> c.seen \cup {Head(c.todo)},
     expr |-> IF prods[i].fun = Coerce THEN c.expr ELSE Append(c.expr, prods[i].fun)]

RunMeta(c) ==
  [dec |-> c.dec, last |-> c.last, todo |-> Tail(c.todo), seen |-> c.seen \cup {Head(c.todo)},
   expr |-> Append(c.expr, META)]

RunOn(c) ==
  IF c.todo = <<>> \/ Head(c.todo) \in c.seen THEN {}
  ELSE IF ~Synth(Head(c.todo)) THEN {RunMeta(c)}
  ELSE {RunTook(c, i) : i \in DOMAIN forest.prods[Head(c.todo)]}

\* The runs after k visits, for each k: there is one for a category at most.
RunStages ==
  LET upTo[k \in 0..Cardinality(forest.cats)] ==
        IF k = 0 THEN {RunBegun(i) : i \in DOMAIN forest.completed}
        ELSE UNION {RunOn(c) : c \in upTo[k - 1]}
  IN upTo

Runs == UNION {RunStages[k] : k \in 0..Cardinality(forest.cats)}

RunsDone == {c \in Runs : c.todo = <<>>}

\* The run c has to choose a production, of Alternatives(c).
AtChoice(c) == c.todo # <<>> /\ Head(c.todo) \notin c.seen /\ Synth(Head(c.todo))

Alternatives(c) == Len(forest.prods[Head(c.todo)])

NVisits == Cardinality(forest.cats)

\* The sequences s and t agree as far as both go; and s goes no further.
Agree(s, t) == \A i \in 1..Len(s) : i <= Len(t) => s[i] = t[i]

Begins(s, t) == Len(s) <= Len(t) /\ \A i \in 1..Len(s) : s[i] = t[i]

-----------------------------------------------------------------------------
(* The forest *)

LEMMA IsSeqFacts ==
  ASSUME NEW s, IsSeq(s)
  PROVE  Len(s) \in Nat /\ DOMAIN s = 1..Len(s)
  BY LenProperties DEF IsSeq

LEMMA SingletonTyped ==
  ASSUME NEW S, NEW x \in S
  PROVE  <<x>> \in Seq(S) /\ Len(<<x>>) = 1 /\ <<x>>[1] = x
  OBVIOUS

LEMMA ForestFacts ==
  ASSUME forest \in Forests
  PROVE  /\ NVisits \in Nat /\ IsFiniteSet(forest.cats)
         /\ Len(forest.completed) \in Nat /\ DOMAIN forest.completed = 1..Len(forest.completed)
         /\ \A i \in 1..Len(forest.completed) : forest.completed[i] \in forest.cats
<1>1. IsFiniteSet(forest.cats) /\ forest.completed \in Seq(forest.cats)
  BY ForestsAssumption
<1> QED  BY <1>1, FS_CardinalityType, LenProperties, ElementOfSeq DEF NVisits

\* The productions of a category with a choice.
LEMMA ProdsFacts ==
  ASSUME forest \in Forests, NEW cat, Synth(cat)
  PROVE  /\ Len(forest.prods[cat]) \in Nat
         /\ DOMAIN forest.prods[cat] = 1..Len(forest.prods[cat])
         /\ \A i \in 1..Len(forest.prods[cat]) : forest.prods[cat][i].args \in Seq(forest.cats)
<1>1. PICK prods : prods = forest.prods[cat]
  OBVIOUS
<1>2. IsSeq(prods) /\ \A k \in DOMAIN prods : prods[k].args \in Seq(forest.cats)
  BY <1>1, ForestsAssumption DEF Synth
<1>3. Len(prods) \in Nat /\ DOMAIN prods = 1..Len(prods)
  BY <1>2, IsSeqFacts
<1> QED  BY <1>1, <1>2, <1>3

-----------------------------------------------------------------------------
(* RunsDone under way *)

StagesTo(m, f) ==
  f = [k \in 0..m |->
         IF k = 0 THEN {RunBegun(i) : i \in DOMAIN forest.completed}
         ELSE UNION {RunOn(c) : c \in f[k - 1]}]

\* RunStages up to m visits can be made one longer.
LEMMA StagesLonger ==
  ASSUME NEW m \in Nat, NEW f, StagesTo(m, f)
  PROVE  \E g : StagesTo(m + 1, g)
<1> DEFINE first == {RunBegun(i) : i \in DOMAIN forest.completed}
           on(S) == UNION {RunOn(c) : c \in S}
           g == [k \in 0..(m + 1) |-> IF k = m + 1 THEN on(f[m]) ELSE f[k]]
<1>0. \A h, n : StagesTo(n, h) <=> h = [k \in 0..n |-> IF k = 0 THEN first ELSE on(h[k - 1])]
  BY DEF StagesTo
<1> HIDE DEF first, on
<1>1. g[m + 1] = on(f[m]) /\ \A k \in 0..m : g[k] = f[k]
  OBVIOUS
<1>2. \A k \in 0..m : f[k] = IF k = 0 THEN first ELSE on(f[k - 1])
  BY <1>0
<1>3. ASSUME NEW k \in 0..(m + 1)
      PROVE  g[k] = IF k = 0 THEN first ELSE on(g[k - 1])
  <2>1. CASE k = 0
    BY <1>1, <1>2, <2>1
  <2>2. CASE k \in 1..m
    <3>1. k - 1 \in 0..m /\ k \in 0..m /\ k # 0
      BY <2>2
    <3>2. g[k - 1] = f[k - 1] /\ g[k] = f[k]
      BY <1>1, <3>1
    <3> HIDE DEF g
    <3> QED  BY <1>2, <3>1, <3>2
  <2>3. CASE k = m + 1
    <3>1. k - 1 = m /\ k # 0 /\ m \in 0..m
      BY <2>3
    <3>2. g[k - 1] = f[m] /\ g[k] = on(f[m])
      BY <1>1, <2>3, <3>1
    <3> HIDE DEF g
    <3> QED  BY <2>3, <3>1, <3>2
  <2> QED  BY <2>1, <2>2, <2>3
<1>4. StagesTo(m + 1, g)
  <2>1. g = [k \in 0..(m + 1) |-> g[k]]
    OBVIOUS
  <2> HIDE DEF g
  <2> QED  BY <1>0, <1>3, <2>1
<1> QED  BY <1>4

\* RunStages is what its recursive definition says.
LEMMA StagesFacts ==
  ASSUME forest \in Forests
  PROVE  /\ RunStages[0] = {RunBegun(i) : i \in 1..Len(forest.completed)}
         /\ \A k \in 1..NVisits : RunStages[k] = UNION {RunOn(c) : c \in RunStages[k - 1]}
<1> DEFINE T == {m \in Nat : \E f : StagesTo(m, f)}
<1>0. NVisits \in Nat /\ DOMAIN forest.completed = 1..Len(forest.completed)
  BY ForestFacts
<1>1. 0 \in T
  <2>1. PICK f : f = [k \in 0..0 |-> {RunBegun(i) : i \in DOMAIN forest.completed}]
    OBVIOUS
  <2>2. StagesTo(0, f)
    BY <2>1 DEF StagesTo
  <2> QED  BY <2>2
<1>2. \A j \in 0..(NVisits - 1) : j \in T => j + 1 \in T
  BY StagesLonger
<1>3. NVisits \in T
  <2> HIDE DEF T
  <2>1. \A k \in 0..NVisits : k \in T
    BY <1>0, <1>1, <1>2, InductionUpTo
  <2> QED  BY <1>0, <2>1
<1>4. RunStages = CHOOSE f : StagesTo(NVisits, f)
  BY DEF RunStages, StagesTo, NVisits
<1>5. StagesTo(NVisits, RunStages)
  BY <1>3, <1>4, Zenon
<1>6. PICK f : f = RunStages
  OBVIOUS
<1>7. \A k \in 0..NVisits :
        f[k] = IF k = 0 THEN {RunBegun(i) : i \in DOMAIN forest.completed}
               ELSE UNION {RunOn(c) : c \in f[k - 1]}
  BY <1>5, <1>6 DEF StagesTo
<1>8. 0 \in 0..NVisits /\ \A k \in 1..NVisits : k \in 0..NVisits /\ k # 0
  BY <1>0
<1>9. f[0] = {RunBegun(i) : i \in 1..Len(forest.completed)}
  BY <1>0, <1>7, <1>8
<1>10. ASSUME NEW k \in 1..NVisits
       PROVE  f[k] = UNION {RunOn(c) : c \in f[k - 1]}
  BY <1>7, <1>8
<1> QED  BY <1>6, <1>9, <1>10

\* A derivation of the next stage continues one of this stage.
LEMMA StagesStep ==
  ASSUME forest \in Forests, NEW k \in 0..(NVisits - 1), NEW b
  PROVE  b \in RunStages[k + 1] <=> \E c \in RunStages[k] : b \in RunOn(c)
<1>1. k + 1 \in 1..NVisits /\ (k + 1) - 1 = k
  BY ForestFacts
<1>2. PICK S : S = RunStages[k]
  OBVIOUS
<1>3. RunStages[k + 1] = UNION {RunOn(c) : c \in S}
  BY <1>1, <1>2, StagesFacts
<1> QED  BY <1>2, <1>3

\* The ways to continue a derivation.
LEMMA ContinuedIs ==
  ASSUME forest \in Forests, NEW c, NEW b
  PROVE  b \in RunOn(c) <=>
           /\ c.todo # <<>> /\ Head(c.todo) \notin c.seen
           /\ \/ ~Synth(Head(c.todo)) /\ b = RunMeta(c)
              \/ AtChoice(c) /\ \E i \in 1..Alternatives(c) : b = RunTook(c, i)
<1>1. CASE AtChoice(c)
  <2>1. DOMAIN forest.prods[Head(c.todo)] = 1..Alternatives(c)
    BY <1>1, ProdsFacts DEF AtChoice, Alternatives
  <2>2. RunOn(c) = {RunTook(c, i) : i \in 1..Alternatives(c)}
    BY <1>1, <2>1 DEF RunOn, AtChoice
  <2> QED  BY <1>1, <2>2 DEF AtChoice
<1>2. CASE c.todo = <<>> \/ Head(c.todo) \in c.seen
  BY <1>2 DEF RunOn
<1>3. CASE c.todo # <<>> /\ Head(c.todo) \notin c.seen /\ ~Synth(Head(c.todo))
  <2>1. RunOn(c) = {RunMeta(c)} /\ ~AtChoice(c)
    BY <1>3 DEF RunOn, AtChoice
  <2> QED  BY <1>3, <2>1
<1>4. AtChoice(c) \/ c.todo = <<>> \/ Head(c.todo) \in c.seen \/ ~Synth(Head(c.todo))
  BY ONLY Zenon DEF AtChoice
<1> QED  BY <1>1, <1>2, <1>3, <1>4

\* The fields of a derivation that is continued.
LEMMA TookFields ==
  ASSUME NEW c, NEW i
  PROVE  /\ RunTook(c, i).dec = Append(c.dec, i)
         /\ RunTook(c, i).todo = forest.prods[Head(c.todo)][i].args \o Tail(c.todo)
         /\ RunTook(c, i).seen = c.seen \cup {Head(c.todo)}
         /\ RunMeta(c).dec = c.dec
         /\ RunMeta(c).todo = Tail(c.todo)
         /\ RunMeta(c).seen = c.seen \cup {Head(c.todo)}
         /\ RunMeta(c).expr = Append(c.expr, META)
  BY DEF RunTook, RunMeta

StageTyped(c, k) ==
  /\ c.dec \in Seq(Nat \ {0}) /\ c.dec # <<>>
  /\ c.todo \in Seq(forest.cats)
  /\ c.seen \subseteq forest.cats /\ Cardinality(c.seen) = k

LEMMA ContinuedTyped ==
  ASSUME forest \in Forests, NEW k \in Nat, NEW c, StageTyped(c, k), NEW b \in RunOn(c)
  PROVE  StageTyped(b, k + 1)
<1>1. c.todo # <<>> /\ Head(c.todo) \notin c.seen
  BY ContinuedIs
<1>2. Head(c.todo) \in forest.cats /\ Tail(c.todo) \in Seq(forest.cats)
  BY <1>1, HeadTailProperties DEF StageTyped
<1>3. IsFiniteSet(c.seen)
  BY ForestFacts, FS_Subset DEF StageTyped
<1>4. Cardinality(c.seen \cup {Head(c.todo)}) = k + 1
  BY <1>1, <1>3, FS_AddElement DEF StageTyped
<1>5. c.seen \cup {Head(c.todo)} \subseteq forest.cats
  BY <1>2 DEF StageTyped
<1>6. CASE b = RunMeta(c)
  BY <1>2, <1>4, <1>5, <1>6, TookFields DEF StageTyped
<1>7. ASSUME AtChoice(c), NEW i \in 1..Alternatives(c), b = RunTook(c, i) PROVE StageTyped(b, k + 1)
  <2>1. PICK as \in Seq(forest.cats) : as = forest.prods[Head(c.todo)][i].args
    <3>1. Synth(Head(c.todo)) /\ i \in 1..Len(forest.prods[Head(c.todo)])
      BY <1>7 DEF AtChoice, Alternatives
    <3>2. forest.prods[Head(c.todo)][i].args \in Seq(forest.cats)
      BY <3>1, ProdsFacts, ZenonT(40)
    <3> QED  BY ONLY <3>2
  <2>2. b.todo \in Seq(forest.cats)
    <3>1. PICK w \in Seq(forest.cats) : w = Tail(c.todo)
      BY <1>2
    <3>2. as \o w \in Seq(forest.cats)
      BY ConcatProperties
    <3> QED  BY <1>7, <2>1, <3>1, <3>2, TookFields
  <2>3. i \in Nat \ {0}
    BY <1>7, ProdsFacts DEF AtChoice, Alternatives
  <2>4. PICK s \in Seq(Nat \ {0}) : s = c.dec
    BY DEF StageTyped
  <2>5. Append(s, i) \in Seq(Nat \ {0}) /\ Len(Append(s, i)) = Len(s) + 1 /\ Len(s) \in Nat
    BY <2>3, AppendProperties, LenProperties
  <2>6. Append(s, i) # <<>>
    BY <2>5, EmptySeq
  <2> QED  BY <1>4, <1>5, <1>7, <2>2, <2>4, <2>5, <2>6, TookFields DEF StageTyped
<1> QED  BY <1>6, <1>7, ContinuedIs

LEMMA StagesTyped ==
  ASSUME forest \in Forests, NEW k \in 0..NVisits, NEW c \in RunStages[k]
  PROVE  StageTyped(c, k)
<1> DEFINE T == {m \in 0..NVisits : \A d \in RunStages[m] : StageTyped(d, m)}
<1>0. NVisits \in Nat
  BY ForestFacts
<1>1. 0 \in T
  <2> SUFFICES ASSUME NEW d \in RunStages[0] PROVE StageTyped(d, 0)
    BY <1>0
  <2>1. PICK i \in 1..Len(forest.completed) : d = RunBegun(i)
    BY StagesFacts
  <2>2. d.dec = <<i>> /\ d.todo = <<forest.completed[i]>> /\ d.seen = {}
    BY <2>1 DEF RunBegun
  <2>3. i \in Nat \ {0} /\ forest.completed[i] \in forest.cats
    BY ForestFacts
  <2>4. PICK x \in forest.cats : x = forest.completed[i]
    BY <2>3
  <2>5. <<i>> \in Seq(Nat \ {0}) /\ <<x>> \in Seq(forest.cats) /\ <<i>> # <<>>
    BY <2>3, SingletonTyped
  <2> QED  BY <2>2, <2>4, <2>5, FS_EmptySet DEF StageTyped
<1>2. ASSUME NEW j \in 0..(NVisits - 1), j \in T PROVE j + 1 \in T
  <2> SUFFICES ASSUME NEW d \in RunStages[j + 1] PROVE StageTyped(d, j + 1)
    BY <1>0
  <2>1. PICK e \in RunStages[j] : d \in RunOn(e)
    BY StagesStep
  <2>2. StageTyped(e, j)
    BY <1>2
  <2> QED  BY <2>1, <2>2, ContinuedTyped
<1>3. \A m \in 0..NVisits : m \in T
  <2> HIDE DEF T
  <2> QED  BY <1>0, <1>1, <1>2, InductionUpTo
<1> QED  BY <1>3

\* There is no stage after the last: a derivation that has visited every category can
\* only end or fail.
LEMMA ContinuedStage ==
  ASSUME forest \in Forests, NEW k \in 0..NVisits, NEW c \in RunStages[k], NEW b \in RunOn(c)
  PROVE  k < NVisits /\ b \in RunStages[k + 1]
<1>1. StageTyped(c, k) /\ NVisits \in Nat /\ IsFiniteSet(forest.cats)
  BY StagesTyped, ForestFacts
<1>2. ASSUME k = NVisits PROVE FALSE
  <2>1. c.seen = forest.cats
    BY <1>1, <1>2, FS_Subset DEF StageTyped, NVisits
  <2>2. c.todo # <<>> /\ Head(c.todo) \notin c.seen
    BY ContinuedIs
  <2>3. Head(c.todo) \in forest.cats
    BY <1>1, <2>2, HeadTailProperties DEF StageTyped
  <2> QED  BY <2>1, <2>2, <2>3
<1>3. k \in 0..(NVisits - 1) /\ k < NVisits
  BY <1>1, <1>2
<1> QED  BY <1>3, StagesStep

\* The decisions of a derivation go on those of the one it continues.
LEMMA ContinuedBegins ==
  ASSUME forest \in Forests, NEW k \in 0..NVisits, NEW c \in RunStages[k], NEW b \in RunOn(c)
  PROVE  /\ Begins(c.dec, b.dec)
         /\ \/ ~AtChoice(c) /\ b = RunMeta(c)
            \/ /\ AtChoice(c) /\ Len(b.dec) = Len(c.dec) + 1
               /\ b.dec[Len(c.dec) + 1] \in 1..Alternatives(c)
               /\ b = RunTook(c, b.dec[Len(c.dec) + 1])
<1>1. PICK s \in Seq(Nat \ {0}) : s = c.dec
  BY StagesTyped DEF StageTyped
<1>2. Len(s) \in Nat
  BY LenProperties
<1>3. CASE ~Synth(Head(c.todo)) /\ b = RunMeta(c)
  <2>1. b.dec = s /\ ~AtChoice(c)
    BY <1>1, <1>3, TookFields DEF AtChoice
  <2>2. Begins(s, s)
    BY <1>2 DEF Begins
  <2>3. Begins(c.dec, b.dec)
    BY ONLY <1>1, <2>1, <2>2, SMTT(30)
  <2> QED  BY <1>3, <2>1, <2>3, SMTT(30)
<1>4. ASSUME AtChoice(c), NEW i \in 1..Alternatives(c), b = RunTook(c, i)
      PROVE  /\ Begins(c.dec, b.dec) /\ Len(b.dec) = Len(c.dec) + 1
             /\ b.dec[Len(c.dec) + 1] = i
  <2>1. i \in Nat \ {0}
    BY <1>4, ProdsFacts DEF AtChoice, Alternatives
  <2>2. PICK t : t = Append(s, i)
    OBVIOUS
  <2>3. Len(t) = Len(s) + 1 /\ t[Len(s) + 1] = i /\ \A j \in 1..Len(s) : t[j] = s[j]
    BY <2>1, <2>2, AppendProperties
  <2>4. b.dec = t
    BY <1>1, <1>4, <2>2, TookFields
  <2> QED  BY <1>1, <1>2, <2>3, <2>4 DEF Begins
<1>5. c.todo # <<>> /\ Head(c.todo) \notin c.seen
  BY ContinuedIs
<1> QED  BY <1>3, <1>4, ContinuedIs

\* Facts about sequences that agree.
LEMMA BeginsTrans ==
  ASSUME NEW s, NEW t, NEW u, Len(s) \in Nat, Len(t) \in Nat, Len(u) \in Nat,
         Begins(s, t), Begins(t, u)
  PROVE  Begins(s, u)
  BY DEF Begins

LEMMA BeginningsAgree ==
  ASSUME NEW s, NEW t, NEW u, NEW v, Len(s) \in Nat, Len(t) \in Nat, Len(u) \in Nat, Len(v) \in Nat,
         Begins(s, t), Begins(u, v), Agree(t, v)
  PROVE  Agree(s, u)
<1> SUFFICES ASSUME NEW i \in 1..Len(s), i <= Len(u) PROVE s[i] = u[i]
  BY DEF Agree
<1>1. i \in 1..Len(t) /\ i \in 1..Len(u) /\ i <= Len(v)
  BY DEF Begins
<1> QED  BY <1>1 DEF Begins, Agree

LEMMA DecLen ==
  ASSUME forest \in Forests, NEW k \in 0..NVisits, NEW c \in RunStages[k]
  PROVE  Len(c.dec) \in Nat \ {0}
<1>1. c.dec \in Seq(Nat \ {0}) /\ c.dec # <<>>
  BY StagesTyped DEF StageTyped
<1> QED  BY <1>1, LenProperties, EmptySeq

HasAncestor(e, m, n) ==
  \E a \in RunStages[n] :
    /\ Begins(a.dec, e.dec)
    /\ n = m => a = e
    /\ n < m => \E b \in RunOn(a) : Begins(b.dec, e.dec)

\* Every derivation has come past each of the stages before.
LEMMA Ancestors ==
  ASSUME forest \in Forests, NEW m \in 0..NVisits, NEW n \in 0..m, NEW e \in RunStages[m]
  PROVE  HasAncestor(e, m, n)
<1> DEFINE T == {j \in 0..NVisits : \A d \in RunStages[j] : \A i \in 0..j : HasAncestor(d, j, i)}
<1>0. NVisits \in Nat
  BY ForestFacts
<1>1. ASSUME NEW j \in 0..NVisits, NEW d \in RunStages[j] PROVE HasAncestor(d, j, j)
  <2>1. Begins(d.dec, d.dec)
    BY DecLen DEF Begins
  <2> QED  BY <1>1, <2>1 DEF HasAncestor
<1>2. 0 \in T
  BY <1>0, <1>1
<1>3. ASSUME NEW j \in 0..(NVisits - 1), j \in T PROVE j + 1 \in T
  <2> SUFFICES ASSUME NEW d \in RunStages[j + 1], NEW i \in 0..(j + 1) PROVE HasAncestor(d, j + 1, i)
    BY <1>0
  <2>1. PICK c \in RunStages[j] : d \in RunOn(c)
    BY StagesStep
  <2>2. Begins(c.dec, d.dec) /\ Len(c.dec) \in Nat /\ Len(d.dec) \in Nat /\ j \in 0..NVisits /\ j + 1 \in 0..NVisits
    BY <1>0, <2>1, ContinuedBegins, DecLen
  <2>3. CASE i = j + 1
    BY <1>1, <2>2, <2>3
  <2>4. CASE i = j
    <3>1. Begins(d.dec, d.dec)
      BY <2>2 DEF Begins
    <3> QED  BY <2>1, <2>2, <2>4, <3>1 DEF HasAncestor
  <2>5. CASE i < j
    <3>1. i \in 0..j /\ i \in 0..NVisits /\ i # j + 1
      BY <1>0, <2>5
    <3>2. HasAncestor(c, j, i)
      BY <1>3, <3>1
    <3>3. PICK a \in RunStages[i] : Begins(a.dec, c.dec) /\ \E b \in RunOn(a) : Begins(b.dec, c.dec)
      BY <2>5, <3>2 DEF HasAncestor
    <3>4. PICK b \in RunOn(a) : Begins(b.dec, c.dec)
      BY <3>3
    <3>5. i + 1 \in 0..NVisits /\ b \in RunStages[i + 1]
      BY <1>0, <3>1, <2>5, ContinuedStage
    <3>6. Len(a.dec) \in Nat /\ Len(b.dec) \in Nat
      BY <3>1, <3>5, DecLen
    <3>7. Begins(a.dec, d.dec) /\ Begins(b.dec, d.dec)
      BY <2>2, <3>3, <3>4, <3>6, BeginsTrans
    <3> QED  BY <3>1, <3>7 DEF HasAncestor
  <2> QED  BY <2>3, <2>4, <2>5
<1>4. \A j \in 0..NVisits : j \in T
  <2> HIDE DEF T
  <2> QED  BY <1>0, <1>2, <1>3, InductionUpTo
<1> QED  BY <1>4

\* The decisions determine the derivations of a stage.
LEMMA SameStage ==
  ASSUME forest \in Forests, NEW k \in 0..NVisits, NEW c \in RunStages[k], NEW e \in RunStages[k],
         Agree(c.dec, e.dec)
  PROVE  c = e
<1> DEFINE T == {j \in 0..NVisits : \A a, b \in RunStages[j] : Agree(a.dec, b.dec) => a = b}
<1>0. NVisits \in Nat
  BY ForestFacts
<1>1. 0 \in T
  <2> SUFFICES ASSUME NEW a \in RunStages[0], NEW b \in RunStages[0], Agree(a.dec, b.dec) PROVE a = b
    BY <1>0
  <2>1. PICK i \in 1..Len(forest.completed) : a = RunBegun(i)
    BY StagesFacts
  <2>2. PICK j \in 1..Len(forest.completed) : b = RunBegun(j)
    BY StagesFacts
  <2>3. a.dec = <<i>> /\ b.dec = <<j>>
    BY <2>1, <2>2 DEF RunBegun
  <2>4. i = j
    BY <2>3 DEF Agree
  <2> QED  BY <2>1, <2>2, <2>4
<1>2. ASSUME NEW j \in 0..(NVisits - 1), j \in T PROVE j + 1 \in T
  <2> SUFFICES ASSUME NEW a \in RunStages[j + 1], NEW b \in RunStages[j + 1], Agree(a.dec, b.dec) PROVE a = b
    BY <1>0
  <2>0. j \in 0..NVisits /\ j + 1 \in 0..NVisits
    BY <1>0
  <2>1. PICK d \in RunStages[j] : a \in RunOn(d)
    BY StagesStep
  <2>2. PICK f \in RunStages[j] : b \in RunOn(f)
    BY StagesStep
  <2>3. /\ Begins(d.dec, a.dec) /\ Begins(f.dec, b.dec)
        /\ Len(a.dec) \in Nat /\ Len(b.dec) \in Nat /\ Len(d.dec) \in Nat /\ Len(f.dec) \in Nat
    BY <2>0, <2>1, <2>2, ContinuedBegins, DecLen
  <2>4. Agree(d.dec, f.dec)
    BY <2>3, BeginningsAgree
  <2>5. d = f
    BY <1>2, <2>4
  <2>6. CASE ~AtChoice(d)
    BY <2>0, <2>1, <2>2, <2>5, <2>6, ContinuedBegins
  <2>7. CASE AtChoice(d)
    <3>1. PICK l \in Nat : l = Len(d.dec) + 1
      BY <2>3
    <3>2. a = RunTook(d, a.dec[l]) /\ b = RunTook(d, b.dec[l]) /\ Len(a.dec) = l /\ Len(b.dec) = l
      BY <2>0, <2>1, <2>2, <2>5, <2>7, <3>1, ContinuedBegins
    <3>3. a.dec[l] = b.dec[l]
      <4>1. l \in 1..Len(a.dec) /\ l <= Len(b.dec)
        BY <2>3, <3>1, <3>2
      <4> QED  BY <4>1 DEF Agree
    <3> QED  BY <3>2, <3>3
  <2> QED  BY <2>6, <2>7
<1>3. \A j \in 0..NVisits : j \in T
  <2> HIDE DEF T
  <2> QED  BY <1>0, <1>1, <1>2, InductionUpTo
<1> QED  BY <1>3

\* Two derivations whose decisions agree are the same, or the one goes on where the
\* other has come to.
LEMMA OneOrOn ==
  ASSUME forest \in Forests, NEW c \in Runs, NEW e \in Runs, Agree(c.dec, e.dec)
  PROVE  \/ c = e
         \/ \E b \in RunOn(c) : Begins(b.dec, e.dec)
         \/ \E b \in RunOn(e) : Begins(b.dec, c.dec)
<1>0. NVisits \in Nat
  BY ForestFacts
<1>1. ASSUME NEW m \in 0..NVisits, NEW n \in 0..m, NEW d \in RunStages[n], NEW f \in RunStages[m],
             Agree(d.dec, f.dec)
      PROVE  d = f \/ \E b \in RunOn(d) : Begins(b.dec, f.dec)
  <2>1. n \in 0..NVisits
    BY <1>0
  <2>2. PICK a \in RunStages[n] : /\ Begins(a.dec, f.dec)
                                  /\ n = m => a = f
                                  /\ n < m => \E b \in RunOn(a) : Begins(b.dec, f.dec)
    BY Ancestors DEF HasAncestor
  <2>3. Len(d.dec) \in Nat /\ Len(f.dec) \in Nat /\ Len(a.dec) \in Nat
    BY <2>1, DecLen
  <2>4. Begins(d.dec, d.dec)
    BY <2>3 DEF Begins
  <2>5. Agree(d.dec, a.dec)
    BY <1>1, <2>2, <2>3, <2>4, BeginningsAgree
  <2>6. d = a
    BY <2>1, <2>5, SameStage
  <2> QED  BY <2>2, <2>6
<1>2. PICK n \in 0..NVisits : c \in RunStages[n]
  BY DEF Runs, NVisits
<1>3. PICK m \in 0..NVisits : e \in RunStages[m]
  BY DEF Runs, NVisits
<1>4. CASE n <= m
  BY <1>1, <1>2, <1>3, <1>4
<1>5. CASE m <= n
  <2>1. Agree(e.dec, c.dec)
    BY <1>2, <1>3, DecLen DEF Agree
  <2> QED  BY <1>1, <1>2, <1>3, <1>5, <2>1
<1> QED  BY <1>4, <1>5

\* A derivation under way, wherever it is.
LEMMA UnderWayFacts ==
  ASSUME forest \in Forests, NEW c \in Runs
  PROVE  /\ c.dec \in Seq(Nat \ {0}) /\ Len(c.dec) \in Nat \ {0}
         /\ c.todo \in Seq(forest.cats)
         /\ \A b \in RunOn(c) : b \in Runs /\ Begins(c.dec, b.dec)
         /\ AtChoice(c) => \A b \in RunOn(c) :
              Len(b.dec) = Len(c.dec) + 1 /\ b.dec[Len(c.dec) + 1] \in 1..Alternatives(c)
<1>0. NVisits \in Nat
  BY ForestFacts
<1>1. PICK k \in 0..NVisits : c \in RunStages[k]
  BY DEF Runs, NVisits
<1>2. ASSUME NEW b \in RunOn(c)
      PROVE  /\ b \in Runs /\ Begins(c.dec, b.dec)
             /\ AtChoice(c) =>
                  Len(b.dec) = Len(c.dec) + 1 /\ b.dec[Len(c.dec) + 1] \in 1..Alternatives(c)
  <2>1. k + 1 \in 0..NVisits /\ b \in RunStages[k + 1]
    BY <1>0, <1>1, ContinuedStage
  <2>2. b \in Runs
    BY <2>1 DEF Runs, NVisits
  <2> QED  BY <1>1, <2>2, ContinuedBegins
<1>3. StageTyped(c, k) /\ Len(c.dec) \in Nat \ {0}
  BY <1>1, StagesTyped, DecLen
<1> QED  BY <1>2, <1>3 DEF StageTyped

LEMMA DerivationFacts ==
  ASSUME forest \in Forests, NEW d \in RunsDone
  PROVE  d \in Runs /\ d.dec \in Seq(Nat \ {0}) /\ Len(d.dec) \in Nat \ {0} /\ RunOn(d) = {}
<1>1. d \in Runs /\ d.todo = <<>>
  BY DEF RunsDone
<1>2. RunOn(d) = {}
  BY <1>1 DEF RunOn
<1> QED  BY <1>1, <1>2, UnderWayFacts

-----------------------------------------------------------------------------
(* Decisions *)

\* After the first j decisions of p there are n alternatives.
Offered(p, j, n) ==
  \/ j = 0 /\ n = Len(forest.completed)
  \/ \E c \in Runs :
       AtChoice(c) /\ Len(c.dec) = j /\ n = Alternatives(c) /\ \A i \in 1..j : c.dec[i] = p[i]

\* p are the decisions behind path.
Tracks(p, path) ==
  /\ p \in Seq(Nat) /\ path \in Seq(Nat) /\ Len(p) = Len(path)
  /\ \A j \in 1..Len(path) :
       \E n \in Nat : Offered(p, j - 1, n) /\ path[j] \in 1..n /\ p[j] = n - path[j] + 1

\* A derivation that begins with the decisions that lead to a choice takes one of its
\* alternatives.
LEMMA OfferTaken ==
  ASSUME forest \in Forests, NEW p, NEW j \in Nat, NEW n, Offered(p, j, n),
         NEW d \in RunsDone, \A i \in 1..j : i <= Len(d.dec) => d.dec[i] = p[i]
  PROVE  Len(d.dec) > j /\ d.dec[j + 1] \in 1..n
<1>0. /\ d \in Runs /\ Len(d.dec) \in Nat \ {0} /\ RunOn(d) = {}
      /\ NVisits \in Nat
  BY DerivationFacts, ForestFacts
<1>1. CASE j = 0 /\ n = Len(forest.completed)
  <2>1. PICK m \in 0..NVisits : d \in RunStages[m]
    BY <1>0 DEF Runs, NVisits
  <2>2. PICK a \in RunStages[0] : Begins(a.dec, d.dec)
    <3>1. HasAncestor(d, m, 0)
      BY <2>1, Ancestors
    <3> QED  BY <3>1 DEF HasAncestor
  <2>3. PICK i \in 1..Len(forest.completed) : a = RunBegun(i)
    BY StagesFacts
  <2>4. a.dec = <<i>>
    BY <2>3 DEF RunBegun
  <2>5. Len(<<i>>) = 1 /\ <<i>>[1] = i
    BY SingletonTyped
  <2>6. d.dec[1] = i
    BY <2>2, <2>4, <2>5 DEF Begins
  <2> QED  BY <1>0, <1>1, <2>6
<1>2. ASSUME NEW c \in Runs, AtChoice(c), Len(c.dec) = j, n = Alternatives(c),
             \A i \in 1..j : c.dec[i] = p[i]
      PROVE  Len(d.dec) > j /\ d.dec[j + 1] \in 1..n
  <2>1. Agree(c.dec, d.dec)
    BY <1>2 DEF Agree
  <2>2. c # d
    BY <1>2 DEF AtChoice, RunsDone
  <2>3. PICK b \in RunOn(c) : Begins(b.dec, d.dec)
    BY <1>0, <1>2, <2>1, <2>2, OneOrOn
  <2>4. Len(b.dec) = j + 1 /\ b.dec[j + 1] \in 1..n
    BY <1>2, <2>3, UnderWayFacts
  <2>5. j + 1 \in 1..(j + 1) /\ j + 1 <= Len(d.dec) /\ b.dec[j + 1] = d.dec[j + 1]
    BY <2>3, <2>4 DEF Begins
  <2> QED  BY <1>0, <2>4, <2>5
<1> QED  BY <1>1, <1>2 DEF Offered

\* Where every decision of p after the J-th is the last alternative, a derivation that
\* begins with the first J of them comes before p or begins with all of them.
LEMMA LastAlternatives ==
  ASSUME forest \in Forests, NEW p, NEW path, Tracks(p, path), NEW d \in RunsDone,
         NEW J \in 0..Len(p), J <= Len(d.dec), \A k \in 1..J : d.dec[k] = p[k],
         \A k \in 1..Len(p) : k > J => path[k] = 1
  PROVE  Precedes(d.dec, p) \/ Begins(p, d.dec)
<1>0. Len(p) \in Nat /\ Len(d.dec) \in Nat /\ J \in Nat
  <2>1. Len(p) \in Nat
    BY LenProperties DEF Tracks
  <2> QED  BY <2>1, DerivationFacts
<1> DEFINE off == {k \in 1..Len(p) : k > Len(d.dec) \/ d.dec[k] # p[k]}
<1>1. CASE off = {}
  BY <1>0, <1>1 DEF Begins
<1>2. CASE off # {}
  <2>1. off \in SUBSET Nat
    BY <1>0
  <2>2. PICK k \in off : \A i \in off : k <= i
    <3> HIDE DEF off
    <3> QED  BY <1>2, <2>1, LeastElement
  <2>3. /\ k \in 1..Len(p) /\ (k > Len(d.dec) \/ d.dec[k] # p[k])
        /\ \A i \in 1..(k - 1) : i <= Len(d.dec) /\ d.dec[i] = p[i]
    BY <1>0, <2>2
  <2> HIDE DEF off
  <2>4. path[k] = 1
    BY <1>0, <2>3
  <2>5. PICK n \in Nat : Offered(p, k - 1, n) /\ p[k] = n - path[k] + 1
    BY <2>3 DEF Tracks
  <2>6. PICK j \in Nat : j = k - 1
    BY <1>0, <2>3
  <2>7. Offered(p, j, n) /\ \A i \in 1..j : i <= Len(d.dec) => d.dec[i] = p[i]
    BY <2>3, <2>5, <2>6
  <2>8. Len(d.dec) > j /\ d.dec[j + 1] \in 1..n
    BY <2>7, OfferTaken
  <2>9. k = j + 1 /\ p[k] = n
    BY <1>0, <2>3, <2>4, <2>5, <2>6
  <2>10. k \in 1..Len(d.dec) /\ k <= Len(p) /\ d.dec[k] < p[k]
    BY <1>0, <2>3, <2>8, <2>9
  <2> QED  BY <2>3, <2>10 DEF Precedes
<1> QED  BY <1>1, <1>2

\* With no alternative left at any decision, nothing comes after p.
LEMMA NothingAfter ==
  ASSUME forest \in Forests, NEW p, NEW path, Tracks(p, path),
         NEW c, c = [path |-> path, path_idx |-> 0], ~CanAdvance(c), NEW d \in RunsDone
  PROVE  Precedes(d.dec, p) \/ Begins(p, d.dec)
<1>1. Len(p) \in Nat /\ Len(path) = Len(p) /\ path \in Seq(Nat) /\ Len(d.dec) \in Nat
  BY LenProperties, DerivationFacts DEF Tracks
<1>2. ASSUME NEW k \in 1..Len(p) PROVE path[k] = 1
  <2>1. path[k] \in Nat /\ path[k] >= 1
    <3>1. PICK n \in Nat : path[k] \in 1..n
      BY <1>1 DEF Tracks
    <3> QED  BY <3>1
  <2>2. ~(path[k] > 1)
    BY <1>1 DEF CanAdvance, Untried
  <2> QED  BY <2>1, <2>2
<1>3. PICK J \in 0..Len(p) : J = 0
  BY <1>1
<1> QED  BY <1>1, <1>2, <1>3, LastAlternatives

\* The first i of a sequence, and one more.
CutAndAppend(s, i, x) == Append(SubSeq(s, 1, i), x)

IsCut(t, s, i, x) ==
  t \in Seq(Nat) /\ Len(t) = i + 1 /\ t[i + 1] = x /\ \A k \in 1..i : t[k] = s[k]

LEMMA CutFacts ==
  ASSUME NEW s \in Seq(Nat), NEW i \in 0..Len(s), NEW x \in Nat,
         NEW t, t = CutAndAppend(s, i, x)
  PROVE  IsCut(t, s, i, x)
<1>0. Len(s) \in Nat /\ i \in Nat /\ i \in Int
  BY LenProperties
<1>1. PICK u : u = SubSeq(s, 1, i)
  OBVIOUS
<1>2. \A k \in 1..i : s[k] \in Nat
  BY <1>0, ElementOfSeq
<1>3. /\ u \in Seq(Nat)
      /\ Len(u) = IF 1 <= i THEN i - 1 + 1 ELSE 0
      /\ \A k \in 1..(i - 1 + 1) : u[k] = s[1 + k - 1]
  BY <1>0, <1>1, <1>2, SubSeqProperties
<1>4. Len(u) = i /\ \A k \in 1..i : u[k] = s[k]
  BY <1>0, <1>3
<1> QED  BY <1>0, <1>1, <1>3, <1>4, AppendProperties DEF CutAndAppend, IsCut

\* The first difference decides.
LEMMA PrecedesAt ==
  ASSUME NEW s, NEW t, NEW k \in 1..Len(s), k <= Len(t), s[k] < t[k], \A i \in 1..(k - 1) : s[i] = t[i]
  PROVE  Precedes(s, t)
  BY DEF Precedes

\* The order, when decision j of p is made one higher and the later ones are dropped.
LEMMA PrecedesNext ==
  ASSUME NEW s \in Seq(Nat), NEW p \in Seq(Nat), NEW j \in 1..Len(p), NEW q \in Seq(Nat),
         Len(q) = j, q[j] = p[j] + 1, \A k \in 1..(j - 1) : q[k] = p[k]
  PROVE  /\ Precedes(s, p) => Precedes(s, q)
         /\ Begins(p, s) => Precedes(s, q)
         /\ Precedes(s, q) => Precedes(s, p) \/ (j <= Len(s) /\ \A k \in 1..j : s[k] = p[k])
<1>0. Len(s) \in Nat /\ Len(p) \in Nat /\ j \in Nat \ {0}
  BY LenProperties
<1>1. /\ \A k \in 1..Len(s) : s[k] \in Nat
      /\ \A k \in 1..Len(p) : p[k] \in Nat
  BY ElementOfSeq
<1>2. ASSUME Precedes(s, p) PROVE Precedes(s, q)
  <2>1. PICK k \in 1..Len(s) : k <= Len(p) /\ s[k] < p[k] /\ \A i \in 1..(k - 1) : s[i] = p[i]
    BY <1>2 DEF Precedes
  <2>2. CASE k < j
    <3>1. k \in 1..(j - 1) /\ k <= Len(q) /\ \A i \in 1..(k - 1) : i \in 1..(j - 1)
      BY <1>0, <2>2
    <3>2. s[k] < q[k] /\ \A i \in 1..(k - 1) : s[i] = q[i]
      BY <2>1, <3>1
    <3> QED  BY <3>1, <3>2, PrecedesAt
  <2>3. CASE k = j
    <3>1. PICK x \in Nat, y \in Nat : x = s[k] /\ y = p[k] /\ x < y
      BY <1>1, <2>1, <2>3
    <3>2. x < y + 1
      BY ONLY <3>1
    <3>3. s[k] < q[k]
      BY <2>3, <3>1, <3>2
    <3>4. k <= Len(q) /\ \A i \in 1..(k - 1) : s[i] = q[i]
      BY <1>0, <2>1, <2>3
    <3> QED  BY <3>3, <3>4, PrecedesAt
  <2>4. CASE k > j
    <3>1. j \in 1..(k - 1) /\ j \in 1..Len(s) /\ \A i \in 1..(j - 1) : i \in 1..(k - 1)
      BY <1>0, <2>4
    <3>2. s[j] = p[j] /\ p[j] \in Nat /\ \A i \in 1..(j - 1) : s[i] = q[i]
      BY <1>1, <2>1, <3>1
    <3>3. s[j] < q[j]
      BY ONLY <3>2, q[j] = p[j] + 1
    <3>4. j <= Len(q)
      BY <1>0
    <3> QED  BY ONLY <3>1, <3>2, <3>3, <3>4, PrecedesAt, SMTT(30)
  <2> QED  BY <1>0, <2>1, <2>2, <2>3, <2>4
<1>3. ASSUME Begins(p, s) PROVE Precedes(s, q)
  <2>1. j \in 1..Len(s) /\ s[j] = p[j] /\ p[j] \in Nat /\ \A i \in 1..(j - 1) : s[i] = p[i]
    BY <1>0, <1>1, <1>3, SMTT(30) DEF Begins
  <2>2. s[j] < q[j]
    BY ONLY <2>1, q[j] = p[j] + 1
  <2>3. j <= Len(q) /\ \A i \in 1..(j - 1) : s[i] = q[i]
    BY <1>0, <2>1
  <2> QED  BY ONLY <2>1, <2>2, <2>3, PrecedesAt
<1>4. ASSUME Precedes(s, q)
      PROVE  Precedes(s, p) \/ (j <= Len(s) /\ \A k \in 1..j : s[k] = p[k])
  <2>1. PICK k \in 1..Len(s) : k <= j /\ s[k] < q[k] /\ \A i \in 1..(k - 1) : s[i] = q[i]
    BY <1>4 DEF Precedes
  <2>2. k <= Len(p) /\ \A i \in 1..(k - 1) : i \in 1..(j - 1)
    BY <1>0, <2>1
  <2>3. \A i \in 1..(k - 1) : s[i] = p[i]
    BY <2>1, <2>2
  <2>4. CASE s[k] < p[k]
    BY <2>2, <2>3, <2>4, PrecedesAt
  <2>5. CASE ~(s[k] < p[k])
    <3>1. k = j
      <4> SUFFICES ASSUME k # j PROVE FALSE
        OBVIOUS
      <4>1. k \in 1..(j - 1)
        BY <1>0, <2>1
      <4> QED  BY <2>1, <2>5, <4>1
    <3>2. PICK x \in Nat, y \in Nat : x = s[j] /\ y = p[j] /\ x < y + 1 /\ ~(x < y)
      BY <1>1, <2>1, <2>5, <3>1, SMTT(20)
    <3>3. x = y
      BY ONLY <3>2
    <3>4. \A i \in 1..j : i \in 1..(k - 1) \/ i = j
      BY <1>0, <3>1
    <3>5. \A i \in 1..j : s[i] = p[i]
      BY <2>3, <3>2, <3>3, <3>4
    <3>6. j <= Len(s)
      BY <1>0, <2>1, <3>1
    <3> QED  BY ONLY <3>5, <3>6, Zenon
  <2> QED  BY <2>4, <2>5
<1> QED  BY <1>2, <1>3, <1>4

\* What is offered depends on the decisions before alone.
LEMMA OfferedOn ==
  ASSUME NEW p, NEW q, NEW j, NEW n, Offered(p, j, n), \A i \in 1..j : q[i] = p[i]
  PROVE  Offered(q, j, n)
  BY DEF Offered

\* gu_choice_advance moves past the derivations that begin with the decisions of the
\* run, and past no other.
LEMMA MovesPast ==
  ASSUME forest \in Forests, NEW p, NEW path, Tracks(p, path),
         NEW c, c = [path |-> path, path_idx |-> 0], CanAdvance(c),
         NEW c2, c2 = gu_choice_advance(c)
  PROVE  /\ c2 \in Choices /\ c2.path_idx = 0
         /\ \E q : /\ Tracks(q, c2.path)
                   /\ \A d \in RunsDone :
                        Precedes(d.dec, q) <=> Precedes(d.dec, p) \/ Begins(p, d.dec)
<1>0. Len(path) \in Nat /\ Len(p) = Len(path) /\ path \in Seq(Nat) /\ p \in Seq(Nat)
  BY LenProperties DEF Tracks
<1>1. Untried(c) \subseteq 1..Len(path) /\ Untried(c) # {} /\ \A j \in Untried(c) : path[j] > 1
  BY DEF Untried, CanAdvance
<1>2. \E j \in Untried(c) : \A k \in Untried(c) : k <= j
  <2>1. Untried(c) \subseteq 0..Len(path)
    BY <1>0, <1>1
  <2> QED  BY <1>0, <1>1, <2>1, LargestExists
<1>3. LastUntried(c) \in Untried(c) /\ \A k \in Untried(c) : k <= LastUntried(c)
  BY <1>2, Zenon DEF LastUntried
<1>4. PICK j \in 1..Len(path) :
        j = LastUntried(c) /\ path[j] > 1 /\ \A k \in Untried(c) : k <= j
  BY <1>1, <1>3
<1>5. PICK n \in Nat : Offered(p, j - 1, n) /\ path[j] \in 1..n /\ p[j] = n - path[j] + 1
  BY <1>4 DEF Tracks
<1>6. PICK r \in Nat : r = path[j] - 1 /\ r \in 1..n /\ p[j] + 1 = n - r + 1 /\ p[j] + 1 \in Nat
  <2>1. PICK a \in 1..n : a = path[j] /\ a > 1
    BY <1>4, <1>5
  <2>2. PICK b : b = p[j] /\ b = n - a + 1
    BY <1>5, <2>1
  <2>3. a - 1 \in Nat /\ a - 1 \in 1..n /\ b + 1 = n - (a - 1) + 1 /\ b + 1 \in Nat
    BY <2>1, <2>2
  <2> QED  BY ONLY <2>1, <2>2, <2>3
<1>7. PICK i \in 0..Len(path) : i = j - 1
  BY <1>0, <1>4
<1>8. PICK path2 : path2 = CutAndAppend(path, i, r)
  OBVIOUS
<1>9. path2 \in Seq(Nat) /\ Len(path2) = j /\ path2[j] = r /\ \A k \in 1..i : path2[k] = path[k]
  <2>1. IsCut(path2, path, i, r)
    BY <1>0, <1>8, CutFacts
  <2> QED  BY <1>7, <2>1 DEF IsCut
<1>10. PICK q : q = CutAndAppend(p, i, p[j] + 1)
  OBVIOUS
<1>11. q \in Seq(Nat) /\ Len(q) = j /\ q[j] = p[j] + 1 /\ \A k \in 1..i : q[k] = p[k]
  <2>1. PICK x \in Nat : x = p[j] + 1
    BY <1>6
  <2>2. IsCut(q, p, i, x)
    BY <1>0, <1>10, <2>1, CutFacts
  <2> QED  BY <1>7, <2>1, <2>2 DEF IsCut
<1>12. c2 = [path |-> path2, path_idx |-> 0]
  BY <1>4, <1>6, <1>7, <1>8 DEF gu_choice_advance, CutAndAppend
<1>13. Tracks(q, path2)
  <2>1. ASSUME NEW k \in 1..Len(path2)
        PROVE  \E m \in Nat : Offered(q, k - 1, m) /\ path2[k] \in 1..m /\ q[k] = m - path2[k] + 1
    <3>1. CASE k = j
      <4>1. \A l \in 1..(j - 1) : q[l] = p[l]
        BY <1>7, <1>11
      <4>2. Offered(q, j - 1, n)
        BY <1>5, <4>1, OfferedOn
      <4> QED  BY <1>6, <1>9, <1>11, <3>1, <4>2
    <3>2. CASE k # j
      <4>1. k \in 1..i /\ k \in 1..Len(path) /\ \A l \in 1..(k - 1) : l \in 1..i
        BY <1>7, <1>9, <3>2
      <4>2. PICK m \in Nat : Offered(p, k - 1, m) /\ path[k] \in 1..m /\ p[k] = m - path[k] + 1
        BY <4>1 DEF Tracks
      <4>3. Offered(q, k - 1, m)
        BY <1>11, <4>1, <4>2, OfferedOn
      <4> QED  BY <1>9, <1>11, <4>1, <4>2, <4>3
    <3> QED  BY <3>1, <3>2
  <2> QED  BY <1>9, <1>11, <2>1 DEF Tracks
<1>14. ASSUME NEW d \in RunsDone
       PROVE  Precedes(d.dec, q) <=> Precedes(d.dec, p) \/ Begins(p, d.dec)
  <2>1. d.dec \in Seq(Nat) /\ Len(d.dec) \in Nat
    <3>1. PICK s \in Seq(Nat \ {0}) : s = d.dec
      BY DerivationFacts
    <3> QED  BY <3>1, LenProperties, ElementOfSeq
  <2>2. /\ Precedes(d.dec, p) => Precedes(d.dec, q)
        /\ Begins(p, d.dec) => Precedes(d.dec, q)
        /\ Precedes(d.dec, q) => Precedes(d.dec, p) \/ (j <= Len(d.dec) /\ \A k \in 1..j : d.dec[k] = p[k])
    <3>1. j \in 1..Len(p) /\ \A k \in 1..(j - 1) : q[k] = p[k]
      BY <1>0, <1>7, <1>11
    <3> QED  BY ONLY <1>0, <1>11, <2>1, <3>1, PrecedesNext, ZenonT(40)
  <2>3. ASSUME j <= Len(d.dec), \A k \in 1..j : d.dec[k] = p[k]
        PROVE  Precedes(d.dec, p) \/ Begins(p, d.dec)
    <3>1. ASSUME NEW k \in 1..Len(p), k > j PROVE path[k] = 1
      <4>1. k \notin Untried(c)
        BY <1>0, <1>4, <3>1
      <4>2. ~(path[k] > 1)
        BY <1>0, <4>1, <3>1 DEF Untried
      <4>3. PICK m \in Nat : path[k] \in 1..m
        BY <1>0, <3>1 DEF Tracks
      <4> QED  BY <4>2, <4>3
    <3>2. j \in 0..Len(p)
      BY <1>0
    <3> QED  BY <2>3, <3>1, <3>2, LastAlternatives
  <2> QED  BY <2>2, <2>3
<1> QED  BY <1>9, <1>12, <1>13, <1>14 DEF Choices

-----------------------------------------------------------------------------
(* A run *)

\* The first i decisions of p lead to c.
Leads(c, i, p) ==
  c \in Runs /\ Len(c.dec) = i /\ i <= Len(p) /\ \A k \in 1..i : c.dec[k] = p[k]

\* A run with a decision to retrace is on the way to it: it does not come to a category
\* a second time, nor to the end of its tree, and where it has to choose it finds the
\* alternatives that were counted.
LEMMA Meets ==
  ASSUME forest \in Forests, NEW p, NEW path, Tracks(p, path),
         NEW i, NEW c, Leads(c, i, p), i < Len(path)
  PROVE  /\ c.todo # <<>> /\ Head(c.todo) \notin c.seen
         /\ AtChoice(c) =>
              path[i + 1] \in 1..Alternatives(c) /\ p[i + 1] = Alternatives(c) - path[i + 1] + 1
<1>0. c \in Runs /\ i \in Nat \ {0} /\ Len(c.dec) = i /\ Len(path) \in Nat
  BY UnderWayFacts, LenProperties DEF Leads, Tracks
<1>1. PICK j \in 1..Len(path) : j = i + 1
  BY <1>0
<1>2. PICK n \in Nat : Offered(p, j - 1, n) /\ path[j] \in 1..n /\ p[j] = n - path[j] + 1
  BY DEF Tracks
<1>3. j - 1 = i /\ i # 0
  BY <1>0, <1>1
<1>4. PICK e \in Runs : AtChoice(e) /\ Len(e.dec) = i /\ n = Alternatives(e) /\ \A k \in 1..i : e.dec[k] = p[k]
  BY <1>2, <1>3 DEF Offered
<1>5. Agree(c.dec, e.dec)
  BY <1>0, <1>4 DEF Agree, Leads
<1>6. ASSUME NEW b \in RunOn(e) PROVE ~Begins(b.dec, c.dec)
  <2>1. Len(b.dec) = i + 1
    BY <1>4, UnderWayFacts
  <2> QED  BY <1>0, <2>1 DEF Begins
<1>7. CASE c = e
  BY <1>1, <1>2, <1>4, <1>7 DEF AtChoice
<1>8. ASSUME NEW b \in RunOn(c), Begins(b.dec, e.dec)
      PROVE  c.todo # <<>> /\ Head(c.todo) \notin c.seen /\ ~AtChoice(c)
  <2>1. c.todo # <<>> /\ Head(c.todo) \notin c.seen
    BY ContinuedIs
  <2>2. ASSUME AtChoice(c) PROVE FALSE
    <3>1. Len(b.dec) = i + 1
      BY <1>0, <2>2, UnderWayFacts
    <3> QED  BY <1>0, <1>4, <1>8, <3>1 DEF Begins
  <2> QED  BY <2>1, <2>2
<1> QED  BY <1>0, <1>4, <1>5, <1>6, <1>7, <1>8, OneOrOn

\* A new decision begins with the first alternative: no derivation comes before it that
\* did not come before the decisions so far.
LEMMA FreshGives ==
  ASSUME forest \in Forests, NEW p \in Seq(Nat), NEW q, q = Append(p, 1), NEW d \in RunsDone
  PROVE  Precedes(d.dec, q) <=> Precedes(d.dec, p)
<1>0. PICK l \in Nat : l = Len(p)
  BY LenProperties
<1>1. Len(q) = l + 1 /\ q[l + 1] = 1 /\ \A k \in 1..l : q[k] = p[k]
  BY <1>0, AppendProperties
<1>2. PICK s \in Seq(Nat \ {0}) : s = d.dec
  BY DerivationFacts
<1>3. Len(s) \in Nat /\ \A k \in 1..Len(s) : s[k] \in Nat \ {0}
  BY LenProperties, ElementOfSeq
<1>4. ASSUME NEW k \in 1..Len(s)
      PROVE  (k <= Len(q) /\ s[k] < q[k] /\ \A i \in 1..(k - 1) : s[i] = q[i])
               <=> (k <= Len(p) /\ s[k] < p[k] /\ \A i \in 1..(k - 1) : s[i] = p[i])
  <2>1. CASE k <= l
    <3>1. k \in 1..l /\ k <= Len(q) /\ \A i \in 1..(k - 1) : i \in 1..l
      BY <1>0, <1>1, <1>3, <2>1
    <3> QED  BY <1>0, <1>1, <2>1, <3>1
  <2>2. CASE k = l + 1
    <3>1. s[k] \in Nat \ {0} /\ q[k] = 1
      BY <1>1, <1>3, <2>2
    <3>2. ~(s[k] < q[k]) /\ ~(k <= Len(p))
      BY <1>0, <2>2, <3>1
    <3> QED  BY <3>2
  <2>3. CASE k > l + 1
    BY <1>0, <1>1, <1>3, <2>3, SMTT(30)
  <2> QED  BY <1>0, <1>3, <2>1, <2>2, <2>3
<1> QED  BY <1>2, <1>4 DEF Precedes

\* By its (i+1)-st decision, among n alternatives, a run takes the r-th.
Decided(p, i, n, c2, r) ==
  /\ c2 \in Choices /\ c2.path_idx = i + 1 /\ r \in 1..n
  /\ \E q : /\ Tracks(q, c2.path)
            /\ i + 1 <= Len(q) /\ q[i + 1] = r /\ \A k \in 1..i : q[k] = p[k]
            /\ \A d \in RunsDone : Precedes(d.dec, q) <=> Precedes(d.dec, p)

\* gu_choice_next where there are n alternatives: it takes the one that p records, or the
\* first.
LEMMA Decides ==
  ASSUME forest \in Forests, NEW c \in Choices, NEW p, Tracks(p, c.path),
         NEW i, i = c.path_idx, NEW n \in Nat \ {0}, Offered(p, i, n), i <= Len(c.path),
         i < Len(c.path) => c.path[i + 1] \in 1..n /\ p[i + 1] = n - c.path[i + 1] + 1,
         NEW c2, c2 = gu_choice_next(c, n), NEW r, r = NextDecision(c, n) + 1
  PROVE  Decided(p, i, n, c2, r)
<1>1. PICK path \in Seq(Nat) : path = c.path
  BY DEF Choices
<1>2. i \in Nat /\ Len(path) \in Nat /\ Len(p) = Len(path) /\ p \in Seq(Nat)
  BY <1>1, LenProperties DEF Choices, Tracks
<1>3. CASE i < Len(path)
  <2>1. PICK a \in 1..n : a = path[i + 1] /\ p[i + 1] = n - a + 1
    BY <1>1, <1>3
  <2>2. Remaining(c, n) = a
    BY <1>1, <1>3, <2>1 DEF Remaining, Recorded
  <2>3. NextDecision(c, n) = n - a
    BY <2>2 DEF NextDecision
  <2>4. c2 = [path |-> path, path_idx |-> i + 1]
    BY <1>1, <1>3 DEF gu_choice_next, Recorded
  <2>5. r \in 1..n /\ p[i + 1] = r
    BY ONLY <2>1, <2>3, n \in Nat \ {0}, r = NextDecision(c, n) + 1
  <2>6. c2 \in Choices /\ c2.path_idx = i + 1 /\ c2.path = path /\ i + 1 <= Len(p)
    BY <1>2, <1>3, <2>4 DEF Choices
  <2> QED  BY <1>1, <2>5, <2>6 DEF Decided
<1>4. CASE i = Len(path)
  <2>1. ~Recorded(c)
    BY <1>1, <1>2, <1>4 DEF Recorded
  <2>2. r = 1
    BY <2>1 DEF NextDecision, Remaining
  <2>3. PICK path2 : path2 = Append(path, n)
    OBVIOUS
  <2>4. c2 = [path |-> path2, path_idx |-> i + 1]
    BY <1>1, <2>1, <2>3 DEF gu_choice_next
  <2>5. /\ path2 \in Seq(Nat) /\ Len(path2) = i + 1 /\ path2[i + 1] = n
        /\ \A k \in 1..i : path2[k] = path[k]
    BY <1>4, <2>3, AppendProperties
  <2>6. PICK q : q = Append(p, 1)
    OBVIOUS
  <2>7. q \in Seq(Nat) /\ Len(q) = i + 1 /\ q[i + 1] = 1 /\ \A k \in 1..i : q[k] = p[k]
    BY <1>2, <1>4, <2>6, AppendProperties
  <2>8. ASSUME NEW k \in 1..Len(path2)
        PROVE  \E m \in Nat : Offered(q, k - 1, m) /\ path2[k] \in 1..m /\ q[k] = m - path2[k] + 1
    <3>1. CASE k = i + 1
      <4>1. k - 1 = i /\ n \in 1..n /\ n - n + 1 = 1
        BY <1>2, <3>1
      <4>2. Offered(q, i, n)
        BY <2>7, OfferedOn
      <4> QED  BY <2>5, <2>7, <3>1, <4>1, <4>2
    <3>2. CASE k # i + 1
      <4>1. k \in 1..i /\ k \in 1..Len(path) /\ \A l \in 1..(k - 1) : l \in 1..i
        BY <1>2, <1>4, <2>5, <3>2, SMTT(20)
      <4>2. PICK m \in Nat : Offered(p, k - 1, m) /\ path[k] \in 1..m /\ p[k] = m - path[k] + 1
        BY <1>1, <4>1 DEF Tracks
      <4>3. Offered(q, k - 1, m)
        BY <2>7, <4>1, <4>2, OfferedOn
      <4> QED  BY <2>5, <2>7, <4>1, <4>2, <4>3
    <3> QED  BY <3>1, <3>2
  <2>9. Tracks(q, path2)
    BY <2>5, <2>7, <2>8 DEF Tracks
  <2>10. \A d \in RunsDone : Precedes(d.dec, q) <=> Precedes(d.dec, p)
    BY <1>2, <2>6, FreshGives
  <2>11. c2 \in Choices /\ c2.path_idx = i + 1 /\ c2.path = path2
    <3>1. i + 1 \in Nat /\ path2 \in Seq(Nat)
      BY <1>2, <2>5
    <3> QED  BY ONLY <2>4, <3>1 DEF Choices
  <2>12. r \in 1..n
    BY <2>2
  <2>13. i + 1 <= Len(q) /\ q[i + 1] = r /\ Tracks(q, c2.path)
    BY <1>2, <2>2, <2>7, <2>9, <2>11
  <2> QED  BY ONLY <2>7, <2>10, <2>11, <2>12, <2>13, Zenon DEF Decided
<1> QED  BY <1>1, <1>2, <1>3, <1>4

\* The production that a decision chooses.
LEMMA DecisionLeads ==
  ASSUME forest \in Forests, NEW c, NEW i, NEW p, Leads(c, i, p), AtChoice(c),
         NEW r \in 1..Alternatives(c),
         NEW q, i + 1 <= Len(q), q[i + 1] = r, \A k \in 1..i : q[k] = p[k]
  PROVE  Leads(RunTook(c, r), i + 1, q)
<1>1. c \in Runs /\ i \in Nat \ {0} /\ c.dec \in Seq(Nat \ {0}) /\ Len(c.dec) = i
  BY UnderWayFacts DEF Leads
<1>2. RunTook(c, r) \in RunOn(c)
  BY ContinuedIs DEF AtChoice
<1>3. PICK b : b = RunTook(c, r)
  OBVIOUS
<1>4. b \in Runs /\ Begins(c.dec, b.dec) /\ Len(b.dec) = i + 1
  BY <1>1, <1>2, <1>3, UnderWayFacts
<1>5. b.dec[i + 1] = r
  <2>1. r \in Nat \ {0}
    BY ProdsFacts DEF AtChoice, Alternatives
  <2>2. PICK s \in Seq(Nat \ {0}) : s = c.dec /\ Len(s) = i
    BY <1>1
  <2>3. RunTook(c, r).dec = Append(c.dec, r)
    BY ONLY TRUE DEF RunTook
  <2>4. b.dec = Append(s, r)
    BY ONLY <1>3, <2>2, <2>3
  <2> QED  BY <2>1, <2>2, <2>4, AppendProperties
<1>6. ASSUME NEW k \in 1..(i + 1) PROVE b.dec[k] = q[k]
  <2>1. CASE k = i + 1
    BY <1>5, <2>1
  <2>2. CASE k \in 1..i
    BY <1>1, <1>4, <2>2 DEF Begins, Leads
  <2> QED  BY <1>1, <2>1, <2>2
<1> QED  BY <1>3, <1>4, <1>6 DEF Leads

\* A category without a choice makes no decision.
LEMMA MetaLeads ==
  ASSUME forest \in Forests, NEW c, NEW i, NEW p, Leads(c, i, p),
         c.todo # <<>>, Head(c.todo) \notin c.seen, ~Synth(Head(c.todo))
  PROVE  Leads(RunMeta(c), i, p)
<1>1. c \in Runs
  BY DEF Leads
<1>2. RunMeta(c) \in RunOn(c)
  BY ContinuedIs
<1>3. RunMeta(c) \in Runs
  BY <1>1, <1>2, UnderWayFacts
<1>4. RunMeta(c).dec = c.dec
  BY TookFields
<1> QED  BY <1>3, <1>4 DEF Leads

\* A completed category that a run begins with.
LEMMA BegunLeads ==
  ASSUME forest \in Forests, NEW r \in 1..Len(forest.completed),
         NEW p, 1 <= Len(p), p[1] = r
  PROVE  Leads(RunBegun(r), 1, p)
<1>1. RunBegun(r) \in RunStages[0] /\ 0 \in 0..NVisits
  BY StagesFacts, ForestFacts
<1>2. RunBegun(r) \in Runs
  BY <1>1 DEF Runs, NVisits
<1>3. RunBegun(r).dec = <<r>> /\ Len(<<r>>) = 1 /\ <<r>>[1] = r
  BY SingletonTyped DEF RunBegun
<1> QED  BY <1>2, <1>3 DEF Leads

\* A run that cannot go on has come to its last decision; no derivation begins with them.
Barren(p) == \A d \in RunsDone : ~Begins(p, d.dec)

LEMMA RunFails ==
  ASSUME forest \in Forests, NEW p, NEW path, Tracks(p, path), NEW i, NEW c, Leads(c, i, p),
         c.todo # <<>>, Head(c.todo) \in c.seen \/ (AtChoice(c) /\ Alternatives(c) = 0)
  PROVE  Barren(p)
<1>0. c \in Runs /\ Len(c.dec) = i /\ i \in Nat \ {0} /\ Len(p) = Len(path) /\ Len(p) \in Nat /\ i <= Len(p)
  BY UnderWayFacts, LenProperties DEF Leads, Tracks
<1>1. ~(i < Len(path))
  <2> SUFFICES ASSUME i < Len(path) PROVE FALSE
    OBVIOUS
  <2>1. /\ c.todo # <<>> /\ Head(c.todo) \notin c.seen
        /\ AtChoice(c) => path[i + 1] \in 1..Alternatives(c)
    BY Meets
  <2>2. CASE AtChoice(c) /\ Alternatives(c) = 0
    BY <2>1, <2>2
  <2> QED  BY <2>1, <2>2
<1>2. Len(p) = i
  BY <1>0, <1>1
<1>3. \A b : b \notin RunOn(c)
  BY ContinuedIs DEF AtChoice
<1>4. ASSUME NEW d \in RunsDone, Begins(p, d.dec) PROVE FALSE
  <2>1. Agree(c.dec, d.dec)
    BY <1>0, <1>2, <1>4 DEF Begins, Agree, Leads
  <2>2. d \in Runs /\ RunOn(d) = {} /\ c # d
    BY DerivationFacts DEF RunsDone
  <2> QED  BY <1>0, <1>3, <2>1, <2>2, OneOrOn
<1> QED  BY <1>4 DEF Barren

\* A run that comes to the end of a tree has made the decisions of its derivation.
LEMMA RunEnds ==
  ASSUME forest \in Forests, NEW p, NEW path, Tracks(p, path), NEW i, NEW c, Leads(c, i, p),
         c.todo = <<>>
  PROVE  c \in RunsDone /\ c.dec = p /\ \A d \in RunsDone : Begins(p, d.dec) <=> d = c
<1>0. c \in Runs /\ Len(c.dec) = i /\ i \in Nat \ {0} /\ Len(p) = Len(path) /\ Len(p) \in Nat /\ i <= Len(p)
  BY UnderWayFacts, LenProperties DEF Leads, Tracks
<1>1. ~(i < Len(path))
  BY Meets
<1>2. Len(p) = i
  BY <1>0, <1>1
<1>3. c \in RunsDone
  BY <1>0 DEF RunsDone
<1>4. c.dec = p
  <2>1. PICK s \in Seq(Nat \ {0}) : s = c.dec
    BY <1>0, UnderWayFacts
  <2>2. s \in Seq(Nat) /\ p \in Seq(Nat)
    BY LenProperties, ElementOfSeq DEF Tracks
  <2>3. Len(s) = Len(p) /\ \A k \in 1..Len(s) : s[k] = p[k]
    BY <1>0, <1>2, <2>1 DEF Leads
  <2>4. s = p
    BY <2>2, <2>3, SeqEqual
  <2> QED  BY <2>1, <2>4
<1>5. ASSUME NEW d \in RunsDone, Begins(p, d.dec) PROVE d = c
  <2>1. Agree(c.dec, d.dec)
    BY <1>4, <1>5 DEF Begins, Agree
  <2>2. d \in Runs /\ RunOn(d) = {} /\ RunOn(c) = {}
    BY <1>3, DerivationFacts
  <2> QED  BY <1>0, <2>1, <2>2, OneOrOn
<1>6. Begins(p, c.dec)
  BY <1>0, <1>4 DEF Begins
<1> QED  BY <1>3, <1>4, <1>5, <1>6

-----------------------------------------------------------------------------
(* The invariant *)

Given(p) == Preceding(p, RunsDone)

\* The client has the trees rs: those of the derivations before p; or all there are.
Counted(p, rs) == IsFiniteSet(Given(p)) /\ Cardinality(Given(p)) = Len(rs)

Complete(rs) == IsFiniteSet(RunsDone) /\ Cardinality(RunsDone) = Len(rs)

\* The tree x is that of the i-th derivation; and each tree of rs is where it belongs.
Placed(x, i) ==
  \E d \in RunsDone :
    x = d.expr /\ IsFiniteSet(Preceding(d.dec, RunsDone)) /\ Cardinality(Preceding(d.dec, RunsDone)) = i - 1

Listed(rs) == \A i \in DOMAIN rs : Placed(rs[i], i)

\* Between two runs; in a run that has failed; and in one that goes on.
Between(gc, rs) ==
  IF gc = NULL THEN Complete(rs)
  ELSE gc \in Choices /\ gc.path_idx = 0 /\ \E p : Tracks(p, gc.path) /\ Counted(p, rs)

Failed(gc, rs) == gc \in Choices /\ \E p : Tracks(p, gc.path) /\ Counted(p, rs) /\ Barren(p)

Running(gc, rs, t, sn, ex) ==
  /\ gc \in Choices
  /\ \E p, c : /\ Tracks(p, gc.path) /\ Counted(p, rs) /\ Leads(c, gc.path_idx, p)
               /\ c.todo = t /\ c.seen = sn /\ c.expr = ex

\* The inductive invariant.
GivenInv ==
  /\ forest \in Forests
  /\ \E S : results \in Seq(S)
  /\ Listed(results)
  /\ pc \in {"idle", "loop"} => Between(choice, results)
  /\ pc \in {"cat", "null"} => mark = 0 /\ ~ended
  /\ pc = "null" => Failed(choice, results)
  /\ pc = "cat" => Running(choice, results, todo, seen, expr)
  /\ ended => Complete(results)
  /\ ended => (pc = "idle" /\ choice = NULL) \/ Len(forest.completed) = 0

\* The forest does not change, and what is said of it stays.
LEMMA ForestStays ==
  ASSUME forest' = forest
  PROVE  /\ Runs' = Runs /\ RunsDone' = RunsDone
         /\ \A c : AtChoice(c)' = AtChoice(c) /\ Alternatives(c)' = Alternatives(c)
<1>1. RunStages' = RunStages
  BY SMT DEF RunStages, RunBegun, RunOn, RunTook, RunMeta, Synth
<1>2. Runs' = Runs
  BY <1>1 DEF Runs
<1>3. RunsDone' = RunsDone
  BY <1>2 DEF RunsDone
<1> QED  BY <1>2, <1>3 DEF AtChoice, Alternatives, Synth

LEMMA TracksStay ==
  ASSUME forest' = forest, NEW p, NEW path
  PROVE  Tracks(p, path)' = Tracks(p, path)
<1>1. \A j, n : Offered(p, j, n)' = Offered(p, j, n)
  BY ForestStays DEF Offered
<1> QED  BY <1>1 DEF Tracks

LEMMA InvPartsStay ==
  ASSUME forest' = forest, NEW gc, NEW rs, NEW t, NEW sn, NEW ex
  PROVE  /\ Complete(rs)' = Complete(rs)
         /\ Listed(rs)' = Listed(rs)
         /\ Between(gc, rs)' = Between(gc, rs)
         /\ Failed(gc, rs)' = Failed(gc, rs)
         /\ Running(gc, rs, t, sn, ex)' = Running(gc, rs, t, sn, ex)
<1>1. Runs' = Runs /\ RunsDone' = RunsDone
  BY ForestStays
<1>2. \A p, path : Tracks(p, path)' = Tracks(p, path)
  BY TracksStay
<1>3. \A p : Counted(p, rs)' = Counted(p, rs)
  BY <1>1 DEF Counted, Given
<1>4. \A p : Barren(p)' = Barren(p)
  BY <1>1 DEF Barren
<1>5. \A c, i, p : Leads(c, i, p)' = Leads(c, i, p)
  BY <1>1 DEF Leads
<1>6. Complete(rs)' = Complete(rs) /\ Listed(rs)' = Listed(rs)
  BY <1>1 DEF Complete, Listed, Placed
<1>7. Between(gc, rs)' = Between(gc, rs)
  BY <1>2, <1>3, <1>6 DEF Between
<1>8. Failed(gc, rs)' = Failed(gc, rs)
  BY <1>2, <1>3, <1>4 DEF Failed
<1>9. Running(gc, rs, t, sn, ex)' = Running(gc, rs, t, sn, ex)
  BY <1>2, <1>3, <1>5 DEF Running
<1> QED  BY <1>6, <1>7, <1>8, <1>9

\* The same derivations come before p and q.
LEMMA CountedOn ==
  ASSUME NEW p, NEW q, NEW rs, Counted(p, rs),
         \A d \in RunsDone : Precedes(d.dec, q) <=> Precedes(d.dec, p)
  PROVE  Counted(q, rs)
<1>1. Given(q) = Given(p)
  BY DEF Given, Preceding
<1> QED  BY <1>1 DEF Counted

\* With no completed category there is no derivation.
LEMMA NoneCompleted ==
  ASSUME forest \in Forests, Len(forest.completed) = 0
  PROVE  RunsDone = {}
<1> SUFFICES ASSUME NEW d \in RunsDone PROVE FALSE
  OBVIOUS
<1>1. PICK p, j, n : j = 0 /\ n = 0
  OBVIOUS
<1>2. Offered(p, j, n)
  BY <1>1 DEF Offered
<1>3. d.dec[j + 1] \in 1..n
  <2>1. \A i \in 1..j : i <= Len(d.dec) => d.dec[i] = p[i]
    BY <1>1
  <2>2. j \in Nat
    BY <1>1
  <2> QED  BY <1>2, <2>1, <2>2, OfferTaken
<1> QED  BY <1>1, <1>3

LEMMA InitGiven == Init => GivenInv
<1> SUFFICES ASSUME Init PROVE GivenInv
  OBVIOUS
<1>1. choice = [path |-> <<>>, path_idx |-> 0] /\ forest \in Forests /\ pc = "idle" /\ ended = FALSE
  BY DEF Init, gu_new_choice
<1>2. PICK rs : rs = results
  OBVIOUS
<1>3. rs = <<>> /\ rs \in Seq({}) /\ Len(rs) = 0 /\ DOMAIN rs = {}
  BY <1>2 DEF Init
<1>4. Listed(rs)
  BY <1>3 DEF Listed
<1>5. PICK p : p = <<>>
  OBVIOUS
<1>6. p \in Seq(Nat) /\ Len(p) = 0
  BY <1>5
<1>7. Tracks(p, p)
  BY <1>6 DEF Tracks
<1>8. Given(p) = {}
  BY <1>6, DerivationFacts, <1>1 DEF Given, Preceding, Precedes
<1>9. Counted(p, rs)
  BY <1>3, <1>8, FS_EmptySet DEF Counted
<1>10. choice \in Choices /\ choice.path = p /\ choice.path_idx = 0 /\ choice # NULL
  <2>1. choice \in Choices
    BY <1>1 DEF Choices
  <2> QED  BY <1>1, <1>5, <2>1, NullAssumption DEF Choices
<1>11. Between(choice, rs)
  BY <1>7, <1>9, <1>10 DEF Between
<1> QED  BY <1>1, <1>2, <1>3, <1>4, <1>11 DEF GivenInv

\* Where the client has been given nothing more and told nothing new.
LEMMA GivenStays ==
  ASSUME GivenInv, UNCHANGED <<forest, results, ended>>
  PROVE  /\ forest' \in Forests
         /\ \E S : results' \in Seq(S)
         /\ Listed(results)'
         /\ ended' => Complete(results)'
<1>1. PICK rs : rs = results
  OBVIOUS
<1>2. Listed(rs)' = Listed(rs) /\ Complete(rs)' = Complete(rs)
  BY InvPartsStay
<1>3. rs = results' /\ Listed(rs) /\ (ended => Complete(rs))
  BY <1>1 DEF GivenInv
<1> QED  BY <1>1, <1>2, <1>3 DEF GivenInv

\* The call of the client.
LEMMA CallGiven ==
  ASSUME GivenInv, pgf_parse_result_enum_next
  PROVE  GivenInv'
<1>1. pc = "idle" /\ UNCHANGED <<forest, choice, results>>
  BY DEF pgf_parse_result_enum_next, ReturnFalse
<1>2. PICK rs, gc : rs = results /\ gc = choice
  OBVIOUS
<1>3. Between(gc, rs) /\ Between(gc, rs)' /\ Listed(rs) /\ Listed(rs)'
  BY <1>1, <1>2, InvPartsStay DEF GivenInv
<1>4. Between(choice, results)' /\ Listed(results)'
  BY <1>1, <1>2, <1>3
<1>5. CASE choice = NULL
  <2>1. pc' = "idle" /\ ended' = TRUE
    BY <1>5 DEF pgf_parse_result_enum_next, ReturnFalse
  <2>2. Complete(rs) /\ Complete(rs)'
    BY <1>1, <1>2, <1>3, <1>5, InvPartsStay DEF Between
  <2>3. Complete(results)'
    BY <1>1, <1>2, <2>2
  <2> QED  BY <1>1, <1>4, <1>5, <2>1, <2>3 DEF GivenInv
<1>6. CASE choice # NULL
  <2>1. pc' = "loop" /\ ended' = ended
    BY <1>6 DEF pgf_parse_result_enum_next
  <2>2. ended' => Complete(results)'
    BY <1>1, <2>1, GivenStays
  <2> QED  BY <1>1, <1>4, <1>6, <2>1, <2>2 DEF GivenInv
<1> QED  BY <1>5, <1>6

\* An assertion that fails leaves everything as it is.
LEMMA AbortGiven ==
  ASSUME GivenInv, Abort, forest' = forest, pc # "idle"
  PROVE  GivenInv'
<1>1. pc' = "aborted" /\ UNCHANGED <<forest, results, ended, choice>>
  BY DEF Abort
<1>2. /\ forest' \in Forests /\ (\E S : results' \in Seq(S)) /\ Listed(results)'
      /\ (ended' => Complete(results)')
  BY <1>1, GivenStays
<1>3. ended' => Len(forest'.completed) = 0
  BY <1>1 DEF GivenInv
<1> QED  BY <1>1, <1>2, <1>3 DEF GivenInv

\* The head of the loop: the first decision of a run.
LEMMA HeadGiven ==
  ASSUME GivenInv, LoopHead
  PROVE  GivenInv'
<1>1. PICK n : n = Len(forest.completed)
  OBVIOUS
<1>2. pc = "loop" /\ forest' = forest /\ forest \in Forests /\ n \in Nat
  BY <1>1, ForestFacts DEF LoopHead, GivenInv
<1>3. CASE choice = NULL \/ ~NextAsserts(choice, n)
  <2>1. Abort
    BY <1>1, <1>3 DEF LoopHead
  <2> QED  BY <1>2, <2>1, AbortGiven
<1>4. CASE choice # NULL /\ NextAsserts(choice, n)
  <2>1. PICK rs, gc : rs = results /\ gc = choice
    OBVIOUS
  <2>2. Between(gc, rs) /\ gc # NULL
    BY <1>2, <1>4, <2>1 DEF GivenInv
  <2>3. PICK p : gc \in Choices /\ gc.path_idx = 0 /\ Tracks(p, gc.path) /\ Counted(p, rs)
    BY <2>2 DEF Between
  <2>4. mark' = 0 /\ choice' = gu_choice_next(gc, n)
    BY <1>1, <1>4, <2>1, <2>3 DEF LoopHead, gu_choice_mark
  <2>5. CASE n = 0
    <3>1. NextDecision(gc, n) = -1 /\ choice' = gc
      BY <2>4, <2>5 DEF NextDecision, gu_choice_next
    <3>2. pc' = "idle" /\ ended' = TRUE /\ results' = rs
      BY <1>1, <1>4, <2>1, <3>1 DEF LoopHead, ReturnFalse
    <3>3. Complete(rs)
      <4>1. RunsDone = {}
        BY <1>1, <1>2, <2>5, NoneCompleted
      <4>2. Given(p) = {}
        BY <4>1 DEF Given, Preceding
      <4> QED  BY <2>3, <4>1, <4>2 DEF Counted, Complete
    <3>4. Listed(rs)
      BY <2>1 DEF GivenInv
    <3>5. Complete(rs)' /\ Listed(rs)' /\ Between(gc, rs)'
      BY <1>2, <2>2, <3>3, <3>4, InvPartsStay
    <3>6. Complete(results)' /\ Listed(results)' /\ Between(choice, results)'
      BY <3>1, <3>2, <3>5
    <3>7. \E S : results' \in Seq(S)
      BY <2>1, <3>2 DEF GivenInv
    <3> QED  BY <1>1, <1>2, <2>5, <3>2, <3>6, <3>7 DEF GivenInv
  <2>6. CASE n > 0
    <3>1. PICK r : r = NextDecision(gc, n) + 1
      OBVIOUS
    <3>2. PICK c2 : c2 = gu_choice_next(gc, n)
      OBVIOUS
    <3>3. PICK i : i = 0
      OBVIOUS
    <3>4. Offered(p, i, n)
      BY <1>1, <3>3 DEF Offered
    <3>5. i <= Len(gc.path)
      <4>1. Len(gc.path) \in Nat
        BY <2>3, LenProperties DEF Tracks
      <4> QED  BY <3>3, <4>1
    <3>6. i < Len(gc.path) => gc.path[i + 1] \in 1..n /\ p[i + 1] = n - gc.path[i + 1] + 1
      <4> SUFFICES ASSUME i < Len(gc.path)
                   PROVE  gc.path[i + 1] \in 1..n /\ p[i + 1] = n - gc.path[i + 1] + 1
        OBVIOUS
      <4>0. Len(gc.path) \in Nat
        BY <2>3, LenProperties DEF Tracks
      <4>1. PICK j \in 1..Len(gc.path) : j = i + 1 /\ j - 1 = 0
        BY <3>3, <4>0
      <4>2. PICK m \in Nat : Offered(p, 0, m) /\ gc.path[j] \in 1..m /\ p[j] = m - gc.path[j] + 1
        BY <2>3, <4>1 DEF Tracks
      <4>3. m = n
        <5>1. \A c \in Runs : Len(c.dec) # 0
          BY <1>2, UnderWayFacts
        <5> QED  BY <1>1, <4>2, <5>1 DEF Offered
      <4> QED  BY <4>1, <4>2, <4>3
    <3>7. i = gc.path_idx /\ n \in Nat \ {0}
      BY <1>2, <2>3, <2>6, <3>3
    <3>8. Decided(p, i, n, c2, r)
      <4>1. forest \in Forests /\ gc \in Choices /\ Tracks(p, gc.path)
        BY <1>2, <2>3
      <4> QED  BY ONLY <3>1, <3>2, <3>4, <3>5, <3>6, <3>7, <4>1, Decides
    <3>9. PICK q : /\ Tracks(q, c2.path) /\ 1 <= Len(q) /\ q[1] = r
                   /\ \A d \in RunsDone : Precedes(d.dec, q) <=> Precedes(d.dec, p)
      BY <3>3, <3>8 DEF Decided
    <3>10. Counted(q, rs)
      BY <2>3, <3>9, CountedOn
    <3>11. PICK c : c = RunBegun(r)
      OBVIOUS
    <3>12. Leads(c, 1, q)
      BY <1>1, <1>2, <3>8, <3>9, <3>11, BegunLeads DEF Decided
    <3>13. c2.path_idx = 1
      BY <3>3, <3>8 DEF Decided
    <3>14. Running(c2, rs, c.todo, c.seen, c.expr)
      BY <3>8, <3>9, <3>10, <3>12, <3>13 DEF Running, Decided
    <3>15. NextDecision(gc, n) # -1 /\ r = NextDecision(gc, n) + 1
      <4>1. NextDecision(gc, n) = -1 => r = 0
        BY <3>1
      <4> QED  BY <3>1, <3>8, <4>1 DEF Decided
    <3>16. /\ pc' = "cat" /\ todo' = <<forest.completed[r]>> /\ seen' = {} /\ expr' = <<>>
           /\ UNCHANGED <<results, ended>>
      BY <1>1, <1>4, <2>1, <3>15 DEF LoopHead
    <3>17. todo' = c.todo /\ seen' = c.seen /\ expr' = c.expr /\ choice' = c2 /\ results' = rs
      BY <2>1, <2>4, <3>2, <3>11, <3>16 DEF RunBegun
    <3>18. Running(c2, rs, c.todo, c.seen, c.expr)'
      <4>1. PICK t, sn, ex : t = c.todo /\ sn = c.seen /\ ex = c.expr
        OBVIOUS
      <4>2. Running(c2, rs, t, sn, ex)'
        BY <1>2, <3>14, <4>1, InvPartsStay
      <4> QED  BY <4>1, <4>2
    <3>19. Running(choice, results, todo, seen, expr)'
      BY <3>17, <3>18
    <3>20. ~ended /\ ~ended'
      BY <1>1, <1>2, <2>6, <3>16 DEF GivenInv
    <3>21. (\E S : results' \in Seq(S)) /\ Listed(results)'
      BY <1>2, <3>16, GivenStays
    <3> QED  BY <1>2, <2>4, <3>16, <3>19, <3>20, <3>21 DEF GivenInv
  <2> QED  BY <1>2, <2>5, <2>6
<1> QED  BY <1>3, <1>4

\* In a run: what it has become.
LEMMA RunningIs ==
  ASSUME GivenInv, pc = "cat"
  PROVE  /\ forest \in Forests /\ choice \in Choices /\ mark = 0 /\ ~ended
         /\ \E p, c : /\ Tracks(p, choice.path) /\ Counted(p, results) /\ Leads(c, choice.path_idx, p)
                      /\ c.todo = todo /\ c.seen = seen /\ c.expr = expr
  BY DEF GivenInv, Running

\* A run that goes on.
LEMMA GoesOn ==
  ASSUME GivenInv, UNCHANGED <<forest, results, ended, mark>>, pc = "cat", pc' = "cat",
         NEW c, todo' = c.todo, seen' = c.seen, expr' = c.expr,
         NEW c2, choice' = c2, c2 \in Choices,
         NEW q, Tracks(q, c2.path), Counted(q, results), Leads(c, c2.path_idx, q)
  PROVE  GivenInv'
<1>1. PICK rs, t, sn, ex : rs = results /\ t = c.todo /\ sn = c.seen /\ ex = c.expr
  OBVIOUS
<1>2. Running(c2, rs, t, sn, ex)
  BY <1>1 DEF Running
<1>3. Running(c2, rs, t, sn, ex)'
  BY <1>2, InvPartsStay
<1>4. Running(choice, results, todo, seen, expr)'
  BY <1>1, <1>3
<1>5. /\ forest' \in Forests /\ (\E S : results' \in Seq(S)) /\ Listed(results)'
      /\ (ended' => Complete(results)')
  BY GivenStays
<1>6. mark' = 0 /\ ~ended'
  BY RunningIs
<1> QED  BY <1>4, <1>5, <1>6 DEF GivenInv

\* A run that fails.
LEMMA Fails ==
  ASSUME GivenInv, UNCHANGED <<forest, results, ended, mark, choice>>, pc = "cat", pc' = "null",
         NEW p, Tracks(p, choice.path), Counted(p, results), Barren(p)
  PROVE  GivenInv'
<1>1. PICK rs, gc : rs = results /\ gc = choice
  OBVIOUS
<1>2. Failed(gc, rs)
  BY <1>1, RunningIs DEF Failed
<1>3. Failed(gc, rs)'
  BY <1>2, InvPartsStay
<1>4. Failed(choice, results)'
  BY <1>1, <1>3
<1>5. /\ forest' \in Forests /\ (\E S : results' \in Seq(S)) /\ Listed(results)'
      /\ (ended' => Complete(results)')
  BY GivenStays
<1>6. mark' = 0 /\ ~ended'
  BY RunningIs
<1> QED  BY <1>4, <1>5, <1>6 DEF GivenInv

\* A category seen before.
LEMMA SeenGiven ==
  ASSUME GivenInv, SeenCat
  PROVE  GivenInv'
<1>1. /\ pc = "cat" /\ todo # <<>> /\ Head(todo) \in seen /\ pc' = "null"
      /\ UNCHANGED <<forest, results, ended, mark, choice>>
  BY DEF SeenCat
<1>2. PICK p, c : /\ Tracks(p, choice.path) /\ Counted(p, results) /\ Leads(c, choice.path_idx, p)
                  /\ c.todo = todo /\ c.seen = seen
  BY <1>1, RunningIs
<1>3. Barren(p)
  <2>1. PICK path, i : path = choice.path /\ i = choice.path_idx
    OBVIOUS
  <2>2. forest \in Forests /\ Tracks(p, path) /\ Leads(c, i, p) /\ c.todo # <<>> /\ Head(c.todo) \in c.seen
    BY <1>1, <1>2, <2>1, RunningIs
  <2> QED  BY <2>2, RunFails
<1> QED  BY <1>1, <1>2, <1>3, Fails

\* A category without a choice.
LEMMA MetaGiven ==
  ASSUME GivenInv, MetaCat
  PROVE  GivenInv'
<1>1. /\ pc = "cat" /\ todo # <<>> /\ Head(todo) \notin seen /\ ~Synth(Head(todo)) /\ pc' = "cat"
      /\ seen' = seen \cup {Head(todo)} /\ expr' = Append(expr, META) /\ todo' = Tail(todo)
      /\ UNCHANGED <<forest, results, ended, mark, choice>>
  BY DEF MetaCat
<1>2. PICK p, c : /\ Tracks(p, choice.path) /\ Counted(p, results) /\ Leads(c, choice.path_idx, p)
                  /\ c.todo = todo /\ c.seen = seen /\ c.expr = expr
  BY <1>1, RunningIs, Zenon
<1>3. PICK b : b = RunMeta(c)
  OBVIOUS
<1>4. todo' = b.todo /\ seen' = b.seen /\ expr' = b.expr
  BY <1>1, <1>2, <1>3, TookFields
<1>5. PICK gc : gc = choice
  OBVIOUS
<1>6. Leads(b, gc.path_idx, p)
  <2>1. PICK i : i = gc.path_idx
    OBVIOUS
  <2>2. /\ forest \in Forests /\ Leads(c, i, p) /\ c.todo # <<>> /\ Head(c.todo) \notin c.seen
        /\ ~Synth(Head(c.todo))
    BY <1>1, <1>2, <1>5, <2>1, RunningIs
  <2> QED  BY <1>3, <2>1, <2>2, MetaLeads
<1>7. Tracks(p, gc.path) /\ gc \in Choices /\ choice' = gc
  BY <1>1, <1>2, <1>5, RunningIs
<1> QED  BY <1>1, <1>2, <1>4, <1>6, <1>7, GoesOn

\* A category with productions.
LEMMA CatGiven ==
  ASSUME GivenInv, pgf_cat_to_expr
  PROVE  GivenInv'
<1>1. pc = "cat" /\ forest' = forest /\ todo # <<>> /\ Head(todo) \notin seen /\ Synth(Head(todo))
  BY DEF pgf_cat_to_expr
<1>2. PICK gc : gc = choice
  OBVIOUS
<1>3. PICK p, c : /\ Tracks(p, gc.path) /\ Counted(p, results) /\ Leads(c, gc.path_idx, p)
                  /\ c.todo = todo /\ c.seen = seen /\ c.expr = expr
  BY <1>1, <1>2, RunningIs
<1>4. PICK n : n = Alternatives(c)
  OBVIOUS
<1>5. n = Len(forest.prods[Head(todo)])
  BY <1>3, <1>4 DEF Alternatives
<1>6. forest \in Forests /\ gc \in Choices /\ AtChoice(c) /\ n \in Nat
  BY <1>1, <1>2, <1>3, <1>4, RunningIs, ProdsFacts DEF AtChoice, Alternatives
<1>7. CASE ~NextAsserts(gc, n)
  <2>1. Abort
    BY <1>2, <1>5, <1>7 DEF pgf_cat_to_expr
  <2> QED  BY <1>1, <2>1, AbortGiven
<1>8. CASE NextAsserts(gc, n)
  <2>0. PICK i : i = gc.path_idx
    OBVIOUS
  <2>1. /\ choice' = gu_choice_next(gc, n) /\ seen' = seen \cup {Head(todo)}
        /\ UNCHANGED <<forest, mark, results, ended>>
        /\ NextDecision(gc, n) = -1 => pc' = "null"
        /\ NextDecision(gc, n) # -1 =>
             pc' = pc /\ pgf_production_to_expr(forest.prods[Head(todo)][NextDecision(gc, n) + 1])
    BY <1>1, <1>2, <1>5, <1>8 DEF pgf_cat_to_expr
  <2>2. CASE n = 0
    <3>1. choice' = choice /\ pc' = "null"
      BY <1>2, <2>1, <2>2 DEF NextDecision, gu_choice_next
    <3>2. Barren(p)
      <4>1. PICK path : path = gc.path
        OBVIOUS
      <4>2. /\ Tracks(p, path) /\ Leads(c, i, p) /\ c.todo # <<>> /\ AtChoice(c) /\ Alternatives(c) = 0
        BY <1>1, <1>3, <1>4, <1>6, <2>0, <2>2, <4>1
      <4> QED  BY <1>6, <4>2, RunFails
    <3> QED  BY <1>1, <1>2, <1>3, <2>1, <3>1, <3>2, Fails
  <2>3. CASE n > 0
    <3>1. PICK r : r = NextDecision(gc, n) + 1
      OBVIOUS
    <3>2. PICK c2 : c2 = gu_choice_next(gc, n)
      OBVIOUS
    <3>3. /\ i \in Nat \ {0} /\ Len(c.dec) = i /\ c \in Runs /\ \A k \in 1..i : c.dec[k] = p[k]
          /\ i <= Len(gc.path)
      BY <1>3, <1>6, <2>0, UnderWayFacts DEF Leads, Tracks
    <3>4. Offered(p, i, n)
      BY <1>4, <1>6, <3>3 DEF Offered
    <3>5. i < Len(gc.path) => gc.path[i + 1] \in 1..n /\ p[i + 1] = n - gc.path[i + 1] + 1
      <4>1. PICK path : path = gc.path
        OBVIOUS
      <4>2. Tracks(p, path) /\ Leads(c, i, p)
        BY <1>3, <2>0, <4>1
      <4>3. i < Len(path) => path[i + 1] \in 1..n /\ p[i + 1] = n - path[i + 1] + 1
        BY <1>4, <1>6, <4>2, Meets
      <4> QED  BY <4>1, <4>3
    <3>6. i = gc.path_idx /\ n \in Nat \ {0} /\ i <= Len(gc.path)
      BY <1>6, <2>0, <2>3, <3>3
    <3>7. Decided(p, i, n, c2, r)
      <4>1. forest \in Forests /\ gc \in Choices /\ Tracks(p, gc.path)
        BY <1>3, <1>6
      <4> QED  BY ONLY <3>1, <3>2, <3>4, <3>5, <3>6, <4>1, Decides
    <3>8. PICK q : /\ Tracks(q, c2.path) /\ i + 1 <= Len(q) /\ q[i + 1] = r
                   /\ \A k \in 1..i : q[k] = p[k]
                   /\ \A d \in RunsDone : Precedes(d.dec, q) <=> Precedes(d.dec, p)
      BY <3>7 DEF Decided
    <3>9. Counted(q, results)
      <4>1. PICK rs : rs = results
        OBVIOUS
      <4>2. Counted(q, rs)
        BY <1>3, <3>8, <4>1, CountedOn
      <4> QED  BY <4>1, <4>2
    <3>10. r \in 1..Alternatives(c) /\ c2 \in Choices /\ c2.path_idx = i + 1
      BY <1>4, <3>7 DEF Decided
    <3>11. PICK b : b = RunTook(c, r)
      OBVIOUS
    <3>12. Leads(b, i + 1, q)
      <4>1. Leads(c, i, p)
        BY <1>3, <2>0
      <4> QED  BY <1>6, <3>8, <3>10, <3>11, <4>1, DecisionLeads
    <3>13. Leads(b, c2.path_idx, q)
      BY <3>10, <3>12
    <3>14. NextDecision(gc, n) # -1
      <4>1. NextDecision(gc, n) = -1 => r = 0
        BY <3>1
      <4> QED  BY <3>10, <4>1
    <3>15. pc' = pc /\ pgf_production_to_expr(forest.prods[Head(todo)][r])
      BY <2>1, <3>1, <3>14, SMTT(30)
    <3>16. todo' = b.todo /\ seen' = b.seen /\ expr' = b.expr
      BY <1>3, <2>1, <3>11, <3>15 DEF pgf_production_to_expr, RunTook
    <3>17. choice' = c2
      BY <2>1, <3>2
    <3> QED  BY <1>1, <2>1, <3>8, <3>9, <3>10, <3>13, <3>15, <3>16, <3>17, GoesOn
  <2> QED  BY <1>6, <2>2, <2>3
<1> QED  BY <1>7, <1>8

Under(p) == {d \in RunsDone : Begins(p, d.dec)}

\* The foot of the loop resets to the start of the path, where every round begins, and
\* moves past the derivations that begin with the decisions of the run.
LEMMA FootMoves ==
  ASSUME forest \in Forests, choice \in Choices, mark = 0, NEW p, Tracks(p, choice.path),
         NEW G, G = Given(p) \cup Under(p), NEW rs, IsFiniteSet(G), Cardinality(G) = Len(rs),
         NEW c2, c2 = AdvancedChoice
  PROVE  Between(c2, rs)
<1>1. PICK path \in Seq(Nat) : path = choice.path
  BY DEF Choices
<1>2. PICK c : c = [path |-> path, path_idx |-> 0]
  OBVIOUS
<1>3. gu_choice_reset(choice, mark) = c
  BY <1>1, <1>2 DEF gu_choice_reset, Choices
<1>4. c2 = IF CanAdvance(c) THEN gu_choice_advance(c) ELSE NULL
  BY <1>3 DEF AdvancedChoice
<1>5. CASE CanAdvance(c)
  <2>1. c2 = gu_choice_advance(c)
    BY <1>4, <1>5
  <2>2. Tracks(p, path)
    BY <1>1
  <2>3. /\ c2 \in Choices /\ c2.path_idx = 0
        /\ \E q : /\ Tracks(q, c2.path)
                  /\ \A d \in RunsDone :
                       Precedes(d.dec, q) <=> Precedes(d.dec, p) \/ Begins(p, d.dec)
    BY <1>2, <1>5, <2>1, <2>2, MovesPast
  <2>4. PICK q : /\ Tracks(q, c2.path)
                 /\ \A d \in RunsDone :
                      Precedes(d.dec, q) <=> Precedes(d.dec, p) \/ Begins(p, d.dec)
    BY <2>3
  <2>5. Given(q) = G
    BY <2>4 DEF Given, Preceding, Under
  <2>6. Counted(q, rs)
    BY <2>5 DEF Counted
  <2>7. c2 # NULL
    BY <2>3, NullAssumption DEF Choices
  <2> QED  BY <2>3, <2>4, <2>6, <2>7 DEF Between
<1>6. CASE ~CanAdvance(c)
  <2>1. Tracks(p, path)
    BY <1>1
  <2>2. \A d \in RunsDone : Precedes(d.dec, p) \/ Begins(p, d.dec)
    BY <1>2, <1>6, <2>1, NothingAfter
  <2>3. G = RunsDone
    BY <2>2 DEF Given, Preceding, Under
  <2> QED  BY <1>4, <1>6, <2>3 DEF Between, Complete
<1> QED  BY <1>5, <1>6

\* A tree that is returned is listed after those before.
LEMMA ListedMore ==
  ASSUME NEW S, NEW rs \in Seq(S), Listed(rs), NEW d \in RunsDone,
         IsFiniteSet(Preceding(d.dec, RunsDone)), Cardinality(Preceding(d.dec, RunsDone)) = Len(rs),
         NEW rs2, rs2 = Append(rs, d.expr)
  PROVE  Listed(rs2) /\ Len(rs2) = Len(rs) + 1 /\ \E T : rs2 \in Seq(T)
<1>1. PICK T, x : T = S \cup {x} /\ x = d.expr
  OBVIOUS
<1>2. rs \in Seq(T) /\ x \in T
  BY <1>1, LenProperties, ElementOfSeq
<1>3. PICK l \in Nat : l = Len(rs)
  BY LenProperties
<1>4. /\ rs2 \in Seq(T) /\ Len(rs2) = l + 1 /\ rs2[l + 1] = x
      /\ \A i \in 1..l : rs2[i] = rs[i]
  BY <1>1, <1>2, <1>3, AppendProperties
<1>5. DOMAIN rs2 = 1..(l + 1) /\ DOMAIN rs = 1..l
  BY <1>2, <1>3, <1>4, LenProperties
<1>6. Placed(x, l + 1)
  BY <1>1, <1>3 DEF Placed
<1>7. \A i \in 1..l : Placed(rs2[i], i)
  BY <1>4, <1>5 DEF Listed
<1>8. \A i \in DOMAIN rs2 : i \in 1..l \/ i = l + 1
  BY <1>5
<1>9. Listed(rs2)
  BY ONLY <1>4, <1>6, <1>7, <1>8, Zenon DEF Listed
<1> QED  BY <1>3, <1>4, <1>9

\* The foot of the loop.
LEMMA FootGiven ==
  ASSUME GivenInv, LoopFoot
  PROVE  GivenInv'
<1>1. forest' = forest /\ choice' = AdvancedChoice /\ forest \in Forests
  BY DEF LoopFoot, GivenInv
<1>2. PICK c2 : c2 = AdvancedChoice
  OBVIOUS
<1>3. PICK rs : rs = results
  OBVIOUS
<1>4. CASE pc = "null"
  <2>1. pc' = "loop" /\ results' = results /\ ended' = ended
    BY <1>4 DEF LoopFoot
  <2>2. choice \in Choices /\ mark = 0 /\ ~ended
    BY <1>4 DEF GivenInv, Failed
  <2>3. PICK p : Tracks(p, choice.path) /\ Counted(p, rs) /\ Barren(p)
    BY <1>3, <1>4 DEF GivenInv, Failed
  <2>4. PICK G : G = Given(p) \cup Under(p)
    OBVIOUS
  <2>5. G = Given(p)
    BY <2>3, <2>4 DEF Under, Barren
  <2>6. IsFiniteSet(G) /\ Cardinality(G) = Len(rs)
    BY <2>3, <2>5 DEF Counted
  <2>7. Between(c2, rs)
    BY <1>1, <1>2, <2>2, <2>3, <2>4, <2>6, FootMoves
  <2>8. Between(c2, rs)'
    BY <1>1, <2>7, InvPartsStay
  <2>9. Between(choice, results)'
    BY <1>1, <1>2, <1>3, <2>1, <2>8
  <2>10. (\E S : results' \in Seq(S)) /\ Listed(results)'
    BY <1>1, <2>1, GivenStays
  <2> QED  BY <1>1, <2>1, <2>2, <2>9, <2>10 DEF GivenInv
<1>5. CASE pc = "cat" /\ todo = <<>>
  <2>1. pc' = "idle" /\ results' = Append(results, expr) /\ ended' = ended
    BY <1>5 DEF LoopFoot, Return
  <2>2. choice \in Choices /\ mark = 0 /\ ~ended
    BY <1>5, RunningIs
  <2>3. PICK p, c : /\ Tracks(p, choice.path) /\ Counted(p, rs) /\ Leads(c, choice.path_idx, p)
                    /\ c.todo = todo /\ c.expr = expr
    BY <1>3, <1>5, RunningIs
  <2>4. /\ c \in RunsDone /\ c.dec = p
        /\ \A d \in RunsDone : Begins(p, d.dec) <=> d = c
    <3>1. PICK path, i : path = choice.path /\ i = choice.path_idx
      OBVIOUS
    <3>2. Tracks(p, path) /\ Leads(c, i, p) /\ c.todo = <<>>
      BY <1>5, <2>3, <3>1
    <3> QED  BY <1>1, <3>2, RunEnds
  <2>5. PICK rs2 : rs2 = Append(rs, c.expr)
    OBVIOUS
  <2>6. PICK S : rs \in Seq(S)
    BY <1>3 DEF GivenInv
  <2>7. Listed(rs2) /\ Len(rs2) = Len(rs) + 1 /\ \E T : rs2 \in Seq(T)
    <3>1. IsFiniteSet(Preceding(c.dec, RunsDone)) /\ Cardinality(Preceding(c.dec, RunsDone)) = Len(rs)
      BY <2>3, <2>4 DEF Counted, Given
    <3>2. Listed(rs)
      BY <1>3 DEF GivenInv
    <3> QED  BY <2>4, <2>5, <2>6, <3>1, <3>2, ListedMore
  <2>8. PICK G : G = Given(p) \cup Under(p)
    OBVIOUS
  <2>9. G = Given(p) \cup {c}
    BY <2>4, <2>8 DEF Under
  <2>10. c \notin Given(p)
    <3>1. p \in Seq(Nat)
      BY <2>3 DEF Tracks
    <3>2. ~Precedes(p, p)
      BY <3>1, ElementOfSeq DEF Precedes
    <3> QED  BY <2>4, <3>2 DEF Given, Preceding
  <2>11. IsFiniteSet(G) /\ Cardinality(G) = Len(rs2)
    BY <2>3, <2>7, <2>9, <2>10, FS_AddElement DEF Counted
  <2>12. Between(c2, rs2)
    BY <1>1, <1>2, <2>2, <2>3, <2>8, <2>11, FootMoves
  <2>13. Between(c2, rs2)' /\ Listed(rs2)'
    BY <1>1, <2>7, <2>12, InvPartsStay
  <2>14. choice' = c2 /\ results' = rs2
    BY <1>1, <1>2, <1>3, <2>1, <2>3, <2>5
  <2>15. Between(choice, results)' /\ Listed(results)' /\ \E T : results' \in Seq(T)
    BY <2>7, <2>13, <2>14
  <2> QED  BY <1>1, <2>1, <2>2, <2>15 DEF GivenInv
<1>6. (pc = "null") \/ (pc = "cat" /\ todo = <<>>)
  BY DEF LoopFoot
<1> QED  BY <1>4, <1>5, <1>6

LEMMA StepGiven == GivenInv /\ [Next]_vars => GivenInv'
<1> SUFFICES ASSUME GivenInv, [Next]_vars PROVE GivenInv'
  OBVIOUS
<1>1. CASE UNCHANGED vars
  <2>1. UNCHANGED <<forest, choice, mark, todo, seen, expr, pc, results, ended>>
    BY <1>1 DEF vars
  <2>2. PICK rs, gc, t, sn, ex : rs = results /\ gc = choice /\ t = todo /\ sn = seen /\ ex = expr
    OBVIOUS
  <2>3. /\ Between(gc, rs)' = Between(gc, rs) /\ Failed(gc, rs)' = Failed(gc, rs)
        /\ Running(gc, rs, t, sn, ex)' = Running(gc, rs, t, sn, ex)
    BY <2>1, InvPartsStay
  <2>4. /\ Between(gc, rs) => Between(choice, results)'
        /\ Failed(gc, rs) => Failed(choice, results)'
        /\ Running(gc, rs, t, sn, ex) => Running(choice, results, todo, seen, expr)'
    BY <2>1, <2>2, <2>3
  <2>5. /\ forest' \in Forests /\ (\E S : results' \in Seq(S)) /\ Listed(results)'
        /\ (ended' => Complete(results)')
    BY <2>1, GivenStays
  <2> QED  BY <2>1, <2>2, <2>4, <2>5 DEF GivenInv
<1>2. CASE Next
  BY <1>2, CallGiven, HeadGiven, SeenGiven, MetaGiven, CatGiven, FootGiven DEF Next, Step
<1> QED  BY <1>1, <1>2

\* Behind the path of pr->choice there are always decisions, and the client has been
\* given the trees of the derivations before them.
THEOREM GivenInvHolds == Spec => []GivenInv
<1> QED  BY InitGiven, StepGiven, PTL DEF Spec

-----------------------------------------------------------------------------
(* What follows *)

\* No run of pgf_cat_to_expr over any forest comes to a decision that offers fewer
\* alternatives than are recorded for it: the gu_assert at choice.c:51 holds.
THEOREM ReplaysAlwaysAgree == Spec => []ReplaysAgree
<1>1. GivenInv => ReplaysAgree
  <2> SUFFICES ASSUME GivenInv, pc = "cat", todo # <<>>, Head(todo) \notin seen, Synth(Head(todo)),
                      NEW n, n = Len(forest.prods[Head(todo)])
               PROVE  Remaining(choice, n) <= n
    BY DEF ReplaysAgree
  <2>1. PICK gc : gc = choice
    OBVIOUS
  <2>2. PICK p, c : /\ Tracks(p, gc.path) /\ Leads(c, gc.path_idx, p)
                    /\ c.todo = todo /\ c.seen = seen
    BY <2>1, RunningIs
  <2>3. PICK path, i : path = gc.path /\ i = gc.path_idx
    OBVIOUS
  <2>4. forest \in Forests /\ Tracks(p, path) /\ Leads(c, i, p) /\ AtChoice(c) /\ n = Alternatives(c)
    BY <2>2, <2>3, RunningIs DEF AtChoice, Alternatives
  <2>5. n \in Nat
    BY <2>4, ProdsFacts DEF AtChoice, Alternatives
  <2>6. CASE i < Len(path)
    <3>1. path[i + 1] \in 1..n
      BY <2>4, <2>6, Meets
    <3>2. Remaining(choice, n) = path[i + 1]
      BY <2>1, <2>3, <2>6 DEF Remaining, Recorded
    <3> QED  BY <2>5, <3>1, <3>2
  <2>7. CASE ~(i < Len(path))
    BY <2>1, <2>3, <2>5, <2>7 DEF Remaining, Recorded
  <2> QED  BY <2>6, <2>7
<1> QED  BY <1>1, GivenInvHolds, PTL

\* A client that has been told the end is never given another tree: the choice is gone
\* by then, or there was no completed category to begin with (enum.h, gu_enum_next).
THEOREM EndAlwaysFinal == Spec => EndIsFinal
<1>1. GivenInv /\ [Next]_vars => [ended => results' = results]_vars
  <2> SUFFICES ASSUME GivenInv, Next, ended
               PROVE  results' = results
    OBVIOUS
  <2>1. pc \in {"cat", "null"} => FALSE
    BY DEF GivenInv
  <2>2. CASE pgf_parse_result_enum_next
    BY <2>2 DEF pgf_parse_result_enum_next, ReturnFalse
  <2>3. CASE LoopHead
    BY <2>3 DEF LoopHead, Abort, ReturnFalse
  <2>4. CASE SeenCat \/ MetaCat \/ pgf_cat_to_expr \/ LoopFoot
    BY <2>1, <2>4 DEF SeenCat, MetaCat, pgf_cat_to_expr, LoopFoot
  <2> QED  BY <2>2, <2>3, <2>4 DEF Next, Step
<1> QED  BY <1>1, GivenInvHolds, PTL DEF Spec, EndIsFinal

-----------------------------------------------------------------------------
(* Runs and derivations *)

\* What a derivation under way may have to visit.
Pending == [cat : forest.cats, above : SUBSET forest.cats]

\* The categories alone.
Cats(t) == [j \in DOMAIN t |-> t[j].cat]

AsRun(b) == [dec |-> b.dec, last |-> b.last, todo |-> Cats(b.todo), seen |-> b.seen, expr |-> b.expr]

LEMMA CatsFacts ==
  ASSUME NEW t \in Seq(Pending)
  PROVE  /\ Cats(t) \in Seq(forest.cats) /\ Len(Cats(t)) = Len(t)
         /\ \A j \in 1..Len(t) : Cats(t)[j] = t[j].cat
<1>1. Len(t) \in Nat /\ DOMAIN t = 1..Len(t) /\ \A j \in 1..Len(t) : t[j] \in Pending
  BY LenProperties, ElementOfSeq
<1>2. PICK n \in Nat : n = Len(t)
  BY <1>1
<1>3. Cats(t) = [j \in 1..n |-> t[j].cat]
  BY <1>1, <1>2 DEF Cats
<1>4. \A j \in 1..n : t[j].cat \in forest.cats
  BY <1>1, <1>2 DEF Pending
<1>5. Cats(t) \in [1..n -> forest.cats]
  BY <1>3, <1>4
<1>6. Cats(t) \in Seq(forest.cats)
  BY <1>5
<1>7. Len(Cats(t)) = n
  BY <1>2, <1>5, <1>6, LenProperties
<1> QED  BY <1>2, <1>3, <1>6, <1>7

\* Of an empty sequence; the first category; and the others.
LEMMA CatsEmpty ==
  ASSUME NEW t \in Seq(Pending)
  PROVE  Cats(t) = <<>> <=> t = <<>>
<1>1. Len(Cats(t)) = Len(t) /\ Cats(t) \in Seq(forest.cats)
  BY CatsFacts
<1>2. (t = <<>> <=> Len(t) = 0) /\ (Cats(t) = <<>> <=> Len(Cats(t)) = 0)
  BY <1>1, EmptySeq
<1> QED  BY <1>1, <1>2

LEMMA CatsHeadTail ==
  ASSUME NEW t \in Seq(Pending), t # <<>>
  PROVE  /\ Head(t) \in Pending /\ Tail(t) \in Seq(Pending)
         /\ Head(Cats(t)) = Head(t).cat
         /\ Cats(Tail(t)) = Tail(Cats(t))
<1>1. /\ Head(t) \in Pending /\ Tail(t) \in Seq(Pending)
      /\ Len(Tail(t)) = Len(t) - 1 /\ \A i \in 1..Len(Tail(t)) : Tail(t)[i] = t[i + 1]
  BY HeadTailProperties
<1>2. /\ Cats(t) \in Seq(forest.cats) /\ Len(Cats(t)) = Len(t) /\ Cats(t) # <<>>
      /\ \A j \in 1..Len(t) : Cats(t)[j] = t[j].cat
  BY CatsFacts, CatsEmpty
<1>3. Len(t) \in Nat \ {0}
  BY EmptySeq
<1>4. PICK cs \in Seq(forest.cats) : cs = Cats(t)
  BY <1>2
<1>5. PICK u \in Seq(Pending) : u = Tail(t)
  BY <1>1
<1>6. Head(cs) = cs[1] /\ Head(t) = t[1]
  OBVIOUS
<1>7. cs # <<>> /\ Len(cs) = Len(t)
  BY <1>2, <1>4
<1>8. /\ Tail(cs) \in Seq(forest.cats) /\ Len(Tail(cs)) = Len(t) - 1
      /\ \A i \in 1..(Len(t) - 1) : Tail(cs)[i] = cs[i + 1]
  <2>1. /\ Tail(cs) \in Seq(forest.cats) /\ Len(Tail(cs)) = Len(cs) - 1
        /\ \A i \in 1..Len(Tail(cs)) : Tail(cs)[i] = cs[i + 1]
    BY <1>7, HeadTailProperties
  <2> QED  BY <1>7, <2>1
<1>9. /\ Cats(u) \in Seq(forest.cats) /\ Len(Cats(u)) = Len(u)
      /\ \A j \in 1..Len(u) : Cats(u)[j] = u[j].cat
  BY CatsFacts
<1>10. PICK a, b : a = Tail(cs) /\ b = Cats(u)
  OBVIOUS
<1>11. /\ a \in Seq(forest.cats) /\ b \in Seq(forest.cats) /\ Len(a) = Len(t) - 1 /\ Len(b) = Len(t) - 1
  BY <1>1, <1>5, <1>8, <1>9, <1>10
<1>12. ASSUME NEW i \in 1..(Len(t) - 1) PROVE a[i] = b[i]
  <2>1. i + 1 \in 1..Len(t) /\ i \in 1..Len(u)
    BY <1>1, <1>3, <1>5
  <2>2. cs[i + 1] = t[i + 1].cat /\ u[i] = t[i + 1]
    BY <1>1, <1>2, <1>4, <1>5, <2>1
  <2> QED  BY <1>8, <1>9, <1>10, <2>1, <2>2
<1>13. a = b
  BY <1>11, <1>12, SeqEqual
<1>14. 1 \in 1..Len(t)
  BY <1>3
<1> QED  BY <1>1, <1>2, <1>4, <1>5, <1>6, <1>10, <1>13, <1>14

\* The arguments of a production are put before what was still to be visited.
LEMMA BelowFacts ==
  ASSUME NEW at \in Pending, NEW args \in Seq(forest.cats), NEW u \in Seq(Pending)
  PROVE  /\ Below(at, args) \o u \in Seq(Pending)
         /\ Cats(Below(at, args) \o u) = args \o Cats(u)
         /\ \A j \in 1..Len(Below(at, args) \o u) :
              \/ (Below(at, args) \o u)[j].above = at.above \cup {at.cat}
              \/ \E i \in 1..Len(u) : (Below(at, args) \o u)[j] = u[i]
<1>1. PICK n \in Nat : n = Len(args) /\ DOMAIN args = 1..n
  BY LenProperties
<1>2. PICK up : up = at.above \cup {at.cat}
  OBVIOUS
<1>3. PICK w : w = [j \in 1..n |-> [cat |-> args[j], above |-> up]]
  OBVIOUS
<1>4. Below(at, args) = w
  BY <1>1, <1>2, <1>3 DEF Below
<1>5. up \in SUBSET forest.cats
  BY <1>2 DEF Pending
<1>6. \A j \in 1..n : args[j] \in forest.cats
  BY <1>1, ElementOfSeq
<1>7. w \in [1..n -> Pending]
  BY <1>3, <1>5, <1>6 DEF Pending
<1>8. w \in Seq(Pending) /\ Len(w) = n
  BY <1>7
<1>9. PICK m \in Nat : m = Len(u)
  BY LenProperties
<1>10. PICK v : v = w \o u
  OBVIOUS
<1>11. /\ v \in Seq(Pending) /\ Len(v) = n + m
       /\ \A j \in 1..(n + m) : v[j] = IF j <= n THEN w[j] ELSE u[j - n]
  BY <1>8, <1>9, <1>10, ConcatProperties
<1>12. /\ Cats(v) \in Seq(forest.cats) /\ Len(Cats(v)) = n + m
       /\ \A j \in 1..(n + m) : Cats(v)[j] = v[j].cat
  BY <1>11, CatsFacts
<1>13. PICK cs \in Seq(forest.cats) : cs = Cats(u) /\ Len(cs) = m /\ \A j \in 1..m : cs[j] = u[j].cat
  BY <1>9, CatsFacts
<1>14. PICK ac : ac = args \o cs
  OBVIOUS
<1>15. /\ ac \in Seq(forest.cats) /\ Len(ac) = n + m
       /\ \A j \in 1..(n + m) : ac[j] = IF j <= n THEN args[j] ELSE cs[j - n]
  <2>1. PICK as \in Seq(forest.cats) : as = args
    OBVIOUS
  <2>2. Len(as) = n /\ Len(cs) = m
    BY <1>1, <1>13, <2>1
  <2>3. /\ as \o cs \in Seq(forest.cats) /\ Len(as \o cs) = Len(as) + Len(cs)
        /\ \A j \in 1..(Len(as) + Len(cs)) :
             (as \o cs)[j] = IF j <= Len(as) THEN as[j] ELSE cs[j - Len(as)]
    BY ONLY ConcatProperties
  <2>4. ac = as \o cs
    BY <1>14, <2>1
  <2> QED  BY ONLY <2>1, <2>2, <2>3, <2>4
<1>16. \A j \in 1..n : w[j].cat = args[j] /\ w[j].above = up
  BY <1>3
<1>17. PICK cv \in Seq(forest.cats) : cv = Cats(v)
  BY <1>12
<1>18. ASSUME NEW j \in 1..(n + m) PROVE cv[j] = ac[j]
  <2>1. cv[j] = v[j].cat
    BY <1>12, <1>17
  <2>2. CASE j <= n
    <3>1. j \in 1..n
      BY <2>2
    <3>2. v[j] = w[j] /\ ac[j] = args[j]
      BY <1>11, <1>15, <2>2
    <3> QED  BY <1>16, <2>1, <3>1, <3>2
  <2>3. CASE ~(j <= n)
    <3>1. j - n \in 1..m
      BY <2>3
    <3>2. v[j] = u[j - n] /\ ac[j] = cs[j - n]
      BY <1>11, <1>15, <2>3
    <3> QED  BY <1>13, <2>1, <3>1, <3>2
  <2> QED  BY <2>2, <2>3
<1>19. cv = ac
  BY <1>12, <1>15, <1>17, <1>18, SeqEqual
<1>20. ASSUME NEW j \in 1..(n + m) PROVE v[j].above = up \/ \E i \in 1..m : v[j] = u[i]
  <2>1. CASE j <= n
    <3>1. j \in 1..n /\ v[j] = w[j]
      BY <1>11, <2>1
    <3> QED  BY <1>16, <3>1
  <2>2. CASE ~(j <= n)
    <3>1. j - n \in 1..m /\ v[j] = u[j - n]
      BY <1>11, <2>2
    <3> QED  BY <3>1
  <2> QED  BY <2>1, <2>2
<1> QED  BY <1>2, <1>4, <1>9, <1>10, <1>11, <1>13, <1>14, <1>17, <1>19, <1>20

\* What is above a category has been seen.
StageInv(b) ==
  /\ b = [dec |-> b.dec, last |-> b.last, todo |-> b.todo, seen |-> b.seen, twice |-> b.twice, expr |-> b.expr]
  /\ b.todo \in Seq(Pending)
  /\ b.twice \in BOOLEAN
  /\ \A j \in 1..Len(b.todo) : b.todo[j].above \subseteq b.seen

AtPending(c) == StageInv(c) /\ c.todo # <<>>

\* The derivation b is c with one visit more, and so it is as a run.
Follows(b, c) ==
  /\ StageInv(b)
  /\ b.twice <=> c.twice \/ Head(c.todo).cat \in c.seen

LEMMA PendingFacts ==
  ASSUME NEW c, AtPending(c)
  PROVE  /\ Head(c.todo) \in Pending /\ Tail(c.todo) \in Seq(Pending)
         /\ Head(c.todo).above \subseteq c.seen
         /\ AsRun(c).todo # <<>> /\ Head(AsRun(c).todo) = Head(c.todo).cat
         /\ Tail(AsRun(c).todo) = Cats(Tail(c.todo))
         /\ \A j \in 1..Len(Tail(c.todo)) : Tail(c.todo)[j].above \subseteq c.seen
<1>1. PICK t \in Seq(Pending) : t = c.todo /\ t # <<>>
  BY DEF AtPending, StageInv
<1>2. /\ Head(t) \in Pending /\ Tail(t) \in Seq(Pending)
      /\ Head(Cats(t)) = Head(t).cat /\ Cats(Tail(t)) = Tail(Cats(t)) /\ Cats(t) # <<>>
  BY <1>1, CatsHeadTail, CatsEmpty
<1>3. Len(Tail(t)) = Len(t) - 1 /\ \A i \in 1..Len(Tail(t)) : Tail(t)[i] = t[i + 1]
  BY <1>1, HeadTailProperties
<1>4. Len(t) \in Nat \ {0} /\ Head(t) = t[1]
  BY <1>1, EmptySeq
<1>5. \A j \in 1..Len(t) : t[j].above \subseteq c.seen
  BY <1>1 DEF AtPending, StageInv
<1>6. ASSUME NEW j \in 1..Len(Tail(t)) PROVE Tail(t)[j].above \subseteq c.seen
  <2>1. j + 1 \in 1..Len(t)
    BY <1>3, <1>4
  <2> QED  BY <1>3, <1>5, <2>1
<1>7. 1 \in 1..Len(t)
  BY <1>4
<1> QED  BY <1>1, <1>2, <1>4, <1>5, <1>6, <1>7 DEF AsRun

LEMMA TookIsRun ==
  ASSUME forest \in Forests, NEW c, AtPending(c), Synth(Head(c.todo).cat),
         NEW i \in 1..Len(forest.prods[Head(c.todo).cat])
  PROVE  Follows(Took(forest, c, i), c) /\ AsRun(Took(forest, c, i)) = RunTook(AsRun(c), i)
<1>1. PICK at \in Pending : at = Head(c.todo)
  BY PendingFacts
<1>2. PICK u \in Seq(Pending) : u = Tail(c.todo)
  BY PendingFacts
<1>3. PICK args \in Seq(forest.cats) : args = forest.prods[at.cat][i].args
  BY <1>1, ProdsFacts
<1>4. PICK v : v = Below(at, args) \o u
  OBVIOUS
<1>5. /\ v \in Seq(Pending) /\ Cats(v) = args \o Cats(u)
      /\ \A j \in 1..Len(v) : v[j].above = at.above \cup {at.cat} \/ \E k \in 1..Len(u) : v[j] = u[k]
  <2>1. /\ Below(at, args) \o u \in Seq(Pending)
        /\ Cats(Below(at, args) \o u) = args \o Cats(u)
        /\ \A j \in 1..Len(Below(at, args) \o u) :
             \/ (Below(at, args) \o u)[j].above = at.above \cup {at.cat}
             \/ \E k \in 1..Len(u) : (Below(at, args) \o u)[j] = u[k]
    BY ONLY BelowFacts
  <2> QED  BY ONLY <1>4, <2>1
<1>6. PICK last, expr1 : /\ last = (c.last /\ i = Len(forest.prods[at.cat]))
                         /\ expr1 = IF forest.prods[at.cat][i].fun = Coerce THEN c.expr
                                    ELSE Append(c.expr, forest.prods[at.cat][i].fun)
  OBVIOUS
<1>7. PICK b : b = Took(forest, c, i)
  OBVIOUS
<1>8. b = [dec |-> Append(c.dec, i), last |-> last, todo |-> v, seen |-> c.seen \cup {at.cat},
           twice |-> (c.twice \/ at.cat \in c.seen), expr |-> expr1]
  BY <1>1, <1>2, <1>3, <1>4, <1>6, <1>7 DEF Took
<1>9. at.above \subseteq c.seen /\ \A j \in 1..Len(u) : u[j].above \subseteq c.seen
  BY <1>1, <1>2, PendingFacts
<1>10. \A j \in 1..Len(v) : v[j].above \subseteq c.seen \cup {at.cat}
  BY <1>5, <1>9
<1>11. c.twice \in BOOLEAN
  BY DEF AtPending, StageInv
<1>12. Follows(b, c)
  <2>1. b.todo = v /\ b.seen = c.seen \cup {at.cat} /\ b.twice = (c.twice \/ at.cat \in c.seen)
    BY <1>8
  <2>2. b = [dec |-> b.dec, last |-> b.last, todo |-> b.todo, seen |-> b.seen, twice |-> b.twice,
             expr |-> b.expr]
    BY <1>8
  <2>3. b.twice \in BOOLEAN
    BY <2>1
  <2>4. StageInv(b)
    BY <1>5, <1>10, <2>1, <2>2, <2>3 DEF StageInv
  <2> QED  BY <1>1, <2>1, <2>4 DEF Follows
<1>13. AsRun(b) = [dec |-> Append(c.dec, i), last |-> last, todo |-> Cats(v),
                   seen |-> c.seen \cup {at.cat}, expr |-> expr1]
  BY <1>8 DEF AsRun
<1>14. PICK r : r = AsRun(c)
  OBVIOUS
<1>15. r.dec = c.dec /\ r.last = c.last /\ r.seen = c.seen /\ r.expr = c.expr
  BY <1>14 DEF AsRun
<1>16. Head(r.todo) = at.cat /\ Tail(r.todo) = Cats(u)
  BY <1>1, <1>2, <1>14, PendingFacts
<1>17. RunTook(r, i) = [dec |-> Append(c.dec, i), last |-> last, todo |-> args \o Cats(u),
                        seen |-> c.seen \cup {at.cat}, expr |-> expr1]
  BY <1>3, <1>6, <1>15, <1>16 DEF RunTook
<1> QED  BY <1>5, <1>7, <1>12, <1>13, <1>14, <1>17

LEMMA MetaIsRun ==
  ASSUME NEW c, AtPending(c)
  PROVE  Follows(TookMeta(c), c) /\ AsRun(TookMeta(c)) = RunMeta(AsRun(c))
<1>1. PICK at \in Pending : at = Head(c.todo)
  BY PendingFacts
<1>2. PICK u \in Seq(Pending) : u = Tail(c.todo)
  BY PendingFacts
<1>3. PICK b : b = TookMeta(c)
  OBVIOUS
<1>4. b = [dec |-> c.dec, last |-> c.last, todo |-> u, seen |-> c.seen \cup {at.cat},
           twice |-> (c.twice \/ at.cat \in c.seen), expr |-> Append(c.expr, META)]
  BY <1>1, <1>2, <1>3 DEF TookMeta
<1>5. \A j \in 1..Len(u) : u[j].above \subseteq c.seen \cup {at.cat}
  BY <1>2, PendingFacts
<1>6. c.twice \in BOOLEAN
  BY DEF AtPending, StageInv
<1>7. Follows(b, c)
  <2>1. b.todo = u /\ b.seen = c.seen \cup {at.cat} /\ b.twice = (c.twice \/ at.cat \in c.seen)
    BY <1>4
  <2>2. b = [dec |-> b.dec, last |-> b.last, todo |-> b.todo, seen |-> b.seen, twice |-> b.twice,
             expr |-> b.expr]
    BY <1>4
  <2>3. b.twice \in BOOLEAN
    BY <2>1
  <2>4. StageInv(b)
    BY <1>5, <2>1, <2>2, <2>3 DEF StageInv
  <2> QED  BY <1>1, <2>1, <2>4 DEF Follows
<1>8. AsRun(b) = [dec |-> c.dec, last |-> c.last, todo |-> Cats(u), seen |-> c.seen \cup {at.cat},
                  expr |-> Append(c.expr, META)]
  BY <1>4 DEF AsRun
<1>9. PICK r : r = AsRun(c)
  OBVIOUS
<1>10. r.dec = c.dec /\ r.last = c.last /\ r.seen = c.seen /\ r.expr = c.expr
  BY <1>9 DEF AsRun
<1>11. Head(r.todo) = at.cat /\ Tail(r.todo) = Cats(u)
  BY <1>1, <1>2, <1>9, PendingFacts
<1>12. RunMeta(r) = [dec |-> c.dec, last |-> c.last, todo |-> Cats(u), seen |-> c.seen \cup {at.cat},
                     expr |-> Append(c.expr, META)]
  BY <1>10, <1>11 DEF RunMeta
<1> QED  BY <1>3, <1>7, <1>8, <1>9, <1>12

\* The ways to continue a derivation, as Continued has them.
LEMMA ContinuedAre ==
  ASSUME forest \in Forests, NEW c, AtPending(c), NEW b
  PROVE  b \in Continued(forest, c) <=>
           /\ Head(c.todo).cat \notin Head(c.todo).above
           /\ \/ ~Synth(Head(c.todo).cat) /\ b = TookMeta(c)
              \/ /\ Synth(Head(c.todo).cat)
                 /\ \E i \in 1..Len(forest.prods[Head(c.todo).cat]) : b = Took(forest, c, i)
<1>1. PICK at : at = Head(c.todo)
  OBVIOUS
<1>2. c.todo # <<>>
  BY DEF AtPending
<1>3. CASE at.cat \in at.above
  <2>1. Continued(forest, c) = {}
    BY <1>1, <1>3 DEF Continued
  <2> QED  BY <1>1, <1>3, <2>1
<1>4. CASE at.cat \notin at.above /\ ~Synth(at.cat)
  <2>1. Continued(forest, c) = {TookMeta(c)}
    BY <1>1, <1>2, <1>4 DEF Continued, Synth
  <2> QED  BY <1>1, <1>4, <2>1
<1>5. CASE at.cat \notin at.above /\ Synth(at.cat)
  <2>1. DOMAIN forest.prods[at.cat] = 1..Len(forest.prods[at.cat])
    BY <1>5, ProdsFacts
  <2>2. Continued(forest, c) = {Took(forest, c, i) : i \in 1..Len(forest.prods[at.cat])}
    BY <1>1, <1>2, <1>5, <2>1 DEF Continued, Synth
  <2> QED  BY <1>1, <1>5, <2>2
<1> QED  BY <1>3, <1>4, <1>5

\* A derivation that shares nothing goes on as a run, and nothing that shares comes of
\* one that does.
LEMMA FollowsRun ==
  ASSUME forest \in Forests, NEW c, StageInv(c), NEW b \in Continued(forest, c)
  PROVE  StageInv(b) /\ (~b.twice => ~c.twice /\ AsRun(b) \in RunOn(AsRun(c)))
<1>1. AtPending(c)
  BY DEF Continued, AtPending
<1>2. PICK at, r : at = Head(c.todo) /\ r = AsRun(c)
  OBVIOUS
<1>3. r.todo # <<>> /\ Head(r.todo) = at.cat /\ r.seen = c.seen
  <2>1. r.seen = c.seen
    BY <1>2 DEF AsRun
  <2> QED  BY <1>1, <1>2, <2>1, PendingFacts
<1>4. CASE ~Synth(at.cat) /\ b = TookMeta(c)
  <2>1. Follows(b, c) /\ AsRun(b) = RunMeta(r)
    BY <1>1, <1>2, <1>4, MetaIsRun
  <2>2. StageInv(b) /\ (~b.twice => ~c.twice /\ at.cat \notin c.seen)
    BY <1>2, <2>1 DEF Follows
  <2>3. at.cat \notin c.seen => AsRun(b) \in RunOn(r)
    BY <1>3, <1>4, <2>1, ContinuedIs
  <2> QED  BY <1>2, <2>2, <2>3
<1>5. ASSUME Synth(at.cat), NEW i \in 1..Len(forest.prods[at.cat]), b = Took(forest, c, i)
      PROVE  StageInv(b) /\ (~b.twice => ~c.twice /\ AsRun(b) \in RunOn(AsRun(c)))
  <2>1. Follows(b, c) /\ AsRun(b) = RunTook(r, i)
    BY <1>1, <1>2, <1>5, TookIsRun
  <2>2. StageInv(b) /\ (~b.twice => ~c.twice /\ at.cat \notin c.seen)
    BY <1>2, <2>1 DEF Follows
  <2>3. ASSUME at.cat \notin c.seen PROVE AsRun(b) \in RunOn(r)
    <3>1. AtChoice(r) /\ i \in 1..Alternatives(r)
      BY <1>3, <1>5, <2>3 DEF AtChoice, Alternatives
    <3> QED  BY <1>3, <2>1, <2>3, <3>1, ContinuedIs
  <2> QED  BY <1>2, <2>2, <2>3
<1> QED  BY <1>1, <1>2, <1>4, <1>5, ContinuedAre

\* A run goes on as a derivation that shares nothing.
LEMMA RunFollows ==
  ASSUME forest \in Forests, NEW c, StageInv(c), ~c.twice, NEW d \in RunOn(AsRun(c))
  PROVE  \E b \in Continued(forest, c) : ~b.twice /\ AsRun(b) = d
<1>1. PICK r : r = AsRun(c)
  OBVIOUS
<1>2. r.todo # <<>> /\ Head(r.todo) \notin r.seen /\ r.seen = c.seen /\ r.todo = Cats(c.todo)
  <2>1. r.todo # <<>> /\ Head(r.todo) \notin r.seen
    BY <1>1, ContinuedIs
  <2>2. r.seen = c.seen /\ r.todo = Cats(c.todo)
    BY <1>1 DEF AsRun
  <2> QED  BY <2>1, <2>2
<1>3. AtPending(c)
  BY <1>2, CatsEmpty DEF AtPending, StageInv
<1>4. PICK at : at = Head(c.todo)
  OBVIOUS
<1>5. Head(r.todo) = at.cat /\ at.above \subseteq c.seen
  BY <1>1, <1>3, <1>4, PendingFacts
<1>6. at.cat \notin c.seen /\ at.cat \notin at.above
  BY <1>2, <1>5
<1>7. CASE ~Synth(at.cat) /\ d = RunMeta(r)
  <2>1. PICK b : b = TookMeta(c)
    OBVIOUS
  <2>2. Follows(b, c) /\ AsRun(b) = d
    BY <1>1, <1>3, <1>7, <2>1, MetaIsRun
  <2>3. ~b.twice
    BY <1>4, <1>6, <2>2 DEF Follows
  <2>4. b \in Continued(forest, c)
    BY <1>3, <1>4, <1>6, <1>7, <2>1, ContinuedAre
  <2> QED  BY <2>2, <2>3, <2>4
<1>8. ASSUME Synth(at.cat), NEW i \in 1..Len(forest.prods[at.cat]), d = RunTook(r, i)
      PROVE  \E b \in Continued(forest, c) : ~b.twice /\ AsRun(b) = d
  <2>1. PICK b : b = Took(forest, c, i)
    OBVIOUS
  <2>2. Follows(b, c) /\ AsRun(b) = d
    BY <1>1, <1>3, <1>4, <1>8, <2>1, TookIsRun
  <2>3. ~b.twice
    BY <1>4, <1>6, <2>2 DEF Follows
  <2>4. b \in Continued(forest, c)
    BY <1>3, <1>4, <1>6, <1>8, <2>1, ContinuedAre
  <2> QED  BY <2>2, <2>3, <2>4
<1>9. \/ ~Synth(at.cat) /\ d = RunMeta(r)
      \/ Synth(at.cat) /\ \E i \in 1..Len(forest.prods[at.cat]) : d = RunTook(r, i)
  <2>1. \/ ~Synth(Head(r.todo)) /\ d = RunMeta(r)
        \/ AtChoice(r) /\ \E i \in 1..Alternatives(r) : d = RunTook(r, i)
    BY <1>1, ContinuedIs
  <2> QED  BY <1>5, <2>1 DEF AtChoice, Alternatives
<1> QED  BY <1>7, <1>8, <1>9

\* The stages of the derivations are what their recursive definition says.
UpToVisits(m, f) ==
  f = [k \in 0..m |->
         IF k = 0 THEN {Begun(forest, i) : i \in DOMAIN forest.completed}
         ELSE UNION {Continued(forest, c) : c \in f[k - 1]}]

LEMMA VisitsLonger ==
  ASSUME NEW m \in Nat, NEW f, UpToVisits(m, f)
  PROVE  \E g : UpToVisits(m + 1, g)
<1> DEFINE first == {Begun(forest, i) : i \in DOMAIN forest.completed}
           on(S) == UNION {Continued(forest, c) : c \in S}
           g == [k \in 0..(m + 1) |-> IF k = m + 1 THEN on(f[m]) ELSE f[k]]
<1>0. \A h, n : UpToVisits(n, h) <=> h = [k \in 0..n |-> IF k = 0 THEN first ELSE on(h[k - 1])]
  BY DEF UpToVisits
<1> HIDE DEF first, on
<1>1. g[m + 1] = on(f[m]) /\ \A k \in 0..m : g[k] = f[k]
  OBVIOUS
<1>2. \A k \in 0..m : f[k] = IF k = 0 THEN first ELSE on(f[k - 1])
  BY <1>0
<1>3. ASSUME NEW k \in 0..(m + 1)
      PROVE  g[k] = IF k = 0 THEN first ELSE on(g[k - 1])
  <2>1. CASE k = 0
    BY <1>1, <1>2, <2>1
  <2>2. CASE k \in 1..m
    <3>1. k - 1 \in 0..m /\ k \in 0..m /\ k # 0
      BY <2>2
    <3>2. g[k - 1] = f[k - 1] /\ g[k] = f[k]
      BY <1>1, <3>1
    <3> HIDE DEF g
    <3> QED  BY <1>2, <3>1, <3>2
  <2>3. CASE k = m + 1
    <3>1. k - 1 = m /\ k # 0 /\ m \in 0..m
      BY <2>3
    <3>2. g[k - 1] = f[m] /\ g[k] = on(f[m])
      BY <1>1, <2>3, <3>1
    <3> HIDE DEF g
    <3> QED  BY <2>3, <3>1, <3>2
  <2> QED  BY <2>1, <2>2, <2>3
<1>4. UpToVisits(m + 1, g)
  <2>1. g = [k \in 0..(m + 1) |-> g[k]]
    OBVIOUS
  <2> HIDE DEF g
  <2> QED  BY <1>0, <1>3, <2>1
<1> QED  BY <1>4

LEMMA VisitsFacts ==
  ASSUME forest \in Forests
  PROVE  /\ MaxVisits \in Nat /\ Stages(forest)[MaxVisits + 1] = {}
         /\ Stages(forest)[0] = {Begun(forest, i) : i \in 1..Len(forest.completed)}
         /\ \A k \in 0..MaxVisits :
              Stages(forest)[k + 1] = UNION {Continued(forest, c) : c \in Stages(forest)[k]}
<1> DEFINE T == {m \in Nat : \E f : UpToVisits(m, f)}
<1>0. PICK n \in Nat : n = MaxVisits + 1
  BY VisitsAssumption
<1>1. MaxVisits \in Nat /\ n = MaxVisits + 1 /\ Stages(forest)[MaxVisits + 1] = {}
      /\ DOMAIN forest.completed = 1..Len(forest.completed)
  BY <1>0, VisitsAssumption, ForestFacts
<1>2. 0 \in T
  <2>1. PICK f : f = [k \in 0..0 |-> {Begun(forest, i) : i \in DOMAIN forest.completed}]
    OBVIOUS
  <2>2. UpToVisits(0, f)
    BY <2>1 DEF UpToVisits
  <2> QED  BY <2>2
<1>3. \A j \in 0..(n - 1) : j \in T => j + 1 \in T
  BY VisitsLonger
<1>4. n \in T
  <2> HIDE DEF T
  <2>1. \A k \in 0..n : k \in T
    BY <1>2, <1>3, InductionUpTo
  <2> QED  BY <2>1
<1>5. Stages(forest) = CHOOSE f : UpToVisits(n, f)
  BY <1>1 DEF Stages, UpToVisits
<1>6. UpToVisits(n, Stages(forest))
  BY <1>4, <1>5, Zenon
<1>7. PICK f : f = Stages(forest)
  OBVIOUS
<1>8. \A k \in 0..n :
        f[k] = IF k = 0 THEN {Begun(forest, i) : i \in DOMAIN forest.completed}
               ELSE UNION {Continued(forest, c) : c \in f[k - 1]}
  BY <1>6, <1>7 DEF UpToVisits
<1>9. f[0] = {Begun(forest, i) : i \in 1..Len(forest.completed)}
  <2>1. 0 \in 0..n
    OBVIOUS
  <2> QED  BY <1>1, <1>8, <2>1
<1>10. ASSUME NEW k \in 0..MaxVisits
       PROVE  f[k + 1] = UNION {Continued(forest, c) : c \in f[k]}
  <2>1. k + 1 \in 0..n /\ k + 1 # 0 /\ (k + 1) - 1 = k
    BY <1>1
  <2>2. PICK j : j = k + 1
    OBVIOUS
  <2>3. j \in 0..n /\ j # 0 /\ j - 1 = k
    BY <2>1, <2>2
  <2>4. f[j] = UNION {Continued(forest, c) : c \in f[j - 1]}
    BY <1>8, <2>3
  <2> QED  BY <2>2, <2>3, <2>4
<1> QED  BY <1>1, <1>7, <1>9, <1>10

LEMMA VisitsStep ==
  ASSUME forest \in Forests, NEW k \in 0..MaxVisits, NEW b
  PROVE  b \in Stages(forest)[k + 1] <=> \E c \in Stages(forest)[k] : b \in Continued(forest, c)
<1>1. PICK S : S = Stages(forest)[k]
  OBVIOUS
<1>2. Stages(forest)[k + 1] = UNION {Continued(forest, c) : c \in S}
  BY <1>1, VisitsFacts
<1> QED  BY <1>1, <1>2

\* The beginnings.
LEMMA BegunIsRun ==
  ASSUME forest \in Forests, NEW i \in 1..Len(forest.completed)
  PROVE  StageInv(Begun(forest, i)) /\ ~Begun(forest, i).twice /\ AsRun(Begun(forest, i)) = RunBegun(i)
<1>1. PICK x \in forest.cats : x = forest.completed[i]
  BY ForestFacts
<1>2. PICK y : y = [cat |-> x, above |-> {}]
  OBVIOUS
<1>3. y \in Pending /\ y.cat = x /\ y.above = {}
  BY <1>2 DEF Pending
<1>4. PICK t \in Seq(Pending) : t = <<y>> /\ Len(t) = 1 /\ t[1] = y
  BY <1>3, SingletonTyped
<1>5. PICK b, last : b = Begun(forest, i) /\ last = (i = Len(forest.completed))
  OBVIOUS
<1>6. b = [dec |-> <<i>>, last |-> last, todo |-> t, seen |-> {}, twice |-> FALSE, expr |-> <<>>]
  BY <1>1, <1>2, <1>4, <1>5 DEF Begun
<1>7. b.todo = t /\ b.seen = {} /\ b.twice = FALSE
      /\ b = [dec |-> b.dec, last |-> b.last, todo |-> b.todo, seen |-> b.seen, twice |-> b.twice,
              expr |-> b.expr]
  BY <1>6
<1>8. StageInv(b) /\ ~b.twice
  <2>1. \A j \in 1..Len(t) : t[j].above = {}
    BY <1>3, <1>4
  <2> QED  BY <1>7, <2>1 DEF StageInv
<1>9. Cats(t) = <<x>>
  <2>1. Cats(t) \in Seq(forest.cats) /\ Len(Cats(t)) = 1 /\ \A j \in 1..1 : Cats(t)[j] = t[j].cat
    BY <1>4, CatsFacts
  <2>2. PICK cs \in Seq(forest.cats) : cs = Cats(t)
    BY <2>1
  <2>3. PICK d \in Seq(forest.cats) : d = <<x>> /\ Len(d) = 1 /\ d[1] = x
    BY SingletonTyped
  <2>4. \A j \in 1..1 : cs[j] = d[j]
    BY <1>3, <1>4, <2>1, <2>2, <2>3
  <2>5. cs = d
    BY <2>1, <2>2, <2>3, <2>4, SeqEqual
  <2> QED  BY <2>2, <2>3, <2>5
<1>10. AsRun(b) = [dec |-> <<i>>, last |-> last, todo |-> <<x>>, seen |-> {}, expr |-> <<>>]
  BY <1>6, <1>9 DEF AsRun
<1>11. RunBegun(i) = [dec |-> <<i>>, last |-> last, todo |-> <<x>>, seen |-> {}, expr |-> <<>>]
  BY <1>1, <1>5 DEF RunBegun
<1> QED  BY <1>5, <1>8, <1>10, <1>11

\* A derivation that shares nothing is a run, of as many visits.
LEMMA StagesAreRuns ==
  ASSUME forest \in Forests, NEW k \in 0..(MaxVisits + 1), NEW b \in Stages(forest)[k]
  PROVE  StageInv(b) /\ (~b.twice => k <= NVisits /\ AsRun(b) \in RunStages[k])
<1> DEFINE Same(m, c) == StageInv(c) /\ (~c.twice => m <= NVisits /\ AsRun(c) \in RunStages[m])
           T == {m \in 0..(MaxVisits + 1) : \A c \in Stages(forest)[m] : Same(m, c)}
<1>0. NVisits \in Nat /\ MaxVisits \in Nat
  BY ForestFacts, VisitsFacts
<1>1. 0 \in T
  <2> SUFFICES ASSUME NEW c \in Stages(forest)[0] PROVE Same(0, c)
    BY <1>0
  <2>1. PICK i \in 1..Len(forest.completed) : c = Begun(forest, i)
    BY VisitsFacts
  <2>2. StageInv(c) /\ AsRun(c) = RunBegun(i)
    BY <2>1, BegunIsRun
  <2>3. RunBegun(i) \in RunStages[0]
    BY StagesFacts
  <2> QED  BY <1>0, <2>2, <2>3
<1>2. ASSUME NEW j \in 0..MaxVisits, j \in T PROVE j + 1 \in T
  <2> SUFFICES ASSUME NEW c \in Stages(forest)[j + 1] PROVE Same(j + 1, c)
    BY <1>0
  <2>1. PICK e \in Stages(forest)[j] : c \in Continued(forest, e)
    BY VisitsStep
  <2>2. Same(j, e)
    BY <1>2
  <2>3. StageInv(c) /\ (~c.twice => ~e.twice /\ AsRun(c) \in RunOn(AsRun(e)))
    BY <2>1, <2>2, FollowsRun
  <2>4. ASSUME ~c.twice PROVE j + 1 <= NVisits /\ AsRun(c) \in RunStages[j + 1]
    <3>1. PICK r, d : r = AsRun(e) /\ d = AsRun(c)
      OBVIOUS
    <3>2. j \in 0..NVisits /\ r \in RunStages[j] /\ d \in RunOn(r)
      BY <1>0, <2>2, <2>3, <2>4, <3>1
    <3>3. j < NVisits /\ d \in RunStages[j + 1]
      BY <3>2, ContinuedStage
    <3> QED  BY <1>0, <3>1, <3>3
  <2> QED  BY <2>3, <2>4
<1>3. \A m \in 0..(MaxVisits + 1) : m \in T
  <2> HIDE DEF T
  <2>1. PICK n \in Nat : n = MaxVisits + 1
    BY <1>0
  <2>2. \A j \in 0..(n - 1) : j \in T => j + 1 \in T
    BY <1>0, <1>2, <2>1
  <2>3. \A m \in 0..n : m \in T
    BY <1>1, <2>2, InductionUpTo
  <2> QED  BY <2>1, <2>3
<1> QED  BY <1>3

\* And a run is a derivation that shares nothing.
RunHas(k, r) == \E b \in Stages(forest)[k] : ~b.twice /\ AsRun(b) = r

LEMMA RunsAreStages ==
  ASSUME forest \in Forests, NEW k \in 0..NVisits, k <= MaxVisits + 1, NEW r \in RunStages[k]
  PROVE  RunHas(k, r)
<1> DEFINE T == {m \in 0..NVisits : m <= MaxVisits + 1 => \A c \in RunStages[m] : RunHas(m, c)}
<1>0. NVisits \in Nat /\ MaxVisits \in Nat
  BY ForestFacts, VisitsFacts
<1>1. 0 \in T
  <2> SUFFICES ASSUME NEW c \in RunStages[0] PROVE RunHas(0, c)
    BY <1>0
  <2>1. PICK i \in 1..Len(forest.completed) : c = RunBegun(i)
    BY StagesFacts
  <2>2. PICK b : b = Begun(forest, i)
    OBVIOUS
  <2>3. ~b.twice /\ AsRun(b) = c
    BY <2>1, <2>2, BegunIsRun
  <2>4. b \in Stages(forest)[0]
    BY <2>2, VisitsFacts
  <2> QED  BY <2>3, <2>4 DEF RunHas
<1>2. ASSUME NEW j \in 0..(NVisits - 1), j \in T PROVE j + 1 \in T
  <2> SUFFICES ASSUME j + 1 <= MaxVisits + 1, NEW d \in RunStages[j + 1] PROVE RunHas(j + 1, d)
    BY <1>0
  <2>1. PICK c \in RunStages[j] : d \in RunOn(c)
    BY StagesStep
  <2>2. j \in 0..MaxVisits /\ j \in 0..(MaxVisits + 1)
    BY <1>0
  <2>3. PICK e \in Stages(forest)[j] : ~e.twice /\ AsRun(e) = c
    BY <1>0, <1>2, <2>2 DEF RunHas
  <2>4. StageInv(e)
    BY <2>2, StagesAreRuns
  <2>5. PICK b \in Continued(forest, e) : ~b.twice /\ AsRun(b) = d
    BY <2>1, <2>3, <2>4, RunFollows
  <2>6. b \in Stages(forest)[j + 1]
    BY <2>2, <2>5, VisitsStep
  <2> QED  BY <2>5, <2>6 DEF RunHas
<1>3. \A m \in 0..NVisits : m \in T
  <2> HIDE DEF T
  <2> QED  BY <1>0, <1>1, <1>2, InductionUpTo
<1> QED  BY <1>3

UnsharedHas(d) ==
  \E k \in 0..MaxVisits : d \in Stages(forest)[k] /\ d.todo = <<>> /\ ~d.twice

LEMMA UnsharedIs ==
  ASSUME NEW d
  PROVE  d \in Unshared <=> UnsharedHas(d)
<1>1. PICK S : S = Stages(forest)
  OBVIOUS
<1>2. Derivations = {c \in UNION {S[k] : k \in 0..MaxVisits} : c.todo = <<>>}
  BY <1>1 DEF Derivations
<1>3. UnsharedHas(d) <=> \E k \in 0..MaxVisits : d \in S[k] /\ d.todo = <<>> /\ ~d.twice
  BY <1>1 DEF UnsharedHas
<1> QED  BY <1>2, <1>3 DEF Unshared

\* A run takes no more visits than a derivation.
LEMMA RunsAreShort ==
  ASSUME forest \in Forests, NEW k \in 0..NVisits, NEW r \in RunStages[k]
  PROVE  k <= MaxVisits
<1>1. NVisits \in Nat /\ MaxVisits \in Nat /\ Stages(forest)[MaxVisits + 1] = {}
  BY ForestFacts, VisitsFacts
<1>2. ASSUME k > MaxVisits PROVE FALSE
  <2>1. PICK n \in Nat : n = MaxVisits + 1
    BY <1>1
  <2>2. n \in 0..k /\ n \in 0..NVisits /\ n <= MaxVisits + 1
    BY <1>1, <1>2, <2>1
  <2>3. PICK a : a \in RunStages[n]
    BY <2>2, Ancestors DEF HasAncestor
  <2>4. RunHas(n, a)
    BY <2>2, <2>3, RunsAreStages
  <2> QED  BY <1>1, <2>1, <2>4 DEF RunHas
<1> QED  BY <1>1, <1>2

\* The runs of pgf_cat_to_expr that come to an end are the derivations that share nothing.
LEMMA EndsAreUnshared ==
  ASSUME forest \in Forests
  PROVE  /\ \A d \in Unshared : AsRun(d) \in RunsDone /\ AsRun(d).dec = d.dec /\ AsRun(d).expr = d.expr
         /\ \A r \in RunsDone : \E d \in Unshared : AsRun(d) = r
         /\ \A d \in Unshared : \A e \in Unshared : AsRun(d) = AsRun(e) => d = e
<1>0. NVisits \in Nat /\ MaxVisits \in Nat
  BY ForestFacts, VisitsFacts
<1>1. ASSUME NEW d \in Unshared
      PROVE  /\ AsRun(d) \in RunsDone /\ StageInv(d) /\ d.todo = <<>> /\ d.twice = FALSE
             /\ AsRun(d).dec = d.dec /\ AsRun(d).expr = d.expr
  <2>1. PICK k \in 0..MaxVisits : d \in Stages(forest)[k] /\ d.todo = <<>> /\ ~d.twice
    BY UnsharedIs DEF UnsharedHas
  <2>2. k \in 0..(MaxVisits + 1)
    BY <1>0
  <2>3. StageInv(d) /\ k <= NVisits /\ AsRun(d) \in RunStages[k]
    BY <2>1, <2>2, StagesAreRuns
  <2>4. d.twice = FALSE
    BY <2>1, <2>3 DEF StageInv
  <2>5. PICK r : r = AsRun(d)
    OBVIOUS
  <2>6. r.todo = Cats(d.todo) /\ r.dec = d.dec /\ r.expr = d.expr
    BY <2>5 DEF AsRun
  <2>7. r.todo = <<>>
    BY <2>1, <2>3, <2>6, CatsEmpty DEF StageInv
  <2>8. k \in 0..NVisits /\ r \in RunStages[k]
    BY <1>0, <2>3, <2>5
  <2>9. r \in RunsDone
    BY <2>7, <2>8 DEF RunsDone, Runs, NVisits
  <2> QED  BY <2>1, <2>3, <2>4, <2>5, <2>6, <2>9
<1>2. ASSUME NEW r \in RunsDone PROVE \E d \in Unshared : AsRun(d) = r
  <2>1. PICK k \in 0..NVisits : r \in RunStages[k]
    BY DEF RunsDone, Runs, NVisits
  <2>2. k <= MaxVisits /\ r.todo = <<>>
    BY <2>1, RunsAreShort DEF RunsDone
  <2>3. k <= MaxVisits + 1 /\ k \in 0..MaxVisits /\ k \in 0..(MaxVisits + 1)
    BY <1>0, <2>2
  <2>4. PICK b \in Stages(forest)[k] : ~b.twice /\ AsRun(b) = r
    BY <2>1, <2>3, RunsAreStages DEF RunHas
  <2>5. b.todo \in Seq(Pending)
    BY <2>3, StagesAreRuns DEF StageInv
  <2>6. Cats(b.todo) = r.todo
    BY <2>4 DEF AsRun
  <2>7. b.todo = <<>>
    BY <2>2, <2>5, <2>6, CatsEmpty
  <2>8. b \in Unshared
    BY <2>3, <2>4, <2>7, UnsharedIs DEF UnsharedHas
  <2> QED  BY <2>4, <2>8
<1>3. ASSUME NEW d \in Unshared, NEW e \in Unshared, AsRun(d) = AsRun(e) PROVE d = e
  <2>1. d.dec = e.dec /\ d.last = e.last /\ d.seen = e.seen /\ d.expr = e.expr
    BY <1>3 DEF AsRun
  <2>2. d.todo = e.todo /\ d.twice = e.twice
    BY <1>1
  <2>3. /\ d = [dec |-> d.dec, last |-> d.last, todo |-> d.todo, seen |-> d.seen, twice |-> d.twice,
                expr |-> d.expr]
        /\ e = [dec |-> e.dec, last |-> e.last, todo |-> e.todo, seen |-> e.seen, twice |-> e.twice,
                expr |-> e.expr]
    BY <1>1 DEF StageInv
  <2> QED  BY <2>1, <2>2, <2>3
<1> QED  BY <1>1, <1>2, <1>3

\* So there are as many of the ones as of the others.
LEMMA AsManyRuns ==
  ASSUME forest \in Forests, NEW A \in SUBSET Unshared, NEW B \in SUBSET RunsDone, IsFiniteSet(B),
         \A d \in Unshared : d \in A <=> AsRun(d) \in B
  PROVE  IsFiniteSet(A) /\ Cardinality(A) = Cardinality(B)
<1> DEFINE F == [r \in B |-> CHOOSE d \in Unshared : AsRun(d) = r]
<1>1. ASSUME NEW r \in B PROVE F[r] \in A /\ AsRun(F[r]) = r
  <2>1. \E d \in Unshared : AsRun(d) = r
    BY EndsAreUnshared
  <2>2. F[r] \in Unshared /\ AsRun(F[r]) = r
    BY <2>1
  <2> QED  BY <2>2
<1>2. F \in [B -> A]
  BY <1>1
<1>3. ASSUME NEW d \in A PROVE \E r \in B : F[r] = d
  <2>1. PICK r : r = AsRun(d)
    OBVIOUS
  <2>2. r \in B
    BY <2>1
  <2>3. F[r] \in Unshared /\ AsRun(F[r]) = AsRun(d)
    BY <1>1, <2>1, <2>2
  <2> HIDE DEF F
  <2>4. F[r] = d
    BY <2>3, EndsAreUnshared
  <2> QED  BY <2>2, <2>4
<1>4. \A r \in B : \A s \in B : F[r] = F[s] => r = s
  BY <1>1, Zenon
<1> HIDE DEF F
<1>5. F \in Bijection(B, A)
  BY <1>2, <1>3, <1>4, Fun_IsBij
<1>6. ExistsBijection(B, A)
  BY <1>5 DEF ExistsBijection
<1> QED  BY <1>6, FS_Bijection

\* The client is given the trees of the derivations without a shared category, each in
\* its place, and is not told the end before it has them all: pgf_parse_result_next over
\* the replayed and advanced choice (parser.c:782-856) loses and repeats none of them.
THEOREM AlwaysEnumeratesTheUnshared == Spec => []EnumeratesTheUnshared
<1>1. GivenInv => EnumeratesTheUnshared
  <2> SUFFICES ASSUME GivenInv PROVE EnumeratesTheUnshared
    OBVIOUS
  <2>1. forest \in Forests /\ Listed(results) /\ (ended => Complete(results))
    BY DEF GivenInv
  <2>2. ASSUME NEW i \in DOMAIN results
        PROVE  \E d \in Unshared : results[i] = d.expr /\ Cardinality(Preceding(d.dec, Unshared)) = i - 1
    <3>1. PICK r \in RunsDone : /\ results[i] = r.expr /\ IsFiniteSet(Preceding(r.dec, RunsDone))
                                /\ Cardinality(Preceding(r.dec, RunsDone)) = i - 1
      BY <2>1 DEF Listed, Placed
    <3>2. PICK d \in Unshared : AsRun(d) = r
      BY <2>1, EndsAreUnshared
    <3>3. d.dec = r.dec /\ d.expr = r.expr
      BY <2>1, <3>2, EndsAreUnshared
    <3>4. PICK A, B : A = Preceding(r.dec, Unshared) /\ B = Preceding(r.dec, RunsDone)
      OBVIOUS
    <3>5. A \in SUBSET Unshared /\ B \in SUBSET RunsDone /\ IsFiniteSet(B)
      BY <3>1, <3>4 DEF Preceding
    <3>6. \A e \in Unshared : e \in A <=> AsRun(e) \in B
      <4>1. \A e \in Unshared : AsRun(e) \in RunsDone /\ AsRun(e).dec = e.dec
        BY <2>1, EndsAreUnshared
      <4> QED  BY <3>4, <4>1, Zenon DEF Preceding
    <3>7. Cardinality(A) = Cardinality(B)
      BY <2>1, <3>5, <3>6, AsManyRuns
    <3> QED  BY <3>1, <3>3, <3>4, <3>7
  <2>3. ASSUME ended PROVE Cardinality(Unshared) = Len(results)
    <3>1. IsFiniteSet(RunsDone) /\ Cardinality(RunsDone) = Len(results)
      BY <2>1, <2>3 DEF Complete
    <3>2. \A e \in Unshared : e \in Unshared <=> AsRun(e) \in RunsDone
      BY <2>1, EndsAreUnshared
    <3>3. Unshared \in SUBSET Unshared /\ RunsDone \in SUBSET RunsDone
      OBVIOUS
    <3> QED  BY <2>1, <3>1, <3>2, <3>3, AsManyRuns
  <2> QED  BY <2>2, <2>3 DEF EnumeratesTheUnshared, GivenOf, AllOf
<1> QED  BY <1>1, GivenInvHolds, PTL

=============================================================================
