-------------------------- MODULE LinearizeRefProofs --------------------------
(***************************************************************************)
(* The client is given every concrete tree once and in order, for every    *)
(* grammar and every abstract tree.                                        *)
(*                                                                         *)
(* The argument: each configuration of a run can still come to some        *)
(* derivations of the tree, and a step leaves those of the alternative     *)
(* that it takes.  So the derivations that begin with the decisions of a   *)
(* path are those that the last configuration of its run can come to: none *)
(* if the inference fails there, and one at its end.  To advance the       *)
(* choice passes exactly these, and the client has the trees of all        *)
(* derivations that have been passed.                                      *)
(***************************************************************************)
EXTENDS LinearizeRef, LinearizeProofs
-----------------------------------------------------------------------------
(* The derivations of the reference *)

\* F is the recursive function of Levels, up to k.
LevelsBy(e, k, F) ==
  F = [n \in 0..k |-> IF n = 0 THEN {e} ELSE UNION {{t.args[i] : i \in DOMAIN t.args} : t \in F[n - 1]}]

LEMMA LevelsByExists ==
  ASSUME NEW e, NEW l \in Nat
  PROVE  \E F : LevelsBy(e, l, F)
<1> DEFINE T == {k \in Nat : \E F : LevelsBy(e, k, F)}
<1>1. 0 \in T
  <2> DEFINE F == [n \in 0..0 |-> {e}]
  <2>1. F = [n \in 0..0 |-> IF n = 0 THEN {e} ELSE UNION {{t.args[i] : i \in DOMAIN t.args} : t \in F[n - 1]}]
    OBVIOUS
  <2> HIDE DEF F
  <2>2. LevelsBy(e, 0, F)
    BY <2>1 DEF LevelsBy
  <2> QED  BY <2>2
<1>2. ASSUME NEW j \in Nat, j \in T PROVE j + 1 \in T
  <2>1. PICK F : LevelsBy(e, j, F)
    BY <1>2
  <2>2. PICK k \in Nat : k = j + 1
    OBVIOUS
  <2>3. PICK v : v = UNION {{t.args[i] : i \in DOMAIN t.args} : t \in F[j]}
    OBVIOUS
  <2> DEFINE G == [n \in 0..k |-> IF n = k THEN v ELSE F[n]]
  <2>4. G[k] = v /\ \A n \in 0..j : G[n] = F[n]
    BY <2>2
  <2>5. G = [n \in 0..k |-> G[n]]
    OBVIOUS
  <2> HIDE DEF G
  <2>6. ASSUME NEW n \in 0..k
        PROVE  G[n] = IF n = 0 THEN {e} ELSE UNION {{t.args[i] : i \in DOMAIN t.args} : t \in G[n - 1]}
    <3>1. CASE n = k
      <4>1. n # 0 /\ n - 1 = j /\ G[n - 1] = F[j]
        BY <2>2, <2>4, <3>1
      <4> QED  BY <2>3, <2>4, <3>1, <4>1
    <3>2. CASE n # k
      <4>1. n \in 0..j /\ (n # 0 => n - 1 \in 0..j)
        BY <2>2, <3>2
      <4>2. F[n] = IF n = 0 THEN {e} ELSE UNION {{t.args[i] : i \in DOMAIN t.args} : t \in F[n - 1]}
        BY <2>1, <4>1 DEF LevelsBy
      <4> QED  BY <2>4, <4>1, <4>2
    <3> QED  BY <3>1, <3>2
  <2>7. LevelsBy(e, k, G)
    BY <2>5, <2>6 DEF LevelsBy
  <2> QED  BY <2>2, <2>7
<1> HIDE DEF T
<1>3. \A n \in 0..l : n \in T
  BY <1>1, <1>2, InductionUpTo
<1>4. l \in T
  BY <1>3
<1> QED  BY <1>4 DEF T

\* F is the recursive function of Lifts, up to k.
LiftsBy(ds, k, F) ==
  F = [n \in 0..k |-> IF n = 0 THEN ds ELSE UNION {Lifted(d) : d \in F[n - 1]}]

LEMMA LiftsByExists ==
  ASSUME NEW ds, NEW l \in Nat
  PROVE  \E F : LiftsBy(ds, l, F)
<1> DEFINE T == {k \in Nat : \E F : LiftsBy(ds, k, F)}
<1>1. 0 \in T
  <2> DEFINE F == [n \in 0..0 |-> ds]
  <2>1. F = [n \in 0..0 |-> IF n = 0 THEN ds ELSE UNION {Lifted(d) : d \in F[n - 1]}]
    OBVIOUS
  <2> HIDE DEF F
  <2>2. LiftsBy(ds, 0, F)
    BY <2>1 DEF LiftsBy
  <2> QED  BY <2>2
<1>2. ASSUME NEW j \in Nat, j \in T PROVE j + 1 \in T
  <2>1. PICK F : LiftsBy(ds, j, F)
    BY <1>2
  <2>2. PICK k \in Nat : k = j + 1
    OBVIOUS
  <2>3. PICK v : v = UNION {Lifted(d) : d \in F[j]}
    OBVIOUS
  <2> DEFINE G == [n \in 0..k |-> IF n = k THEN v ELSE F[n]]
  <2>4. G[k] = v /\ \A n \in 0..j : G[n] = F[n]
    BY <2>2
  <2>5. G = [n \in 0..k |-> G[n]]
    OBVIOUS
  <2> HIDE DEF G
  <2>6. ASSUME NEW n \in 0..k
        PROVE  G[n] = IF n = 0 THEN ds ELSE UNION {Lifted(d) : d \in G[n - 1]}
    <3>1. CASE n = k
      <4>1. n # 0 /\ n - 1 = j /\ G[n - 1] = F[j]
        BY <2>2, <2>4, <3>1
      <4> QED  BY <2>3, <2>4, <3>1, <4>1
    <3>2. CASE n # k
      <4>1. n \in 0..j /\ (n # 0 => n - 1 \in 0..j)
        BY <2>2, <3>2
      <4>2. F[n] = IF n = 0 THEN ds ELSE UNION {Lifted(d) : d \in F[n - 1]}
        BY <2>1, <4>1 DEF LiftsBy
      <4> QED  BY <2>4, <4>1, <4>2
    <3> QED  BY <3>1, <3>2
  <2>7. LiftsBy(ds, k, G)
    BY <2>5, <2>6 DEF LiftsBy
  <2> QED  BY <2>2, <2>7
<1> HIDE DEF T
<1>3. \A n \in 0..l : n \in T
  BY <1>1, <1>2, InductionUpTo
<1>4. l \in T
  BY <1>3
<1> QED  BY <1>4 DEF T

\* F is the recursive function of Arguments, up to k.
ArgumentsBy(e, D, k, F) ==
  F = [n \in 0..k |-> IF n = 0 THEN {NoArguments} ELSE UNION {{WithArgument(x, d) : d \in AsArgument(D[e.args[n]])} : x \in F[n - 1]}]

LEMMA ArgumentsByExists ==
  ASSUME NEW e, NEW D, NEW l \in Nat
  PROVE  \E F : ArgumentsBy(e, D, l, F)
<1> DEFINE T == {k \in Nat : \E F : ArgumentsBy(e, D, k, F)}
<1>1. 0 \in T
  <2> DEFINE F == [n \in 0..0 |-> {NoArguments}]
  <2>1. F = [n \in 0..0 |-> IF n = 0 THEN {NoArguments} ELSE UNION {{WithArgument(x, d) : d \in AsArgument(D[e.args[n]])} : x \in F[n - 1]}]
    OBVIOUS
  <2> HIDE DEF F
  <2>2. ArgumentsBy(e, D, 0, F)
    BY <2>1 DEF ArgumentsBy
  <2> QED  BY <2>2
<1>2. ASSUME NEW j \in Nat, j \in T PROVE j + 1 \in T
  <2>1. PICK F : ArgumentsBy(e, D, j, F)
    BY <1>2
  <2>2. PICK k \in Nat : k = j + 1
    OBVIOUS
  <2>3. PICK v : v = UNION {{WithArgument(x, d) : d \in AsArgument(D[e.args[k]])} : x \in F[j]}
    OBVIOUS
  <2> DEFINE G == [n \in 0..k |-> IF n = k THEN v ELSE F[n]]
  <2>4. G[k] = v /\ \A n \in 0..j : G[n] = F[n]
    BY <2>2
  <2>5. G = [n \in 0..k |-> G[n]]
    OBVIOUS
  <2> HIDE DEF G
  <2>6. ASSUME NEW n \in 0..k
        PROVE  G[n] = IF n = 0 THEN {NoArguments} ELSE UNION {{WithArgument(x, d) : d \in AsArgument(D[e.args[n]])} : x \in G[n - 1]}
    <3>1. CASE n = k
      <4>1. n # 0 /\ n - 1 = j /\ G[n - 1] = F[j]
        BY <2>2, <2>4, <3>1
      <4> QED  BY <2>3, <2>4, <3>1, <4>1
    <3>2. CASE n # k
      <4>1. n \in 0..j /\ (n # 0 => n - 1 \in 0..j)
        BY <2>2, <3>2
      <4>2. F[n] = IF n = 0 THEN {NoArguments} ELSE UNION {{WithArgument(x, d) : d \in AsArgument(D[e.args[n]])} : x \in F[n - 1]}
        BY <2>1, <4>1 DEF ArgumentsBy
      <4> QED  BY <2>4, <4>1, <4>2
    <3> QED  BY <3>1, <3>2
  <2>7. ArgumentsBy(e, D, k, G)
    BY <2>5, <2>6 DEF ArgumentsBy
  <2> QED  BY <2>2, <2>7
<1> HIDE DEF T
<1>3. \A n \in 0..l : n \in T
  BY <1>1, <1>2, InductionUpTo
<1>4. l \in T
  BY <1>3
<1> QED  BY <1>4 DEF T

\* F is the recursive function of DerivationsOfParts of e, up to k.
PartsBy(e, k, F) ==
  F = [n \in 0..k |-> IF n = 0 THEN <<>> ELSE [t \in Levels(e)[MaxHeight + 1 - n] |-> Derived(t, F[n - 1])]]

LEMMA PartsByExists ==
  ASSUME NEW e, NEW l \in Nat
  PROVE  \E F : PartsBy(e, l, F)
<1> DEFINE T == {k \in Nat : \E F : PartsBy(e, k, F)}
<1>1. 0 \in T
  <2> DEFINE F == [n \in 0..0 |-> <<>>]
  <2>1. F = [n \in 0..0 |-> IF n = 0 THEN <<>> ELSE [t \in Levels(e)[MaxHeight + 1 - n] |-> Derived(t, F[n - 1])]]
    OBVIOUS
  <2> HIDE DEF F
  <2>2. PartsBy(e, 0, F)
    BY <2>1 DEF PartsBy
  <2> QED  BY <2>2
<1>2. ASSUME NEW j \in Nat, j \in T PROVE j + 1 \in T
  <2>1. PICK F : PartsBy(e, j, F)
    BY <1>2
  <2>2. PICK k \in Nat : k = j + 1
    OBVIOUS
  <2>3. PICK v : v = [t \in Levels(e)[MaxHeight + 1 - k] |-> Derived(t, F[j])]
    OBVIOUS
  <2> DEFINE G == [n \in 0..k |-> IF n = k THEN v ELSE F[n]]
  <2>4. G[k] = v /\ \A n \in 0..j : G[n] = F[n]
    BY <2>2
  <2>5. G = [n \in 0..k |-> G[n]]
    OBVIOUS
  <2> HIDE DEF G
  <2>6. ASSUME NEW n \in 0..k
        PROVE  G[n] = IF n = 0 THEN <<>> ELSE [t \in Levels(e)[MaxHeight + 1 - n] |-> Derived(t, G[n - 1])]
    <3>1. CASE n = k
      <4>1. n # 0 /\ n - 1 = j /\ G[n - 1] = F[j]
        BY <2>2, <2>4, <3>1
      <4> QED  BY <2>3, <2>4, <3>1, <4>1
    <3>2. CASE n # k
      <4>1. n \in 0..j /\ (n # 0 => n - 1 \in 0..j)
        BY <2>2, <3>2
      <4>2. F[n] = IF n = 0 THEN <<>> ELSE [t \in Levels(e)[MaxHeight + 1 - n] |-> Derived(t, F[n - 1])]
        BY <2>1, <4>1 DEF PartsBy
      <4> QED  BY <2>4, <4>1, <4>2
    <3> QED  BY <3>1, <3>2
  <2>7. PartsBy(e, k, G)
    BY <2>5, <2>6 DEF PartsBy
  <2> QED  BY <2>2, <2>7
<1> HIDE DEF T
<1>3. \A n \in 0..l : n \in T
  BY <1>1, <1>2, InductionUpTo
<1>4. l \in T
  BY <1>3
<1> QED  BY <1>4 DEF T

Level(k) == Levels(input.expr)[k]

\* The derivations of the trees at level k.
DerivedAt(k) == DerivationsOfParts(input.expr)[MaxHeight + 1 - k]

LEMMA LevelsRec ==
  /\ Level(0) = {input.expr}
  /\ \A k \in 1..(MaxHeight + 1) : \A t \in Level(k - 1) : \A i \in DOMAIN t.args : t.args[i] \in Level(k)
<1>0. MaxHeight \in Nat /\ MaxHeight + 1 \in Nat
  BY FiniteAssumption
<1>1. \E F : LevelsBy(input.expr, MaxHeight + 1, F)
  BY <1>0, LevelsByExists
<1>2. PICK F : LevelsBy(input.expr, MaxHeight + 1, F) /\ Levels(input.expr) = F
  BY <1>1, Zenon DEF Levels, LevelsBy
<1>3. \A n \in 0..(MaxHeight + 1) :
        F[n] = IF n = 0 THEN {input.expr}
               ELSE UNION {{t.args[i] : i \in DOMAIN t.args} : t \in F[n - 1]}
  BY <1>2 DEF LevelsBy
<1>4. F[0] = {input.expr}
  <2>1. 0 \in 0..(MaxHeight + 1)
    BY <1>0
  <2> QED  BY <1>3, <2>1, Zenon
<1>5. \A k \in 1..(MaxHeight + 1) : F[k] = UNION {{t.args[i] : i \in DOMAIN t.args} : t \in F[k - 1]}
  <2>1. \A k \in 1..(MaxHeight + 1) : k \in 0..(MaxHeight + 1) /\ k # 0
    BY <1>0
  <2> QED  BY <1>3, <2>1, Zenon
<1>6. \A k \in 1..(MaxHeight + 1) : \A t \in F[k - 1] : \A i \in DOMAIN t.args : t.args[i] \in F[k]
  <2> SUFFICES ASSUME NEW k \in 1..(MaxHeight + 1), NEW u \in F[k - 1], NEW i \in DOMAIN u.args
               PROVE  u.args[i] \in F[k]
    OBVIOUS
  <2>1. F[k] = UNION {{t.args[j] : j \in DOMAIN t.args} : t \in F[k - 1]}
    BY <1>5
  <2>2. u.args[i] \in {u.args[j] : j \in DOMAIN u.args}
    OBVIOUS
  <2> QED  BY <2>1, <2>2
<1> QED  BY <1>2, <1>4, <1>6 DEF Level

\* A part of the tree has a list of arguments, which are parts at the next level.
LEMMA LevelFacts ==
  ASSUME input \in Inputs
  PROVE  /\ input.expr \in Level(0) /\ Level(MaxHeight + 1) = {} /\ MaxHeight \in Nat
         /\ \A k \in 0..(MaxHeight + 1) : \A t \in Level(k) :
              /\ k \in 0..MaxHeight /\ IsSeq(t.args)
              /\ \A i \in 1..Len(t.args) : t.args[i] \in Level(k + 1) /\ k + 1 \in 0..MaxHeight
<1>0. MaxHeight \in Nat /\ Level(MaxHeight + 1) = {}
  BY FiniteAssumption DEF Level
<1>1. ASSUME NEW k \in 0..(MaxHeight + 1), NEW t \in Level(k)
      PROVE  /\ k \in 0..MaxHeight /\ IsSeq(t.args)
             /\ \A i \in 1..Len(t.args) : t.args[i] \in Level(k + 1) /\ k + 1 \in 0..MaxHeight
  <2>1. k # MaxHeight + 1
    BY <1>0, <1>1
  <2>2. k \in 0..MaxHeight
    BY <1>0, <2>1
  <2>3. IsSeq(t.args)
    BY <2>2, FiniteAssumption DEF Level
  <2>4. DOMAIN t.args = 1..Len(t.args)
    BY <2>3, ListFacts
  <2>5. ASSUME NEW i \in 1..Len(t.args) PROVE t.args[i] \in Level(k + 1) /\ k + 1 \in 0..MaxHeight
    <3>1. t.args[i] \in Level(k + 1)
      <4>1. PICK n \in 1..(MaxHeight + 1) : n = k + 1 /\ n - 1 = k
        BY <1>0, <2>2
      <4>2. t \in Level(n - 1) /\ i \in DOMAIN t.args
        BY <1>1, <2>4, <4>1
      <4>3. t.args[i] \in Level(n)
        BY <4>2, LevelsRec
      <4> QED  BY <4>1, <4>3
    <3>2. k + 1 # MaxHeight + 1
      BY <1>0, <3>1
    <3> QED  BY <1>0, <2>2, <3>1, <3>2
  <2> QED  BY <2>2, <2>3, <2>5
<1>2. input.expr \in Level(0)
  BY LevelsRec
<1> QED  BY <1>0, <1>1, <1>2

\* The derivations of a part of the tree come from those of its arguments.
LEMMA DerivedRec ==
  ASSUME NEW k \in 0..MaxHeight, NEW t \in Level(k)
  PROVE  DerivedAt(k)[t] = Derived(t, DerivedAt(k + 1))
<1>0. MaxHeight \in Nat /\ MaxHeight + 1 \in Nat
  BY FiniteAssumption
<1>1. \E F : PartsBy(input.expr, MaxHeight + 1, F)
  BY <1>0, PartsByExists
<1>2. PICK F : /\ PartsBy(input.expr, MaxHeight + 1, F)
               /\ DerivationsOfParts(input.expr) = F
  BY <1>1, Zenon DEF DerivationsOfParts, PartsBy
<1>3. \A n \in 0..(MaxHeight + 1) :
        F[n] = IF n = 0 THEN <<>>
               ELSE [u \in Levels(input.expr)[MaxHeight + 1 - n] |-> Derived(u, F[n - 1])]
  BY <1>2, Zenon DEF PartsBy
<1>4. PICK n \in 0..(MaxHeight + 1) :
        /\ n = MaxHeight + 1 - k /\ n # 0
        /\ MaxHeight + 1 - n = k /\ n - 1 = MaxHeight + 1 - (k + 1)
  BY <1>0
<1>5. F[n] = [u \in Levels(input.expr)[k] |-> Derived(u, F[n - 1])]
  BY <1>3, <1>4, Zenon
<1>6. F[n][t] = Derived(t, F[n - 1])
  BY <1>5 DEF Level
<1>7. DerivedAt(k) = F[n] /\ DerivedAt(k + 1) = F[n - 1]
  <2>1. DerivedAt(k) = F[MaxHeight + 1 - k] /\ DerivedAt(k + 1) = F[MaxHeight + 1 - (k + 1)]
    BY <1>2, Zenon DEF DerivedAt
  <2> QED  BY <1>4, <2>1
<1> QED  BY <1>6, <1>7

LEMMA DerivationsAtRoot == Derivations(input.expr) = DerivedAt(0)[input.expr]
<1>1. MaxHeight + 1 - 0 = MaxHeight + 1
  BY FiniteAssumption
<1> QED  BY <1>1 DEF Derivations, DerivedAt

LEMMA LiftsRec ==
  ASSUME NEW ds
  PROVE  /\ Lifts(ds)[0] = ds
         /\ \A k \in 1..MaxHeight : Lifts(ds)[k] = UNION {Lifted(d) : d \in Lifts(ds)[k - 1]}
<1>0. MaxHeight \in Nat
  BY FiniteAssumption
<1>1. \E F : LiftsBy(ds, MaxHeight, F)
  BY <1>0, LiftsByExists
<1>2. PICK F : LiftsBy(ds, MaxHeight, F) /\ Lifts(ds) = F
  BY <1>1, Zenon DEF Lifts, LiftsBy
<1>3. \A n \in 0..MaxHeight : F[n] = IF n = 0 THEN ds ELSE UNION {Lifted(d) : d \in F[n - 1]}
  BY <1>2 DEF LiftsBy
<1>4. F[0] = ds
  <2>1. 0 \in 0..MaxHeight
    BY <1>0
  <2> QED  BY <1>3, <2>1, Zenon
<1>5. \A k \in 1..MaxHeight : F[k] = UNION {Lifted(d) : d \in F[k - 1]}
  <2>1. \A k \in 1..MaxHeight : k \in 0..MaxHeight /\ k # 0
    BY <1>0
  <2> QED  BY <1>3, <2>1, Zenon
<1> QED  BY <1>2, <1>4, <1>5

LEMMA ArgumentsRec ==
  ASSUME NEW e, IsSeq(e.args), NEW D
  PROVE  /\ Arguments(e, D)[0] = {NoArguments}
         /\ \A i \in 1..Len(e.args) :
              Arguments(e, D)[i] =
                UNION {{WithArgument(x, d) : d \in AsArgument(D[e.args[i]])} : x \in Arguments(e, D)[i - 1]}
<1>0. Len(e.args) \in Nat
  BY ListFacts
<1>1. \E F : ArgumentsBy(e, D, Len(e.args), F)
  BY <1>0, ArgumentsByExists
<1>2. PICK F : ArgumentsBy(e, D, Len(e.args), F) /\ Arguments(e, D) = F
  BY <1>1, Zenon DEF Arguments, ArgumentsBy
<1>3. \A n \in 0..Len(e.args) :
        F[n] = IF n = 0 THEN {NoArguments}
               ELSE UNION {{WithArgument(x, d) : d \in AsArgument(D[e.args[n]])} : x \in F[n - 1]}
  BY <1>2 DEF ArgumentsBy
<1>4. F[0] = {NoArguments}
  <2>1. 0 \in 0..Len(e.args)
    BY <1>0
  <2> QED  BY <1>3, <2>1, Zenon
<1>5. \A i \in 1..Len(e.args) :
        F[i] = UNION {{WithArgument(x, d) : d \in AsArgument(D[e.args[i]])} : x \in F[i - 1]}
  <2>1. \A i \in 1..Len(e.args) : i \in 0..Len(e.args) /\ i # 0
    BY <1>0
  <2> QED  BY <1>3, <2>1, Zenon
<1> QED  BY <1>2, <1>4, <1>5

-----------------------------------------------------------------------------
(* What is read of the index *)

LzrOk == input \in Inputs /\ lzr \in Seq(InGrammar(input.g))

LEMMA IndexLists ==
  ASSUME LzrOk
  PROVE  /\ IsSeq(lzr) /\ IndicesTyped
         /\ \A cat : IsSeq(Supers(cat))
         /\ \A f, cats : IsSeq(InferEntries(f, cats))
<1>1. IsSeq(lzr)
  BY SeqIsItsOwn DEF LzrOk
<1>2. ASSUME NEW cat PROVE IsSeq(Supers(cat))
  <2> DEFINE found == IndexedAt({n \in DOMAIN lzr : lzr[n].prod.fun = Coerce /\ lzr[n].prod.args = <<cat>>})
  <2>1. IsSeq(found)
    BY <1>1, IndexedAtSeq
  <2>2. Supers(cat) = [i \in DOMAIN found |-> found[i].cat]
    BY DEF Supers
  <2> HIDE DEF found
  <2>3. PICK l \in Nat : DOMAIN found = 1..l
    BY <2>1, ListFacts
  <2> QED  BY <2>2, <2>3, FunctionIsSeq
<1>3. ASSUME NEW f, NEW cats PROVE IsSeq(InferEntries(f, cats))
  BY <1>1, IndexedAtSeq DEF InferEntries
<1> QED  BY <1>1, <1>2, <1>3, IndexFacts

\* The rank of a category, 0 if it has no productions.
Rank(rank, cat) == IF cat \in DOMAIN rank THEN rank[cat] ELSE 0

Ranks(rank) ==
  /\ \A cat : Rank(rank, cat) \in 0..MaxHeight
  /\ \A cat : \A i \in DOMAIN Supers(cat) : Rank(rank, Supers(cat)[i]) > Rank(rank, cat)

LEMMA RankExists ==
  ASSUME LzrOk
  PROVE  \E rank : Ranks(rank)
<1>1. PICK g : g = input.g
  OBVIOUS
<1>2. MaxHeight \in Nat /\ \E rank \in [DOMAIN g.prods -> 0..MaxHeight] : Ranked(g, rank)
  BY <1>1, FiniteAssumption DEF LzrOk
<1>3. PICK rank \in [DOMAIN g.prods -> 0..MaxHeight] : Ranked(g, rank)
  BY <1>2
<1>4. \A cat : Rank(rank, cat) \in 0..MaxHeight
  BY <1>2 DEF Rank
<1>5. ASSUME NEW cat, NEW i \in DOMAIN Supers(cat)
      PROVE  Rank(rank, Supers(cat)[i]) > Rank(rank, cat)
  <2> DEFINE places == {n \in DOMAIN lzr : lzr[n].prod.fun = Coerce /\ lzr[n].prod.args = <<cat>>}
             S == {x \in InGrammar(g) : x.prod.fun = Coerce /\ x.prod.args = <<cat>>}
  <2>1. IsSeq(lzr)
    BY IndexLists
  <2>2. ASSUME NEW n \in DOMAIN lzr, n \in places PROVE lzr[n] \in S
    <3>1. lzr[n] \in InGrammar(g)
      <4>1. lzr \in Seq(InGrammar(g)) /\ n \in 1..Len(lzr)
        BY <1>1, <2>1, ListFacts DEF LzrOk
      <4> QED  BY <4>1, ElementOfSeq
    <3> QED  BY <2>2, <3>1
  <2>3. PICK found : found = IndexedAt(places)
    OBVIOUS
  <2>4. found \in Seq(S)
    <3> HIDE DEF places, S
    <3> QED  BY <2>1, <2>2, <2>3, IndexedAtIn
  <2>5. Supers(cat) = [j \in DOMAIN found |-> found[j].cat]
    BY <2>3 DEF Supers
  <2>6. PICK x : x = found[i] /\ i \in DOMAIN found
    BY <2>5
  <2>7. x \in S
    <3> HIDE DEF S
    <3>1. IsSeq(found)
      BY <2>4, SeqIsItsOwn
    <3>2. i \in 1..Len(found)
      BY <2>6, <3>1, ListFacts
    <3> QED  BY <2>4, <2>6, <3>2, ElementOfSeq
  <2>8. PICK ccat : ccat = x.cat /\ Supers(cat)[i] = ccat
    BY <2>5, <2>6
  <2>9. PICK j \in DOMAIN g.prods[ccat] : ccat \in DOMAIN g.prods /\ x.prod = g.prods[ccat][j]
    BY <2>7, <2>8 DEF InGrammar
  <2>10. /\ rank[ccat] >= 1
         /\ cat \in DOMAIN g.prods => rank[ccat] > rank[cat]
    <3>1. g.prods[ccat][j].fun = Coerce /\ g.prods[ccat][j].args = <<cat>>
      BY <2>7, <2>9
    <3> QED  BY <1>3, <2>9, <3>1 DEF Ranked
  <2>11. rank[ccat] \in 0..MaxHeight /\ DOMAIN rank = DOMAIN g.prods
    BY <1>3, <2>9
  <2> QED  BY <2>8, <2>9, <2>10, <2>11 DEF Rank
<1> QED  BY <1>4, <1>5 DEF Ranks

-----------------------------------------------------------------------------
(* Derivations are records with sequences of decisions; to put the decisions q *)
(* before those of the derivations that coercions start from is to put it      *)
(* before those that they come to.                                             *)

Dec == Seq(Nat \ {0})

IsDer(d) == d = [dec |-> d.dec, cat |-> d.cat, tree |-> d.tree] /\ d.dec \in Dec

AllDer(ds) == \A d \in ds : IsDer(d)

OnDer(q, d) == [dec |-> q \o d.dec, cat |-> d.cat, tree |-> d.tree]

LEMMA DecFacts ==
  ASSUME NEW q \in Dec, NEW s \in Dec
  PROVE  /\ q \o s \in Dec /\ q \o <<>> = q /\ <<>> \o q = q /\ <<>> \in Dec
         /\ \A t \in Dec : (q \o s) \o t = q \o (s \o t)
<1>1. q \o s \in Dec /\ q \o <<>> = q /\ <<>> \o q = q
  BY ConcatProperties, ConcatEmptySeq DEF Dec
<1>2. ASSUME NEW t \in Dec PROVE (q \o s) \o t = q \o (s \o t)
  BY ConcatAssociative DEF Dec
<1>3. <<>> \in Dec
  BY DEF Dec
<1> QED  BY <1>1, <1>2, <1>3

LEMMA DecAppend ==
  ASSUME NEW q \in Dec, NEW s \in Dec, NEW x \in Nat \ {0}
  PROVE  Append(s, x) \in Dec /\ Append(q \o s, x) = q \o Append(s, x)
<1>1. Append(s, x) \in Dec
  BY AppendProperties DEF Dec
<1>2. /\ Len(q) \in Nat /\ Len(s) \in Nat /\ Len(q \o s) = Len(q) + Len(s)
      /\ \A i \in 1..(Len(q) + Len(s)) : (q \o s)[i] = IF i <= Len(q) THEN q[i] ELSE s[i - Len(q)]
  BY ConcatProperties, LenProperties DEF Dec
<1>3. /\ Len(Append(s, x)) = Len(s) + 1 /\ Append(s, x)[Len(s) + 1] = x
      /\ \A i \in 1..Len(s) : Append(s, x)[i] = s[i]
  BY AppendProperties DEF Dec
<1>4. PICK a : a = Append(q \o s, x)
  OBVIOUS
<1>5. /\ a \in Dec /\ Len(a) = Len(q) + Len(s) + 1 /\ a[Len(q) + Len(s) + 1] = x
      /\ \A i \in 1..(Len(q) + Len(s)) : a[i] = (q \o s)[i]
  <2>1. q \o s \in Dec
    BY DecFacts
  <2> QED  BY <1>2, <1>4, <2>1, AppendProperties DEF Dec
<1>6. PICK e, b : e = Append(s, x) /\ b = q \o e
  OBVIOUS
<1>7. e \in Dec /\ Len(e) = Len(s) + 1
  BY <1>1, <1>3, <1>6
<1>8. /\ b \in Dec /\ Len(b) = Len(q) + Len(s) + 1
      /\ \A i \in 1..(Len(q) + Len(s) + 1) : b[i] = IF i <= Len(q) THEN q[i] ELSE e[i - Len(q)]
  BY <1>2, <1>6, <1>7, ConcatProperties DEF Dec
<1>9. ASSUME NEW i \in 1..(Len(q) + Len(s) + 1) PROVE a[i] = b[i]
  <2>1. CASE i <= Len(q)
    BY <1>2, <1>5, <1>8, <2>1
  <2>2. CASE i > Len(q) /\ i <= Len(q) + Len(s)
    <3>1. PICK j \in 1..Len(s) : j = i - Len(q)
      BY <1>2, <2>2
    <3>2. a[i] = s[j]
      BY <1>2, <1>5, <2>2, <3>1
    <3>3. b[i] = e[j]
      BY <1>2, <1>8, <2>2, <3>1
    <3> QED  BY <1>3, <1>6, <3>2, <3>3
  <2>3. CASE i = Len(q) + Len(s) + 1
    <3>1. a[i] = x
      BY <1>5, <2>3
    <3>2. b[i] = e[Len(s) + 1]
      <4>1. ~(i <= Len(q)) /\ i - Len(q) = Len(s) + 1
        BY <1>2, <2>3
      <4> QED  BY <1>8, <4>1
    <3> QED  BY <1>3, <1>6, <3>1, <3>2
  <2> QED  BY <1>2, <2>1, <2>2, <2>3
<1>10. a = b
  BY <1>5, <1>8, <1>9, SeqEqual DEF Dec
<1> QED  BY <1>1, <1>4, <1>6, <1>10

LEMMA OnDerFacts ==
  ASSUME NEW q \in Dec, NEW d, IsDer(d)
  PROVE  /\ IsDer(OnDer(q, d)) /\ OnDer(q, d).dec = q \o d.dec
         /\ OnDer(q, d).cat = d.cat /\ OnDer(q, d).tree = d.tree
  BY DecFacts DEF IsDer, OnDer

LEMMA LiftedFacts ==
  ASSUME LzrOk, NEW d, IsDer(d), NEW q \in Dec
  PROVE  /\ AllDer(Lifted(d)) /\ IsDer(Kept(d)) /\ Kept(OnDer(q, d)) = OnDer(q, Kept(d))
         /\ Lifted(OnDer(q, d)) = {OnDer(q, x) : x \in Lifted(d)}
<1>1. PICK l \in Nat : DOMAIN Supers(d.cat) = 1..l
  BY IndexLists, ListFacts
<1>2. d.dec \in Dec
  BY DEF IsDer
<1>3. ASSUME NEW i \in 0..l
      PROVE  /\ Append(d.dec, i + 1) \in Dec
             /\ Append(q \o d.dec, i + 1) = q \o Append(d.dec, i + 1)
  <2>1. PICK x \in Nat \ {0} : x = i + 1
    OBVIOUS
  <2>2. Append(d.dec, x) \in Dec /\ Append(q \o d.dec, x) = q \o Append(d.dec, x)
    <3>1. PICK s \in Dec : s = d.dec
      BY <1>2
    <3>2. Append(s, x) \in Dec /\ Append(q \o s, x) = q \o Append(s, x)
      BY DecAppend, Zenon
    <3> QED  BY <3>1, <3>2
  <2> QED  BY <2>1, <2>2
<1>4. AllDer(Lifted(d))
  <2>1. ASSUME NEW x \in Lifted(d) PROVE IsDer(x)
    <3>1. PICK i \in 1..l : x = [dec |-> Append(d.dec, i + 1), cat |-> Supers(d.cat)[i], tree |-> d.tree]
      BY <1>1 DEF Lifted
    <3>2. Append(d.dec, i + 1) \in Dec
      BY <1>3
    <3> QED  BY <3>1, <3>2 DEF IsDer
  <2> QED  BY <2>1 DEF AllDer
<1>5. Append(d.dec, 1) \in Dec /\ Append(q \o d.dec, 1) = q \o Append(d.dec, 1)
  <2>1. PICK i \in 0..l : i = 0 /\ i + 1 = 1
    OBVIOUS
  <2> QED  BY <1>3, <2>1
<1>6. /\ [d EXCEPT !.dec = Append(@, 1)] = [dec |-> Append(d.dec, 1), cat |-> d.cat, tree |-> d.tree]
      /\ [OnDer(q, d) EXCEPT !.dec = Append(@, 1)] =
           [dec |-> Append(q \o d.dec, 1), cat |-> d.cat, tree |-> d.tree]
  <2>1. [d EXCEPT !.dec = Append(@, 1)] = [dec |-> Append(d.dec, 1), cat |-> d.cat, tree |-> d.tree]
    <3>1. PICK a, b, e : d = [dec |-> a, cat |-> b, tree |-> e]
      BY DEF IsDer
    <3> QED  BY <3>1
  <2>2. [OnDer(q, d) EXCEPT !.dec = Append(@, 1)] =
           [dec |-> Append(q \o d.dec, 1), cat |-> d.cat, tree |-> d.tree]
    <3>1. PICK a, b, e, x : /\ a = q \o d.dec /\ b = d.cat /\ e = d.tree
                            /\ x = [dec |-> a, cat |-> b, tree |-> e]
      OBVIOUS
    <3>2. OnDer(q, d) = x
      BY <3>1 DEF OnDer
    <3>4. PICK v : v = Append(a, 1)
      OBVIOUS
    <3>5. [x EXCEPT !.dec = v] = [dec |-> v, cat |-> b, tree |-> e] /\ x.dec = a
      BY <3>1
    <3>3. [x EXCEPT !.dec = Append(@, 1)] = [dec |-> Append(a, 1), cat |-> b, tree |-> e]
      BY <3>4, <3>5
    <3> QED  BY <3>1, <3>2, <3>3
  <2> QED  BY <2>1, <2>2
<1>7. IsDer(Kept(d))
  BY <1>5, <1>6 DEF Kept, IsDer
<1>8. Kept(OnDer(q, d)) = OnDer(q, Kept(d))
  <2>1. OnDer(q, d).cat = d.cat
    BY DEF OnDer
  <2>2. CASE Supers(d.cat) = <<>>
    BY <2>1, <2>2 DEF Kept
  <2>3. CASE Supers(d.cat) # <<>>
    <3>1. Kept(OnDer(q, d)) = [dec |-> Append(q \o d.dec, 1), cat |-> d.cat, tree |-> d.tree]
      BY <1>6, <2>1, <2>3 DEF Kept
    <3>2. Kept(d) = [dec |-> Append(d.dec, 1), cat |-> d.cat, tree |-> d.tree]
      BY <1>6, <2>3 DEF Kept
    <3>3. OnDer(q, Kept(d)) = [dec |-> q \o Append(d.dec, 1), cat |-> d.cat, tree |-> d.tree]
      BY <3>2 DEF OnDer
    <3> QED  BY <1>5, <3>1, <3>3
  <2> QED  BY <2>2, <2>3
<1>9. Lifted(OnDer(q, d)) = {OnDer(q, x) : x \in Lifted(d)}
  <2>1. PICK z : z = [i \in 1..l |-> [dec |-> Append(q \o d.dec, i + 1), cat |-> Supers(d.cat)[i], tree |-> d.tree]]
    OBVIOUS
  <2>2. PICK y : y = [i \in 1..l |-> [dec |-> Append(d.dec, i + 1), cat |-> Supers(d.cat)[i], tree |-> d.tree]]
    OBVIOUS
  <2>3. Lifted(OnDer(q, d)) = {z[i] : i \in 1..l}
    BY <1>1, <2>1 DEF Lifted, OnDer
  <2>4. Lifted(d) = {y[i] : i \in 1..l}
    BY <1>1, <2>2 DEF Lifted
  <2>5. ASSUME NEW i \in 1..l PROVE z[i] = OnDer(q, y[i])
    <3>1. Append(q \o d.dec, i + 1) = q \o Append(d.dec, i + 1)
      BY <1>3
    <3> QED  BY <2>1, <2>2, <3>1 DEF OnDer
  <2> QED  BY <2>3, <2>4, <2>5
<1> QED  BY <1>4, <1>7, <1>8, <1>9

\* One coercion more.
LEMMA LiftsNext ==
  ASSUME NEW ds, NEW j \in 0..(MaxHeight - 1)
  PROVE  Lifts(ds)[j + 1] = UNION {Lifted(d) : d \in Lifts(ds)[j]}
<1>1. PICK k \in 1..MaxHeight : k = j + 1 /\ k - 1 = j
  BY FiniteAssumption
<1>2. Lifts(ds)[k] = UNION {Lifted(d) : d \in Lifts(ds)[k - 1]}
  BY LiftsRec
<1> QED  BY <1>1, <1>2

\* The derivations that d comes to with k coercions.
LiftsFrom(d, k) == Lifts({d})[k]

LEMMA LiftsFromRec ==
  ASSUME NEW d
  PROVE  /\ LiftsFrom(d, 0) = {d}
         /\ \A j \in 0..(MaxHeight - 1) : LiftsFrom(d, j + 1) = UNION {Lifted(x) : x \in LiftsFrom(d, j)}
<1>1. PICK ds : ds = {d}
  OBVIOUS
<1>2. \A k : LiftsFrom(d, k) = Lifts(ds)[k]
  BY <1>1 DEF LiftsFrom
<1>3. Lifts(ds)[0] = ds
  BY LiftsRec
<1>4. \A j \in 0..(MaxHeight - 1) : Lifts(ds)[j + 1] = UNION {Lifted(x) : x \in Lifts(ds)[j]}
  BY LiftsNext
<1> QED  BY <1>1, <1>2, <1>3, <1>4

LEMMA LiftsTyped ==
  ASSUME LzrOk, NEW ds, AllDer(ds)
  PROVE  \A k \in 0..MaxHeight : AllDer(Lifts(ds)[k])
<1>0. MaxHeight \in Nat
  BY FiniteAssumption
<1> DEFINE T == {k \in Nat : AllDer(Lifts(ds)[k])}
<1>1. 0 \in T
  BY LiftsRec
<1>2. ASSUME NEW j \in 0..(MaxHeight - 1), j \in T PROVE j + 1 \in T
  <2>1. AllDer(Lifts(ds)[j])
    BY <1>2
  <2>2. \A d \in Lifts(ds)[j] : AllDer(Lifted(d))
    <3>1. <<>> \in Dec
      BY DEF Dec
    <3> QED  BY <2>1, <3>1, LiftedFacts DEF AllDer
  <2>3. Lifts(ds)[j + 1] = UNION {Lifted(d) : d \in Lifts(ds)[j]}
    BY LiftsNext
  <2>4. AllDer(Lifts(ds)[j + 1])
    BY <2>2, <2>3 DEF AllDer
  <2> QED  BY <2>4
<1> HIDE DEF T
<1>3. \A n \in 0..MaxHeight : n \in T
  BY <1>0, <1>1, <1>2, InductionUpTo
<1> QED  BY <1>3 DEF T

\* The derivations after k coercions come from one of ds each.
LEMMA LiftsUnion ==
  ASSUME NEW ds
  PROVE  \A k \in 0..MaxHeight : \A x : x \in Lifts(ds)[k] <=> \E d \in ds : x \in LiftsFrom(d, k)
<1>0. MaxHeight \in Nat
  BY FiniteAssumption
<1> DEFINE T == {k \in Nat : \A x : x \in Lifts(ds)[k] <=> \E d \in ds : x \in LiftsFrom(d, k)}
<1>1. 0 \in T
  <2>1. Lifts(ds)[0] = ds
    BY LiftsRec
  <2>2. ASSUME NEW d PROVE LiftsFrom(d, 0) = {d}
    BY LiftsFromRec
  <2> QED  BY <2>1, <2>2
<1>2. ASSUME NEW j \in 0..(MaxHeight - 1), j \in T PROVE j + 1 \in T
  <2>1. \A x : x \in Lifts(ds)[j] <=> \E d \in ds : x \in LiftsFrom(d, j)
    BY <1>2
  <2>2. PICK k : k = j + 1
    OBVIOUS
  <2>3. /\ Lifts(ds)[k] = UNION {Lifted(y) : y \in Lifts(ds)[j]}
        /\ \A d : LiftsFrom(d, k) = UNION {Lifted(y) : y \in LiftsFrom(d, j)}
    <3>1. Lifts(ds)[k] = UNION {Lifted(y) : y \in Lifts(ds)[j]}
      BY <2>2, LiftsNext
    <3>2. ASSUME NEW d PROVE LiftsFrom(d, k) = UNION {Lifted(y) : y \in LiftsFrom(d, j)}
      BY <2>2, LiftsFromRec
    <3> QED  BY <3>1, <3>2
  <2>4. ASSUME NEW x, x \in Lifts(ds)[k] PROVE \E d \in ds : x \in LiftsFrom(d, k)
    <3>1. PICK y \in Lifts(ds)[j] : x \in Lifted(y)
      BY <2>3, <2>4
    <3>2. PICK d \in ds : y \in LiftsFrom(d, j)
      BY <2>1
    <3>3. x \in LiftsFrom(d, k)
      BY <2>3, <3>1, <3>2
    <3> QED  BY <3>3
  <2>5. ASSUME NEW x, NEW d \in ds, x \in LiftsFrom(d, k) PROVE x \in Lifts(ds)[k]
    <3>1. PICK y \in LiftsFrom(d, j) : x \in Lifted(y)
      BY <2>3, <2>5
    <3>2. y \in Lifts(ds)[j]
      BY <2>1
    <3> QED  BY <2>3, <3>1, <3>2
  <2> QED  BY <2>2, <2>4, <2>5
<1> HIDE DEF T
<1>3. \A n \in 0..MaxHeight : n \in T
  BY <1>0, <1>1, <1>2, InductionUpTo
<1> QED  BY <1>3 DEF T

LEMMA LiftsFront ==
  ASSUME NEW d
  PROVE  \A k \in 0..(MaxHeight - 1) : LiftsFrom(d, k + 1) = Lifts(Lifted(d))[k]
<1>0. MaxHeight \in Nat
  BY FiniteAssumption
<1> DEFINE T == {k \in Nat : k < MaxHeight => LiftsFrom(d, k + 1) = Lifts(Lifted(d))[k]}
<1>1. 0 \in T
  <2>1. ASSUME 0 < MaxHeight PROVE LiftsFrom(d, 0 + 1) = Lifts(Lifted(d))[0]
    <3>1. LiftsFrom(d, 0 + 1) = UNION {Lifted(x) : x \in LiftsFrom(d, 0)}
      <4>1. 0 \in 0..(MaxHeight - 1)
        BY <1>0, <2>1
      <4> QED  BY <4>1, LiftsFromRec
    <3>2. LiftsFrom(d, 0) = {d} /\ Lifts(Lifted(d))[0] = Lifted(d)
      BY LiftsRec, LiftsFromRec
    <3> QED  BY <3>1, <3>2
  <2> QED  BY <2>1
<1>2. ASSUME NEW j \in 0..(MaxHeight - 1), j \in T PROVE j + 1 \in T
  <2>1. ASSUME j + 1 < MaxHeight PROVE LiftsFrom(d, j + 1 + 1) = Lifts(Lifted(d))[j + 1]
    <3>1. PICK k \in 0..(MaxHeight - 1) : k = j + 1
      BY <1>0, <2>1
    <3>2. LiftsFrom(d, k) = Lifts(Lifted(d))[j]
      BY <1>0, <1>2, <2>1, <3>1
    <3>3. LiftsFrom(d, k + 1) = UNION {Lifted(x) : x \in LiftsFrom(d, k)}
      BY LiftsFromRec
    <3>4. Lifts(Lifted(d))[j + 1] = UNION {Lifted(x) : x \in Lifts(Lifted(d))[j]}
      BY LiftsNext
    <3> QED  BY <3>1, <3>2, <3>3, <3>4
  <2> QED  BY <2>1
<1> HIDE DEF T
<1>3. \A n \in 0..MaxHeight : n \in T
  BY <1>0, <1>1, <1>2, InductionUpTo
<1>4. \A k \in 0..(MaxHeight - 1) : k \in T /\ k < MaxHeight
  BY <1>0, <1>3
<1> QED  BY <1>4 DEF T

LEMMA LiftsOnto ==
  ASSUME LzrOk, NEW d, IsDer(d), NEW q \in Dec
  PROVE  \A k \in 0..MaxHeight : LiftsFrom(OnDer(q, d), k) = {OnDer(q, x) : x \in LiftsFrom(d, k)}
<1>0. MaxHeight \in Nat
  BY FiniteAssumption
<1>1. PICK e : e = OnDer(q, d)
  OBVIOUS
<1> DEFINE T == {k \in Nat : LiftsFrom(e, k) = {OnDer(q, x) : x \in LiftsFrom(d, k)}}
<1>2. 0 \in T
  <2>1. LiftsFrom(e, 0) = {e} /\ LiftsFrom(d, 0) = {d}
    BY LiftsFromRec
  <2> QED  BY <1>1, <2>1
<1>3. ASSUME NEW j \in 0..(MaxHeight - 1), j \in T PROVE j + 1 \in T
  <2>1. LiftsFrom(e, j) = {OnDer(q, x) : x \in LiftsFrom(d, j)}
    BY <1>3
  <2>2. AllDer({d})
    BY DEF AllDer
  <2>3. j \in 0..MaxHeight
    BY <1>0
  <2>4. AllDer(LiftsFrom(d, j))
    BY <2>2, <2>3, LiftsTyped DEF LiftsFrom
  <2>5. \A y \in LiftsFrom(d, j) : Lifted(OnDer(q, y)) = {OnDer(q, x) : x \in Lifted(y)}
    BY <2>4, LiftedFacts DEF AllDer
  <2>6. PICK A : A = LiftsFrom(d, j)
    OBVIOUS
  <2>7. LiftsFrom(e, j + 1) = UNION {Lifted(x) : x \in {OnDer(q, y) : y \in A}}
    <3>1. LiftsFrom(e, j + 1) = UNION {Lifted(x) : x \in LiftsFrom(e, j)}
      BY LiftsFromRec
    <3> QED  BY <2>1, <2>6, <3>1
  <2>8. LiftsFrom(d, j + 1) = UNION {Lifted(y) : y \in A}
    BY <2>6, LiftsFromRec
  <2>9. UNION {Lifted(x) : x \in {OnDer(q, y) : y \in A}} =
          {OnDer(q, x) : x \in UNION {Lifted(y) : y \in A}}
    <3>1. \A y \in A : Lifted(OnDer(q, y)) = {OnDer(q, x) : x \in Lifted(y)}
      BY <2>5, <2>6
    <3>2. ASSUME NEW z, z \in UNION {Lifted(x) : x \in {OnDer(q, y) : y \in A}}
          PROVE  z \in {OnDer(q, x) : x \in UNION {Lifted(y) : y \in A}}
      <4>1. PICK y \in A : z \in Lifted(OnDer(q, y))
        BY <3>2
      <4>2. PICK x \in Lifted(y) : z = OnDer(q, x)
        BY <3>1, <4>1
      <4> QED  BY <4>2
    <3>3. ASSUME NEW z, z \in {OnDer(q, x) : x \in UNION {Lifted(y) : y \in A}}
          PROVE  z \in UNION {Lifted(x) : x \in {OnDer(q, y) : y \in A}}
      <4>1. PICK x \in UNION {Lifted(y) : y \in A} : z = OnDer(q, x)
        BY <3>3
      <4>3. PICK y \in A : x \in Lifted(y)
        OBVIOUS
      <4>2. z \in Lifted(OnDer(q, y))
        BY <3>1, <4>1, <4>3
      <4> QED  BY <4>2
    <3> QED  BY <3>2, <3>3
  <2> QED  BY <2>7, <2>8, <2>9
<1> HIDE DEF T
<1>4. \A n \in 0..MaxHeight : n \in T
  BY <1>0, <1>2, <1>3, InductionUpTo
<1> QED  BY <1>1, <1>4 DEF T

LEMMA LiftsRank ==
  ASSUME LzrOk, NEW rank, Ranks(rank), NEW d
  PROVE  \A k \in 0..MaxHeight : \A x \in LiftsFrom(d, k) : Rank(rank, x.cat) >= Rank(rank, d.cat) + k
<1>0. MaxHeight \in Nat
  BY FiniteAssumption
<1>1. \A cat : Rank(rank, cat) \in Nat
  BY <1>0 DEF Ranks
<1> DEFINE T == {k \in Nat : \A x \in LiftsFrom(d, k) : Rank(rank, x.cat) >= Rank(rank, d.cat) + k}
<1>2. 0 \in T
  <2>1. LiftsFrom(d, 0) = {d}
    BY LiftsFromRec
  <2> QED  BY <1>1, <2>1
<1>3. ASSUME NEW j \in 0..(MaxHeight - 1), j \in T PROVE j + 1 \in T
  <2> SUFFICES ASSUME NEW x \in LiftsFrom(d, j + 1)
               PROVE  Rank(rank, x.cat) >= Rank(rank, d.cat) + (j + 1)
    OBVIOUS
  <2>1. LiftsFrom(d, j + 1) = UNION {Lifted(y) : y \in LiftsFrom(d, j)}
    BY LiftsFromRec
  <2>2. PICK y \in LiftsFrom(d, j) : x \in Lifted(y)
    BY <2>1
  <2>3. PICK i \in DOMAIN Supers(y.cat) : x.cat = Supers(y.cat)[i]
    BY <2>2 DEF Lifted
  <2>4. Rank(rank, x.cat) > Rank(rank, y.cat)
    BY <2>3 DEF Ranks
  <2>5. Rank(rank, y.cat) >= Rank(rank, d.cat) + j
    BY <1>3, <2>2
  <2>6. PICK a \in Nat, b \in Nat, e \in Nat : a = Rank(rank, x.cat) /\ b = Rank(rank, y.cat) /\ e = Rank(rank, d.cat)
    BY <1>1
  <2> QED  BY <2>4, <2>5, <2>6
<1> HIDE DEF T
<1>4. \A n \in 0..MaxHeight : n \in T
  BY <1>0, <1>2, <1>3, InductionUpTo
<1> QED  BY <1>4 DEF T

\* What the derivation d can be as an argument.
Ready(d) == AsArgument({d})

LEMMA ReadyIn ==
  ASSUME NEW d, NEW y
  PROVE  y \in Ready(d) <=> \E k \in 0..MaxHeight : \E x \in LiftsFrom(d, k) : y = Kept(x)
<1>1. Ready(d) = UNION {{Kept(x) : x \in LiftsFrom(d, k)} : k \in 0..MaxHeight}
  BY DEF Ready, AsArgument, LiftsFrom
<1> QED  BY <1>1

LEMMA ReadyUnion ==
  ASSUME NEW ds, NEW y
  PROVE  y \in AsArgument(ds) <=> \E d \in ds : y \in Ready(d)
<1>1. y \in AsArgument(ds) <=> \E k \in 0..MaxHeight : \E x \in Lifts(ds)[k] : y = Kept(x)
  BY DEF AsArgument
<1>2. ASSUME NEW k \in 0..MaxHeight, NEW x \in Lifts(ds)[k], y = Kept(x)
      PROVE  \E d \in ds : y \in Ready(d)
  <2>1. PICK d \in ds : x \in LiftsFrom(d, k)
    BY LiftsUnion
  <2>2. y \in Ready(d)
    BY <1>2, <2>1, ReadyIn
  <2> QED  BY <2>2
<1>3. ASSUME NEW d \in ds, y \in Ready(d)
      PROVE  \E k \in 0..MaxHeight : \E x \in Lifts(ds)[k] : y = Kept(x)
  <2>1. PICK k \in 0..MaxHeight : \E x \in LiftsFrom(d, k) : y = Kept(x)
    BY <1>3, ReadyIn
  <2>2. PICK x \in LiftsFrom(d, k) : y = Kept(x)
    BY <2>1
  <2>3. x \in Lifts(ds)[k]
    BY LiftsUnion
  <2> QED  BY <2>2, <2>3
<1> QED  BY <1>1, <1>2, <1>3

LEMMA LiftsFromTyped ==
  ASSUME LzrOk, NEW d, IsDer(d), NEW k \in 0..MaxHeight
  PROVE  AllDer(LiftsFrom(d, k))
<1>1. AllDer({d})
  BY DEF AllDer
<1> QED  BY <1>1, LiftsTyped DEF LiftsFrom

LEMMA ReadyFacts ==
  ASSUME LzrOk, NEW d, IsDer(d)
  PROVE  /\ AllDer(Ready(d))
         /\ \A q \in Dec : \A y : y \in Ready(OnDer(q, d)) <=> \E x \in Ready(d) : y = OnDer(q, x)
<1>0. <<>> \in Dec
  BY DEF Dec
<1>1. ASSUME NEW y \in Ready(d) PROVE IsDer(y)
  <2>1. PICK k \in 0..MaxHeight : \E x \in LiftsFrom(d, k) : y = Kept(x)
    BY ReadyIn
  <2>2. PICK x \in LiftsFrom(d, k) : y = Kept(x)
    BY <2>1
  <2>3. IsDer(x)
    BY LiftsFromTyped DEF AllDer
  <2> QED  BY <1>0, <2>2, <2>3, LiftedFacts
<1>2. ASSUME NEW q \in Dec, NEW y, y \in Ready(OnDer(q, d)) PROVE \E x \in Ready(d) : y = OnDer(q, x)
  <2>1. PICK k \in 0..MaxHeight : \E x \in LiftsFrom(OnDer(q, d), k) : y = Kept(x)
    BY <1>2, ReadyIn
  <2>2. PICK x \in LiftsFrom(OnDer(q, d), k) : y = Kept(x)
    BY <2>1
  <2>3. LiftsFrom(OnDer(q, d), k) = {OnDer(q, z) : z \in LiftsFrom(d, k)}
    BY LiftsOnto
  <2>4. PICK z \in LiftsFrom(d, k) : x = OnDer(q, z)
    BY <2>2, <2>3
  <2>5. IsDer(z)
    BY LiftsFromTyped DEF AllDer
  <2>6. y = OnDer(q, Kept(z))
    BY <2>2, <2>4, <2>5, LiftedFacts
  <2>7. Kept(z) \in Ready(d)
    BY ReadyIn
  <2> QED  BY <2>6, <2>7
<1>3. ASSUME NEW q \in Dec, NEW y, NEW x \in Ready(d), y = OnDer(q, x) PROVE y \in Ready(OnDer(q, d))
  <2>1. PICK k \in 0..MaxHeight : \E z \in LiftsFrom(d, k) : x = Kept(z)
    BY ReadyIn
  <2>2. PICK z \in LiftsFrom(d, k) : x = Kept(z)
    BY <2>1
  <2>3. IsDer(z)
    BY LiftsFromTyped DEF AllDer
  <2>4. y = Kept(OnDer(q, z))
    BY <1>3, <2>2, <2>3, LiftedFacts
  <2>5. OnDer(q, z) \in LiftsFrom(OnDer(q, d), k)
    <3>1. LiftsFrom(OnDer(q, d), k) = {OnDer(q, w) : w \in LiftsFrom(d, k)}
      BY LiftsOnto
    <3> QED  BY <3>1
  <2> QED  BY <2>4, <2>5, ReadyIn
<1> QED  BY <1>1, <1>2, <1>3 DEF AllDer

\* It is kept as it is, or coerced first.
LEMMA ReadyUnfold ==
  ASSUME LzrOk, NEW d, NEW y
  PROVE  y \in Ready(d) <=> y = Kept(d) \/ \E x \in Lifted(d) : y \in Ready(x)
<1>0. MaxHeight \in Nat
  BY FiniteAssumption
<1>1. LiftsFrom(d, 0) = {d}
  BY LiftsFromRec
<1>2. ASSUME y = Kept(d) PROVE y \in Ready(d)
  <2>1. d \in LiftsFrom(d, 0) /\ 0 \in 0..MaxHeight
    BY <1>0, <1>1
  <2> QED  BY <1>2, <2>1, ReadyIn
<1>3. ASSUME NEW x \in Lifted(d), y \in Ready(x) PROVE y \in Ready(d)
  <2>1. PICK k \in 0..MaxHeight : \E z \in LiftsFrom(x, k) : y = Kept(z)
    BY <1>3, ReadyIn
  <2>2. PICK z \in LiftsFrom(x, k) : y = Kept(z)
    BY <2>1
  <2>3. k # MaxHeight
    <3>1. PICK rank : Ranks(rank)
      BY RankExists
    <3>2. Rank(rank, z.cat) >= Rank(rank, x.cat) + k
      BY <3>1, LiftsRank
    <3>3. Rank(rank, x.cat) > Rank(rank, d.cat)
      BY <3>1 DEF Ranks, Lifted
    <3>4. PICK a \in 0..MaxHeight, b \in 0..MaxHeight, c \in 0..MaxHeight :
            a = Rank(rank, z.cat) /\ b = Rank(rank, x.cat) /\ c = Rank(rank, d.cat)
      BY <3>1 DEF Ranks
    <3> QED  BY <1>0, <3>2, <3>3, <3>4
  <2>4. k \in 0..(MaxHeight - 1) /\ k + 1 \in 0..MaxHeight
    BY <1>0, <2>3
  <2>5. z \in Lifts(Lifted(d))[k]
    BY <2>1, <2>2, LiftsUnion
  <2>6. z \in LiftsFrom(d, k + 1)
    BY <2>4, <2>5, LiftsFront
  <2> QED  BY <2>2, <2>4, <2>6, ReadyIn
<1>4. ASSUME y \in Ready(d) PROVE y = Kept(d) \/ \E x \in Lifted(d) : y \in Ready(x)
  <2>1. PICK k \in 0..MaxHeight : \E z \in LiftsFrom(d, k) : y = Kept(z)
    BY <1>4, ReadyIn
  <2>2. PICK z \in LiftsFrom(d, k) : y = Kept(z)
    BY <2>1
  <2>3. CASE k = 0
    BY <1>1, <2>2, <2>3
  <2>4. CASE k # 0
    <3>1. PICK j \in 0..(MaxHeight - 1) : k = j + 1 /\ j \in 0..MaxHeight
      BY <1>0, <2>4
    <3>2. z \in Lifts(Lifted(d))[j]
      BY <2>2, <3>1, LiftsFront
    <3>3. PICK x \in Lifted(d) : z \in LiftsFrom(x, j)
      BY <3>1, <3>2, LiftsUnion
    <3>4. y \in Ready(x)
      BY <2>2, <3>1, <3>3, ReadyIn
    <3> QED  BY <3>4
  <2> QED  BY <2>3, <2>4
<1> QED  BY <1>2, <1>3, <1>4

-----------------------------------------------------------------------------
(* Lists of arguments *)

\* l is a list of the first i arguments.
IsList(l, i) ==
  /\ l = [dec |-> l.dec, cats |-> l.cats, trees |-> l.trees]
  /\ l.dec \in Dec /\ IsSeq(l.cats) /\ Len(l.cats) = i

OnList(q, l) == [dec |-> q \o l.dec, cats |-> l.cats, trees |-> l.trees]

\* x is y with argument i.
Extends(args, D, i, y, x) == \E d \in AsArgument(D[args[i]]) : x = WithArgument(y, d)

\* The list l, of the first i of args, can go on to x, of the first j.
GoesOn(args, D, l, i, j, x) ==
  \E w : /\ w[i] = l /\ w[j] = x
         /\ \A k \in (i + 1)..j : Extends(args, D, k, w[k - 1], w[k])

LEMMA GoesNowhere ==
  ASSUME NEW args, NEW D, NEW l, NEW i \in Nat, NEW x
  PROVE  GoesOn(args, D, l, i, i, x) <=> x = l
<1>1. ASSUME x = l PROVE GoesOn(args, D, l, i, i, x)
  <2>1. PICK w : w = [k \in {i} |-> l]
    OBVIOUS
  <2>2. w[i] = l /\ \A k \in (i + 1)..i : Extends(args, D, k, w[k - 1], w[k])
    BY <2>1
  <2> QED  BY <1>1, <2>2 DEF GoesOn
<1> QED  BY <1>1 DEF GoesOn

\* The last argument.
LEMMA GoesLast ==
  ASSUME NEW args, NEW D, NEW l, NEW i \in Nat, NEW j \in Nat, i <= j, NEW k, k = j + 1, NEW x
  PROVE  GoesOn(args, D, l, i, k, x) <=> \E y : GoesOn(args, D, l, i, j, y) /\ Extends(args, D, k, y, x)
<1>1. ASSUME GoesOn(args, D, l, i, k, x)
      PROVE  \E y : GoesOn(args, D, l, i, j, y) /\ Extends(args, D, k, y, x)
  <2>1. PICK w : /\ w[i] = l /\ w[k] = x
                 /\ \A n \in (i + 1)..k : Extends(args, D, n, w[n - 1], w[n])
    BY <1>1 DEF GoesOn
  <2>2. Extends(args, D, k, w[j], x)
    <3>1. k \in (i + 1)..k /\ k - 1 = j
      OBVIOUS
    <3>2. Extends(args, D, k, w[k - 1], w[k])
      BY <2>1, <3>1
    <3> QED  BY <2>1, <3>1, <3>2
  <2>3. \A n \in (i + 1)..j : Extends(args, D, n, w[n - 1], w[n])
    <3>1. \A n \in (i + 1)..j : n \in (i + 1)..k
      OBVIOUS
    <3> QED  BY <2>1, <3>1
  <2>4. GoesOn(args, D, l, i, j, w[j])
    BY <2>1, <2>3 DEF GoesOn
  <2> QED  BY <2>2, <2>4
<1>2. ASSUME NEW y, GoesOn(args, D, l, i, j, y), Extends(args, D, k, y, x)
      PROVE  GoesOn(args, D, l, i, k, x)
  <2>1. PICK w : /\ w[i] = l /\ w[j] = y
                 /\ \A n \in (i + 1)..j : Extends(args, D, n, w[n - 1], w[n])
    BY <1>2 DEF GoesOn
  <2>2. PICK v : v = [n \in i..k |-> IF n = k THEN x ELSE w[n]]
    OBVIOUS
  <2>3. v[i] = l /\ v[k] = x /\ \A n \in i..j : v[n] = w[n]
    BY <2>1, <2>2
  <2>4. ASSUME NEW n \in (i + 1)..k PROVE Extends(args, D, n, v[n - 1], v[n])
    <3>1. CASE n = k
      <4>1. n - 1 = j /\ v[j] = y
        BY <2>1, <2>3, <3>1
      <4> QED  BY <1>2, <2>3, <3>1, <4>1
    <3>2. CASE n # k
      <4>1. n \in (i + 1)..j /\ v[n - 1] = w[n - 1] /\ v[n] = w[n]
        BY <2>3, <3>2
      <4> QED  BY <2>1, <4>1
    <3> QED  BY <3>1, <3>2
  <2> QED  BY <2>3, <2>4 DEF GoesOn
<1> QED  BY <1>1, <1>2

\* The first argument.
LEMMA GoesFirst ==
  ASSUME NEW args, NEW D, NEW l, NEW i \in Nat, NEW n \in Nat, NEW k, k = i + 1, k <= n, NEW x
  PROVE  GoesOn(args, D, l, i, n, x) <=> \E y : Extends(args, D, k, l, y) /\ GoesOn(args, D, y, k, n, x)
<1>1. ASSUME GoesOn(args, D, l, i, n, x)
      PROVE  \E y : Extends(args, D, k, l, y) /\ GoesOn(args, D, y, k, n, x)
  <2>1. PICK w : /\ w[i] = l /\ w[n] = x
                 /\ \A m \in (i + 1)..n : Extends(args, D, m, w[m - 1], w[m])
    BY <1>1 DEF GoesOn
  <2>2. Extends(args, D, k, l, w[k])
    <3>1. k \in (i + 1)..n /\ k - 1 = i
      OBVIOUS
    <3>2. Extends(args, D, k, w[k - 1], w[k])
      BY <2>1, <3>1
    <3> QED  BY <2>1, <3>1, <3>2
  <2>3. \A m \in (k + 1)..n : Extends(args, D, m, w[m - 1], w[m])
    <3>1. \A m \in (k + 1)..n : m \in (i + 1)..n
      OBVIOUS
    <3> QED  BY <2>1, <3>1
  <2>4. GoesOn(args, D, w[k], k, n, x)
    BY <2>1, <2>3 DEF GoesOn
  <2> QED  BY <2>2, <2>4
<1>2. ASSUME NEW y, Extends(args, D, k, l, y), GoesOn(args, D, y, k, n, x)
      PROVE  GoesOn(args, D, l, i, n, x)
  <2>1. PICK w : /\ w[k] = y /\ w[n] = x
                 /\ \A m \in (k + 1)..n : Extends(args, D, m, w[m - 1], w[m])
    BY <1>2 DEF GoesOn
  <2>2. PICK v : v = [m \in i..n |-> IF m = i THEN l ELSE w[m]]
    OBVIOUS
  <2>3. v[i] = l /\ v[n] = x /\ \A m \in k..n : v[m] = w[m]
    BY <2>1, <2>2
  <2>4. ASSUME NEW m \in (i + 1)..n PROVE Extends(args, D, m, v[m - 1], v[m])
    <3>1. CASE m = k
      <4>1. m - 1 = i /\ v[m] = y
        BY <2>1, <2>3, <3>1
      <4> QED  BY <1>2, <2>3, <3>1, <4>1
    <3>2. CASE m # k
      <4>1. m \in (k + 1)..n /\ v[m - 1] = w[m - 1] /\ v[m] = w[m]
        BY <2>3, <3>2
      <4> QED  BY <2>1, <4>1
    <3> QED  BY <3>1, <3>2
  <2> QED  BY <2>3, <2>4 DEF GoesOn
<1> QED  BY <1>1, <1>2

\* The derivations of each of args are in D.
Derives(args, D) == IsSeq(args) /\ \A i \in 1..Len(args) : AllDer(D[args[i]])

LEMMA WithArgumentFacts ==
  ASSUME NEW i \in Nat, NEW l, IsList(l, i), NEW d, IsDer(d), NEW x, x = WithArgument(l, d), NEW q \in Dec
  PROVE  IsList(x, i + 1) /\ IsList(OnList(q, l), i) /\ WithArgument(OnList(q, l), d) = OnList(q, x)
<1>1. IsSeq(x.cats) /\ Len(x.cats) = i + 1
  BY AppendList, ListFacts DEF IsList, WithArgument
<1>2. PICK s \in Dec, t \in Dec : s = l.dec /\ t = d.dec
  BY DEF IsList, IsDer
<1>3. x.dec = s \o t /\ s \o t \in Dec /\ q \o s \in Dec
  BY <1>2, DecFacts DEF WithArgument
<1>4. (q \o s) \o t = q \o (s \o t)
  <2>1. \A u \in Dec : (q \o s) \o u = q \o (s \o u)
    BY DecFacts
  <2> QED  BY <2>1
<1>5. IsList(x, i + 1)
  BY <1>1, <1>3 DEF IsList, WithArgument
<1>6. IsList(OnList(q, l), i)
  BY <1>2, <1>3 DEF IsList, OnList
<1> QED  BY <1>2, <1>3, <1>4, <1>5, <1>6 DEF OnList, WithArgument

\* The derivations in D as arguments.
LEMMA ArgumentDer ==
  ASSUME LzrOk, NEW args, NEW D, Derives(args, D), NEW i \in 1..Len(args),
         NEW d \in AsArgument(D[args[i]])
  PROVE  IsDer(d)
<1>1. PICK x \in D[args[i]] : d \in Ready(x)
  BY ReadyUnion
<1>2. IsDer(x)
  BY DEF Derives, AllDer
<1> QED  BY <1>1, <1>2, ReadyFacts DEF AllDer

LEMMA ExtendsFacts ==
  ASSUME LzrOk, NEW args, NEW D, Derives(args, D), NEW i \in Nat, i + 1 <= Len(args),
         NEW y, IsList(y, i), NEW x
  PROVE  /\ Extends(args, D, i + 1, y, x) => IsList(x, i + 1)
         /\ \A q \in Dec : Extends(args, D, i + 1, OnList(q, y), x) <=>
                             \E z : Extends(args, D, i + 1, y, z) /\ x = OnList(q, z)
<1>1. PICK n \in Nat : n = Len(args)
  BY ListFacts DEF Derives
<1>2. PICK j \in 1..Len(args) : j = i + 1
  BY <1>1
<1>3. \A d \in AsArgument(D[args[j]]) : IsDer(d)
  BY ArgumentDer
<1>4. ASSUME NEW d \in AsArgument(D[args[j]]), NEW q \in Dec
      PROVE  IsList(WithArgument(y, d), i + 1) /\ WithArgument(OnList(q, y), d) = OnList(q, WithArgument(y, d))
  BY <1>3, WithArgumentFacts
<1>5. Extends(args, D, j, y, x) => IsList(x, i + 1)
  <2>1. <<>> \in Dec
    BY DEF Dec
  <2> QED  BY <1>4, <2>1 DEF Extends
<1>6. ASSUME NEW q \in Dec
      PROVE  Extends(args, D, j, OnList(q, y), x) <=> \E z : Extends(args, D, j, y, z) /\ x = OnList(q, z)
  BY <1>4 DEF Extends
<1> QED  BY <1>2, <1>5, <1>6

LEMMA GoesTyped ==
  ASSUME LzrOk, NEW args, NEW D, Derives(args, D), NEW i \in Nat, NEW l, IsList(l, i),
         NEW j \in Nat, i <= j, j <= Len(args), NEW x, GoesOn(args, D, l, i, j, x)
  PROVE  IsList(x, j)
<1>1. PICK n \in Nat : n = Len(args)
  BY ListFacts DEF Derives
<1>2. PICK w : /\ w[i] = l /\ w[j] = x
               /\ \A k \in (i + 1)..j : Extends(args, D, k, w[k - 1], w[k])
  BY DEF GoesOn
<1>3. PICK m \in Nat : j = i + m
  <2>1. j - i \in Nat /\ j = i + (j - i)
    OBVIOUS
  <2> QED  BY <2>1
<1> DEFINE T == {k \in Nat : IsList(w[i + k], i + k)}
<1>4. 0 \in T
  BY <1>2
<1>5. ASSUME NEW k \in 0..(m - 1), k \in T PROVE k + 1 \in T
  <2>1. PICK p \in Nat : p = i + k /\ p + 1 \in (i + 1)..j /\ p + 1 <= Len(args) /\ p + 1 = i + (k + 1)
    BY <1>1, <1>3
  <2>2. Extends(args, D, p + 1, w[p], w[p + 1])
    <3>1. (p + 1) - 1 = p
      OBVIOUS
    <3> QED  BY <1>2, <2>1, <3>1
  <2>3. IsList(w[p], p)
    BY <1>5, <2>1
  <2>4. IsList(w[p + 1], p + 1)
    BY <2>1, <2>2, <2>3, ExtendsFacts
  <2>5. k + 1 \in Nat
    OBVIOUS
  <2> QED  BY <2>1, <2>4, <2>5
<1> HIDE DEF T
<1>6. \A k \in 0..m : k \in T
  BY <1>4, <1>5, InductionUpTo
<1>7. m \in T
  BY <1>6
<1> QED  BY <1>2, <1>3, <1>7 DEF T

LEMMA GoesOnto ==
  ASSUME LzrOk, NEW args, NEW D, Derives(args, D), NEW i \in Nat, NEW l, IsList(l, i),
         NEW n \in Nat, i <= n, n <= Len(args), NEW q \in Dec, NEW x
  PROVE  GoesOn(args, D, OnList(q, l), i, n, x) <=> \E y : GoesOn(args, D, l, i, n, y) /\ x = OnList(q, y)
<1>0. PICK a \in Nat : a = Len(args)
  BY ListFacts DEF Derives
<1>1. PICK m \in Nat : n = i + m
  <2>1. n - i \in Nat /\ n = i + (n - i)
    OBVIOUS
  <2> QED  BY <2>1
<1>2. PICK p : p = OnList(q, l)
  OBVIOUS
<1> DEFINE T == {k \in Nat : \A z : GoesOn(args, D, p, i, i + k, z) <=>
                                      \E y : GoesOn(args, D, l, i, i + k, y) /\ z = OnList(q, y)}
<1>3. 0 \in T
  <2>1. i + 0 = i
    OBVIOUS
  <2>2. \A z : (GoesOn(args, D, p, i, i, z) <=> z = p) /\ (GoesOn(args, D, l, i, i, z) <=> z = l)
    BY GoesNowhere
  <2> QED  BY <1>2, <2>1, <2>2
<1>4. ASSUME NEW k \in 0..(m - 1), k \in T PROVE k + 1 \in T
  <2>1. PICK j \in Nat : j = i + k /\ j + 1 <= Len(args) /\ j <= Len(args) /\ i <= j /\ j + 1 = i + (k + 1)
    BY <1>0, <1>1
  <2>2. \A z : GoesOn(args, D, p, i, j, z) <=> \E y : GoesOn(args, D, l, i, j, y) /\ z = OnList(q, y)
    BY <1>4, <2>1
  <2>3. ASSUME NEW z PROVE GoesOn(args, D, p, i, j + 1, z) <=>
                             \E y : GoesOn(args, D, p, i, j, y) /\ Extends(args, D, j + 1, y, z)
    BY <2>1, GoesLast
  <2>4. ASSUME NEW z PROVE GoesOn(args, D, l, i, j + 1, z) <=>
                             \E y : GoesOn(args, D, l, i, j, y) /\ Extends(args, D, j + 1, y, z)
    BY <2>1, GoesLast
  <2>5. ASSUME NEW y, GoesOn(args, D, l, i, j, y), NEW z
        PROVE  Extends(args, D, j + 1, OnList(q, y), z) <=>
                 \E u : Extends(args, D, j + 1, y, u) /\ z = OnList(q, u)
    <3>1. IsList(y, j)
      BY <2>1, <2>5, GoesTyped
    <3> QED  BY <2>1, <3>1, ExtendsFacts
  <2>6. ASSUME NEW z, GoesOn(args, D, p, i, j + 1, z)
        PROVE  \E y : GoesOn(args, D, l, i, j + 1, y) /\ z = OnList(q, y)
    <3>1. PICK u : GoesOn(args, D, p, i, j, u) /\ Extends(args, D, j + 1, u, z)
      BY <2>3, <2>6
    <3>2. PICK y : GoesOn(args, D, l, i, j, y) /\ u = OnList(q, y)
      BY <2>2, <3>1
    <3>3. PICK v : Extends(args, D, j + 1, y, v) /\ z = OnList(q, v)
      BY <2>5, <3>1, <3>2
    <3> QED  BY <2>4, <3>2, <3>3
  <2>7. ASSUME NEW z, NEW y, GoesOn(args, D, l, i, j + 1, y), z = OnList(q, y)
        PROVE  GoesOn(args, D, p, i, j + 1, z)
    <3>1. PICK u : GoesOn(args, D, l, i, j, u) /\ Extends(args, D, j + 1, u, y)
      BY <2>4, <2>7
    <3>2. Extends(args, D, j + 1, OnList(q, u), z)
      BY <2>5, <2>7, <3>1
    <3>3. GoesOn(args, D, p, i, j, OnList(q, u))
      BY <2>2, <3>1
    <3> QED  BY <2>3, <3>2, <3>3
  <2>8. k + 1 \in Nat
    OBVIOUS
  <2> QED  BY <2>1, <2>6, <2>7, <2>8
<1> HIDE DEF T
<1>5. \A k \in 0..m : k \in T
  BY <1>3, <1>4, InductionUpTo
<1>6. m \in T
  BY <1>5
<1> QED  BY <1>1, <1>2, <1>6 DEF T

\* The lists of the reference.
LEMMA ArgumentsAre ==
  ASSUME NEW e, IsSeq(e.args), NEW D
  PROVE  \A j \in 0..Len(e.args) : \A x : x \in Arguments(e, D)[j] <=> GoesOn(e.args, D, NoArguments, 0, j, x)
<1>0. PICK n \in Nat : n = Len(e.args)
  BY ListFacts
<1> DEFINE T == {j \in Nat : \A x : x \in Arguments(e, D)[j] <=> GoesOn(e.args, D, NoArguments, 0, j, x)}
<1>1. 0 \in T
  <2>1. Arguments(e, D)[0] = {NoArguments}
    BY ArgumentsRec
  <2>2. \A x : GoesOn(e.args, D, NoArguments, 0, 0, x) <=> x = NoArguments
    BY GoesNowhere
  <2> QED  BY <2>1, <2>2
<1>2. ASSUME NEW j \in 0..(n - 1), j \in T PROVE j + 1 \in T
  <2>1. PICK i \in 1..Len(e.args) : i = j + 1 /\ i - 1 = j /\ i \in Nat /\ j \in Nat /\ 0 <= j
    BY <1>0
  <2>2. PICK S : S = AsArgument(D[e.args[i]])
    OBVIOUS
  <2>3. Arguments(e, D)[i] = UNION {{WithArgument(x, d) : d \in S} : x \in Arguments(e, D)[j]}
    BY <2>1, <2>2, ArgumentsRec
  <2>4. ASSUME NEW x PROVE GoesOn(e.args, D, NoArguments, 0, i, x) <=>
                             \E y : GoesOn(e.args, D, NoArguments, 0, j, y) /\ Extends(e.args, D, i, y, x)
    BY <2>1, GoesLast
  <2>5. PICK A : A = Arguments(e, D)[j]
    OBVIOUS
  <2>6. \A x : x \in Arguments(e, D)[i] <=> \E y : y \in A /\ Extends(e.args, D, i, y, x)
    BY <2>2, <2>3, <2>5 DEF Extends
  <2>7. \A y : y \in A <=> GoesOn(e.args, D, NoArguments, 0, j, y)
    BY <1>2, <2>5
  <2> QED  BY <2>1, <2>4, <2>6, <2>7
<1> HIDE DEF T
<1>3. \A j \in 0..n : j \in T
  BY <1>1, <1>2, InductionUpTo
<1> QED  BY <1>0, <1>3 DEF T

-----------------------------------------------------------------------------
(* The derivations of the parts of the tree *)

\* With production j of entries.
Chosen(entries, q, trees, j) ==
  [dec |-> Append(q, j), cat |-> entries[j].cat,
   tree |-> [fun |-> entries[j].prod.cnc, args |-> trees]]

LEMMA AppliedIn ==
  ASSUME LzrOk, NEW f, NEW l
  PROVE  /\ Len(InferEntries(f, l.cats)) \in Nat
         /\ \A d : d \in Applied(f, l) <=>
              \E j \in 1..Len(InferEntries(f, l.cats)) : d = Chosen(InferEntries(f, l.cats), l.dec, l.trees, j)
<1>1. PICK entries : entries = InferEntries(f, l.cats)
  OBVIOUS
<1>2. Len(entries) \in Nat /\ DOMAIN entries = 1..Len(entries)
  BY <1>1, IndexLists, ListFacts
<1> QED  BY <1>1, <1>2 DEF Applied, Chosen

\* The derivation d goes on from the decisions q.
From(q, d) == IsDer(d) /\ \E s \in Dec : d.dec = q \o s

LEMMA FromFacts ==
  ASSUME NEW q \in Dec, NEW d, From(q, d), NEW e, From(d.dec, e)
  PROVE  From(q, e)
<1>1. PICK s \in Dec : d.dec = q \o s
  BY DEF From
<1>2. PICK t \in Dec : e.dec = d.dec \o t
  BY DEF From
<1>3. (q \o s) \o t = q \o (s \o t) /\ s \o t \in Dec
  <2>1. \A u \in Dec : (q \o s) \o u = q \o (s \o u)
    BY DecFacts
  <2>2. s \o t \in Dec
    BY DecFacts
  <2> QED  BY <2>1, <2>2
<1> QED  BY <1>1, <1>2, <1>3 DEF From

LEMMA AppliedFacts ==
  ASSUME LzrOk, NEW i, NEW l, IsList(l, i), NEW f, NEW q \in Dec, NEW d
  PROVE  /\ d \in Applied(f, l) => From(l.dec, d)
         /\ d \in Applied(f, OnList(q, l)) <=> \E y \in Applied(f, l) : d = OnDer(q, y)
<1>1. PICK entries : entries = InferEntries(f, l.cats)
  OBVIOUS
<1>9. PICK n \in Nat : n = Len(entries)
  BY <1>1, AppliedIn
<1>10. PICK s \in Dec : s = l.dec
  BY DEF IsList
<1>12. PICK trees : trees = l.trees
  OBVIOUS
<1>2. \A z : z \in Applied(f, l) <=> \E j \in 1..n : z = Chosen(entries, s, trees, j)
  <2>1. \A z : z \in Applied(f, l) <=>
              \E j \in 1..Len(InferEntries(f, l.cats)) : z = Chosen(InferEntries(f, l.cats), l.dec, l.trees, j)
    BY AppliedIn
  <2> QED  BY <1>1, <1>9, <1>10, <1>12, <2>1
<1>3. PICK p : p = OnList(q, l)
  OBVIOUS
<1>11. p.dec = q \o s /\ p.cats = l.cats /\ p.trees = trees
  BY <1>3, <1>10, <1>12 DEF OnList
<1>4. \A z : z \in Applied(f, p) <=> \E j \in 1..n : z = Chosen(entries, q \o s, trees, j)
  <2>1. entries = InferEntries(f, p.cats)
    BY <1>1, <1>11
  <2>2. \A z : z \in Applied(f, p) <=>
              \E j \in 1..Len(InferEntries(f, p.cats)) : z = Chosen(InferEntries(f, p.cats), p.dec, p.trees, j)
    BY AppliedIn
  <2> QED  BY <2>1, <1>9, <1>11, <2>2
<1>5. ASSUME NEW j \in 1..n PROVE Append(s, j) \in Dec /\ Append(q \o s, j) = q \o Append(s, j)
  <2>1. j \in Nat \ {0}
    OBVIOUS
  <2> QED  BY <2>1, DecAppend
<1>6. ASSUME NEW j \in 1..n PROVE <<j>> \in Dec /\ Append(s, j) = s \o <<j>>
  BY DEF Dec
<1>7. ASSUME d \in Applied(f, l) PROVE From(s, d)
  <2>1. PICK j \in 1..n : d = Chosen(entries, s, trees, j)
    BY <1>2, <1>7
  <2>2. d.dec \in Dec /\ d = [dec |-> d.dec, cat |-> d.cat, tree |-> d.tree]
    BY <1>5, <2>1 DEF Chosen
  <2>3. <<j>> \in Dec /\ d.dec = s \o <<j>>
    BY <1>6, <2>1 DEF Chosen
  <2> QED  BY <2>2, <2>3 DEF From, IsDer
<1>8. d \in Applied(f, p) <=> \E y \in Applied(f, l) : d = OnDer(q, y)
  <2>1. ASSUME NEW j \in 1..n PROVE OnDer(q, Chosen(entries, s, trees, j)) = Chosen(entries, q \o s, trees, j)
    BY <1>5 DEF OnDer, Chosen
  <2> QED  BY <1>2, <1>4, <2>1
<1> QED  BY <1>10, <1>3, <1>7, <1>8

LEMMA DerivedIn ==
  ASSUME LzrOk, NEW e, IsSeq(e.args), NEW D
  PROVE  /\ e.fun = Literal => Derived(e, D) = {[dec |-> <<>>, cat |-> LitCat, tree |-> e]}
         /\ e.fun # Literal /\ ~HasFun(e.fun) => Derived(e, D) = {}
         /\ e.fun # Literal /\ HasFun(e.fun) =>
              \A d : d \in Derived(e, D) <=>
                       \E m : GoesOn(e.args, D, NoArguments, 0, Len(e.args), m) /\ d \in Applied(e.fun, m)
<1>1. PICK n \in Nat : n = Len(e.args)
  BY ListFacts
<1>2. PICK A : A = Arguments(e, D)[n]
  OBVIOUS
<1>3. \A x : x \in A <=> GoesOn(e.args, D, NoArguments, 0, n, x)
  <2>1. n \in 0..Len(e.args)
    BY <1>1
  <2> QED  BY <1>2, <2>1, ArgumentsAre
<1>4. e.fun # Literal /\ HasFun(e.fun) => Derived(e, D) = UNION {Applied(e.fun, l) : l \in A}
  BY <1>1, <1>2 DEF Derived
<1>5. e.fun # Literal /\ HasFun(e.fun) =>
        \A d : d \in Derived(e, D) <=> \E m : m \in A /\ d \in Applied(e.fun, m)
  BY <1>4
<1>6. e.fun = Literal => Derived(e, D) = {[dec |-> <<>>, cat |-> LitCat, tree |-> e]}
  BY DEF Derived
<1>7. e.fun # Literal /\ ~HasFun(e.fun) => Derived(e, D) = {}
  BY DEF Derived
<1> QED  BY <1>1, <1>3, <1>5, <1>6, <1>7

LEMMA NoArgumentsIs == IsList(NoArguments, 0) /\ <<>> \in Dec
<1>1. <<>> \in Dec /\ IsSeq(<<>>) /\ Len(<<>>) = 0
  BY DEF Dec, IsSeq
<1> QED  BY <1>1 DEF NoArguments, IsList

LEMMA DerivedTyped ==
  ASSUME LzrOk
  PROVE  \A k \in 0..MaxHeight : \A t \in Level(k) :
           Derives(t.args, DerivedAt(k + 1)) /\ AllDer(DerivedAt(k)[t])
<1>0. MaxHeight \in Nat
  BY LevelFacts DEF LzrOk
<1> DEFINE Der(k) == \A t \in Level(k) : AllDer(DerivedAt(k)[t])
<1>1. ASSUME NEW k \in 0..MaxHeight, Der(k + 1), NEW t \in Level(k)
      PROVE  Derives(t.args, DerivedAt(k + 1))
  <2>1. k \in 0..(MaxHeight + 1)
    BY <1>0
  <2>2. IsSeq(t.args) /\ \A i \in 1..Len(t.args) : t.args[i] \in Level(k + 1)
    BY <2>1, LevelFacts DEF LzrOk
  <2> QED  BY <1>1, <2>2 DEF Derives
<1>2. ASSUME NEW k \in 0..MaxHeight, Der(k + 1) PROVE Der(k)
  <2> SUFFICES ASSUME NEW t \in Level(k), NEW d \in DerivedAt(k)[t] PROVE IsDer(d)
    BY DEF AllDer
  <2>1. PICK D : D = DerivedAt(k + 1)
    OBVIOUS
  <2>2. Derives(t.args, D) /\ IsSeq(t.args)
    BY <1>1, <1>2, <2>1 DEF Derives
  <2>3. d \in Derived(t, D)
    BY <2>1, DerivedRec
  <2>4. CASE t.fun = Literal
    BY <2>2, <2>3, <2>4, DerivedIn, NoArgumentsIs DEF IsDer
  <2>5. CASE t.fun # Literal
    <3>1. PICK m : GoesOn(t.args, D, NoArguments, 0, Len(t.args), m) /\ d \in Applied(t.fun, m)
      BY <2>2, <2>3, <2>5, DerivedIn
    <3>2. PICK n \in Nat : n = Len(t.args)
      BY <2>2, ListFacts
    <3>3. IsList(m, n)
      BY <2>2, <3>1, <3>2, GoesTyped, NoArgumentsIs
    <3> QED  BY <3>1, <3>3, NoArgumentsIs, AppliedFacts DEF From
  <2> QED  BY <2>4, <2>5
<1> DEFINE T == {j \in Nat : Der(MaxHeight + 1 - j)}
<1>3. 0 \in T
  <2>1. Level(MaxHeight + 1 - 0) = {}
    BY <1>0, LevelFacts DEF LzrOk
  <2> QED  BY <2>1
<1> HIDE DEF Der
<1>4. ASSUME NEW j \in 0..((MaxHeight + 1) - 1), j \in T PROVE j + 1 \in T
  <2>1. PICK k \in 0..MaxHeight : k = MaxHeight + 1 - (j + 1) /\ k + 1 = MaxHeight + 1 - j
    BY <1>0
  <2>2. Der(k)
    BY <1>2, <1>4, <2>1
  <2> QED  BY <2>1, <2>2
<1> HIDE DEF T
<1>5. \A j \in 0..(MaxHeight + 1) : j \in T
  <2>1. MaxHeight + 1 \in Nat
    BY <1>0
  <2> QED  BY <1>3, <1>4, <2>1, InductionUpTo
<1>6. ASSUME NEW k \in 0..MaxHeight PROVE Der(k + 1)
  <2>1. MaxHeight - k \in 0..(MaxHeight + 1) /\ MaxHeight + 1 - (MaxHeight - k) = k + 1
    BY <1>0
  <2>2. MaxHeight - k \in T
    BY <1>5, <2>1
  <2> QED  BY <2>1, <2>2 DEF T
<1>7. ASSUME NEW k \in 0..MaxHeight, NEW t \in Level(k) PROVE AllDer(DerivedAt(k)[t])
  <2>1. Der(k)
    BY <1>2, <1>6
  <2> QED  BY <2>1 DEF Der
<1> QED  BY <1>1, <1>6, <1>7

-----------------------------------------------------------------------------
(* The derivations that a configuration can still come to *)

\* The list l, of the first i arguments, leads to r.
Applies(fun, args, D, l, i, r) ==
  \E m : GoesOn(args, D, l, i, Len(args), m) /\ r \in Applied(fun, m)

Taken(f, x) ==
  [dec |-> x.dec, cats |-> Append(f.cats, x.cat), trees |-> Append(f.trees, x.tree)]

\* The derivation d of the argument that frame f is at leads to r.
Tells(f, D, d, r) ==
  \E x \in Ready(d) : Applies(f.fun, f.args, D, Taken(f, x), Len(f.cats) + 1, r)

\* Told to frame x, it leads to r at the bottom.
Ends(c, x, d, r) ==
  \E w : /\ w[x] = d /\ w[0] = r
         /\ \A y \in 1..x : Tells(c.st[y], DerivedAt(y), w[y], w[y - 1])

Got(q, g) == [dec |-> q, cat |-> g.cat, tree |-> g.tree]

ListOf(q, f) == [dec |-> q, cats |-> f.cats, trees |-> f.trees]

ViaInfer(c, f, q, r) == \E d \in DerivedAt(c.n - 1)[f.expr] : Ends(c, c.n - 1, OnDer(q, d), r)

ViaArgs(c, f, q, r) ==
  \E d : /\ Applies(f.fun, f.args, DerivedAt(c.n), ListOf(q, f), Len(f.cats), d)
         /\ Ends(c, c.n - 1, d, r)

ViaSuper(c, f, q, r) == Ends(c, c.n, Got(q, f.got), r)

\* The derivation r is among them, after the decisions q.
Via(c, q, r) ==
  \/ c.n = 0 /\ r = Got(q, c.got)
  \/ c.n > 0 /\ c.st[c.n].k = "infer" /\ ViaInfer(c, c.st[c.n], q, r)
  \/ c.n > 0 /\ c.st[c.n].k = "args" /\ ViaArgs(c, c.st[c.n], q, r)
  \/ c.n > 0 /\ c.st[c.n].k = "super" /\ ViaSuper(c, c.st[c.n], q, r)

LEMMA EndsRoot ==
  ASSUME NEW c, NEW d, NEW r
  PROVE  Ends(c, 0, d, r) <=> r = d
<1>1. ASSUME r = d PROVE Ends(c, 0, d, r)
  <2>1. PICK w : w = [k \in {0} |-> d]
    OBVIOUS
  <2>2. w[0] = d /\ \A y \in 1..0 : Tells(c.st[y], DerivedAt(y), w[y], w[y - 1])
    BY <2>1
  <2> QED  BY <1>1, <2>2 DEF Ends
<1> QED  BY <1>1 DEF Ends

LEMMA EndsNext ==
  ASSUME NEW c, NEW x \in Nat, NEW k, k = x + 1, NEW d, NEW r
  PROVE  Ends(c, k, d, r) <=> \E e : Tells(c.st[k], DerivedAt(k), d, e) /\ Ends(c, x, e, r)
<1>1. ASSUME Ends(c, k, d, r)
      PROVE  \E e : Tells(c.st[k], DerivedAt(k), d, e) /\ Ends(c, x, e, r)
  <2>1. PICK w : /\ w[k] = d /\ w[0] = r
                 /\ \A y \in 1..k : Tells(c.st[y], DerivedAt(y), w[y], w[y - 1])
    BY <1>1 DEF Ends
  <2>2. Tells(c.st[k], DerivedAt(k), d, w[x])
    <3>1. k \in 1..k /\ k - 1 = x
      OBVIOUS
    <3>2. Tells(c.st[k], DerivedAt(k), w[k], w[k - 1])
      BY <2>1, <3>1
    <3> QED  BY <2>1, <3>1, <3>2
  <2>3. \A y \in 1..x : Tells(c.st[y], DerivedAt(y), w[y], w[y - 1])
    <3>1. \A y \in 1..x : y \in 1..k
      OBVIOUS
    <3> QED  BY <2>1, <3>1
  <2>4. Ends(c, x, w[x], r)
    BY <2>1, <2>3 DEF Ends
  <2> QED  BY <2>2, <2>4
<1>2. ASSUME NEW e, Tells(c.st[k], DerivedAt(k), d, e), Ends(c, x, e, r)
      PROVE  Ends(c, k, d, r)
  <2>1. PICK w : /\ w[x] = e /\ w[0] = r
                 /\ \A y \in 1..x : Tells(c.st[y], DerivedAt(y), w[y], w[y - 1])
    BY <1>2 DEF Ends
  <2>2. PICK v : v = [y \in 0..k |-> IF y = k THEN d ELSE w[y]]
    OBVIOUS
  <2>3. v[k] = d /\ v[0] = r /\ \A y \in 0..x : v[y] = w[y]
    BY <2>1, <2>2
  <2>4. ASSUME NEW y \in 1..k PROVE Tells(c.st[y], DerivedAt(y), v[y], v[y - 1])
    <3>1. CASE y = k
      <4>1. y - 1 = x /\ v[x] = e
        BY <2>1, <2>3, <3>1
      <4> QED  BY <1>2, <2>3, <3>1, <4>1
    <3>2. CASE y # k
      <4>1. y \in 1..x /\ v[y - 1] = w[y - 1] /\ v[y] = w[y]
        BY <2>3, <3>2
      <4> QED  BY <2>1, <4>1
    <3> QED  BY <3>1, <3>2
  <2> QED  BY <2>3, <2>4 DEF Ends
<1> QED  BY <1>1, <1>2

\* The same application, with the same arguments.
SameArgs(f, g) == f.fun = g.fun /\ f.args = g.args /\ f.cats = g.cats /\ f.trees = g.trees

LEMMA SameTells ==
  ASSUME NEW f, NEW g, SameArgs(f, g), NEW D, NEW d, NEW r
  PROVE  Tells(f, D, d, r) <=> Tells(g, D, d, r)
<1>1. \A x : Taken(f, x) = Taken(g, x)
  BY DEF SameArgs, Taken
<1> QED  BY <1>1, Zenon DEF SameArgs, Tells

LEMMA SameEnds ==
  ASSUME NEW c, NEW e, NEW x \in Nat, \A y \in 1..x : SameArgs(c.st[y], e.st[y]), NEW d, NEW r
  PROVE  Ends(c, x, d, r) <=> Ends(e, x, d, r)
<1>1. \A y \in 1..x : \A D, a, b : Tells(c.st[y], D, a, b) <=> Tells(e.st[y], D, a, b)
  BY SameTells, Zenon
<1> QED  BY <1>1 DEF Ends

LEMMA SelfFrom ==
  ASSUME NEW d, IsDer(d)
  PROVE  From(d.dec, d)
<1>1. PICK q \in Dec : q = d.dec
  BY DEF IsDer
<1>2. <<>> \in Dec /\ q \o <<>> = q
  BY DecFacts
<1> QED  BY <1>1, <1>2 DEF From

LEMMA OnDerFrom ==
  ASSUME NEW q \in Dec, NEW d, IsDer(d)
  PROVE  From(q, OnDer(q, d))
<1>1. IsDer(OnDer(q, d)) /\ OnDer(q, d).dec = q \o d.dec /\ d.dec \in Dec
  BY OnDerFacts DEF IsDer
<1> QED  BY <1>1 DEF From

LEMMA ReadyFrom ==
  ASSUME LzrOk, NEW d, IsDer(d), NEW x \in Ready(d)
  PROVE  From(d.dec, x)
<1>1. PICK q \in Dec : q = d.dec
  BY DEF IsDer
<1>2. PICK b : b = [dec |-> <<>>, cat |-> d.cat, tree |-> d.tree]
  OBVIOUS
<1>3. IsDer(b)
  BY <1>2, NoArgumentsIs DEF IsDer
<1>4. d = OnDer(q, b)
  <2>1. q \o <<>> = q
    BY DecFacts
  <2>2. OnDer(q, b) = [dec |-> q, cat |-> d.cat, tree |-> d.tree]
    BY <1>2, <2>1 DEF OnDer
  <2> QED  BY <1>1, <2>2 DEF IsDer
<1>5. PICK y \in Ready(b) : x = OnDer(q, y)
  BY <1>3, <1>4, ReadyFacts
<1>6. IsDer(y)
  BY <1>3, ReadyFacts DEF AllDer
<1> QED  BY <1>1, <1>5, <1>6, OnDerFrom

LEMMA AppliesFrom ==
  ASSUME LzrOk, NEW args, NEW D, Derives(args, D), NEW i \in Nat, i <= Len(args), NEW l, IsList(l, i),
         NEW fun, NEW r, Applies(fun, args, D, l, i, r)
  PROVE  From(l.dec, r)
<1>1. PICK n \in Nat : n = Len(args)
  BY ListFacts DEF Derives
<1>2. PICK q \in Dec : q = l.dec
  BY DEF IsList
<1>3. PICK b : b = [dec |-> <<>>, cats |-> l.cats, trees |-> l.trees]
  OBVIOUS
<1>4. IsList(b, i)
  BY <1>3, NoArgumentsIs DEF IsList
<1>5. l = OnList(q, b)
  <2>1. q \o <<>> = q
    BY DecFacts
  <2>2. OnList(q, b) = [dec |-> q, cats |-> l.cats, trees |-> l.trees]
    BY <1>3, <2>1 DEF OnList
  <2> QED  BY <1>2, <2>2 DEF IsList
<1>6. PICK m : GoesOn(args, D, OnList(q, b), i, n, m) /\ r \in Applied(fun, m)
  BY <1>1, <1>5 DEF Applies
<1>7. PICK y : GoesOn(args, D, b, i, n, y) /\ m = OnList(q, y)
  BY <1>1, <1>4, <1>6, GoesOnto
<1>8. IsList(y, n)
  BY <1>1, <1>4, <1>7, GoesTyped
<1>9. PICK z \in Applied(fun, y) : r = OnDer(q, z)
  BY <1>6, <1>7, <1>8, AppliedFacts
<1>10. IsDer(z)
  BY <1>8, <1>9, AppliedFacts DEF From
<1> QED  BY <1>2, <1>9, <1>10, OnDerFrom

LEMMA TakenIs ==
  ASSUME NEW f, IsSeq(f.cats), NEW x, IsDer(x)
  PROVE  IsList(Taken(f, x), Len(f.cats) + 1) /\ Taken(f, x).dec = x.dec
  BY AppendList DEF IsList, Taken, IsDer

LEMMA TellsFrom ==
  ASSUME LzrOk, NEW f, NEW D, Derives(f.args, D), IsSeq(f.cats), Len(f.cats) < Len(f.args),
         NEW d, IsDer(d), NEW r, Tells(f, D, d, r)
  PROVE  From(d.dec, r)
<1>1. PICK x \in Ready(d) : Applies(f.fun, f.args, D, Taken(f, x), Len(f.cats) + 1, r)
  BY DEF Tells
<1>2. From(d.dec, x) /\ IsDer(x)
  BY ReadyFrom DEF From
<1>3. PICK i \in Nat, n \in Nat : i = Len(f.cats) /\ n = Len(f.args)
  BY ListFacts DEF Derives
<1>4. i + 1 \in Nat /\ i + 1 <= n
  BY <1>3
<1>5. From(Taken(f, x).dec, r)
  BY <1>1, <1>2, <1>3, <1>4, TakenIs, AppliesFrom
<1>6. Taken(f, x).dec = x.dec
  BY DEF Taken
<1> QED  BY <1>2, <1>5, <1>6, FromFacts DEF IsDer

\* Frame x of c is at a part of the tree.
PartAt(c, x) ==
  LET f == c.st[x] IN
  IF f.k = "infer" THEN f.expr \in Level(x - 1)
  ELSE /\ \E t \in Level(x - 1) : f.args = t.args
       /\ Len(f.cats) <= Len(f.args)
       /\ x < c.n \/ f.k = "super" => Len(f.cats) < Len(f.args)

InTree(c) == c.n <= MaxHeight + 1 /\ \A x \in 1..c.n : PartAt(c, x)

LEMMA PartFacts ==
  ASSUME LzrOk, NEW c, GoodConfig(c), InTree(c), NEW x \in 1..c.n, NEW f, f = c.st[x], f.k # "infer"
  PROVE  /\ Derives(f.args, DerivedAt(x)) /\ IsSeq(f.args) /\ IsSeq(f.cats) /\ IsSeq(f.trees)
         /\ Len(f.cats) \in Nat /\ Len(f.args) \in Nat /\ Len(f.cats) <= Len(f.args)
         /\ x < c.n \/ f.k = "super" => Len(f.cats) < Len(f.args)
         /\ \A i \in 1..Len(f.args) : f.args[i] \in Level(x) /\ x \in 0..MaxHeight
         /\ x - 1 \in 0..MaxHeight
<1>0. MaxHeight \in Nat /\ c.n \in Nat
  BY LevelFacts DEF LzrOk, GoodConfig
<1>1. PICK k \in 0..MaxHeight : k = x - 1 /\ x = k + 1
  BY <1>0 DEF InTree
<1>2. PICK t \in Level(k) : f.args = t.args
  BY <1>1 DEF InTree, PartAt
<1>3. k \in 0..(MaxHeight + 1)
  BY <1>0
<1>4. IsSeq(t.args) /\ \A i \in 1..Len(t.args) : t.args[i] \in Level(k + 1) /\ k + 1 \in 0..MaxHeight
  BY <1>3, LevelFacts DEF LzrOk
<1>5. Derives(t.args, DerivedAt(k + 1))
  BY DerivedTyped
<1>6. IsSeq(f.cats) /\ IsSeq(f.trees)
  BY DEF GoodConfig, GoodApp
<1>7. Len(f.cats) \in Nat /\ Len(f.args) \in Nat
  BY <1>2, <1>4, <1>6, ListFacts
<1>8. Len(f.cats) <= Len(f.args) /\ (x < c.n \/ f.k = "super" => Len(f.cats) < Len(f.args))
  BY DEF InTree, PartAt
<1> QED  BY <1>1, <1>2, <1>4, <1>5, <1>6, <1>7, <1>8

LEMMA EndsFrom ==
  ASSUME LzrOk, NEW c, GoodConfig(c), InTree(c), NEW x \in 0..c.n, x = c.n => c.n > 0 /\ c.st[c.n].k = "super",
         NEW d, IsDer(d), NEW r, Ends(c, x, d, r)
  PROVE  From(d.dec, r)
<1>0. c.n \in Nat /\ x \in Nat
  BY DEF GoodConfig
<1> DEFINE T == {k \in Nat : \A e, z : IsDer(e) /\ Ends(c, k, e, z) => From(e.dec, z)}
<1>1. 0 \in T
  BY EndsRoot, SelfFrom
<1>2. ASSUME NEW k \in 0..(x - 1), k \in T PROVE k + 1 \in T
  <2>1. PICK y \in 1..c.n : y = k + 1 /\ (y < c.n \/ c.st[y].k = "super") /\ k \in Nat
    BY <1>0
  <2>2. c.st[y].k # "infer"
    BY <2>1 DEF GoodConfig
  <2>3. /\ Derives(c.st[y].args, DerivedAt(y)) /\ IsSeq(c.st[y].cats)
        /\ Len(c.st[y].cats) < Len(c.st[y].args)
    BY <2>1, <2>2, PartFacts
  <2>4. ASSUME NEW e, NEW z, IsDer(e), Ends(c, y, e, z) PROVE From(e.dec, z)
    <3>1. PICK u : Tells(c.st[y], DerivedAt(y), e, u) /\ Ends(c, k, u, z)
      BY <2>1, <2>4, EndsNext
    <3>2. From(e.dec, u)
      BY <2>3, <2>4, <3>1, TellsFrom
    <3>3. From(u.dec, z)
      BY <1>2, <3>1, <3>2 DEF From
    <3> QED  BY <2>4, <3>2, <3>3, FromFacts DEF IsDer
  <2> QED  BY <2>1, <2>4
<1> HIDE DEF T
<1>3. \A k \in 0..x : k \in T
  BY <1>0, <1>1, <1>2, InductionUpTo
<1>4. x \in T
  BY <1>0, <1>3
<1> QED  BY <1>4 DEF T

LEMMA ViaFrom ==
  ASSUME LzrOk, NEW c, GoodConfig(c), InTree(c), NEW q \in Dec, NEW r, Via(c, q, r)
  PROVE  From(q, r)
<1>0. c.n \in Nat /\ MaxHeight \in Nat
  BY LevelFacts DEF LzrOk, GoodConfig
<1>1. \A g : IsDer(Got(q, g)) /\ Got(q, g).dec = q
  BY DEF Got, IsDer
<1>2. CASE c.n = 0
  <2>1. r = Got(q, c.got)
    BY <1>2 DEF Via
  <2> QED  BY <1>1, <2>1, SelfFrom
<1>3. CASE c.n > 0
  <2>0. PICK n \in 1..c.n : n = c.n /\ n - 1 \in 0..c.n /\ n - 1 # c.n
    BY <1>0, <1>3
  <2>1. PICK f : f = c.st[n]
    OBVIOUS
  <2>2. CASE f.k = "infer"
    <3>1. PICK d \in DerivedAt(n - 1)[f.expr] : Ends(c, n - 1, OnDer(q, d), r)
      BY <1>3, <2>0, <2>1, <2>2 DEF Via, ViaInfer
    <3>2. PICK k \in 0..MaxHeight : k = n - 1
      BY <1>0, <2>0 DEF InTree
    <3>3. IsDer(d)
      <4>1. f.expr \in Level(k)
        BY <2>0, <2>1, <2>2, <3>2 DEF InTree, PartAt
      <4> QED  BY <3>1, <3>2, <4>1, DerivedTyped DEF AllDer
    <3>4. From(q, OnDer(q, d)) /\ IsDer(OnDer(q, d))
      BY <3>3, OnDerFrom, OnDerFacts
    <3>5. From(OnDer(q, d).dec, r)
      BY <2>0, <3>1, <3>4, EndsFrom
    <3> QED  BY <3>4, <3>5, FromFacts
  <2>3. CASE f.k = "args"
    <3>1. PICK d : /\ Applies(f.fun, f.args, DerivedAt(n), ListOf(q, f), Len(f.cats), d)
                   /\ Ends(c, n - 1, d, r)
      BY <1>3, <2>0, <2>1, <2>3 DEF Via, ViaArgs
    <3>2. /\ Derives(f.args, DerivedAt(n)) /\ IsSeq(f.cats)
          /\ Len(f.cats) \in Nat /\ Len(f.cats) <= Len(f.args)
      BY <2>1, <2>3, PartFacts
    <3>3. IsList(ListOf(q, f), Len(f.cats)) /\ ListOf(q, f).dec = q
      BY <3>2 DEF IsList, ListOf
    <3>4. From(q, d)
      BY <3>1, <3>2, <3>3, AppliesFrom
    <3>6. IsDer(d)
      BY <3>4 DEF From
    <3>5. From(d.dec, r)
      BY <2>0, <3>1, <3>6, EndsFrom
    <3> QED  BY <3>4, <3>5, FromFacts
  <2>4. CASE f.k = "super"
    <3>1. Ends(c, n, Got(q, f.got), r)
      BY <1>3, <2>0, <2>1, <2>4 DEF Via, ViaSuper
    <3>2. n \in 0..c.n /\ c.st[c.n].k = "super"
      BY <2>0, <2>1, <2>4
    <3>3. From(Got(q, f.got).dec, r)
      BY <1>1, <1>3, <3>1, <3>2, EndsFrom
    <3> QED  BY <1>1, <3>3
  <2> QED  BY <1>3, <2>0, <2>1, <2>2, <2>3, <2>4 DEF Via
<1> QED  BY <1>0, <1>2, <1>3

-----------------------------------------------------------------------------
(* A step leaves the derivations of the alternative that it takes *)

ViaTold(c, f, q, r) ==
  \E d : Tells(f, DerivedAt(c.n), Got(q, f.got), d) /\ Ends(c, c.n - 1, d, r)

\* It is decided by the top frame.
LEMMA ViaTop ==
  ASSUME NEW c, c.n \in Nat, c.n > 0, NEW f, f = c.st[c.n], NEW q, NEW r
  PROVE  /\ f.k = "infer" => (Via(c, q, r) <=> ViaInfer(c, f, q, r))
         /\ f.k = "args" => (Via(c, q, r) <=> ViaArgs(c, f, q, r))
         /\ f.k = "super" => (Via(c, q, r) <=> ViaTold(c, f, q, r))
<1>1. PICK x \in Nat : c.n = x + 1 /\ x = c.n - 1
  <2>1. c.n - 1 \in Nat /\ c.n = (c.n - 1) + 1
    OBVIOUS
  <2> QED  BY <2>1
<1>2. ViaSuper(c, f, q, r) <=> ViaTold(c, f, q, r)
  <2>1. PICK g : g = Got(q, f.got)
    OBVIOUS
  <2>2. Ends(c, c.n, g, r) <=> \E e : Tells(c.st[c.n], DerivedAt(c.n), g, e) /\ Ends(c, x, e, r)
    BY <1>1, EndsNext
  <2> QED  BY <1>1, <2>1, <2>2 DEF ViaSuper, ViaTold
<1>3. c.n # 0
  OBVIOUS
<1> QED  BY <1>2, <1>3 DEF Via

\* And what is under it.
LEMMA ViaBelow ==
  ASSUME NEW c, c.n \in Nat, c.n > 0, NEW e, e.n = c.n, \A y \in 1..(c.n - 1) : e.st[y] = c.st[y],
         NEW f, NEW q, NEW r
  PROVE  /\ ViaArgs(e, f, q, r) <=> ViaArgs(c, f, q, r)
         /\ ViaTold(e, f, q, r) <=> ViaTold(c, f, q, r)
<1>1. PICK x \in Nat : x = c.n - 1
  OBVIOUS
<1>2. \A y \in 1..x : SameArgs(e.st[y], c.st[y])
  BY <1>1 DEF SameArgs
<1>3. \A d : Ends(e, x, d, r) <=> Ends(c, x, d, r)
  BY <1>2, SameEnds
<1> QED  BY <1>1, <1>3 DEF ViaArgs, ViaTold

LEMMA ViaPut ==
  ASSUME NEW c, GoodConfig(c), c.n > 0, NEW f, NEW i, NEW e, e = Put(c, f, i), NEW q, NEW r
  PROVE  /\ f.k = "args" => (Via(e, q, r) <=> ViaArgs(c, f, q, r))
         /\ f.k = "super" => (Via(e, q, r) <=> ViaTold(c, f, q, r))
<1>1. PICK n \in Nat : n = c.n /\ n \in 1..n
  BY DEF GoodConfig
<1>2. e.n = n /\ e.st[n] = f /\ \A y \in 1..(n - 1) : e.st[y] = c.st[y]
  BY <1>1 DEF Put
<1>3. /\ ViaArgs(e, f, q, r) <=> ViaArgs(c, f, q, r)
      /\ ViaTold(e, f, q, r) <=> ViaTold(c, f, q, r)
  BY <1>1, <1>2, ViaBelow
<1>4. /\ f.k = "args" => (Via(e, q, r) <=> ViaArgs(e, f, q, r))
      /\ f.k = "super" => (Via(e, q, r) <=> ViaTold(e, f, q, r))
  BY <1>1, <1>2, ViaTop
<1> QED  BY <1>3, <1>4

LEMMA ToldFacts ==
  ASSUME NEW f, IsFrame(f), NEW r
  PROVE  Told(f, r).k = "super" /\ Told(f, r).got = r /\ SameArgs(Told(f, r), f)
<1>1. PICK g : g = Told(f, r)
  OBVIOUS
<1>2. g = [k |-> "super", fun |-> f.fun, args |-> f.args, got |-> r,
           marks |-> f.marks, cats |-> f.cats, trees |-> f.trees]
  BY <1>1 DEF Told, IsFrame
<1> QED  BY <1>1, <1>2 DEF SameArgs

LEMMA ViaReturned ==
  ASSUME NEW c, GoodConfig(c), c.n > 0, NEW g, NEW i, NEW e, e = Returned(c, g, i), NEW q, NEW r
  PROVE  Via(e, q, r) <=> Ends(c, c.n - 1, Got(q, g), r)
<1>1. PICK n \in Nat : n = c.n
  BY DEF GoodConfig
<1>2. PICK m \in Nat : m = n - 1
  BY <1>1
<1>3. e.n = m /\ (n = 1 => e.got = g) /\ \A y \in 1..m : e.st[y] = IF y = m THEN Told(c.st[y], g) ELSE c.st[y]
  BY <1>1, <1>2 DEF Returned
<1>4. CASE m = 0
  <2>1. Via(e, q, r) <=> r = Got(q, g)
    BY <1>2, <1>3, <1>4 DEF Via
  <2>2. Ends(c, 0, Got(q, g), r) <=> r = Got(q, g)
    BY EndsRoot
  <2> QED  BY <1>1, <1>2, <1>4, <2>1, <2>2
<1>5. CASE m > 0
  <2>1. IsFrame(c.st[m])
    <3>1. m \in 1..c.n /\ m < c.n
      BY <1>1, <1>2, <1>5
    <3>2. c.st[m].k = "args"
      BY <3>1 DEF GoodConfig
    <3>3. GoodApp(c.st[m], c.idx)
      BY <3>1, <3>2 DEF GoodConfig
    <3> QED  BY <3>3 DEF GoodApp, IsFrame
  <2>2. e.st[m].k = "super" /\ e.st[m].got = g /\ SameArgs(e.st[m], c.st[m])
    <3>1. e.st[m] = Told(c.st[m], g)
      BY <1>3, <1>5
    <3> QED  BY <2>1, <3>1, ToldFacts
  <2>3. \A y \in 1..m : SameArgs(e.st[y], c.st[y])
    <3>1. \A f : SameArgs(f, f)
      BY DEF SameArgs
    <3> QED  BY <1>3, <2>2, <3>1
  <2>4. PICK d : d = Got(q, g)
    OBVIOUS
  <2>5. Ends(e, m, d, r) <=> Ends(c, m, d, r)
    BY <2>3, SameEnds
  <2>6. Via(e, q, r) <=> Ends(e, m, d, r)
    BY <1>3, <1>5, <2>2, <2>4 DEF Via, ViaSuper
  <2> QED  BY <1>1, <1>2, <2>4, <2>5, <2>6
<1> QED  BY <1>2, <1>4, <1>5

\* pgf_lzn_infer returns the category of a literal.
LEMMA ReturnVia ==
  ASSUME LzrOk, NEW c, GoodConfig(c), InTree(c), c.n > 0, NEW f, f = c.st[c.n], ToReturn(f),
         NEW q \in Dec, NEW r
  PROVE  Via(c, q, r) <=> Via(After(c, 0), q, r)
<1>1. PICK g : g = [cat |-> LitCat, tree |-> f.expr]
  OBVIOUS
<1>2. PICK k \in 0..MaxHeight : k = c.n - 1 /\ f.expr \in Level(k)
  <2>1. c.n \in Nat /\ MaxHeight \in Nat /\ c.n \in 1..c.n
    BY LevelFacts DEF LzrOk, GoodConfig
  <2> QED  BY <2>1 DEF InTree, PartAt, ToReturn
<1>3. DerivedAt(k)[f.expr] = {[dec |-> <<>>, cat |-> LitCat, tree |-> f.expr]}
  <2>1. DerivedAt(k)[f.expr] = Derived(f.expr, DerivedAt(k + 1))
    BY <1>2, DerivedRec
  <2>2. IsSeq(f.expr.args)
    BY <1>2, DerivedTyped DEF Derives
  <2> QED  BY <2>1, <2>2, DerivedIn DEF ToReturn
<1>4. OnDer(q, [dec |-> <<>>, cat |-> LitCat, tree |-> f.expr]) = Got(q, g)
  <2>1. q \o <<>> = q
    BY DecFacts, NoArgumentsIs
  <2> QED  BY <1>1, <2>1 DEF OnDer, Got
<1>5. Via(c, q, r) <=> Ends(c, c.n - 1, Got(q, g), r)
  <2>1. Via(c, q, r) <=> ViaInfer(c, f, q, r)
    BY ViaTop DEF ToReturn, GoodConfig
  <2> QED  BY <1>2, <1>3, <1>4, <2>1 DEF ViaInfer
<1>6. After(c, 0) = Returned(c, g, c.idx)
  BY <1>1, AfterReturn
<1> QED  BY <1>5, <1>6, ViaReturned

\* pgf_lzn_infer_application begins.
LEMMA OpenVia ==
  ASSUME LzrOk, NEW c, GoodConfig(c), InTree(c), c.n > 0, NEW f, f = c.st[c.n], ToOpen(f),
         NEW q \in Dec, NEW r
  PROVE  Via(c, q, r) <=> Via(After(c, 0), q, r)
<1>1. PICK g : g = Opened(f, c.idx)
  OBVIOUS
<1>2. PICK k \in 0..MaxHeight : k = c.n - 1 /\ f.expr \in Level(k) /\ k + 1 = c.n
  <2>1. c.n \in Nat /\ MaxHeight \in Nat /\ c.n \in 1..c.n
    BY LevelFacts DEF LzrOk, GoodConfig
  <2> QED  BY <2>1 DEF InTree, PartAt, ToOpen
<1>3. PICK D : D = DerivedAt(c.n)
  OBVIOUS
<1>4. PICK e : e = f.expr
  OBVIOUS
<1>5. Derives(e.args, D) /\ IsSeq(e.args) /\ DerivedAt(k)[e] = Derived(e, D)
  BY <1>2, <1>3, <1>4, DerivedRec, DerivedTyped DEF Derives
<1>6. PICK n \in Nat : n = Len(e.args)
  BY <1>5, ListFacts
<1>7. \A d : d \in DerivedAt(k)[e] <=> \E m : GoesOn(e.args, D, NoArguments, 0, n, m) /\ d \in Applied(e.fun, m)
  <2>1. e.fun # Literal /\ HasFun(e.fun)
    BY <1>4 DEF ToOpen
  <2>2. \A d : d \in Derived(e, D) <=>
              \E m : GoesOn(e.args, D, NoArguments, 0, Len(e.args), m) /\ d \in Applied(e.fun, m)
    BY <1>5, <2>1, DerivedIn
  <2> QED  BY <1>5, <1>6, <2>2
<1>8. PICK p : p = OnList(q, NoArguments)
  OBVIOUS
<1>9. \A x : GoesOn(e.args, D, p, 0, n, x) <=> \E y : GoesOn(e.args, D, NoArguments, 0, n, y) /\ x = OnList(q, y)
  BY <1>5, <1>6, <1>8, GoesOnto, NoArgumentsIs
<1>10. ASSUME NEW y, GoesOn(e.args, D, NoArguments, 0, n, y), NEW d
       PROVE  d \in Applied(e.fun, OnList(q, y)) <=> \E z \in Applied(e.fun, y) : d = OnDer(q, z)
  <2>1. IsList(y, n)
    BY <1>5, <1>6, <1>10, GoesTyped, NoArgumentsIs
  <2> QED  BY <2>1, AppliedFacts
<1>11. ASSUME NEW d PROVE Applies(e.fun, e.args, D, p, 0, d) <=> \E z \in DerivedAt(k)[e] : d = OnDer(q, z)
  <2>1. ASSUME Applies(e.fun, e.args, D, p, 0, d) PROVE \E z \in DerivedAt(k)[e] : d = OnDer(q, z)
    <3>1. PICK m : GoesOn(e.args, D, p, 0, n, m) /\ d \in Applied(e.fun, m)
      BY <1>6, <2>1 DEF Applies
    <3>2. PICK y : GoesOn(e.args, D, NoArguments, 0, n, y) /\ m = OnList(q, y)
      BY <1>9, <3>1
    <3>3. PICK z \in Applied(e.fun, y) : d = OnDer(q, z)
      BY <1>10, <3>1, <3>2
    <3> QED  BY <1>7, <3>2, <3>3
  <2>2. ASSUME NEW z \in DerivedAt(k)[e], d = OnDer(q, z) PROVE Applies(e.fun, e.args, D, p, 0, d)
    <3>1. PICK y : GoesOn(e.args, D, NoArguments, 0, n, y) /\ z \in Applied(e.fun, y)
      BY <1>7
    <3>2. d \in Applied(e.fun, OnList(q, y))
      BY <1>10, <2>2, <3>1
    <3>3. GoesOn(e.args, D, p, 0, n, OnList(q, y))
      BY <1>9, <3>1
    <3> QED  BY <1>6, <3>2, <3>3 DEF Applies
  <2> QED  BY <2>1, <2>2
<1>12. g.fun = e.fun /\ g.args = e.args /\ ListOf(q, g) = p /\ Len(g.cats) = 0 /\ g.k = "args"
  <2>1. q \o <<>> = q
    BY DecFacts, NoArgumentsIs
  <2> QED  BY <1>1, <1>4, <1>8, <2>1 DEF Opened, ListOf, OnList, NoArguments
<1>13. ViaInfer(c, f, q, r) <=> ViaArgs(c, g, q, r)
  BY <1>2, <1>3, <1>4, <1>11, <1>12 DEF ViaInfer, ViaArgs
<1>14. Via(c, q, r) <=> ViaInfer(c, f, q, r)
  BY ViaTop DEF ToOpen, GoodConfig
<1>15. After(c, 0) = Put(c, g, c.idx)
  BY <1>1, AfterOpen
<1>16. Via(After(c, 0), q, r) <=> ViaArgs(c, g, q, r)
  BY <1>12, <1>15, ViaPut
<1> QED  BY <1>13, <1>14, <1>16

\* The next argument.
LEMMA AppliesFirst ==
  ASSUME LzrOk, NEW f, NEW D, Derives(f.args, D), NEW i \in Nat, i = Len(f.cats), NEW k, k = i + 1,
         k <= Len(f.args), NEW q \in Dec, NEW d
  PROVE  Applies(f.fun, f.args, D, ListOf(q, f), i, d) <=>
           \E z \in D[f.args[k]] : Tells(f, D, OnDer(q, z), d)
<1>1. PICK n \in Nat : n = Len(f.args)
  BY ListFacts DEF Derives
<1>2. PICK l : l = ListOf(q, f)
  OBVIOUS
<1>3. PICK S : S = D[f.args[k]]
  OBVIOUS
<1>4. \A z \in S : IsDer(z)
  <2>1. k \in 1..Len(f.args)
    BY <1>1
  <2> QED  BY <1>3, <2>1 DEF Derives, AllDer
<1>5. \A x : WithArgument(l, x) = Taken(f, OnDer(q, x))
  BY <1>2 DEF WithArgument, Taken, OnDer, ListOf
<1>6. \A m : GoesOn(f.args, D, l, i, n, m) <=> \E y : Extends(f.args, D, k, l, y) /\ GoesOn(f.args, D, y, k, n, m)
  BY <1>1, GoesFirst
<1>7. \A y : Extends(f.args, D, k, l, y) <=> \E z \in S : \E x \in Ready(z) : y = WithArgument(l, x)
  BY <1>3, ReadyUnion DEF Extends
<1>8. \A z \in S : \A x : x \in Ready(OnDer(q, z)) <=> \E y \in Ready(z) : x = OnDer(q, y)
  BY <1>4, ReadyFacts
<1>9. ASSUME Applies(f.fun, f.args, D, l, i, d) PROVE \E z \in S : Tells(f, D, OnDer(q, z), d)
  <2>1. PICK m : GoesOn(f.args, D, l, i, n, m) /\ d \in Applied(f.fun, m)
    BY <1>1, <1>9 DEF Applies
  <2>2. PICK y : Extends(f.args, D, k, l, y) /\ GoesOn(f.args, D, y, k, n, m)
    BY <1>6, <2>1
  <2>3. PICK z \in S : \E x \in Ready(z) : y = WithArgument(l, x)
    BY <1>7, <2>2
  <2>4. PICK x \in Ready(z) : y = Taken(f, OnDer(q, x))
    BY <1>5, <2>3
  <2>5. OnDer(q, x) \in Ready(OnDer(q, z))
    BY <1>8
  <2>6. Applies(f.fun, f.args, D, y, k, d)
    BY <1>1, <2>1, <2>2 DEF Applies
  <2> QED  BY <2>4, <2>5, <2>6 DEF Tells
<1>10. ASSUME NEW z \in S, Tells(f, D, OnDer(q, z), d) PROVE Applies(f.fun, f.args, D, l, i, d)
  <2>1. PICK u \in Ready(OnDer(q, z)) : Applies(f.fun, f.args, D, Taken(f, u), k, d)
    BY <1>10 DEF Tells
  <2>2. PICK x \in Ready(z) : u = OnDer(q, x)
    BY <1>8
  <2>3. PICK m : GoesOn(f.args, D, Taken(f, u), k, n, m) /\ d \in Applied(f.fun, m)
    BY <1>1, <2>1 DEF Applies
  <2>4. Extends(f.args, D, k, l, Taken(f, u))
    BY <1>5, <1>7, <2>2
  <2>5. GoesOn(f.args, D, l, i, n, m)
    BY <1>6, <2>3, <2>4
  <2> QED  BY <1>1, <2>3, <2>5 DEF Applies
<1> QED  BY <1>2, <1>3, <1>9, <1>10

\* pgf_lzn_infer is called for an argument.
LEMMA CallVia ==
  ASSUME LzrOk, NEW c, GoodConfig(c), InTree(c), c.n > 0, NEW f, f = c.st[c.n], ToCall(f),
         NEW q \in Dec, NEW r
  PROVE  Via(c, q, r) <=> Via(After(c, 0), q, r)
<1>0. PICK n \in Nat : n = c.n /\ n \in 1..c.n
  BY DEF GoodConfig
<1>1. /\ Derives(f.args, DerivedAt(n)) /\ Len(f.cats) \in Nat /\ Len(f.args) \in Nat
      /\ f.k = "args" /\ Len(f.cats) < Len(f.args)
  BY <1>0, PartFacts DEF ToCall
<1>2. PICK i \in Nat : i = Len(f.cats) /\ i + 1 <= Len(f.args)
  <2>1. PICK i \in Nat, a \in Nat : i = Len(f.cats) /\ a = Len(f.args)
    BY <1>1
  <2>2. i + 1 <= a
    BY <1>1, <2>1
  <2> QED  BY <2>1, <2>2
<1>3. PICK x0 : x0 = f.args[i + 1]
  OBVIOUS
<1>4. PICK e : e = Pushed(c, Infer(x0))
  OBVIOUS
<1>5. /\ e.n = n + 1 /\ e.st[n + 1] = Infer(x0) /\ \A y \in 1..n : e.st[y] = c.st[y]
      /\ Infer(x0).k = "infer" /\ Infer(x0).expr = x0
  BY <1>0, <1>4 DEF Pushed, Infer
<1>6. Via(e, q, r) <=> \E z \in DerivedAt(n)[x0] : Ends(e, n, OnDer(q, z), r)
  <2>1. Via(e, q, r) <=> ViaInfer(e, Infer(x0), q, r)
    BY <1>0, <1>5, ViaTop
  <2>2. e.n - 1 = n
    BY <1>5
  <2> QED  BY <1>5, <2>1, <2>2 DEF ViaInfer
<1>7. \A d : Ends(e, n, d, r) <=> Ends(c, n, d, r)
  <2>1. \A y \in 1..n : SameArgs(e.st[y], c.st[y])
    BY <1>5 DEF SameArgs
  <2> QED  BY <2>1, SameEnds
<1>8. \A d : Ends(c, n, d, r) <=> \E u : Tells(f, DerivedAt(n), d, u) /\ Ends(c, n - 1, u, r)
  <2>1. PICK m \in Nat : m = n - 1 /\ n = m + 1
    BY <1>0
  <2> QED  BY <1>0, <2>1, EndsNext
<1>9. \A u : Applies(f.fun, f.args, DerivedAt(n), ListOf(q, f), i, u) <=>
               \E z \in DerivedAt(n)[x0] : Tells(f, DerivedAt(n), OnDer(q, z), u)
  BY <1>1, <1>2, <1>3, AppliesFirst
<1>10. Via(c, q, r) <=> \E u : /\ Applies(f.fun, f.args, DerivedAt(n), ListOf(q, f), i, u)
                               /\ Ends(c, n - 1, u, r)
  BY <1>0, <1>1, <1>2, ViaTop DEF ViaArgs
<1>11. After(c, 0) = e
  BY <1>2, <1>3, <1>4, AfterCall
<1> QED  BY <1>6, <1>7, <1>8, <1>9, <1>10, <1>11

LEMMA AppliesLast ==
  ASSUME NEW f, NEW D, NEW i \in Nat, i = Len(f.cats), i = Len(f.args), NEW q, NEW d
  PROVE  Applies(f.fun, f.args, D, ListOf(q, f), i, d) <=> d \in Applied(f.fun, ListOf(q, f))
<1>1. \A m : GoesOn(f.args, D, ListOf(q, f), i, i, m) <=> m = ListOf(q, f)
  BY GoesNowhere
<1> QED  BY <1>1 DEF Applies

\* The production is decided.
LEMMA ChooseVia ==
  ASSUME LzrOk, NEW c, GoodConfig(c), InTree(c), c.n > 0, NEW f, f = c.st[c.n],
         f.k = "args", Len(f.cats) = Len(f.args), NEW q \in Dec, NEW r,
         NEW entries, entries = InferEntries(f.fun, f.cats)
  PROVE  /\ Len(entries) \in Nat
         /\ Via(c, q, r) <=> \E j \in 1..Len(entries) : Ends(c, c.n - 1, Chosen(entries, q, f.trees, j), r)
<1>0. PICK n \in Nat : n = c.n /\ n \in 1..c.n
  BY DEF GoodConfig
<1>1. PICK i \in Nat : i = Len(f.cats) /\ i = Len(f.args)
  BY <1>0, PartFacts
<1>2. PICK l : l = ListOf(q, f)
  OBVIOUS
<1>7. l.cats = f.cats /\ l.dec = q /\ l.trees = f.trees
  BY <1>2 DEF ListOf
<1>3. PICK D : D = DerivedAt(n)
  OBVIOUS
<1>4. Via(c, q, r) <=> \E u : Applies(f.fun, f.args, D, l, i, u) /\ Ends(c, n - 1, u, r)
  <2>1. Via(c, q, r) <=> ViaArgs(c, f, q, r)
    BY <1>0, ViaTop
  <2> QED  BY <1>0, <1>1, <1>2, <1>3, <2>1 DEF ViaArgs
<1>5. \A u : Applies(f.fun, f.args, D, l, i, u) <=> u \in Applied(f.fun, l)
  BY <1>1, <1>2, AppliesLast
<1>6. Len(entries) \in Nat /\ \A u : u \in Applied(f.fun, l) <=>
               \E j \in 1..Len(entries) : u = Chosen(entries, q, f.trees, j)
  <2>1. /\ Len(InferEntries(f.fun, l.cats)) \in Nat
        /\ \A u : u \in Applied(f.fun, l) <=>
             \E j \in 1..Len(InferEntries(f.fun, l.cats)) : u = Chosen(InferEntries(f.fun, l.cats), l.dec, l.trees, j)
    BY AppliedIn
  <2> QED  BY <1>7, <2>1
<1> QED  BY <1>0, <1>4, <1>5, <1>6

LEMMA WithArgIs ==
  ASSUME NEW f, IsFrame(f), IsSeq(f.cats), NEW cat, NEW i, NEW g, g = WithArg(f, cat, i), NEW q
  PROVE  /\ g.k = "args" /\ g.fun = f.fun /\ g.args = f.args /\ Len(g.cats) = Len(f.cats) + 1
         /\ ListOf(q, g) = Taken(f, [dec |-> q, cat |-> cat, tree |-> f.got.tree])
<1>1. PICK tree : tree = f.got.tree
  OBVIOUS
<1>2. g = [k |-> "args", fun |-> f.fun, args |-> f.args, got |-> NULL,
           marks |-> Append(f.marks, i), cats |-> Append(f.cats, cat), trees |-> Append(f.trees, tree)]
  BY <1>1 DEF IsFrame, WithArg
<1>3. Len(Append(f.cats, cat)) = Len(f.cats) + 1
  BY AppendList
<1> QED  BY <1>1, <1>2, <1>3 DEF ListOf, Taken

LEMMA WithArgKind ==
  ASSUME NEW f, IsFrame(f), NEW cat, NEW i, NEW g, g = WithArg(f, cat, i)
  PROVE  g.k = "args"
<1>1. g = [k |-> "args", fun |-> f.fun, args |-> f.args, got |-> NULL,
           marks |-> Append(f.marks, i), cats |-> Append(f.cats, cat), trees |-> Append(f.trees, f.got.tree)]
  BY DEF IsFrame, WithArg
<1> QED  BY <1>1

LEMMA RecatIs ==
  ASSUME NEW f, IsFrame(f), IsResult(f.got), NEW cat, NEW g, g = Recat(f, cat), NEW q
  PROVE  g.k = f.k /\ SameArgs(g, f) /\ Got(q, g.got) = [dec |-> q, cat |-> cat, tree |-> f.got.tree]
<1>1. PICK tree : tree = f.got.tree
  OBVIOUS
<1>2. PICK v : v = [f.got EXCEPT !.cat = cat]
  OBVIOUS
<1>3. v = [cat |-> cat, tree |-> tree]
  BY <1>1, <1>2 DEF IsResult
<1>4. g = [k |-> f.k, fun |-> f.fun, args |-> f.args, got |-> v,
           marks |-> f.marks, cats |-> f.cats, trees |-> f.trees]
  BY <1>2 DEF IsFrame, Recat
<1> QED  BY <1>1, <1>3, <1>4 DEF SameArgs, Got

\* The argument has its category.
LEMMA WithArgVia ==
  ASSUME NEW c, NEW f, IsFrame(f), IsSeq(f.cats), NEW cat, NEW i, NEW g, g = WithArg(f, cat, i),
         NEW q, NEW r
  PROVE  ViaArgs(c, g, q, r) <=>
           \E d : /\ Applies(f.fun, f.args, DerivedAt(c.n),
                             Taken(f, [dec |-> q, cat |-> cat, tree |-> f.got.tree]), Len(f.cats) + 1, d)
                  /\ Ends(c, c.n - 1, d, r)
<1>1. PICK l : l = Taken(f, [dec |-> q, cat |-> cat, tree |-> f.got.tree])
  OBVIOUS
<1>2. /\ g.fun = f.fun /\ g.args = f.args /\ Len(g.cats) = Len(f.cats) + 1 /\ ListOf(q, g) = l
  BY <1>1, WithArgIs
<1> QED  BY <1>1, <1>2 DEF ViaArgs

LEMMA KeptIs ==
  ASSUME NEW d, d = [dec |-> d.dec, cat |-> d.cat, tree |-> d.tree]
  PROVE  /\ Supers(d.cat) = <<>> => Kept(d) = d /\ Lifted(d) = {}
         /\ Supers(d.cat) # <<>> => Kept(d) = [dec |-> Append(d.dec, 1), cat |-> d.cat, tree |-> d.tree]
<1>1. ASSUME Supers(d.cat) = <<>> PROVE Kept(d) = d /\ Lifted(d) = {}
  <2>1. DOMAIN Supers(d.cat) = {}
    BY <1>1
  <2> QED  BY <1>1, <2>1 DEF Kept, Lifted
<1>2. PICK e : e = [d EXCEPT !.dec = Append(@, 1)]
  OBVIOUS
<1>3. e = [dec |-> Append(d.dec, 1), cat |-> d.cat, tree |-> d.tree]
  BY <1>2
<1> QED  BY <1>1, <1>2, <1>3 DEF Kept

LEMMA SuperFacts ==
  ASSUME NEW c, GoodConfig(c), c.n > 0, NEW f, f = c.st[c.n], f.k = "super"
  PROVE  IsFrame(f) /\ IsSeq(f.cats) /\ IsResult(f.got)
<1>1. GoodApp(f, c.idx) /\ IsResult(f.got)
  BY TopFacts DEF Fits
<1> QED  BY <1>1 DEF GoodApp, IsFrame

\* The category is the only one.
LEMMA KeepVia ==
  ASSUME LzrOk, NEW c, GoodConfig(c), InTree(c), c.n > 0, NEW f, f = c.st[c.n], ToKeep(f),
         NEW q \in Dec, NEW r
  PROVE  Via(c, q, r) <=> Via(After(c, 0), q, r)
<1>1. PICK d : d = [dec |-> q, cat |-> f.got.cat, tree |-> f.got.tree]
  OBVIOUS
<1>2. Got(q, f.got) = d
  BY <1>1 DEF Got
<1>3. \A x : x \in Ready(d) <=> x = d
  <2>1. Kept(d) = d /\ Lifted(d) = {}
    <3>1. d = [dec |-> d.dec, cat |-> d.cat, tree |-> d.tree] /\ Supers(d.cat) = <<>>
      BY <1>1 DEF ToKeep
    <3> QED  BY <3>1, KeptIs
  <2>2. \A x : x \in Ready(d) <=> x = Kept(d) \/ \E y \in Lifted(d) : x \in Ready(y)
    BY ReadyUnfold
  <2> QED  BY <2>1, <2>2
<1>4. PICK g : g = WithArg(f, f.got.cat, c.idx)
  OBVIOUS
<1>5. IsFrame(f) /\ IsSeq(f.cats)
  BY SuperFacts DEF ToKeep
<1>6. ViaArgs(c, g, q, r) <=>
        \E u : /\ Applies(f.fun, f.args, DerivedAt(c.n), Taken(f, d), Len(f.cats) + 1, u)
               /\ Ends(c, c.n - 1, u, r)
  <2>1. ViaArgs(c, g, q, r) <=>
           \E u : /\ Applies(f.fun, f.args, DerivedAt(c.n),
                             Taken(f, [dec |-> q, cat |-> f.got.cat, tree |-> f.got.tree]), Len(f.cats) + 1, u)
                  /\ Ends(c, c.n - 1, u, r)
    BY <1>4, <1>5, WithArgVia
  <2> QED  BY <1>1, <2>1
<1>7. \A u : Tells(f, DerivedAt(c.n), d, u) <=>
               Applies(f.fun, f.args, DerivedAt(c.n), Taken(f, d), Len(f.cats) + 1, u)
  BY <1>3 DEF Tells
<1>8. ViaTold(c, f, q, r) <=> ViaArgs(c, g, q, r)
  BY <1>2, <1>6, <1>7 DEF ViaTold
<1>9. Via(c, q, r) <=> ViaTold(c, f, q, r)
  BY ViaTop DEF ToKeep, GoodConfig
<1>10. g.k = "args"
  BY <1>4, <1>5, WithArgKind
<1>11. After(c, 0) = Put(c, g, c.idx)
  BY <1>4, AfterKeep
<1>12. Via(After(c, 0), q, r) <=> ViaArgs(c, g, q, r)
  BY <1>10, <1>11, ViaPut
<1> QED  BY <1>8, <1>9, <1>12

\* The category is kept or coerced.
LEMMA PickVia ==
  ASSUME LzrOk, NEW c, GoodConfig(c), InTree(c), c.n > 0, NEW f, f = c.st[c.n], ToPick(f),
         NEW q \in Dec, NEW r, NEW l \in Nat, l = Len(Supers(f.got.cat))
  PROVE  Via(c, q, r) <=> \/ Via(After(c, 0), Append(q, 1), r)
                          \/ \E a \in 1..l : Via(After(c, a), Append(q, a + 1), r)
<1>1. PICK d : d = [dec |-> q, cat |-> f.got.cat, tree |-> f.got.tree]
  OBVIOUS
<1>2. Got(q, f.got) = d
  BY <1>1 DEF Got
<1>3. PICK supers : supers = Supers(f.got.cat)
  OBVIOUS
<1>4. DOMAIN supers = 1..l /\ IndicesTyped
  BY <1>3, IndexLists, ListFacts
<1>5. IsFrame(f) /\ IsSeq(f.cats) /\ IsResult(f.got)
  BY SuperFacts DEF ToPick
<1> DEFINE X(a) == [dec |-> Append(q, a + 1), cat |-> supers[a], tree |-> f.got.tree]
           K == [dec |-> Append(q, 1), cat |-> f.got.cat, tree |-> f.got.tree]
           D == DerivedAt(c.n)
           i == c.idx + 1
           G(a) == Recat(f, supers[a])
           g == WithArg(f, f.got.cat, i)
<1>6. \A x : x \in Lifted(d) <=> \E a \in 1..l : x = X(a)
  BY <1>1, <1>3, <1>4 DEF Lifted
<1>7. Kept(d) = K
  <2>1. d = [dec |-> d.dec, cat |-> d.cat, tree |-> d.tree] /\ Supers(d.cat) # <<>>
    BY <1>1 DEF ToPick
  <2>2. Kept(d) = [dec |-> Append(d.dec, 1), cat |-> d.cat, tree |-> d.tree]
    BY <2>1, KeptIs
  <2> QED  BY <1>1, <2>2
<1>15. PICK kept : kept = K
  OBVIOUS
<1>16. PICK lift : lift = [a \in 1..l |-> X(a)]
  OBVIOUS
<1>8. kept = K /\ \A a \in 1..l : lift[a] = X(a)
  BY <1>15, <1>16
<1> HIDE DEF X, K
<1>9. \A x : x \in Ready(d) <=> x = kept \/ \E a \in 1..l : x \in Ready(lift[a])
  <2>1. \A x : x \in Ready(d) <=> x = Kept(d) \/ \E y \in Lifted(d) : x \in Ready(y)
    BY ReadyUnfold
  <2> QED  BY <1>6, <1>7, <1>8, <2>1
<1>10. \A u : Tells(f, D, d, u) <=>
               \/ Applies(f.fun, f.args, D, Taken(f, kept), Len(f.cats) + 1, u)
               \/ \E a \in 1..l : Tells(f, D, lift[a], u)
  BY <1>9 DEF Tells
<1>11. ViaTold(c, f, q, r) <=> \E u : Tells(f, D, d, u) /\ Ends(c, c.n - 1, u, r)
  BY <1>2 DEF ViaTold
<1>12. Via(After(c, 0), Append(q, 1), r) <=>
         \E u : /\ Applies(f.fun, f.args, D, Taken(f, kept), Len(f.cats) + 1, u)
                /\ Ends(c, c.n - 1, u, r)
  <2>1. After(c, 0) = Put(c, g, i)
    BY <1>4, AfterPick
  <2>2. g.k = "args"
    BY <1>5, WithArgKind
  <2>3. Via(After(c, 0), Append(q, 1), r) <=> ViaArgs(c, g, Append(q, 1), r)
    BY <2>1, <2>2, ViaPut
  <2>4. ViaArgs(c, g, Append(q, 1), r) <=>
         \E u : /\ Applies(f.fun, f.args, D,
                           Taken(f, [dec |-> Append(q, 1), cat |-> f.got.cat, tree |-> f.got.tree]), Len(f.cats) + 1, u)
                /\ Ends(c, c.n - 1, u, r)
    BY <1>5, WithArgVia
  <2> QED  BY <1>8, <2>3, <2>4 DEF K
<1>13. ASSUME NEW a \in 1..l
       PROVE  Via(After(c, a), Append(q, a + 1), r) <=> \E u : Tells(f, D, lift[a], u) /\ Ends(c, c.n - 1, u, r)
  <2>1. After(c, a) = Put(c, G(a), i)
    <3>1. a # 0
      OBVIOUS
    <3> QED  BY <1>3, <1>4, <3>1, AfterPick
  <2>2. G(a).k = "super" /\ SameArgs(G(a), f) /\ Got(Append(q, a + 1), G(a).got) = lift[a]
    <3>1. f.k = "super"
      BY DEF ToPick
    <3>2. /\ G(a).k = f.k /\ SameArgs(G(a), f)
          /\ Got(Append(q, a + 1), G(a).got) = [dec |-> Append(q, a + 1), cat |-> supers[a], tree |-> f.got.tree]
      <4>1. PICK h : h = G(a)
        OBVIOUS
      <4>2. PICK p : p = Append(q, a + 1)
        OBVIOUS
      <4>3. h.k = f.k /\ SameArgs(h, f) /\ Got(p, h.got) = [dec |-> p, cat |-> supers[a], tree |-> f.got.tree]
        BY <1>5, <4>1, RecatIs
      <4> QED  BY <4>1, <4>2, <4>3
    <3> QED  BY <1>8, <3>1, <3>2 DEF X
  <2>3. Via(After(c, a), Append(q, a + 1), r) <=> ViaTold(c, G(a), Append(q, a + 1), r)
    BY <2>1, <2>2, ViaPut
  <2>4. \A u : Tells(G(a), D, lift[a], u) <=> Tells(f, D, lift[a], u)
    BY <2>2, SameTells
  <2> QED  BY <2>2, <2>3, <2>4 DEF ViaTold
<1>14. Via(c, q, r) <=> ViaTold(c, f, q, r)
  BY ViaTop DEF ToPick, GoodConfig
<1> HIDE DEF D, G, g, i
<1> QED  BY <1>10, <1>11, <1>12, <1>13, <1>14

\* A step: the derivations are those of one of its alternatives.
LEMMA ViaNext ==
  ASSUME LzrOk, NEW c, GoodConfig(c), InTree(c), Goes(c), NEW q \in Dec, NEW r
  PROVE  /\ Ways(c) = 0 => (Via(c, q, r) <=> Via(After(c, 0), q, r))
         /\ Ways(c) > 0 =>
              (Via(c, q, r) <=> \E a \in 0..(Ways(c) - 1) : Via(After(c, a), Append(q, a + 1), r))
         /\ Ways(c) \in Nat
<1>0. IndicesTyped /\ c.n > 0 /\ Ways(c) \in Nat
  BY IndexLists, WaysType DEF Goes
<1>1. PICK f : f = c.st[c.n]
  OBVIOUS
<1>2. CASE ToReturn(f)
  <2>1. Ways(c) = 0
    BY <1>0, <1>1, <1>2, AfterReturn
  <2>2. Via(c, q, r) <=> Via(After(c, 0), q, r)
    BY <1>0, <1>1, <1>2, ReturnVia
  <2> QED  BY <2>1, <2>2
<1>3. CASE ToOpen(f)
  BY <1>0, <1>1, <1>3, AfterOpen, OpenVia
<1>4. CASE ToCall(f)
  BY <1>0, <1>1, <1>4, AfterCall, CallVia
<1>5. CASE ToKeep(f)
  BY <1>0, <1>1, <1>5, AfterKeep, KeepVia
<1>6. CASE ToPick(f)
  <2>1. PICK l \in Nat : l = Len(Supers(f.got.cat)) /\ Ways(c) = l + 1
    BY <1>0, <1>1, <1>6, AfterPick DEF IndicesTyped
  <2>2. Via(c, q, r) <=> \/ Via(After(c, 0), Append(q, 1), r)
                         \/ \E a \in 1..l : Via(After(c, a), Append(q, a + 1), r)
    BY <1>0, <1>1, <1>6, <2>1, PickVia
  <2>3. \A a \in 0..(Ways(c) - 1) : a = 0 \/ a \in 1..l
    BY <2>1
  <2>4. 0 \in 0..(Ways(c) - 1) /\ 0 + 1 = 1 /\ \A a \in 1..l : a \in 0..(Ways(c) - 1)
    BY <2>1
  <2>5. Via(c, q, r) <=> \E a \in 0..(Ways(c) - 1) : Via(After(c, a), Append(q, a + 1), r)
    BY <2>2, <2>3, <2>4
  <2>6. Ways(c) # 0
    BY <2>1
  <2> QED  BY <1>0, <2>5, <2>6
<1>7. CASE ToChoose(f)
  <2>1. PICK entries : entries = InferEntries(f.fun, f.cats)
    OBVIOUS
  <2>2. Ways(c) = Len(entries) /\ Ways(c) > 0
    BY <1>0, <1>1, <1>7, <2>1, AfterChoose
  <2>3. PICK l \in Nat : l = Ways(c)
    BY <1>0
  <2>4. Via(c, q, r) <=> \E j \in 1..l : Ends(c, c.n - 1, Chosen(entries, q, f.trees, j), r)
    BY <1>0, <1>1, <1>7, <2>1, <2>2, <2>3, ChooseVia DEF ToChoose
  <2>5. ASSUME NEW a \in 0..(l - 1)
        PROVE  Via(After(c, a), Append(q, a + 1), r) <=> Ends(c, c.n - 1, Chosen(entries, q, f.trees, a + 1), r)
    <3>1. PICK entry : entry = entries[a + 1]
      OBVIOUS
    <3>2. PICK g : g = [cat |-> entry.cat, tree |-> [fun |-> entry.prod.cnc, args |-> f.trees]]
      OBVIOUS
    <3>3. After(c, a) = Returned(c, g, c.idx + 1)
      BY <1>0, <1>1, <1>7, <2>1, <3>1, <3>2, AfterChoose
    <3>4. Got(Append(q, a + 1), g) = Chosen(entries, q, f.trees, a + 1)
      BY <3>1, <3>2 DEF Got, Chosen
    <3>5. PICK p : p = Append(q, a + 1)
      OBVIOUS
    <3>6. Via(After(c, a), p, r) <=> Ends(c, c.n - 1, Got(p, g), r)
      BY <1>0, <3>3, ViaReturned
    <3> QED  BY <3>4, <3>5, <3>6
  <2>6. ASSUME NEW j \in 1..l PROVE \E a \in 0..(l - 1) : a + 1 = j
    <3>1. j - 1 \in 0..(l - 1) /\ (j - 1) + 1 = j
      OBVIOUS
    <3> QED  BY <3>1
  <2>7. \A a \in 0..(l - 1) : a + 1 \in 1..l
    OBVIOUS
  <2>8. Via(c, q, r) <=> \E a \in 0..(l - 1) : Via(After(c, a), Append(q, a + 1), r)
    BY <2>4, <2>5, <2>6, <2>7
  <2>9. Ways(c) # 0
    BY <2>2, <2>3
  <2> QED  BY <1>0, <2>3, <2>8, <2>9
<1> QED  BY <1>1, <1>2, <1>3, <1>4, <1>5, <1>6, <1>7 DEF Goes

\* A configuration that is stuck leads nowhere.
LEMMA ViaStuck ==
  ASSUME LzrOk, NEW c, GoodConfig(c), InTree(c), ~Goes(c), c.n > 0, NEW q \in Dec, NEW r
  PROVE  ~Via(c, q, r)
<1>0. PICK n \in Nat : n = c.n /\ n \in 1..c.n
  BY DEF GoodConfig
<1>1. PICK f : f = c.st[n]
  OBVIOUS
<1>2. f.k \in {"infer", "args", "super"}
  BY <1>0, <1>1, TopFacts
<1>3. f.k # "super"
  BY <1>0, <1>1 DEF Goes, ToKeep, ToPick
<1>4. CASE f.k = "infer"
  <2>1. f.expr.fun # Literal /\ ~HasFun(f.expr.fun)
    BY <1>0, <1>1, <1>4 DEF Goes, ToReturn, ToOpen
  <2>2. PICK k \in 0..MaxHeight : k = n - 1 /\ f.expr \in Level(k)
    <3>1. MaxHeight \in Nat
      BY LevelFacts DEF LzrOk
    <3> QED  BY <1>0, <1>1, <1>4, <3>1 DEF InTree, PartAt
  <2>3. DerivedAt(k)[f.expr] = {}
    <3>1. DerivedAt(k)[f.expr] = Derived(f.expr, DerivedAt(k + 1))
      BY <2>2, DerivedRec
    <3>2. IsSeq(f.expr.args)
      BY <2>2, DerivedTyped DEF Derives
    <3> QED  BY <2>1, <3>1, <3>2, DerivedIn
  <2>4. Via(c, q, r) <=> ViaInfer(c, f, q, r)
    BY <1>0, <1>1, <1>4, ViaTop
  <2> QED  BY <1>0, <2>2, <2>3, <2>4 DEF ViaInfer
<1>5. CASE f.k = "args"
  <2>1. PICK i \in Nat, a \in Nat : i = Len(f.cats) /\ a = Len(f.args) /\ i <= a
    BY <1>0, <1>1, <1>5, PartFacts
  <2>2. ~(i < a)
    BY <1>0, <1>1, <1>5, <2>1 DEF Goes, ToCall
  <2>3. Len(f.cats) = Len(f.args)
    BY <2>1, <2>2
  <2>4. PICK entries : entries = InferEntries(f.fun, f.cats)
    OBVIOUS
  <2>5. ~(Len(entries) > 0)
    BY <1>0, <1>1, <1>5, <2>3, <2>4 DEF Goes, ToChoose
  <2>6. /\ Len(entries) \in Nat
        /\ Via(c, q, r) <=> \E j \in 1..Len(entries) : Ends(c, c.n - 1, Chosen(entries, q, f.trees, j), r)
    BY <1>0, <1>1, <1>5, <2>3, <2>4, ChooseVia
  <2> QED  BY <2>5, <2>6
<1> QED  BY <1>2, <1>3, <1>4, <1>5

LEMMA RootVia ==
  ASSUME LzrOk, NEW r
  PROVE  Via(Root, <<>>, r) <=> r \in Derivations(input.expr)
<1>1. Root.n = 1 /\ Root.st[1] = Infer(input.expr) /\ Infer(input.expr).k = "infer" /\ Infer(input.expr).expr = input.expr
  BY DEF Root, Infer
<1>2. Via(Root, <<>>, r) <=> ViaInfer(Root, Infer(input.expr), <<>>, r)
  BY <1>1, ViaTop
<1>3. 0 \in 0..MaxHeight /\ input.expr \in Level(0)
  BY LevelFacts DEF LzrOk
<1>4. ASSUME NEW d \in DerivedAt(0)[input.expr] PROVE OnDer(<<>>, d) = d
  <2>1. IsDer(d)
    BY <1>3, DerivedTyped DEF AllDer
  <2>2. PICK s \in Dec : s = d.dec
    BY <2>1 DEF IsDer
  <2>3. <<>> \o s = s
    BY DecFacts
  <2> QED  BY <2>1, <2>2, <2>3 DEF OnDer, IsDer
<1>5. Root.n - 1 = 0
  BY <1>1
<1>6. ViaInfer(Root, Infer(input.expr), <<>>, r) <=> \E d \in DerivedAt(0)[input.expr] : Ends(Root, 0, OnDer(<<>>, d), r)
  BY <1>1, <1>5 DEF ViaInfer
<1>7. \A d : Ends(Root, 0, d, r) <=> r = d
  BY EndsRoot
<1> QED  BY <1>2, <1>4, <1>6, <1>7, DerivationsAtRoot

-----------------------------------------------------------------------------
(* The configurations hold parts of the tree *)

LEMMA InTreePut ==
  ASSUME NEW c, c.n \in Nat, InTree(c), NEW g, NEW i, NEW e, e = Put(c, g, i), g.k # "infer",
         \E t \in Level(c.n - 1) : g.args = t.args, Len(g.cats) <= Len(g.args),
         g.k = "super" => Len(g.cats) < Len(g.args)
  PROVE  InTree(e)
<1>1. e.n = c.n /\ \A x \in 1..c.n : e.st[x] = IF x = c.n THEN g ELSE c.st[x]
  BY DEF Put
<1>2. ASSUME NEW x \in 1..c.n PROVE PartAt(e, x)
  <2>1. CASE x = c.n
    <3>1. e.st[x] = g
      BY <1>1, <2>1
    <3> QED  BY <1>1, <2>1, <3>1 DEF PartAt
  <2>2. CASE x # c.n
    <3>1. e.st[x] = c.st[x] /\ PartAt(c, x)
      BY <1>1, <2>2 DEF InTree
    <3> QED  BY <1>1, <3>1 DEF PartAt
  <2> QED  BY <2>1, <2>2
<1> QED  BY <1>1, <1>2 DEF InTree

LEMMA InTreeReturned ==
  ASSUME NEW c, GoodConfig(c), InTree(c), c.n > 0, NEW r, NEW i, NEW e, e = Returned(c, r, i)
  PROVE  InTree(e)
<1>0. PICK n \in Nat : n = c.n
  BY DEF GoodConfig
<1>1. PICK m \in Nat : m = n - 1
  BY <1>0
<1>2. e.n = m /\ \A x \in 1..m : e.st[x] = IF x = m THEN Told(c.st[x], r) ELSE c.st[x]
  BY <1>0, <1>1 DEF Returned
<1>3. ASSUME NEW x \in 1..m PROVE PartAt(e, x)
  <2>1. x \in 1..c.n /\ x < c.n /\ PartAt(c, x)
    BY <1>0, <1>1 DEF InTree
  <2>2. c.st[x].k = "args" /\ GoodApp(c.st[x], c.idx)
    BY <2>1 DEF GoodConfig
  <2>3. IsFrame(c.st[x])
    BY <2>2 DEF GoodApp, IsFrame
  <2>4. /\ \E t \in Level(x - 1) : c.st[x].args = t.args
        /\ Len(c.st[x].cats) < Len(c.st[x].args) /\ Len(c.st[x].cats) <= Len(c.st[x].args)
    BY <2>1, <2>2 DEF PartAt
  <2>5. e.st[x].k # "infer" /\ e.st[x].args = c.st[x].args /\ e.st[x].cats = c.st[x].cats
    <3>1. CASE x = m
      <4>1. e.st[x] = Told(c.st[x], r)
        BY <1>2, <3>1
      <4> QED  BY <2>3, <4>1, ToldFacts DEF SameArgs
    <3>2. CASE x # m
      BY <1>2, <2>2, <3>2
    <3> QED  BY <3>1, <3>2
  <2> QED  BY <2>4, <2>5 DEF PartAt
<1>4. m <= MaxHeight + 1
  <2>1. n <= MaxHeight + 1
    BY <1>0 DEF InTree
  <2>2. m <= n
    BY <1>1
  <2>3. MaxHeight \in Nat
    BY FiniteAssumption
  <2> QED  BY <2>1, <2>2, <2>3
<1> QED  BY <1>2, <1>3, <1>4 DEF InTree

LEMMA InTreeNext ==
  ASSUME LzrOk, NEW c, GoodConfig(c), InTree(c), Goes(c), NEW a, NEW e, e = After(c, a)
  PROVE  InTree(e)
<1>0. IndicesTyped /\ c.n > 0 /\ c.n \in Nat /\ c.n \in 1..c.n
  BY IndexLists DEF Goes, GoodConfig
<1>1. PICK f : f = c.st[c.n]
  OBVIOUS
<1>2. PICK i : i = c.idx + Made(c)
  OBVIOUS
<1>3. CASE ToCall(f)
  <2>1. PICK x : x = f.args[Len(f.cats) + 1]
    OBVIOUS
  <2>2. e = Pushed(c, Infer(x))
    BY <1>0, <1>1, <1>3, <2>1, AfterCall
  <2>3. f.k # "infer" /\ Len(f.cats) < Len(f.args)
    BY <1>3 DEF ToCall
  <2>4. /\ Len(f.cats) \in Nat /\ Len(f.args) \in Nat
        /\ \A j \in 1..Len(f.args) : f.args[j] \in Level(c.n) /\ c.n \in 0..MaxHeight
    BY <1>0, <1>1, <2>3, PartFacts
  <2>5. x \in Level(c.n) /\ c.n \in 0..MaxHeight
    <3>1. Len(f.cats) + 1 \in 1..Len(f.args)
      BY <2>3, <2>4
    <3> QED  BY <2>1, <2>4, <3>1
  <2>6. PICK n \in Nat : n = c.n
    BY <1>0
  <2>7. e.n = n + 1 /\ \A y \in 1..(n + 1) : e.st[y] = IF y = n + 1 THEN Infer(x) ELSE c.st[y]
    BY <2>2, <2>6 DEF Pushed
  <2>8. ASSUME NEW y \in 1..(n + 1) PROVE PartAt(e, y)
    <3>1. CASE y = n + 1
      <4>1. e.st[y].k = "infer" /\ e.st[y].expr = x
        BY <2>7, <3>1 DEF Infer
      <4>2. y - 1 = c.n
        BY <2>6, <3>1
      <4> QED  BY <2>5, <4>1, <4>2 DEF PartAt
    <3>2. CASE y # n + 1
      <4>1. y \in 1..c.n /\ y < e.n /\ e.st[y] = c.st[y]
        BY <2>6, <2>7, <3>2
      <4>2. PartAt(c, y)
        BY <4>1 DEF InTree
      <4>3. CASE y = c.n
        BY <1>1, <2>3, <4>1, <4>2, <4>3 DEF PartAt
      <4>4. CASE y # c.n
        <5>1. y < c.n
          BY <2>6, <4>1, <4>4
        <5> QED  BY <4>1, <4>2, <5>1 DEF PartAt
      <4> QED  BY <4>3, <4>4
    <3> QED  BY <3>1, <3>2
  <2>9. n + 1 <= MaxHeight + 1
    BY <2>5, <2>6, FiniteAssumption
  <2> QED  BY <2>7, <2>8, <2>9 DEF InTree
<1>4. CASE \E r : IsResult(r) /\ e = Returned(c, r, i)
  BY <1>0, <1>4, InTreeReturned
<1>5. CASE f.k = "infer" /\ e = Put(c, Opened(f, c.idx), c.idx)
  <2>1. PICK g : g = Opened(f, c.idx)
    OBVIOUS
  <2>2. f.expr \in Level(c.n - 1)
    BY <1>0, <1>1, <1>5 DEF InTree, PartAt
  <2>3. g.k = "args" /\ g.args = f.expr.args /\ g.cats = <<>>
    BY <2>1 DEF Opened
  <2>4. Len(g.cats) <= Len(g.args)
    <3>1. PICK k \in 0..MaxHeight : k = c.n - 1
      <4>1. c.n <= MaxHeight + 1 /\ MaxHeight \in Nat
        BY FiniteAssumption DEF InTree
      <4> QED  BY <1>0, <4>1
    <3>2. k \in 0..(MaxHeight + 1)
      BY FiniteAssumption
    <3>3. IsSeq(f.expr.args)
      BY <2>2, <3>1, <3>2, LevelFacts DEF LzrOk
    <3>4. Len(f.expr.args) \in Nat
      BY <3>3, ListFacts
    <3>5. Len(g.cats) = 0
      BY <2>3
    <3> QED  BY <2>3, <3>4, <3>5
  <2> QED  BY <1>0, <1>5, <2>1, <2>2, <2>3, <2>4, InTreePut
<1>6. ASSUME f.k = "super"
      PROVE  /\ IsFrame(f) /\ IsResult(f.got) /\ IsSeq(f.cats)
             /\ Len(f.cats) \in Nat /\ Len(f.args) \in Nat /\ Len(f.cats) < Len(f.args)
             /\ \E t \in Level(c.n - 1) : f.args = t.args
  <2>1. IsFrame(f) /\ IsResult(f.got)
    BY <1>0, <1>1, <1>6, SuperFacts
  <2>2. /\ Len(f.cats) \in Nat /\ Len(f.args) \in Nat /\ IsSeq(f.cats)
        /\ (c.n < c.n \/ f.k = "super") => Len(f.cats) < Len(f.args)
    BY <1>0, <1>1, <1>6, PartFacts
  <2>3. PartAt(c, c.n)
    BY <1>0 DEF InTree
  <2> QED  BY <1>1, <1>6, <2>1, <2>2, <2>3 DEF PartAt
<1>7. CASE f.k = "super" /\ e = Put(c, WithArg(f, f.got.cat, i), i)
  <2>1. PICK g : g = WithArg(f, f.got.cat, i)
    OBVIOUS
  <2>2. g.k = "args" /\ g.args = f.args /\ Len(g.cats) = Len(f.cats) + 1
    <3>1. PICK cat, q : cat = f.got.cat /\ q = <<>>
      OBVIOUS
    <3>2. /\ g.k = "args" /\ g.args = f.args /\ Len(g.cats) = Len(f.cats) + 1
          /\ ListOf(q, g) = Taken(f, [dec |-> q, cat |-> cat, tree |-> f.got.tree])
      BY <1>6, <1>7, <2>1, <3>1, WithArgIs
    <3> QED  BY <3>2
  <2>3. Len(g.cats) <= Len(g.args)
    BY <1>6, <1>7, <2>2
  <2> QED  BY <1>0, <1>6, <1>7, <2>1, <2>2, <2>3, InTreePut
<1>8. CASE f.k = "super" /\ \E cat : e = Put(c, Recat(f, cat), i)
  <2>1. PICK cat : e = Put(c, Recat(f, cat), i)
    BY <1>8
  <2>2. PICK g : g = Recat(f, cat)
    OBVIOUS
  <2>3. g.k = "super" /\ g.args = f.args /\ g.cats = f.cats
    BY <1>6, <1>8, <2>2, RecatIs DEF SameArgs
  <2>4. Len(g.cats) < Len(g.args) /\ Len(g.cats) <= Len(g.args)
    BY <1>6, <1>8, <2>3
  <2> QED  BY <1>0, <1>6, <1>8, <2>1, <2>2, <2>3, <2>4, InTreePut
<1>9. ASSUME ~ToCall(f) PROVE ~(f.k = "args" /\ Made(c) = 0)
  <2>1. CASE ToReturn(f) \/ ToOpen(f)
    BY <2>1 DEF ToReturn, ToOpen
  <2>2. CASE ToKeep(f) \/ ToPick(f)
    BY <2>2 DEF ToKeep, ToPick
  <2>3. CASE ToChoose(f)
    <3>1. PICK entry : entry = InferEntries(f.fun, f.cats)[a + 1]
      OBVIOUS
    <3>2. Ways(c) > 0
      BY <1>0, <1>1, <2>3, <3>1, AfterChoose
    <3> QED  BY <3>2 DEF Made
  <2> QED  BY <1>1, <1>9, <2>1, <2>2, <2>3 DEF Goes
<1> QED  BY <1>0, <1>1, <1>2, <1>3, <1>4, <1>5, <1>7, <1>8, <1>9, AfterForms

LEMMA RootInTree == ASSUME LzrOk PROVE InTree(Root)
<1>1. Root.n = 1 /\ Root.st[1].k = "infer" /\ Root.st[1].expr = input.expr
  BY DEF Root, Infer
<1>2. input.expr \in Level(0) /\ MaxHeight \in Nat
  BY LevelFacts DEF LzrOk
<1>3. \A x \in 1..1 : PartAt(Root, x)
  BY <1>1, <1>2 DEF PartAt
<1>4. Root.n <= MaxHeight + 1 /\ 1..Root.n = 1..1
  BY <1>1, <1>2
<1> QED  BY <1>3, <1>4 DEF InTree

-----------------------------------------------------------------------------
(* The derivations along a run *)

\* The decisions p of the run H of the path, with n[j] alternatives for decision j.
Takes(H, N, path, p, n) ==
  /\ p \in Dec /\ Len(p) = Len(path)
  /\ \A m \in 1..(N - 1) : Ways(H[m]) > 0 => n[H[m].idx + 1] = Ways(H[m])
  /\ \A j \in 1..Len(p) : n[j] \in Nat /\ path[j] \in 1..n[j] /\ p[j] = n[j] - path[j] + 1

LEMMA DecIsSeq == ASSUME NEW p \in Dec PROVE p \in Seq(Nat) /\ Len(p) \in Nat /\ \A i \in 1..Len(p) : p[i] \in Nat \ {0}
  BY LenProperties, ElementOfSeq DEF Dec

LEMMA RunSteps ==
  ASSUME IndicesTyped, NEW H, NEW N, NEW path, Run(H, N, path), NEW m \in 1..(N - 1)
  PROVE  /\ m \in 1..N /\ m + 1 \in 1..N /\ GoodConfig(H[m]) /\ GoodConfig(H[m + 1])
         /\ Follows(H[m], path, H[m + 1]) /\ Goes(H[m]) /\ H[m].idx \in Nat
         /\ H[m + 1].idx = H[m].idx + Made(H[m]) /\ H[m + 1].idx <= Len(path) /\ Len(path) \in Nat
<1>1. N \in Nat /\ N \in 1..N /\ m \in 1..N /\ m + 1 \in 1..N /\ m + 1 <= N
  BY DEF Run
<1>2. GoodConfig(H[m]) /\ GoodConfig(H[m + 1]) /\ Follows(H[m], path, H[m + 1])
  BY <1>1 DEF Run
<1>3. H[m + 1].idx = H[m].idx + Made(H[m])
  BY <1>2, FollowsFacts
<1>4. H[m + 1].idx <= Len(path) /\ Len(path) \in Nat
  <2>1. H[m + 1].idx <= H[N].idx
    BY <1>1 DEF Run
  <2> QED  BY <2>1, LenProperties DEF Run
<1>5. H[m].idx \in Nat /\ Goes(H[m])
  BY <1>2 DEF GoodConfig, Follows
<1> QED  BY <1>1, <1>2, <1>3, <1>4, <1>5

\* A configuration with no more decisions than one where one is made comes no later.
LEMMA OneDecision ==
  ASSUME IndicesTyped, NEW H, NEW N, NEW path, Run(H, N, path), NEW m \in 1..(N - 1), Ways(H[m]) > 0,
         NEW l \in 1..N, H[l].idx <= H[m].idx
  PROVE  l <= m
<1> SUFFICES ASSUME ~(l <= m) PROVE FALSE
  OBVIOUS
<1>1. m + 1 \in 1..N /\ H[m].idx \in Nat /\ H[m + 1].idx = H[m].idx + 1
  BY RunSteps DEF Made
<1>2. m + 1 <= l
  BY DEF Run
<1>3. H[m + 1].idx <= H[l].idx
  BY <1>1, <1>2 DEF Run
<1>4. H[l].idx \in Nat
  BY DEF Run, GoodConfig
<1> QED  BY <1>1, <1>3, <1>4

LEMMA TakesExist ==
  ASSUME IndicesTyped, NEW H, NEW N, NEW path, Run(H, N, path)
  PROVE  \E p, n : Takes(H, N, path, p, n)
<1>0. path \in Seq(Nat) /\ Len(path) \in Nat /\ N \in Nat
  BY LenProperties DEF Run
<1> DEFINE Makes(m, j) == m \in 1..(N - 1) /\ H[m].idx = j - 1 /\ Ways(H[m]) > 0
<1> DEFINE n == [j \in 1..Len(path) |-> Ways(H[CHOOSE m \in 1..(N - 1) : Makes(m, j)])]
<1> DEFINE p == [j \in 1..Len(path) |-> n[j] - path[j] + 1]
<1>1. ASSUME NEW j \in 1..Len(path), NEW m, Makes(m, j)
      PROVE  n[j] = Ways(H[m]) /\ n[j] \in Nat /\ path[j] \in 1..n[j]
  <2>1. PICK k : k = CHOOSE l \in 1..(N - 1) : Makes(l, j)
    OBVIOUS
  <2>2. Makes(k, j) /\ n[j] = Ways(H[k])
    BY <1>1, <2>1
  <2>3. m <= k /\ k <= m
    <3>1. m \in 1..N /\ k \in 1..N /\ H[m].idx <= H[k].idx /\ H[k].idx <= H[m].idx
      BY <1>0, <1>1, <2>2
    <3> QED  BY <1>1, <2>2, <3>1, OneDecision
  <2>4. m = k
    BY <1>1, <2>2, <2>3
  <2>5. Follows(H[m], path, H[m + 1]) /\ H[m].idx \in Nat
    BY <1>1, RunSteps
  <2>6. H[m].idx + 1 = j
    BY <1>1, <2>5
  <2>7. path[j] \in 1..Ways(H[m])
    BY <1>1, <2>5, <2>6 DEF Follows
  <2> QED  BY <2>2, <2>4, <2>7, WaysType
<1>2. ASSUME NEW j \in 1..Len(path) PROVE \E m : Makes(m, j)
  BY DEF Run
<1>3. \A j \in 1..Len(path) : n[j] \in Nat /\ path[j] \in 1..n[j]
  BY <1>1, <1>2
<1>4. \A m \in 1..(N - 1) : Ways(H[m]) > 0 => n[H[m].idx + 1] = Ways(H[m])
  <2> SUFFICES ASSUME NEW m \in 1..(N - 1), Ways(H[m]) > 0 PROVE n[H[m].idx + 1] = Ways(H[m])
    OBVIOUS
  <2>1. H[m].idx \in Nat /\ H[m + 1].idx = H[m].idx + 1 /\ H[m + 1].idx <= Len(path)
    BY RunSteps DEF Made
  <2>2. PICK j \in 1..Len(path) : j = H[m].idx + 1
    BY <1>0, <2>1
  <2>3. Makes(m, j)
    BY <2>1, <2>2
  <2> QED  BY <1>1, <2>2, <2>3
<1> HIDE DEF n
<1>5. \A j \in 1..Len(path) : p[j] \in Nat \ {0} /\ p[j] = n[j] - path[j] + 1
  BY <1>3
<1>6. p \in Dec /\ Len(p) = Len(path)
  <2>1. p \in [1..Len(path) -> Nat \ {0}]
    BY <1>5
  <2> QED  BY <1>0, <2>1 DEF Dec
<1> HIDE DEF p
<1>7. Takes(H, N, path, p, n)
  BY <1>3, <1>4, <1>5, <1>6 DEF Takes
<1> QED  BY <1>7

LEMMA RunInTree ==
  ASSUME LzrOk, NEW H, NEW N, NEW path, Run(H, N, path)
  PROVE  \A m \in 1..N : InTree(H[m])
<1>0. IndicesTyped /\ N \in Nat \ {0}
  BY IndexLists DEF Run
<1>1. PICK l \in Nat : l = N - 1
  BY <1>0
<1> DEFINE T == {m \in Nat : m + 1 \in 1..N => InTree(H[m + 1])}
<1>2. 0 \in T
  BY RootInTree DEF Run
<1>3. ASSUME NEW m \in 0..(l - 1), m \in T PROVE m + 1 \in T
  <2>1. PICK x \in 1..(N - 1) : x = m + 1
    BY <1>0, <1>1
  <2>2. InTree(H[x])
    BY <1>0, <1>3, <2>1
  <2>3. GoodConfig(H[x]) /\ Goes(H[x]) /\ Follows(H[x], path, H[x + 1])
    BY <1>0, RunSteps
  <2>4. PICK a : H[x + 1] = After(H[x], a)
    BY <2>3 DEF Follows
  <2>5. InTree(H[x + 1])
    BY <2>2, <2>3, <2>4, InTreeNext
  <2> QED  BY <2>1, <2>5
<1>4. \A m \in 0..l : m \in T
  <2> HIDE DEF T
  <2> QED  BY <1>2, <1>3, InductionUpTo
<1> SUFFICES ASSUME NEW m \in 1..N PROVE InTree(H[m])
  OBVIOUS
<1>5. m - 1 \in 0..l /\ (m - 1) + 1 = m
  BY <1>0, <1>1
<1> QED  BY <1>4, <1>5

Upto(p, k) == [i \in 1..k |-> p[i]]

LEMMA UptoFacts ==
  ASSUME NEW p \in Dec, NEW k \in 0..Len(p)
  PROVE  /\ Upto(p, k) \in Dec /\ Len(Upto(p, k)) = k /\ \A i \in 1..k : Upto(p, k)[i] = p[i]
         /\ k < Len(p) => Append(Upto(p, k), p[k + 1]) = Upto(p, k + 1)
         /\ k = Len(p) => Upto(p, k) = p
         /\ k = 0 => Upto(p, k) = <<>>
<1>0. Len(p) \in Nat /\ \A i \in 1..Len(p) : p[i] \in Nat \ {0}
  BY DecIsSeq
<1>1. PICK q : q = Upto(p, k)
  OBVIOUS
<1>2. q \in [1..k -> Nat \ {0}] /\ \A i \in 1..k : q[i] = p[i]
  BY <1>0, <1>1 DEF Upto
<1>3. q \in Dec /\ Len(q) = k
  BY <1>0, <1>2 DEF Dec
<1>4. ASSUME k < Len(p) PROVE Append(q, p[k + 1]) = Upto(p, k + 1)
  <2>1. PICK x \in Nat \ {0} : x = p[k + 1]
    BY <1>0, <1>4
  <2>2. PICK s : s = Append(q, x)
    OBVIOUS
  <2>3. s \in Dec /\ Len(s) = k + 1 /\ s[k + 1] = x /\ \A i \in 1..k : s[i] = q[i]
    BY <1>3, <2>2, AppendProperties DEF Dec
  <2>4. PICK u : u = Upto(p, k + 1)
    OBVIOUS
  <2>5. u \in [1..(k + 1) -> Nat \ {0}] /\ \A i \in 1..(k + 1) : u[i] = p[i]
    BY <1>0, <1>4, <2>4 DEF Upto
  <2>6. u \in Dec /\ Len(u) = k + 1
    BY <1>0, <2>5 DEF Dec
  <2>7. ASSUME NEW i \in 1..Len(s) PROVE s[i] = u[i]
    <3>1. i \in 1..(k + 1) /\ (i = k + 1 \/ i \in 1..k)
      BY <2>3
    <3>2. CASE i = k + 1
      BY <2>1, <2>3, <2>5, <3>1, <3>2
    <3>3. CASE i \in 1..k
      BY <1>2, <2>3, <2>5, <3>1, <3>3
    <3> QED  BY <3>1, <3>2, <3>3
  <2>8. s = u
    BY <2>3, <2>6, <2>7, SeqEqual DEF Dec
  <2> QED  BY <2>1, <2>2, <2>4, <2>8
<1>5. ASSUME k = Len(p) PROVE q = p
  <2>1. \A i \in 1..Len(q) : q[i] = p[i]
    BY <1>2, <1>3
  <2> QED  BY <1>3, <1>5, <2>1, SeqEqual DEF Dec
<1>6. k = 0 => q = <<>>
  BY <1>3, EmptySeq DEF Dec
<1> QED  BY <1>1, <1>2, <1>3, <1>4, <1>5, <1>6

LEMMA FromStarts ==
  ASSUME NEW q \in Dec, NEW d, From(q, d)
  PROVE  d.dec \in Dec /\ StartsWith(d.dec, q)
<1>1. PICK s \in Dec : d.dec = q \o s
  BY DEF From
<1>2. d.dec \in Dec
  BY DEF From, IsDer
<1>3. Len(q) \in Nat /\ Len(s) \in Nat
  BY DecIsSeq
<1>4. Len(d.dec) = Len(q) + Len(s) /\ \A i \in 1..Len(q) : d.dec[i] = q[i]
  BY <1>1, <1>3, ConcatProperties DEF Dec
<1>5. Len(q) <= Len(d.dec)
  BY <1>3, <1>4
<1> QED  BY <1>2, <1>4, <1>5 DEF StartsWith

\* With the decisions q, the inference in c comes to the derivations that start with them.
ComesTo(c, q, r) == Via(c, q, r) <=> r \in Derivations(input.expr) /\ StartsWith(r.dec, q)

LEMMA ComesToRoot ==
  ASSUME LzrOk, NEW r
  PROVE  ComesTo(Root, <<>>, r)
<1>1. Via(Root, <<>>, r) <=> r \in Derivations(input.expr)
  BY RootVia
<1>2. ASSUME Via(Root, <<>>, r) PROVE StartsWith(r.dec, <<>>)
  <2>1. GoodConfig(Root) /\ InTree(Root) /\ <<>> \in Dec
    BY RootIsGood, RootInTree, NoArgumentsIs
  <2>2. PICK q \in Dec : q = <<>>
    BY <2>1
  <2>3. From(q, r)
    BY <1>2, <2>1, <2>2, ViaFrom
  <2> QED  BY <2>2, <2>3, FromStarts
<1> QED  BY <1>1, <1>2 DEF ComesTo

LEMMA ComesToNext ==
  ASSUME LzrOk, NEW c, GoodConfig(c), InTree(c), Goes(c), NEW q \in Dec, NEW r, ComesTo(c, q, r),
         NEW w, w = Ways(c), w > 0, NEW a \in 0..(w - 1), NEW e, e = After(c, a)
  PROVE  ComesTo(e, Append(q, a + 1), r)
<1>0. w \in Nat
  BY ViaNext
<1>1. Via(c, q, r) <=> \E b \in 0..(w - 1) : Via(After(c, b), Append(q, b + 1), r)
  BY ViaNext
<1>2. Len(q) \in Nat
  BY DecIsSeq
<1>3. ASSUME NEW b \in 0..(w - 1)
      PROVE  /\ Append(q, b + 1) \in Dec /\ Len(Append(q, b + 1)) = Len(q) + 1
             /\ Append(q, b + 1)[Len(q) + 1] = b + 1 /\ \A i \in 1..Len(q) : Append(q, b + 1)[i] = q[i]
  <2>1. b + 1 \in Nat \ {0}
    BY <1>0
  <2> QED  BY <1>2, <2>1, AppendProperties DEF Dec
<1>4. ASSUME NEW b \in 0..(w - 1), Via(After(c, b), Append(q, b + 1), r)
      PROVE  StartsWith(r.dec, Append(q, b + 1))
  <2>1. PICK d : d = After(c, b)
    OBVIOUS
  <2>2. GoodConfig(d) /\ InTree(d)
    BY <2>1, IndexLists, AfterGood, InTreeNext
  <2>3. PICK s \in Dec : s = Append(q, b + 1)
    BY <1>3
  <2>4. From(s, r)
    BY <1>4, <2>1, <2>2, <2>3, ViaFrom
  <2> QED  BY <2>3, <2>4, FromStarts
<1>5. ASSUME Via(e, Append(q, a + 1), r)
      PROVE  r \in Derivations(input.expr) /\ StartsWith(r.dec, Append(q, a + 1))
  <2>1. Via(c, q, r)
    BY <1>1, <1>5
  <2> QED  BY <1>4, <1>5, <2>1 DEF ComesTo
<1>6. ASSUME r \in Derivations(input.expr), StartsWith(r.dec, Append(q, a + 1))
      PROVE  Via(e, Append(q, a + 1), r)
  <2>1. PICK s, x : s = Append(q, a + 1) /\ x = Len(q) + 1
    OBVIOUS
  <2>2. Len(s) = x /\ s[x] = a + 1 /\ \A i \in 1..Len(q) : s[i] = q[i]
    BY <1>3, <2>1
  <2>3. x <= Len(r.dec) /\ \A i \in 1..x : r.dec[i] = s[i]
    BY <1>6, <2>1, <2>2 DEF StartsWith
  <2>4. Via(c, q, r)
    <3>0. PICK l \in Nat : l = Len(q) /\ x = l + 1
      BY <1>2, <2>1
    <3>1. r.dec \in Dec
      <4>1. Via(Root, <<>>, r) /\ GoodConfig(Root) /\ InTree(Root) /\ <<>> \in Dec
        BY <1>6, RootVia, RootIsGood, RootInTree, NoArgumentsIs
      <4>2. PICK u \in Dec : u = <<>>
        BY <4>1
      <4>3. From(u, r)
        BY <4>1, <4>2, ViaFrom
      <4> QED  BY <4>3 DEF From, IsDer
    <3>2. Len(r.dec) \in Nat
      BY <3>1, DecIsSeq
    <3>3. l <= Len(r.dec) /\ \A i \in 1..l : r.dec[i] = q[i]
      BY <2>2, <2>3, <3>0, <3>2
    <3>4. StartsWith(r.dec, q)
      BY <3>0, <3>3 DEF StartsWith
    <3> QED  BY <1>6, <3>4 DEF ComesTo
  <2>5. PICK b \in 0..(w - 1) : Via(After(c, b), Append(q, b + 1), r)
    BY <1>1, <2>4
  <2>6. StartsWith(r.dec, Append(q, b + 1))
    BY <1>4, <2>5
  <2>7. r.dec[x] = b + 1
    <3>1. PICK y : y = Append(q, b + 1)
      OBVIOUS
    <3>2. Len(y) = x /\ y[x] = b + 1 /\ x \in 1..x
      BY <1>2, <1>3, <2>1, <3>1
    <3> QED  BY <2>6, <3>1, <3>2 DEF StartsWith
  <2>8. r.dec[x] = a + 1
    <3>1. x \in 1..x
      BY <1>2, <2>1
    <3> QED  BY <2>2, <2>3, <3>1
  <2>9. b = a
    BY <2>7, <2>8
  <2> QED  BY <2>5, <2>9
<1> QED  BY <1>5, <1>6 DEF ComesTo

LEMMA AlongRun ==
  ASSUME LzrOk, NEW H, NEW N, NEW path, Run(H, N, path), NEW p, NEW n, Takes(H, N, path, p, n),
         NEW r
  PROVE  \A m \in 1..N : ComesTo(H[m], Upto(p, H[m].idx), r)
<1>0. IndicesTyped /\ N \in Nat \ {0} /\ p \in Dec /\ Len(p) \in Nat
  BY IndexLists, DecIsSeq DEF Run, Takes
<1>1. PICK l \in Nat : l = N - 1
  BY <1>0
<1> DEFINE T == {m \in Nat : m + 1 \in 1..N => ComesTo(H[m + 1], Upto(p, H[m + 1].idx), r)}
<1>2. 0 \in T
  <2>1. H[1] = Root /\ Root.idx = 0
    BY RootIsGood DEF Run
  <2>2. 0 \in 0..Len(p)
    BY <1>0
  <2>3. Upto(p, 0) = <<>>
    BY <1>0, <2>2, UptoFacts
  <2> QED  BY <2>1, <2>3, ComesToRoot
<1>3. ASSUME NEW m \in 0..(l - 1), m \in T PROVE m + 1 \in T
  <2>1. PICK x \in 1..(N - 1) : x = m + 1
    BY <1>0, <1>1
  <2>2. /\ x \in 1..N /\ GoodConfig(H[x]) /\ Goes(H[x]) /\ Follows(H[x], path, H[x + 1]) /\ H[x].idx \in Nat
        /\ H[x + 1].idx = H[x].idx + Made(H[x]) /\ H[x + 1].idx <= Len(path)
    BY <1>0, RunSteps
  <2>3. PICK c, k, e : c = H[x] /\ k = c.idx /\ e = H[x + 1]
    OBVIOUS
  <2>4. InTree(c) /\ Len(path) = Len(p)
    BY <2>2, <2>3, RunInTree DEF Takes
  <2>5. ComesTo(c, Upto(p, k), r)
    BY <1>3, <2>1, <2>2, <2>3
  <2>6. Ways(c) \in Nat
    BY <1>0, WaysType
  <2>7. CASE Ways(c) = 0
    <3>1. e = After(c, 0) /\ e.idx = k
      BY <2>2, <2>3, <2>7 DEF Follows, Made
    <3>2. PICK q \in Dec : q = Upto(p, k)
      <4>1. k \in 0..Len(p)
        BY <1>0, <2>2, <2>3, <2>4, <3>1
      <4> QED  BY <1>0, <4>1, UptoFacts
    <3>3. Via(c, q, r) <=> Via(e, q, r)
      BY <2>2, <2>3, <2>4, <2>7, <3>1, ViaNext
    <3>4. ComesTo(e, Upto(p, e.idx), r)
      BY <2>5, <3>1, <3>2, <3>3 DEF ComesTo
    <3> QED  BY <2>1, <2>3, <3>4
  <2>8. CASE Ways(c) > 0
    <3>1. PICK w \in Nat : w = Ways(c)
      BY <2>6
    <3>2. /\ path[k + 1] \in 1..w /\ e = After(c, w - path[k + 1]) /\ e.idx = k + 1
          /\ n[k + 1] = w
      BY <2>2, <2>3, <2>8, <3>1 DEF Follows, Made, Takes
    <3>3. PICK a \in 0..(w - 1) : a = w - path[k + 1]
      BY <3>1, <3>2
    <3>4. k \in 0..Len(p) /\ k < Len(p) /\ k + 1 \in 1..Len(p)
      BY <1>0, <2>2, <2>3, <2>4, <3>2
    <3>5. p[k + 1] = a + 1
      <4>1. p[k + 1] = n[k + 1] - path[k + 1] + 1
        BY <3>4 DEF Takes
      <4> QED  BY <3>2, <3>3, <4>1
    <3>6. PICK q \in Dec : q = Upto(p, k) /\ Append(q, a + 1) = Upto(p, k + 1)
      BY <1>0, <3>4, <3>5, UptoFacts
    <3>7. ComesTo(e, Append(q, a + 1), r)
      <4>1. ComesTo(c, q, r) /\ GoodConfig(c) /\ Goes(c) /\ e = After(c, a) /\ w > 0
        BY <2>2, <2>3, <2>5, <2>8, <3>1, <3>2, <3>3, <3>6
      <4> QED  BY <2>4, <3>1, <4>1, ComesToNext
    <3>8. ComesTo(e, Upto(p, e.idx), r)
      BY <3>2, <3>6, <3>7
    <3> QED  BY <2>1, <2>3, <3>8
  <2> QED  BY <2>6, <2>7, <2>8
<1>4. \A m \in 0..l : m \in T
  <2> HIDE DEF T
  <2> QED  BY <1>2, <1>3, InductionUpTo
<1> SUFFICES ASSUME NEW m \in 1..N PROVE ComesTo(H[m], Upto(p, H[m].idx), r)
  OBVIOUS
<1>5. m - 1 \in 0..l /\ (m - 1) + 1 = m
  BY <1>0, <1>1
<1> QED  BY <1>4, <1>5

Ders == Derivations(input.expr)

Decisions == {d.dec : d \in Ders}

LEMMA DersTyped ==
  ASSUME LzrOk, NEW d \in Ders
  PROVE  d.dec \in Dec
<1>1. Via(Root, <<>>, d) /\ GoodConfig(Root) /\ InTree(Root) /\ <<>> \in Dec
  BY RootVia, RootIsGood, RootInTree, NoArgumentsIs DEF Ders
<1>2. PICK u \in Dec : u = <<>>
  BY <1>1
<1>3. From(u, d)
  BY <1>1, <1>2, ViaFrom
<1> QED  BY <1>3 DEF From, IsDer

\* A derivation that agrees with the decisions made so far makes the next one.
LEMMA RunCounts ==
  ASSUME LzrOk, NEW H, NEW N, NEW path, Run(H, N, path), NEW p, NEW n, Takes(H, N, path, p, n)
  PROVE  TriesLeft(Decisions, p, path, n)
<1>0. /\ IndicesTyped /\ path \in Seq(Nat) /\ p \in Dec /\ p \in Seq(Nat) /\ Len(p) \in Nat
      /\ Len(p) = Len(path)
  BY IndexLists, DecIsSeq DEF Run, Takes
<1>1. ASSUME NEW d \in Ders, NEW j \in 1..Len(p), j - 1 <= Len(d.dec),
             \A i \in 1..(j - 1) : d.dec[i] = p[i]
      PROVE  j <= Len(d.dec) /\ d.dec[j] \in 1..n[j]
  <2>1. PICK m \in 1..(N - 1) : H[m].idx = j - 1 /\ Ways(H[m]) > 0
    BY <1>0 DEF Run
  <2>2. m \in 1..N /\ GoodConfig(H[m]) /\ Goes(H[m])
    BY <1>0, <2>1, RunSteps
  <2>3. InTree(H[m])
    BY <2>2, RunInTree
  <2>4. PICK c, w : c = H[m] /\ w = Ways(c)
    OBVIOUS
  <2>5. PICK k \in 0..Len(p) : k = j - 1 /\ k + 1 = j
    BY <1>0
  <2>6. PICK q \in Dec : q = Upto(p, k) /\ Len(q) = k /\ \A i \in 1..k : q[i] = p[i]
    BY <1>0, UptoFacts
  <2>7. ComesTo(c, q, d)
    <3>1. ComesTo(H[m], Upto(p, H[m].idx), d)
      BY <2>2, AlongRun
    <3> QED  BY <2>1, <2>4, <2>5, <2>6, <3>1
  <2>8. StartsWith(d.dec, q)
    BY <1>1, <2>5, <2>6 DEF StartsWith
  <2>9. Via(c, q, d)
    BY <2>7, <2>8 DEF ComesTo, Ders
  <2>10. w \in Nat /\ w > 0
    BY <1>0, <2>1, <2>4, WaysType
  <2>11. PICK a \in 0..(w - 1) : Via(After(c, a), Append(q, a + 1), d)
    <3>1. \E a \in 0..(Ways(c) - 1) : Via(After(c, a), Append(q, a + 1), d)
      BY <2>2, <2>3, <2>4, <2>9, <2>10, ViaNext
    <3> QED  BY <2>4, <3>1
  <2>12. PICK e, s : e = After(c, a) /\ s = Append(q, a + 1)
    OBVIOUS
  <2>13. s \in Dec /\ Len(s) = j /\ s[j] = a + 1
    <3>1. a + 1 \in Nat \ {0}
      BY <2>10
    <3> QED  BY <2>5, <2>6, <2>12, <3>1, AppendProperties DEF Dec
  <2>14. GoodConfig(e) /\ InTree(e)
    BY <1>0, <2>2, <2>3, <2>4, <2>12, AfterGood, InTreeNext
  <2>15. From(s, d)
    BY <2>11, <2>12, <2>13, <2>14, ViaFrom
  <2>16. StartsWith(d.dec, s)
    BY <2>13, <2>15, FromStarts
  <2>17. j <= Len(d.dec) /\ d.dec[j] = a + 1
    <3>1. j \in 1..Len(s)
      BY <1>0, <2>13
    <3> QED  BY <2>13, <2>16, <3>1 DEF StartsWith
  <2>18. n[j] = w
    <3>1. n[H[m].idx + 1] = w
      BY <2>1, <2>4 DEF Takes
    <3>2. H[m].idx + 1 = j
      BY <2>1, <2>5
    <3> QED  BY <3>1, <3>2
  <2> QED  BY <2>10, <2>17, <2>18
<1>2. ASSUME NEW s \in Decisions
      PROVE  /\ s \in Seq(Nat)
             /\ \A j \in 1..Len(p) :
                  (\A i \in 1..(j - 1) : i <= Len(s) => s[i] = p[i]) => j <= Len(s) /\ s[j] \in 1..n[j]
  <2>1. PICK d \in Ders : s = d.dec
    BY DEF Decisions
  <2>2. s \in Dec /\ s \in Seq(Nat) /\ Len(s) \in Nat
    BY <2>1, DersTyped, DecIsSeq
  <2>3. ASSUME NEW j \in 1..Len(p), \A i \in 1..(j - 1) : i <= Len(s) => s[i] = p[i]
        PROVE  j <= Len(s) /\ s[j] \in 1..n[j]
    <3>1. j - 1 <= Len(s)
      <4> SUFFICES ASSUME ~(j - 1 <= Len(s)) PROVE FALSE
        OBVIOUS
      <4>1. PICK k \in 1..Len(p) : k = Len(s) + 1 /\ k - 1 = Len(s)
        BY <1>0, <2>2
      <4>2. \A i \in 1..(k - 1) : i \in 1..(j - 1) /\ i <= Len(s)
        BY <1>0, <2>2, <4>1
      <4>3. k - 1 <= Len(d.dec) /\ \A i \in 1..(k - 1) : d.dec[i] = p[i]
        BY <2>1, <2>2, <2>3, <4>1, <4>2
      <4>4. k <= Len(s)
        BY <1>1, <2>1, <4>3
      <4> QED  BY <2>2, <4>1, <4>4
    <3>2. \A i \in 1..(j - 1) : d.dec[i] = p[i]
      BY <1>0, <2>1, <2>2, <2>3, <3>1
    <3> QED  BY <1>1, <2>1, <3>1, <3>2
  <2> QED  BY <2>2, <2>3
<1>3. \A j \in 1..Len(p) : n[j] \in Nat /\ path[j] \in 1..n[j] /\ p[j] = n[j] - path[j] + 1
  BY DEF Takes
<1> QED  BY <1>0, <1>2, <1>3 DEF TriesLeft

\* Where the run ends.
LEMMA ComesToEnd ==
  ASSUME LzrOk, NEW H, NEW N, NEW path, Run(H, N, path), NEW p, NEW n, Takes(H, N, path, p, n),
         NEW r
  PROVE  /\ ComesTo(H[N], p, r) /\ p \in Dec
         /\ GoodConfig(H[N]) /\ InTree(H[N])
<1>1. N \in 1..N /\ H[N].idx = Len(path) /\ Len(path) = Len(p) /\ p \in Dec
  BY DEF Run, Takes
<1>2. GoodConfig(H[N]) /\ InTree(H[N]) /\ ComesTo(H[N], Upto(p, H[N].idx), r)
  BY <1>1, RunInTree, AlongRun DEF Run
<1>3. Len(p) \in 0..Len(p)
  BY <1>1, DecIsSeq
<1>4. Upto(p, Len(p)) = p
  BY <1>1, <1>3, UptoFacts
<1> QED  BY <1>1, <1>2, <1>4

\* It is over, and has found the one derivation with its decisions.
LEMMA RunOver ==
  ASSUME LzrOk, NEW H, NEW N, NEW path, Run(H, N, path), NEW p, NEW n, Takes(H, N, path, p, n),
         H[N].n = 0, NEW r
  PROVE  r \in Ders /\ StartsWith(r.dec, p) <=> r = Got(p, H[N].got)
<1>1. ComesTo(H[N], p, r)
  BY ComesToEnd
<1>2. Via(H[N], p, r) <=> r = Got(p, H[N].got)
  BY DEF Via
<1> QED  BY <1>1, <1>2 DEF ComesTo, Ders

\* It is stuck: there is no derivation with its decisions.
LEMMA RunStuck ==
  ASSUME LzrOk, NEW H, NEW N, NEW path, Run(H, N, path), NEW p, NEW n, Takes(H, N, path, p, n),
         H[N].n > 0, ~Goes(H[N]), NEW r \in Ders
  PROVE  ~StartsWith(r.dec, p)
<1>1. PICK c : c = H[N]
  OBVIOUS
<1>2. ComesTo(c, p, r) /\ p \in Dec /\ GoodConfig(c) /\ InTree(c) /\ c.n > 0 /\ ~Goes(c)
  BY <1>1, ComesToEnd
<1>3. ~Via(c, p, r)
  BY <1>2, ViaStuck
<1> QED  BY <1>2, <1>3 DEF ComesTo, Ders

-----------------------------------------------------------------------------
(* Runs of paths that begin alike *)

LEMMA RunsSame ==
  ASSUME IndicesTyped, NEW H, NEW N, NEW path, Run(H, N, path), NEW G, NEW M, NEW way, Run(G, M, way),
         NEW k \in Nat, \A i \in 1..k : way[i] = path[i]
  PROVE  \A m \in 1..N : m <= M /\ H[m].idx <= k => G[m] = H[m]
<1>0. N \in Nat \ {0} /\ M \in Nat \ {0}
  BY DEF Run
<1>1. PICK l \in Nat : l = N - 1
  BY <1>0
<1> DEFINE T == {m \in Nat : m + 1 \in 1..N => (m + 1 <= M /\ H[m + 1].idx <= k => G[m + 1] = H[m + 1])}
<1>2. 0 \in T
  BY DEF Run
<1>3. ASSUME NEW m \in 0..(l - 1), m \in T PROVE m + 1 \in T
  <2>1. PICK x \in 1..(N - 1) : x = m + 1
    BY <1>0, <1>1
  <2>2. ASSUME x + 1 <= M, H[x + 1].idx <= k PROVE G[x + 1] = H[x + 1]
    <3>1. /\ Follows(H[x], path, H[x + 1]) /\ H[x].idx \in Nat /\ GoodConfig(H[x])
          /\ H[x + 1].idx = H[x].idx + Made(H[x])
      BY <1>0, RunSteps
    <3>2. x \in 1..(M - 1)
      BY <1>0, <2>2
    <3>3. Follows(G[x], way, G[x + 1])
      BY <1>0, <3>2, RunSteps
    <3>4. H[x].idx <= k /\ x <= M
      BY <1>0, <2>2, <3>1, MadeFacts
    <3>5. G[x] = H[x]
      BY <1>0, <1>3, <2>1, <3>4
    <3>6. CASE Ways(H[x]) = 0
      BY <3>1, <3>3, <3>5, <3>6 DEF Follows
    <3>7. CASE Ways(H[x]) # 0
      <4>1. Made(H[x]) = 1
        BY <1>0, <3>7, WaysType DEF Made
      <4>2. H[x].idx + 1 \in 1..k
        BY <2>2, <3>1, <4>1
      <4>3. way[H[x].idx + 1] = path[H[x].idx + 1]
        BY <4>2
      <4> QED  BY <3>1, <3>3, <3>5, <3>7, <4>3 DEF Follows
    <3> QED  BY <3>6, <3>7
  <2> QED  BY <2>1, <2>2
<1>4. \A m \in 0..l : m \in T
  <2> HIDE DEF T
  <2> QED  BY <1>2, <1>3, InductionUpTo
<1> SUFFICES ASSUME NEW m \in 1..N, m <= M, H[m].idx <= k PROVE G[m] = H[m]
  OBVIOUS
<1>5. m - 1 \in 0..l /\ (m - 1) + 1 = m
  BY <1>0, <1>1
<1> QED  BY <1>4, <1>5

\* The other run has the same alternatives for the decision.
LEMMA SameWays ==
  ASSUME IndicesTyped, NEW H, NEW N, NEW path, Run(H, N, path), NEW G, NEW M, NEW way, Run(G, M, way),
         NEW p, NEW n, Takes(G, M, way, p, n), NEW m \in 1..N, Ways(H[m]) > 0,
         NEW j \in 1..Len(way), H[m].idx = j - 1, \A i \in 1..(j - 1) : way[i] = path[i]
  PROVE  n[j] = Ways(H[m])
<1>0. N \in Nat /\ M \in Nat /\ Len(way) \in Nat /\ GoodConfig(H[m])
  BY LenProperties DEF Run
<1>1. PICK k \in Nat : k = j - 1 /\ k + 1 = j
  BY <1>0
<1>2. PICK l \in 1..(M - 1) : G[l].idx = k /\ Ways(G[l]) > 0
  BY <1>1 DEF Run
<1>3. \A x \in 1..N : x <= M /\ H[x].idx <= k => G[x] = H[x]
  BY <1>1, RunsSame
<1>4. m <= l
  <2> SUFFICES ASSUME ~(m <= l) PROVE FALSE
    OBVIOUS
  <2>1. l \in 1..(N - 1) /\ l \in 1..N /\ l <= M /\ l <= m
    BY <1>0
  <2>2. H[l].idx <= H[m].idx
    BY <2>1 DEF Run
  <2>3. G[l] = H[l]
    BY <1>1, <1>3, <2>1, <2>2
  <2>4. Ways(H[l]) > 0 /\ H[m].idx <= H[l].idx
    BY <1>1, <1>2, <2>3
  <2>5. m <= l
    BY <2>1, <2>4, OneDecision
  <2> QED  BY <2>5
<1>5. m \in 1..(M - 1) /\ m <= M /\ H[m].idx <= k
  BY <1>0, <1>1, <1>4
<1>6. G[m] = H[m]
  BY <1>3, <1>5
<1>7. Ways(G[m]) > 0 /\ G[m].idx + 1 = j
  BY <1>1, <1>6
<1>8. n[G[m].idx + 1] = Ways(G[m])
  BY <1>5, <1>7 DEF Takes
<1> QED  BY <1>6, <1>7, <1>8

\* p are the decisions of the run of the path, each of n[j] alternatives.
Tracked(path, p, n) == \E H, N : Run(H, N, path) /\ Takes(H, N, path, p, n)

LEMMA TrackedFacts ==
  ASSUME LzrOk, NEW path, NEW p, NEW n, Tracked(path, p, n)
  PROVE  /\ TriesLeft(Decisions, p, path, n) /\ p \in Dec /\ p \in Seq(Nat) /\ Len(p) = Len(path)
         /\ Len(p) \in Nat /\ path \in Seq(Nat)
         /\ \A j \in 1..Len(p) : n[j] \in Nat /\ path[j] \in 1..n[j] /\ p[j] = n[j] - path[j] + 1
<1>1. PICK H, N : Run(H, N, path) /\ Takes(H, N, path, p, n)
  BY DEF Tracked
<1>2. TriesLeft(Decisions, p, path, n)
  BY <1>1, RunCounts
<1>3. p \in Dec /\ Len(p) = Len(path) /\ path \in Seq(Nat)
  BY <1>1 DEF Run, Takes
<1>4. \A j \in 1..Len(p) : n[j] \in Nat /\ path[j] \in 1..n[j] /\ p[j] = n[j] - path[j] + 1
  BY <1>1 DEF Takes
<1> QED  BY <1>2, <1>3, <1>4, DecIsSeq

LEMMA TrackedExists ==
  ASSUME LzrOk, NEW H, NEW N, NEW path, Run(H, N, path)
  PROVE  \E p, n : Tracked(path, p, n)
<1>1. PICK p, n : Takes(H, N, path, p, n)
  BY IndexLists, TakesExist
<1> QED  BY <1>1 DEF Tracked

\* Paths that begin alike stand for decisions that begin alike.
LEMMA TrackedAgree ==
  ASSUME LzrOk, NEW path, NEW p, NEW n, Tracked(path, p, n), NEW way, NEW q, NEW o, Tracked(way, q, o),
         NEW j \in 1..Len(path), j <= Len(way), \A i \in 1..(j - 1) : way[i] = path[i]
  PROVE  o[j] = n[j] /\ (way[j] = path[j] => q[j] = p[j])
<1>1. PICK H, N : Run(H, N, path) /\ Takes(H, N, path, p, n)
  BY DEF Tracked
<1>2. PICK G, M : Run(G, M, way) /\ Takes(G, M, way, q, o)
  BY DEF Tracked
<1>3. PICK m \in 1..(N - 1) : H[m].idx = j - 1 /\ Ways(H[m]) > 0
  BY <1>1 DEF Run
<1>4. m \in 1..N /\ j \in 1..Len(way) /\ j \in 1..Len(p) /\ j \in 1..Len(q)
  <2>1. Len(p) = Len(path) /\ Len(q) = Len(way) /\ Len(way) \in Nat /\ Len(path) \in Nat
    BY TrackedFacts
  <2>2. N \in Nat
    BY <1>1 DEF Run
  <2> QED  BY <2>1, <2>2
<1>5. o[j] = Ways(H[m])
  BY <1>1, <1>2, <1>3, <1>4, IndexLists, SameWays
<1>6. n[j] = Ways(H[m])
  <2>1. H[m].idx + 1 = j
    BY <1>3
  <2>2. n[H[m].idx + 1] = Ways(H[m])
    BY <1>1, <1>3 DEF Takes
  <2> QED  BY <2>1, <2>2
<1>7. p[j] = n[j] - path[j] + 1 /\ q[j] = o[j] - way[j] + 1
  BY <1>4, TrackedFacts
<1> QED  BY <1>5, <1>6, <1>7

\* A first alternative more.
LEMMA AppendOn ==
  ASSUME LzrOk, NEW path, NEW p, NEW n, Tracked(path, p, n), NEW H, NEW N, Run(H, N, path),
         NEW m \in 1..N, Ways(H[m]) > 0, H[m].idx = Len(path),
         NEW way, NEW q, NEW o, Tracked(way, q, o), Len(way) = Len(path) + 1,
         way[Len(way)] = Ways(H[m]), \A i \in 1..Len(path) : way[i] = path[i], NEW d \in Ders
  PROVE  Before(d.dec, q) <=> Before(d.dec, p)
<1>1. p \in Seq(Nat) /\ Len(p) = Len(path) /\ Len(p) \in Nat /\ path \in Seq(Nat)
  BY TrackedFacts
<1>2. PICK l \in Nat : l = Len(path)
  BY <1>1
<1>3. PICK j \in 1..Len(way) : j = l + 1 /\ j = Len(way) /\ j - 1 = l
  BY <1>2
<1>4. /\ q \in Seq(Nat) /\ Len(q) = Len(way)
      /\ \A k \in 1..Len(q) : o[k] \in Nat /\ way[k] \in 1..o[k] /\ q[k] = o[k] - way[k] + 1
  BY TrackedFacts
<1>5. o[j] = way[j]
  <2>1. PICK G, M : Run(G, M, way) /\ Takes(G, M, way, q, o)
    BY DEF Tracked
  <2>2. H[m].idx = j - 1 /\ \A i \in 1..(j - 1) : way[i] = path[i]
    BY <1>2, <1>3
  <2>3. IndicesTyped
    BY IndexLists
  <2>4. o[j] = Ways(H[m])
    BY <2>1, <2>2, <2>3, SameWays
  <2> QED  BY <1>3, <2>4
<1>6. q[Len(q)] = 1
  <2>1. q[j] = o[j] - way[j] + 1 /\ o[j] \in Nat
    BY <1>3, <1>4
  <2> QED  BY <1>3, <1>4, <1>5, <2>1
<1>7. ASSUME NEW k \in 1..Len(p) PROVE q[k] = p[k]
  <2>1. k \in 1..Len(path) /\ k <= Len(way) /\ way[k] = path[k] /\ \A i \in 1..(k - 1) : way[i] = path[i]
    BY <1>1, <1>2, <1>3
  <2> QED  BY <2>1, TrackedAgree
<1>8. PICK s \in Seq(Nat \ {0}) : s = d.dec
  BY DersTyped DEF Dec
<1>9. Len(q) = Len(p) + 1
  BY <1>1, <1>4
<1> QED  BY <1>1, <1>4, <1>6, <1>7, <1>8, <1>9, FirstTry

\* The next alternative of the last decision that has one.
LEMMA AdvanceOn ==
  ASSUME LzrOk, NEW path, NEW p, NEW n, Tracked(path, p, n),
         NEW j \in 1..Len(path), \A k \in 1..Len(path) : k > j => path[k] = 1,
         NEW way, NEW q, NEW o, Tracked(way, q, o), Len(way) = j, way[j] = path[j] - 1,
         \A k \in 1..(j - 1) : way[k] = path[k], NEW d \in Ders
  PROVE  Before(d.dec, q) <=> NotAfter(d.dec, p)
<1>1. /\ p \in Seq(Nat) /\ Len(p) = Len(path) /\ Len(p) \in Nat /\ path \in Seq(Nat)
      /\ TriesLeft(Decisions, p, path, n)
      /\ \A k \in 1..Len(p) : n[k] \in Nat /\ path[k] \in 1..n[k] /\ p[k] = n[k] - path[k] + 1
  BY TrackedFacts
<1>2. /\ q \in Seq(Nat) /\ Len(q) = Len(way)
      /\ \A k \in 1..Len(q) : o[k] \in Nat /\ way[k] \in 1..o[k] /\ q[k] = o[k] - way[k] + 1
  BY TrackedFacts
<1>3. q[j] = p[j] + 1
  <2>1. o[j] = n[j]
    <3>1. j <= Len(way)
      OBVIOUS
    <3> QED  BY <3>1, TrackedAgree
  <2>2. j \in 1..Len(q) /\ j \in 1..Len(p)
    BY <1>1, <1>2
  <2>3. /\ n[j] \in Nat /\ path[j] \in 1..n[j] /\ p[j] = n[j] - path[j] + 1
        /\ q[j] = o[j] - way[j] + 1
    BY <1>1, <1>2, <2>2
  <2>4. PICK x \in Nat, y \in Nat : x = n[j] /\ y = path[j]
    BY <2>3
  <2> QED  BY <2>1, <2>3, <2>4
<1>4. ASSUME NEW k \in 1..(j - 1) PROVE q[k] = p[k]
  <2>1. k \in 1..Len(path) /\ k <= Len(way) /\ way[k] = path[k] /\ \A i \in 1..(k - 1) : way[i] = path[i]
    BY <1>1
  <2> QED  BY <2>1, TrackedAgree
<1>5. PICK S : S = Decisions
  OBVIOUS
<1>6. PICK s : s = d.dec
  OBVIOUS
<1>7. S = Decisions /\ s = d.dec /\ s \in S
  BY <1>5, <1>6 DEF Decisions
<1>8. TriesLeft(S, p, path, n) /\ j \in 1..Len(p) /\ Len(q) = j /\ \A k \in 1..Len(p) : k > j => path[k] = 1
  BY <1>1, <1>2, <1>7
<1>9. \A k \in 1..(j - 1) : q[k] = p[k]
  BY <1>4
<1>10. Before(s, q) <=> NotAfter(s, p)
  <2>1. s \in S /\ q \in Seq(Nat) /\ q[j] = p[j] + 1
    BY <1>2, <1>3, <1>7
  <2> QED  BY ONLY <1>8, <1>9, <2>1, TakeNext, SMTT(30)
<1> QED  BY <1>7, <1>10

\* Without the last decisions, none of which has another alternative.
LEMMA CutOn ==
  ASSUME LzrOk, NEW path, NEW p, NEW n, Tracked(path, p, n),
         NEW way, NEW q, NEW o, Tracked(way, q, o), Len(way) <= Len(path),
         \A k \in 1..Len(way) : way[k] = path[k],
         \A k \in 1..Len(path) : k > Len(way) => path[k] = 1, NEW d \in Ders
  PROVE  NotAfter(d.dec, q) <=> NotAfter(d.dec, p)
<1>1. /\ Len(p) = Len(path) /\ Len(p) \in Nat
      /\ TriesLeft(Decisions, p, path, n) /\ q \in Seq(Nat) /\ Len(q) = Len(way) /\ Len(q) \in Nat
  BY TrackedFacts
<1>2. ASSUME NEW k \in 1..Len(q) PROVE q[k] = p[k]
  <2>1. k \in 1..Len(path) /\ k <= Len(way) /\ way[k] = path[k] /\ \A x \in 1..(k - 1) : way[x] = path[x]
    BY <1>1
  <2> QED  BY <2>1, TrackedAgree
<1>3. PICK S : S = Decisions
  OBVIOUS
<1>4. PICK s : s = d.dec
  OBVIOUS
<1>5. S = Decisions /\ s = d.dec /\ s \in S
  BY <1>3, <1>4 DEF Decisions
<1>6. TriesLeft(S, p, path, n) /\ Len(q) <= Len(p) /\ \A k \in 1..Len(p) : k > Len(q) => path[k] = 1
  BY <1>1, <1>5
<1>7. \A k \in 1..Len(q) : q[k] = p[k]
  BY <1>2
<1>8. NotAfter(s, q) <=> NotAfter(s, p)
  <2>1. s \in S /\ q \in Seq(Nat)
    BY <1>1, <1>5
  <2> QED  BY ONLY <1>6, <1>7, <2>1, DropLast, SMTT(30)
<1> QED  BY <1>5, <1>8

\* What gu_choice_advance does to the path.
LEMMA Advanced ==
  ASSUME NEW c0, IsChoice(c0), NEW path \in Seq(Nat), path = c0.path, c0.path_idx \in Nat,
         \A k \in 1..Len(path) : path[k] # 0, CanAdvance(c0)
  PROVE  \E j \in 1..Len(path) :
           /\ \A k \in 1..Len(path) : k > j => path[k] = 1
           /\ Len(gu_choice_advance(c0).path) = j /\ gu_choice_advance(c0).path[j] = path[j] - 1
           /\ \A k \in 1..(j - 1) : gu_choice_advance(c0).path[k] = path[k]
<1>0. Len(path) \in Nat /\ \A k \in 1..Len(path) : path[k] \in Nat
  BY LenProperties, ElementOfSeq
<1>1. PICK j : j = LastUntried(c0)
  OBVIOUS
<1>2. j \in Untried(c0)
  BY <1>1, LastUntriedIs
<1>3. j \in 1..Len(path) /\ c0.path_idx < j /\ path[j] > 1
  BY <1>0, <1>2 DEF Untried
<1>4. ASSUME NEW k \in 1..Len(path), k > j PROVE path[k] = 1
  <2>1. Untried(c0) \subseteq 0..Len(c0.path) /\ Len(c0.path) \in Nat
    BY <1>0 DEF Untried
  <2>2. \E x \in Untried(c0) : \A y \in Untried(c0) : y <= x
    BY <2>1, LargestExists DEF CanAdvance
  <2>3. \A y \in Untried(c0) : y <= j
    BY <1>1, <2>2, Zenon DEF LastUntried
  <2>4. k \notin Untried(c0)
    <3> SUFFICES ASSUME k \in Untried(c0) PROVE FALSE
      OBVIOUS
    <3>1. k <= j
      BY <2>3
    <3> QED  BY <1>0, <1>3, <1>4, <3>1
  <2>5. k \in (c0.path_idx + 1)..Len(path)
    BY <1>0, <1>3, <1>4
  <2>6. ~(path[k] > 1)
    BY <2>4, <2>5 DEF Untried
  <2> QED  BY <1>0, <2>6
<1>5. PICK way : way = gu_choice_advance(c0).path
  OBVIOUS
<1>6. way = Append(SubSeq(path, 1, j - 1), path[j] - 1)
  BY <1>1, <1>5 DEF gu_choice_advance, IsChoice
<1>7. PICK x \in Nat : x = path[j] - 1
  BY <1>0, <1>3
<1>8. PICK i \in 0..Len(path) : i = j - 1 /\ j = i + 1
  BY <1>0, <1>3
<1>9. PICK u : u = SubSeq(path, 1, i)
  OBVIOUS
<1>10. u \in Seq(Nat) /\ Len(u) = i /\ \A k \in 1..i : u[k] = path[k]
  BY <1>0, <1>8, <1>9
<1>11. way = Append(u, x)
  BY <1>6, <1>7, <1>8, <1>9
<1>12. Len(way) = i + 1 /\ way[i + 1] = x /\ \A k \in 1..i : way[k] = u[k]
  BY <1>10, <1>11, AppendProperties
<1> QED  BY <1>3, <1>4, <1>5, <1>7, <1>8, <1>10, <1>12

LEMMA NotAdvanced ==
  ASSUME NEW c0, IsChoice(c0), NEW path \in Seq(Nat), path = c0.path, c0.path_idx \in 0..Len(path),
         \A k \in 1..Len(path) : path[k] # 0, ~CanAdvance(c0)
  PROVE  /\ Len(gu_choice_advance(c0).path) = c0.path_idx
         /\ \A k \in 1..c0.path_idx : gu_choice_advance(c0).path[k] = path[k]
         /\ \A k \in 1..Len(path) : k > c0.path_idx => path[k] = 1
<1>0. Len(path) \in Nat /\ \A k \in 1..Len(path) : path[k] \in Nat
  BY LenProperties, ElementOfSeq
<1>1. PICK i \in 0..Len(path) : i = c0.path_idx
  OBVIOUS
<1>2. gu_choice_advance(c0).path = SubSeq(path, 1, i)
  BY <1>1 DEF gu_choice_advance, IsChoice
<1>3. PICK way : way = SubSeq(path, 1, i)
  OBVIOUS
<1>4. Len(way) = i /\ \A k \in 1..i : way[k] = path[k]
  BY <1>0, <1>3
<1>5. ASSUME NEW k \in 1..Len(path), k > i PROVE path[k] = 1
  <2>1. k \in (c0.path_idx + 1)..Len(path)
    BY <1>0, <1>1, <1>5
  <2>2. ~(path[k] > 1)
    BY <2>1 DEF CanAdvance, Untried
  <2>3. PICK x \in Nat : x = path[k] /\ x # 0
    BY <1>0
  <2> QED  BY <2>2, <2>3
<1> QED  BY <1>1, <1>2, <1>3, <1>4, <1>5

-----------------------------------------------------------------------------
(* The trees that the client has *)

\* Before p, and with what goes on from p.
Passed(p) == {d \in Ders : Before(d.dec, p)}

Tried(p) == {d \in Ders : NotAfter(d.dec, p)}

Shown(ds, rs) == IsFiniteSet(ds) /\ Cardinality(ds) = Len(rs)

\* The client has as many trees as there are derivations before the one under way;
\* where that has failed, with what goes on from it.
Counted(path, rs, up) ==
  \E p, n : Tracked(path, p, n) /\ Shown(IF up THEN Tried(p) ELSE Passed(p), rs)

Complete(rs) == Shown(Ders, rs)

\* The tree x is that of the i-th derivation; and each tree of rs is where it belongs.
Placed(x, i) == \E d \in Ders : x = d.tree /\ Cardinality(Passed(d.dec)) = i - 1

Listed(rs) == \A i \in DOMAIN rs : Placed(rs[i], i)

\* The inference has failed, in an application or for good.
GivesUp == ~Idle /\ (Top.k = "back" \/ (Top.k = "dry" /\ Top.got = NULL))

\* The inductive invariant.
ConcretizedInv ==
  /\ LzrOk /\ LinearizeInv
  /\ IsSeq(results)
  /\ Listed(results)
  /\ Idle /\ (ended \/ expr = NULL) => Complete(results)
  /\ ~Idle => ~ended
  /\ ~Idle \/ (~ended /\ expr # NULL) => Counted(ch.path, results, GivesUp)

\* The grammar and the tree do not change, and what is said of them stays.
LEMMA DersStable == ASSUME lzr' = lzr, input' = input PROVE Ders' = Ders
  BY SMTT(60) DEF Ders, Derivations, DerivationsOfParts, Levels, Derived, HasFun, Applied, InferEntries,
     IndexedAt, Arguments, NoArguments, WithArgument, AsArgument, Lifts, Lifted, Kept, Supers

LEMMA RunSame ==
  ASSUME lzr' = lzr, input' = input, NEW H, NEW N, NEW path
  PROVE  Run(H, N, path)' = Run(H, N, path)
<1>1. Root' = Root
  BY DEF Root
<1>2. ASSUME NEW c, NEW e PROVE Follows(c, path, e)' = Follows(c, path, e)
  BY StepsStable DEF Follows
<1> QED  BY <1>1, <1>2, StepsStable DEF Run

LEMMA TrackedStable ==
  ASSUME lzr' = lzr, input' = input, NEW path, NEW p, NEW n
  PROVE  Tracked(path, p, n)' = Tracked(path, p, n)
<1>1. \A H, N : Run(H, N, path)' = Run(H, N, path)
  BY RunSame
<1>2. \A H, N : Takes(H, N, path, p, n)' = Takes(H, N, path, p, n)
  BY StepsStable DEF Takes
<1> QED  BY <1>1, <1>2 DEF Tracked

LEMMA GivenPartsStay ==
  ASSUME lzr' = lzr, input' = input, NEW rs, NEW path, NEW up
  PROVE  /\ LzrOk' = LzrOk /\ Listed(rs)' = Listed(rs) /\ Complete(rs)' = Complete(rs)
         /\ Counted(path, rs, up)' = Counted(path, rs, up)
<1>1. Ders' = Ders
  BY DersStable
<1>2. \A p : Passed(p)' = Passed(p) /\ Tried(p)' = Tried(p)
  BY <1>1 DEF Passed, Tried
<1>3. Listed(rs)' = Listed(rs)
  BY <1>1, <1>2 DEF Listed, Placed
<1>4. Complete(rs)' = Complete(rs)
  BY <1>1 DEF Complete
<1>5. LzrOk' = LzrOk
  BY DEF LzrOk
<1>6. Counted(path, rs, up)' = Counted(path, rs, up)
  <2>1. \A p, n : Tracked(path, p, n)' = Tracked(path, p, n)
    BY TrackedStable
  <2> QED  BY <1>2, <2>1 DEF Counted
<1> QED  BY <1>3, <1>4, <1>5, <1>6

-----------------------------------------------------------------------------
(* The number of trees that the client has *)

LEMMA TrackedSame ==
  ASSUME LzrOk, NEW path, NEW p, NEW n, Tracked(path, p, n), NEW q, NEW o, Tracked(path, q, o)
  PROVE  q = p
<1>1. /\ p \in Seq(Nat) /\ q \in Seq(Nat) /\ Len(p) = Len(path) /\ Len(q) = Len(path)
      /\ Len(path) \in Nat
  BY TrackedFacts
<1>2. ASSUME NEW j \in 1..Len(path) PROVE q[j] = p[j]
  <2>1. j <= Len(path) /\ \A i \in 1..(j - 1) : path[i] = path[i]
    BY <1>1
  <2> QED  BY <2>1, TrackedAgree
<1> QED  BY <1>1, <1>2, SeqEqual

\* The run of the path, with the derivations that it stands behind.
LEMMA CountedBy ==
  ASSUME LzrOk, NEW path, NEW rs, NEW up, Counted(path, rs, up), NEW H, NEW N, Run(H, N, path)
  PROVE  \E p, n : Takes(H, N, path, p, n) /\ Tracked(path, p, n)
                   /\ Shown(IF up THEN Tried(p) ELSE Passed(p), rs)
<1>1. PICK p, n : Takes(H, N, path, p, n)
  BY IndexLists, TakesExist
<1>2. Tracked(path, p, n)
  BY <1>1 DEF Tracked
<1>3. PICK q, o : Tracked(path, q, o) /\ Shown(IF up THEN Tried(q) ELSE Passed(q), rs)
  BY DEF Counted
<1>4. q = p
  BY <1>2, <1>3, TrackedSame
<1> QED  BY <1>1, <1>2, <1>3, <1>4

\* The path has a first alternative more.
LEMMA CountedAppend ==
  ASSUME LzrOk, NEW path, NEW rs, Counted(path, rs, FALSE), NEW H, NEW N, Run(H, N, path),
         NEW m \in 1..N, Ways(H[m]) > 0, H[m].idx = Len(path),
         NEW way, NEW q, NEW o, Tracked(way, q, o), Len(way) = Len(path) + 1,
         way[Len(way)] = Ways(H[m]), \A i \in 1..Len(path) : way[i] = path[i]
  PROVE  Counted(way, rs, FALSE)
<1>1. PICK p, n : Tracked(path, p, n) /\ Shown(Passed(p), rs)
  BY DEF Counted
<1>2. \A d \in Ders : Before(d.dec, q) <=> Before(d.dec, p)
  BY <1>1, AppendOn
<1>3. Passed(q) = Passed(p)
  BY <1>2 DEF Passed
<1> QED  BY <1>1, <1>3 DEF Counted

\* The run of the path is stuck.
LEMMA CountedStuck ==
  ASSUME LzrOk, NEW path, NEW rs, Counted(path, rs, FALSE), NEW H, NEW N, Run(H, N, path),
         H[N].n > 0, ~Goes(H[N])
  PROVE  Counted(path, rs, TRUE)
<1>1. PICK p, n : Takes(H, N, path, p, n) /\ Tracked(path, p, n) /\ Shown(Passed(p), rs)
  BY CountedBy
<1>2. \A d \in Ders : ~StartsWith(d.dec, p)
  BY <1>1, RunStuck
<1>3. Tried(p) = Passed(p)
  BY <1>2 DEF Tried, Passed, NotAfter
<1> QED  BY <1>1, <1>3 DEF Counted

\* The run of the path is over, and the client is given the tree x that it has built.
LEMMA CountedOver ==
  ASSUME LzrOk, NEW path, NEW rs, IsSeq(rs), Counted(path, rs, FALSE), NEW H, NEW N,
         Run(H, N, path), H[N].n = 0, NEW x, x = H[N].got.tree, NEW ss, ss = Append(rs, x)
  PROVE  /\ Counted(path, ss, TRUE) /\ Placed(x, Len(rs) + 1)
         /\ Len(ss) = Len(rs) + 1 /\ ss[Len(rs) + 1] = x /\ \A i \in 1..Len(rs) : ss[i] = rs[i]
<1>1. PICK p, n : Takes(H, N, path, p, n) /\ Tracked(path, p, n) /\ Shown(Passed(p), rs)
  BY CountedBy
<1>2. PICK g : g = H[N].got
  OBVIOUS
<1>3. PICK d : d = Got(p, g)
  OBVIOUS
<1>4. d.dec = p /\ d.tree = x
  BY <1>2, <1>3 DEF Got
<1>5. \A r : r \in Ders /\ StartsWith(r.dec, p) <=> r = d
  BY <1>1, <1>2, <1>3, RunOver
<1>6. d \in Ders /\ StartsWith(d.dec, p)
  BY <1>5
<1>7. ~Before(p, p)
  <2>1. p \in Seq(Nat) /\ \A k \in 1..Len(p) : p[k] \in Nat
    BY <1>1, TrackedFacts, ElementOfSeq
  <2> QED  BY <2>1 DEF Before
<1>8. d \notin Passed(p)
  BY <1>4, <1>7 DEF Passed
<1>9. Tried(p) = Passed(p) \cup {d}
  <2>1. ASSUME NEW r \in Tried(p) PROVE r \in Passed(p) \/ r = d
    BY <1>5, <2>1 DEF Tried, Passed, NotAfter
  <2>2. ASSUME NEW r, r \in Passed(p) \/ r = d PROVE r \in Tried(p)
    BY <1>6, <2>2 DEF Tried, Passed, NotAfter
  <2> QED  BY <2>1, <2>2
<1>10. Len(rs) \in Nat /\ IsFiniteSet(Passed(p)) /\ Cardinality(Passed(p)) = Len(rs)
  BY <1>1, ListFacts DEF Shown
<1>11. IsFiniteSet(Tried(p)) /\ Cardinality(Tried(p)) = Len(rs) + 1
  BY <1>8, <1>9, <1>10, FS_AddElement
<1>12. Len(ss) = Len(rs) + 1 /\ ss[Len(rs) + 1] = x /\ \A i \in 1..Len(rs) : ss[i] = rs[i]
  BY AppendList
<1>13. Counted(path, ss, TRUE)
  BY <1>1, <1>11, <1>12 DEF Counted, Shown
<1>14. Placed(x, Len(rs) + 1)
  BY <1>4, <1>6, <1>10 DEF Placed
<1> QED  BY <1>12, <1>13, <1>14

\* gu_choice_advance has gone to the next alternative.
LEMMA CountedAdvance ==
  ASSUME LzrOk, NEW path, NEW rs, Counted(path, rs, TRUE), NEW c0, IsChoice(c0), path = c0.path,
         c0.path_idx \in Nat, CanAdvance(c0), NEW way, way = gu_choice_advance(c0).path,
         NEW q, NEW o, Tracked(way, q, o)
  PROVE  Counted(way, rs, FALSE)
<1>1. PICK p, n : Tracked(path, p, n) /\ Shown(Tried(p), rs)
  BY DEF Counted
<1>2. path \in Seq(Nat) /\ \A k \in 1..Len(path) : path[k] # 0
  <2>1. /\ path \in Seq(Nat) /\ Len(p) = Len(path)
        /\ \A j \in 1..Len(p) : n[j] \in Nat /\ path[j] \in 1..n[j]
    BY <1>1, TrackedFacts
  <2> QED  BY <2>1
<1>3. PICK j \in 1..Len(path) :
        /\ \A k \in 1..Len(path) : k > j => path[k] = 1
        /\ Len(way) = j /\ way[j] = path[j] - 1
        /\ \A k \in 1..(j - 1) : way[k] = path[k]
  <2>1. \E j \in 1..Len(path) :
          /\ \A k \in 1..Len(path) : k > j => path[k] = 1
          /\ Len(gu_choice_advance(c0).path) = j /\ gu_choice_advance(c0).path[j] = path[j] - 1
          /\ \A k \in 1..(j - 1) : gu_choice_advance(c0).path[k] = path[k]
    BY ONLY <1>2, IsChoice(c0), path = c0.path, c0.path_idx \in Nat, CanAdvance(c0), Advanced, ZenonT(40)
  <2> QED  BY ONLY <2>1, way = gu_choice_advance(c0).path, Zenon
<1>4. \A d \in Ders : Before(d.dec, q) <=> NotAfter(d.dec, p)
  BY <1>1, <1>3, AdvanceOn
<1>5. Passed(q) = Tried(p)
  BY <1>4 DEF Passed, Tried
<1> QED  BY <1>1, <1>5 DEF Counted

\* gu_choice_advance has found no alternative.
LEMMA CountedCut ==
  ASSUME LzrOk, NEW path, NEW rs, Counted(path, rs, TRUE), NEW c0, IsChoice(c0), path = c0.path,
         c0.path_idx \in 0..Len(path), ~CanAdvance(c0), NEW way, way = gu_choice_advance(c0).path,
         NEW q, NEW o, Tracked(way, q, o)
  PROVE  Counted(way, rs, TRUE)
<1>1. PICK p, n : Tracked(path, p, n) /\ Shown(Tried(p), rs)
  BY DEF Counted
<1>2. path \in Seq(Nat) /\ Len(path) \in Nat /\ \A k \in 1..Len(path) : path[k] # 0
  <2>1. /\ path \in Seq(Nat) /\ Len(p) = Len(path) /\ Len(p) \in Nat
        /\ \A j \in 1..Len(p) : n[j] \in Nat /\ path[j] \in 1..n[j]
    BY <1>1, TrackedFacts
  <2> QED  BY <2>1
<1>3. /\ Len(way) = c0.path_idx
      /\ \A k \in 1..c0.path_idx : way[k] = path[k]
      /\ \A k \in 1..Len(path) : k > c0.path_idx => path[k] = 1
  BY <1>2, NotAdvanced
<1>4. \A d \in Ders : NotAfter(d.dec, q) <=> NotAfter(d.dec, p)
  <2>1. /\ Len(way) <= Len(path) /\ \A k \in 1..Len(way) : way[k] = path[k]
        /\ \A k \in 1..Len(path) : k > Len(way) => path[k] = 1
    BY <1>2, <1>3
  <2> QED  BY <1>1, <2>1, CutOn
<1>5. Tried(q) = Tried(p)
  BY <1>4 DEF Tried
<1> QED  BY <1>1, <1>5 DEF Counted

\* There is nothing left.
LEMMA CountedNone ==
  ASSUME LzrOk, NEW path, NEW rs, Counted(path, rs, TRUE), Len(path) = 0
  PROVE  Complete(rs)
<1>1. PICK p, n : Tracked(path, p, n) /\ Shown(Tried(p), rs)
  BY DEF Counted
<1>2. p \in Seq(Nat) /\ Len(p) = 0
  BY <1>1, TrackedFacts
<1>3. ASSUME NEW d \in Ders PROVE StartsWith(d.dec, p)
  <2>1. Len(d.dec) \in Nat
    BY DersTyped, DecIsSeq
  <2> QED  BY <1>2, <2>1 DEF StartsWith
<1>4. Tried(p) = Ders
  BY <1>3 DEF Tried, NotAfter
<1> QED  BY <1>1, <1>4 DEF Complete

-----------------------------------------------------------------------------
(* The steps *)

\* There is a run behind the path, as long as the enumeration goes on.
LEMMA InvRun ==
  ASSUME LinearizeInv, LzrOk, ~Idle \/ (~ended /\ expr # NULL)
  PROVE  \E H, N : Run(H, N, ch.path)
<1>1. CASE Idle
  BY <1>1 DEF LinearizeInv
<1>2. CASE ~Idle
  <2>1. IsChoice(ch) /\ AtWork
    BY <1>2 DEF LinearizeInv
  <2>2. HasFailed => \E H, N : Run(H, N, ch.path)
    BY <2>1, FirstRun DEF HasFailed, gu_new_choice
  <2> QED  BY <2>1, <2>2 DEF AtWork, Running, GoesBack
<1> QED  BY <1>1, <1>2

LEMMA NewTracked ==
  ASSUME LzrOk, LinearizeInv', ~Idle' \/ (~ended' /\ expr' # NULL), lzr' = lzr, input' = input,
         NEW way, way = ch'.path
  PROVE  \E q, o : Tracked(way, q, o)
<1>1. LzrOk'
  BY DEF LzrOk
<1>2. (LinearizeInv /\ LzrOk /\ (~Idle \/ (~ended /\ expr # NULL)) => \E H, N : Run(H, N, ch.path))'
  BY InvRun, PTL
<1>3. PICK H, N : Run(H, N, ch.path)'
  BY <1>1, <1>2
<1>4. Run(H, N, way)'
  BY <1>3
<1>5. Run(H, N, way)
  BY <1>4, RunSame
<1> QED  BY <1>5, TrackedExists

\* A step after which the inference is at work, and the client has what it had.
LEMMA Continues ==
  ASSUME ConcretizedInv, LinearizeInv', ~Idle', ~ended', UNCHANGED <<input, lzr, results>>,
         NEW way, way = ch'.path, NEW up, up = GivesUp', Counted(way, results, up)
  PROVE  ConcretizedInv'
<1>1. PICK rs : rs = results
  OBVIOUS
<1>2. Listed(rs) /\ Counted(way, rs, up) /\ LzrOk /\ IsSeq(rs)
  BY <1>1 DEF ConcretizedInv
<1>3. Listed(rs)' /\ Counted(way, rs, up)' /\ LzrOk'
  BY <1>2, GivenPartsStay
<1>4. Listed(results)' /\ Counted(ch.path, results, GivesUp)' /\ IsSeq(results')
  BY <1>1, <1>2, <1>3
<1> QED  BY <1>2, <1>3, <1>4 DEF ConcretizedInv

LEMMA Onwards ==
  ASSUME ConcretizedInv, LinearizeInv', ~Idle, ~Idle', UNCHANGED <<input, lzr, results, ended>>,
         NEW way, way = ch'.path, NEW up, up = GivesUp', Counted(way, results, up)
  PROVE  ConcretizedInv'
<1>1. ~ended'
  BY DEF ConcretizedInv
<1> QED  BY <1>1, Continues

\* A step after which the client will get nothing more.
LEMMA ComesToAnEnd ==
  ASSUME LzrOk, LinearizeInv', Idle', ended' \/ expr' = NULL, lzr' = lzr, input' = input,
         NEW rs, rs = results', IsSeq(rs), Listed(rs), Complete(rs)
  PROVE  ConcretizedInv'
<1>1. Listed(rs)' /\ Complete(rs)' /\ LzrOk'
  BY GivenPartsStay
<1>2. Listed(results)' /\ Complete(results)' /\ IsSeq(results')
  BY <1>1
<1> QED  BY <1>1, <1>2 DEF ConcretizedInv

LEMMA BecomeTop ==
  ASSUME LinearizeInv, ~Idle, NEW f, Become(f)
  PROVE  ~Idle' /\ Top' = f
<1>1. PICK s, t : s = stack /\ t = stack'
  OBVIOUS
<1>2. IsSeq(s) /\ Len(s) > 0 /\ t = <<f>> \o Tail(s)
  <2>1. IsSeq(s) /\ s # <<>>
    BY <1>1 DEF LinearizeInv, Idle
  <2>2. Len(s) \in Nat /\ Len(s) # 0
    BY <2>1, EmptySeq DEF IsSeq
  <2> QED  BY <1>1, <2>1, <2>2 DEF Become
<1>3. IsSeq(t) /\ Len(t) = Len(s) /\ t[1] = f
  <2>1. IsSeq(t)
    BY <1>2, BecomeFacts
  <2>2. Len(t) = Len(s)
    BY <1>2, BecomeFacts
  <2>3. t[1] = f
    BY <1>2, BecomeFacts
  <2> QED  BY <2>1, <2>2, <2>3
<1>4. t # <<>>
  BY <1>2, <1>3, EmptySeq
<1> QED  BY <1>1, <1>3, <1>4 DEF Idle, Top

\* What the inference returns to.
LEMMA ReturnTop ==
  ASSUME NEW c, GoodConfig(c), Below(stack, c), NEW r, Return(r), r = NULL => Bottom.k # "build"
  PROVE  ~Idle' /\ (GivesUp' <=> r = NULL)
<1>1. PICK b, g : g = stack[2] /\ b = IF c.n = 1 THEN Given(g, r)
                                     ELSE IF r = NULL THEN Failing(g) ELSE Told(g, r)
  OBVIOUS
<1>2. stack' = <<b>> \o Tail(Tail(stack))
  BY <1>1, ReturnIs
<1>3. PICK s, t : s = stack /\ t = stack'
  OBVIOUS
<1>4. PICK n \in Nat : n = c.n /\ n > 0 /\ Len(s) = n + 1 /\ IsSeq(s)
  BY <1>3 DEF GoodConfig, Below
<1>5. t = <<b>> \o Tail(Tail(s))
  BY <1>2, <1>3
<1>6. IsSeq(t) /\ Len(t) = n /\ t[1] = b
  <2>1. Len(s) > 1 /\ Len(s) - 1 = n /\ IsSeq(s)
    BY <1>4
  <2>2. IsSeq(t)
    BY <1>5, <2>1, ReturnFacts
  <2>3. Len(t) = Len(s) - 1
    BY <1>5, <2>1, ReturnFacts
  <2>4. t[1] = b
    BY <1>5, <2>1, ReturnFacts
  <2> QED  BY <2>1, <2>2, <2>3, <2>4
<1>7. t # <<>>
  BY <1>4, <1>6, EmptySeq
<1>8. ~Idle' /\ Top' = b
  BY <1>3, <1>6, <1>7 DEF Idle, Top
<1>9. CASE n = 1
  <2>1. Base(g) /\ g = Bottom
    BY <1>1, <1>3, <1>4, <1>9 DEF Below, Bottom
  <2>2. b = Given(g, r)
    BY <1>1, <1>4, <1>9
  <2>3. b.got = r /\ b.k = g.k
    BY <2>1, <2>2, BaseGot
  <2>4. g.k \in {"dry", "build"}
    BY <2>1 DEF Base
  <2>5. r = NULL => g.k = "dry"
    BY <2>1, <2>4
  <2> QED  BY <1>8, <2>3, <2>4, <2>5 DEF GivesUp
<1>10. CASE n > 1
  <2>1. PICK x \in 1..n : x = n - 1 /\ x < n /\ n + 1 - x = 2
    BY <1>4, <1>10
  <2>2. g = c.st[x]
    BY <1>1, <1>3, <1>4, <2>1 DEF Below
  <2>3. GoodApp(g, c.idx)
    BY <1>4, <2>1, <2>2 DEF GoodConfig
  <2>4. IsFrame(g)
    BY <2>3 DEF GoodApp, IsFrame
  <2>5. CASE r = NULL
    <3>1. b = Failing(g)
      BY <1>1, <1>4, <1>10, <2>5
    <3>2. b.k = "back"
      BY <2>4, <3>1, FailingIs
    <3> QED  BY <1>8, <2>5, <3>2 DEF GivesUp
  <2>6. CASE r # NULL
    <3>1. b = Told(g, r)
      BY <1>1, <1>4, <1>10, <2>6
    <3>2. b.k = "super"
      BY <2>4, <3>1 DEF Told, IsFrame
    <3> QED  BY <1>8, <2>6, <3>2 DEF GivesUp
  <2> QED  BY <2>5, <2>6
<1>11. n = 1 \/ n > 1
  BY <1>4
<1> QED  BY <1>9, <1>10, <1>11

\* The inference has not failed while it runs, and it has when it goes back.
LEMMA RunningOn ==
  ASSUME NullIsNoResult, NEW H, NEW N, NEW pos, Running(H, N, pos)
  PROVE  ~GivesUp
<1>1. PICK c : c = H[pos]
  OBVIOUS
<1>2. c.n \in Nat
  BY <1>1, RunningConfig DEF GoodConfig
<1>3. c.n > 0 => Top.k \in {"infer", "args", "super"}
  BY <1>1, RunningTop
<1>4. c.n = 0 => Top.k \in {"dry", "build"} /\ Top.got = c.got /\ IsResult(c.got)
  BY <1>1, RunningTop
<1>5. c.n = 0 => Top.got # NULL
  BY <1>4 DEF NullIsNoResult, IsResult
<1> QED  BY <1>2, <1>3, <1>4, <1>5 DEF GivesUp

\* The inference is in a frame of its own.
LEMMA InStep ==
  ASSUME NullIsNoResult, ConcretizedInv, ~Idle, Top.k \in {"infer", "args", "super"}
  PROVE  /\ LinearizeInv /\ LzrOk /\ IndicesTyped /\ IsChoice(ch) /\ Counted(ch.path, results, FALSE)
         /\ \E H, N, pos : Running(H, N, pos) /\ H[pos].n > 0
<1>1. LinearizeInv /\ LzrOk /\ Counted(ch.path, results, GivesUp)
  BY DEF ConcretizedInv
<1>2. /\ IsChoice(ch) /\ IndicesTyped
      /\ \E H, N, pos : Running(H, N, pos) /\ H[pos].n > 0
  BY <1>1, InRun
<1>3. ~GivesUp
  BY <1>2, RunningOn
<1>4. GivesUp = FALSE
  BY <1>3 DEF GivesUp
<1> QED  BY <1>1, <1>2, <1>4

\* It fails there.
LEMMA FailsHere ==
  ASSUME LzrOk, NEW H, NEW N, NEW pos, Running(H, N, pos), NEW c, c = H[pos], c.n > 0, ~Goes(c),
         Counted(ch.path, results, FALSE)
  PROVE  Counted(ch.path, results, TRUE) /\ Bottom.k # "build"
<1>1. pos = N
  BY RunStops
<1>2. Run(H, N, ch.path) /\ c = H[N] /\ Bottom.k # "build"
  BY <1>1 DEF Running
<1>3. PICK path, rs : path = ch.path /\ rs = results
  OBVIOUS
<1>4. Counted(path, rs, TRUE)
  BY <1>2, <1>3, CountedStuck
<1> QED  BY <1>2, <1>3, <1>4

\* A decision of the inference.
LEMMA ChoiceMoved ==
  ASSUME LzrOk, IsChoice(ch), NEW H, NEW N, NEW pos, Running(H, N, pos), NEW c, c = H[pos],
         NEW n, n = Ways(c), n > 0, NEW path, path = ch.path, NEW rs, Counted(path, rs, FALSE),
         NEW way, way = gu_choice_next(ch, n).path, NEW q, NEW o, Tracked(way, q, o)
  PROVE  Counted(way, rs, FALSE)
<1>1. Run(H, N, path) /\ pos \in 1..N /\ ch.path_idx = c.idx
  BY RunningConfig DEF Running
<1>2. /\ N \in Nat /\ path \in Seq(Nat) /\ Len(path) \in Nat /\ H[N].idx = Len(path)
      /\ GoodConfig(c) /\ c.idx \in Nat /\ n \in Nat
  BY <1>1, IndexLists, WaysType, LenProperties DEF Run, GoodConfig
<1>3. c.idx <= Len(path)
  <2>1. pos <= N /\ N \in 1..N
    BY <1>1, <1>2
  <2>2. H[pos].idx <= H[N].idx
    BY <1>1, <2>1 DEF Run
  <2> QED  BY <1>2, <2>2
<1>4. CASE c.idx < Len(path)
  <2>1. way = path
    BY <1>1, <1>4 DEF gu_choice_next, Recorded
  <2> QED  BY <2>1
<1>5. CASE c.idx = Len(path)
  <2>1. way = Append(path, n)
    BY <1>1, <1>2, <1>5 DEF gu_choice_next, Recorded
  <2>2. Len(way) = Len(path) + 1 /\ way[Len(path) + 1] = n /\ \A i \in 1..Len(path) : way[i] = path[i]
    BY <1>2, <2>1, AppendProperties
  <2>3. way[Len(way)] = Ways(H[pos]) /\ Ways(H[pos]) > 0 /\ H[pos].idx = Len(path)
    BY <1>5, <2>2
  <2>4. Run(H, N, path) /\ pos \in 1..N /\ Len(way) = Len(path) + 1
        /\ \A i \in 1..Len(path) : way[i] = path[i]
    BY <1>1, <2>2
  <2> QED  BY ONLY <2>3, <2>4, LzrOk, Counted(path, rs, FALSE), Tracked(way, q, o), CountedAppend, Zenon
<1>6. c.idx < Len(path) \/ c.idx = Len(path)
  BY <1>2, <1>3
<1> QED  BY <1>4, <1>5, <1>6

LEMMA InferGiven ==
  ASSUME NullIsNoResult, ConcretizedInv, pgf_lzn_infer
  PROVE  ConcretizedInv'
<1>1. PICK f : f = Top
  OBVIOUS
<1>2. /\ ~Idle /\ f.k = "infer"
      /\ f.expr.fun = Literal => Return([cat |-> LitCat, tree |-> f.expr])
      /\ f.expr.fun # Literal /\ ~HasFun(f.expr.fun) => Return(NULL)
      /\ f.expr.fun # Literal /\ HasFun(f.expr.fun) => Become(Opened(f, ch.path_idx))
      /\ UNCHANGED <<input, lzr, ch, results, ended>>
  BY <1>1 DEF pgf_lzn_infer, At, Opened, gu_choice_mark
<1>3. Top.k \in {"infer", "args", "super"}
  BY <1>1, <1>2
<1>4. LinearizeInv /\ LzrOk /\ Counted(ch.path, results, FALSE)
  BY <1>2, <1>3, InStep
<1>5. LinearizeInv'
  BY <1>4, InferStep
<1>6. PICK H, N, pos : Running(H, N, pos) /\ H[pos].n > 0
  BY <1>2, <1>3, InStep
<1>7. PICK c : c = H[pos]
  OBVIOUS
<1>8. /\ GoodConfig(c) /\ c.n > 0 /\ Shows(stack, ch.path_idx, c) /\ f = c.st[c.n] /\ c.n \in Nat
  BY <1>1, <1>6, <1>7, RunningTop DEF GoodConfig
<1>9. Below(stack, c)
  BY <1>8, ShowsBelow
<1>10. PICK way, up : way = ch'.path /\ up = GivesUp'
  OBVIOUS
<1>11. way = ch.path
  BY <1>2, <1>10
<1>12. ~Idle' /\ Counted(way, results, up)
  <2>1. CASE f.expr.fun = Literal
    <3>1. PICK r : r = [cat |-> LitCat, tree |-> f.expr]
      OBVIOUS
    <3>2. r # NULL /\ Return(r)
      BY <1>2, <2>1, <3>1 DEF NullIsNoResult
    <3>3. ~Idle' /\ ~GivesUp'
      BY <1>8, <1>9, <3>2, ReturnTop
    <3>4. up = FALSE
      BY <1>10, <3>3 DEF GivesUp
    <3> QED  BY <1>4, <1>11, <3>3, <3>4
  <2>2. CASE f.expr.fun # Literal /\ HasFun(f.expr.fun)
    <3>1. PICK g : g = Opened(f, ch.path_idx)
      OBVIOUS
    <3>2. Become(g)
      BY <1>2, <2>2, <3>1
    <3>3. ~Idle' /\ Top' = g
      BY <1>2, <1>4, <3>2, BecomeTop
    <3>4. g.k = "args"
      BY <3>1 DEF Opened
    <3>5. up = FALSE
      BY <1>10, <3>3, <3>4 DEF GivesUp
    <3> QED  BY <1>4, <1>11, <3>3, <3>5
  <2>3. CASE f.expr.fun # Literal /\ ~HasFun(f.expr.fun)
    <3>1. ~Goes(c)
      BY <1>2, <1>8, <2>3 DEF Goes, ToReturn, ToOpen, ToCall, ToChoose, ToKeep, ToPick
    <3>2. Counted(ch.path, results, TRUE) /\ Bottom.k # "build"
      BY <1>4, <1>6, <1>7, <1>8, <3>1, FailsHere
    <3>3. Return(NULL)
      BY <1>2, <2>3
    <3>4. ~Idle' /\ GivesUp'
      BY <1>8, <1>9, <3>2, <3>3, ReturnTop
    <3>5. up = TRUE
      BY <1>10, <3>4 DEF GivesUp
    <3> QED  BY <1>11, <3>2, <3>4, <3>5
  <2> QED  BY <2>1, <2>2, <2>3
<1> QED  BY <1>2, <1>5, <1>10, <1>12, Onwards

LEMMA InferArgGiven ==
  ASSUME NullIsNoResult, ConcretizedInv, InferArg
  PROVE  ConcretizedInv'
<1>1. PICK g : g = Infer(Top.args[Len(Top.cats) + 1])
  OBVIOUS
<1>2. /\ ~Idle /\ Top.k = "args" /\ stack' = <<g>> \o stack
      /\ UNCHANGED <<input, lzr, ch, results, ended>>
  BY <1>1 DEF InferArg, At
<1>3. LinearizeInv /\ Counted(ch.path, results, FALSE)
  BY <1>2, InStep
<1>4. LinearizeInv'
  BY <1>3, InferArgStep
<1>5. PICK s, t : s = stack /\ t = stack'
  OBVIOUS
<1>6. IsSeq(s) /\ t = <<g>> \o s
  BY <1>2, <1>3, <1>5 DEF LinearizeInv
<1>7. Len(s) \in Nat /\ Len(t) = Len(s) + 1 /\ t[1] = g
  BY <1>6, PushFacts, ListFacts
<1>8. t # <<>>
  BY <1>7, EmptySeq
<1>9. ~Idle' /\ Top' = g /\ g.k = "infer"
  BY <1>1, <1>5, <1>7, <1>8 DEF Idle, Top, Infer
<1>10. PICK way, up : way = ch'.path /\ up = GivesUp'
  OBVIOUS
<1>11. way = ch.path /\ up = FALSE
  BY <1>2, <1>9, <1>10 DEF GivesUp
<1>12. Counted(way, results, up)
  BY <1>3, <1>11
<1> QED  BY <1>2, <1>4, <1>9, <1>10, <1>12, Onwards

LEMMA PickGiven ==
  ASSUME NullIsNoResult, ConcretizedInv, pgf_lzn_pick_supercat
  PROVE  ConcretizedInv'
<1>1. PICK f, supers, n, d : /\ f = Top /\ supers = Supers(f.got.cat) /\ n = Len(supers) + 1
                            /\ d = NextDecision(ch, n)
  OBVIOUS
<1>2. ~Idle /\ f.k = "super" /\ UNCHANGED <<input, lzr, results, ended>>
  BY <1>1 DEF pgf_lzn_pick_supercat, At
<1>3. /\ supers = <<>> => Become(WithArg(f, f.got.cat, ch.path_idx)) /\ ch' = ch
      /\ supers # <<>> =>
           /\ ch' = gu_choice_next(ch, n)
           /\ d = 0 => Become(WithArg(f, f.got.cat, gu_choice_next(ch, n).path_idx))
           /\ d # 0 => Become(Recat(f, supers[d]))
  BY <1>1 DEF pgf_lzn_pick_supercat, SetArg, WithArg, Recat, gu_choice_mark
<1>4. Top.k \in {"infer", "args", "super"}
  BY <1>1, <1>2
<1>5. LinearizeInv /\ LzrOk /\ IndicesTyped /\ IsChoice(ch) /\ Counted(ch.path, results, FALSE)
  BY <1>2, <1>4, InStep
<1>6. LinearizeInv'
  BY <1>5, PickStep
<1>7. PICK H, N, pos : Running(H, N, pos) /\ H[pos].n > 0
  BY <1>2, <1>4, InStep
<1>8. PICK c : c = H[pos]
  OBVIOUS
<1>9. GoodConfig(c) /\ c.n > 0 /\ f = c.st[c.n]
  BY <1>1, <1>7, <1>8, RunningTop
<1>10. IsFrame(f) /\ IsResult(f.got)
  BY <1>2, <1>9, SuperFacts
<1>11. PICK cat, g : cat = f.got.cat /\ Become(g)
                     /\ ((\E i : g = WithArg(f, cat, i)) \/ (\E x : g = Recat(f, x)))
  <2>1. \E g : Become(g) /\ ((\E i : g = WithArg(f, f.got.cat, i)) \/ (\E x : g = Recat(f, x)))
    BY <1>3
  <2> QED  BY <2>1
<1>12. g.k \in {"args", "super"}
  <2>1. ASSUME NEW i, g = WithArg(f, cat, i) PROVE g.k = "args"
    BY <1>10, <2>1, WithArgKind
  <2>2. ASSUME NEW x, g = Recat(f, x) PROVE g.k = f.k
    BY <1>10, <2>2, RecatIs
  <2> QED  BY <1>2, <1>11, <2>1, <2>2
<1>13. ~Idle' /\ Top' = g
  BY <1>2, <1>5, <1>11, BecomeTop
<1>14. PICK way, up : way = ch'.path /\ up = GivesUp'
  OBVIOUS
<1>15. up = FALSE
  BY <1>12, <1>13, <1>14 DEF GivesUp
<1>16. Counted(way, results, FALSE)
  <2>1. CASE supers = <<>>
    BY <1>3, <1>5, <1>14, <2>1
  <2>2. CASE supers # <<>>
    <3>1. ToPick(f)
      BY <1>1, <1>2, <2>2 DEF ToPick
    <3>2. n = Ways(c) /\ n > 0
      BY <1>1, <1>5, <1>9, <3>1, AfterPick
    <3>3. way = gu_choice_next(ch, n).path
      BY <1>3, <1>14, <2>2
    <3>4. PICK q, o : Tracked(way, q, o)
      BY <1>2, <1>5, <1>6, <1>13, <1>14, NewTracked
    <3>5. PICK path, rs : path = ch.path /\ rs = results
      OBVIOUS
    <3>6. Counted(way, rs, FALSE)
      <4>1. Counted(path, rs, FALSE)
        BY <1>5, <3>5
      <4> QED  BY <1>5, <1>7, <1>8, <3>2, <3>3, <3>4, <3>5, <4>1, ChoiceMoved
    <3> QED  BY <3>5, <3>6
  <2> QED  BY <2>1, <2>2
<1>17. Counted(way, results, up)
  BY <1>15, <1>16
<1> QED  BY <1>2, <1>6, <1>13, <1>14, <1>17, Onwards

LEMMA InferEntryGiven ==
  ASSUME NullIsNoResult, ConcretizedInv, InferEntry
  PROVE  ConcretizedInv'
<1>1. PICK f, entries, n, entry, r :
        /\ f = Top /\ entries = InferEntries(f.fun, f.cats) /\ n = Len(entries)
        /\ entry = entries[NextDecision(ch, n) + 1]
        /\ r = [cat |-> entry.cat, tree |-> [fun |-> entry.prod.cnc, args |-> f.trees]]
  OBVIOUS
<1>2. /\ ~Idle /\ f.k = "args" /\ Len(f.cats) = Len(f.args)
      /\ UNCHANGED <<input, lzr, results, ended>>
      /\ n = 0 => Become(Failing(f)) /\ ch' = ch
      /\ n # 0 => ch' = gu_choice_next(ch, n) /\ Return(r)
  BY <1>1 DEF InferEntry, At, Failing
<1>3. Top.k \in {"infer", "args", "super"}
  BY <1>1, <1>2
<1>4. LinearizeInv /\ LzrOk /\ IndicesTyped /\ IsChoice(ch) /\ Counted(ch.path, results, FALSE)
  BY <1>2, <1>3, InStep
<1>5. LinearizeInv'
  BY <1>4, InferEntryStep
<1>6. PICK H, N, pos : Running(H, N, pos) /\ H[pos].n > 0
  BY <1>2, <1>3, InStep
<1>7. PICK c : c = H[pos]
  OBVIOUS
<1>8. /\ GoodConfig(c) /\ c.n > 0 /\ Shows(stack, ch.path_idx, c) /\ f = c.st[c.n] /\ c.n \in Nat
  BY <1>1, <1>6, <1>7, RunningTop DEF GoodConfig
<1>9. n \in Nat
  BY <1>1, <1>4 DEF IndicesTyped
<1>10. PICK way, up : way = ch'.path /\ up = GivesUp'
  OBVIOUS
<1>11. CASE n = 0
  <2>1. ~Goes(c)
    <3>1. Len(f.cats) \in Nat
      BY <1>2, <1>8, TopFacts
    <3>2. ~ToCall(f)
      BY <1>2, <3>1 DEF ToCall
    <3>3. ~ToChoose(f)
      BY <1>1, <1>11 DEF ToChoose
    <3>4. ~ToReturn(f) /\ ~ToOpen(f) /\ ~ToKeep(f) /\ ~ToPick(f)
      BY <1>2 DEF ToReturn, ToOpen, ToKeep, ToPick
    <3> QED  BY <1>8, <3>2, <3>3, <3>4 DEF Goes
  <2>2. Counted(ch.path, results, TRUE)
    BY <1>4, <1>6, <1>7, <1>8, <2>1, FailsHere
  <2>3. PICK g : g = Failing(f)
    OBVIOUS
  <2>4. Become(g)
    BY <1>2, <1>11, <2>3
  <2>5. ~Idle' /\ Top' = g
    BY <1>2, <1>4, <2>4, BecomeTop
  <2>6. g.k = "back"
    <3>1. GoodApp(f, c.idx)
      BY <1>2, <1>8, TopFacts DEF Fits
    <3>2. IsFrame(f)
      BY <3>1 DEF GoodApp, IsFrame
    <3> QED  BY <2>3, <3>2, FailingIs
  <2>7. up = TRUE
    BY <1>10, <2>5, <2>6 DEF GivesUp
  <2>8. Counted(way, results, up)
    BY <1>2, <1>10, <1>11, <2>2, <2>7
  <2> QED  BY <1>2, <1>5, <1>10, <2>5, <2>8, Onwards
<1>12. CASE n # 0
  <2>1. r # NULL /\ Return(r)
    BY <1>1, <1>2, <1>12 DEF NullIsNoResult
  <2>2. Below(stack, c)
    BY <1>8, ShowsBelow
  <2>3. ~Idle' /\ ~GivesUp'
    BY <1>8, <2>1, <2>2, ReturnTop
  <2>4. up = FALSE
    BY <1>10, <2>3 DEF GivesUp
  <2>5. ToChoose(f)
    BY <1>1, <1>2, <1>9, <1>12 DEF ToChoose
  <2>6. n = Ways(c) /\ n > 0
    <3>1. PICK x : x = InferEntries(f.fun, f.cats)[1]
      OBVIOUS
    <3>2. x = InferEntries(f.fun, f.cats)[0 + 1]
      BY <3>1
    <3>3. Ways(c) = Len(InferEntries(f.fun, f.cats)) /\ Ways(c) > 0
      BY <1>8, <2>5, <3>2, AfterChoose
    <3> QED  BY <1>1, <3>3
  <2>7. way = gu_choice_next(ch, n).path
    BY <1>2, <1>10, <1>12
  <2>8. PICK q, o : Tracked(way, q, o)
    BY <1>2, <1>4, <1>5, <1>10, <2>3, NewTracked
  <2>9. PICK path, rs : path = ch.path /\ rs = results
    OBVIOUS
  <2>10. Counted(way, rs, FALSE)
    <3>1. Counted(path, rs, FALSE)
      BY <1>4, <2>9
    <3> QED  BY <1>4, <1>6, <1>7, <2>6, <2>7, <2>8, <2>9, <3>1, ChoiceMoved
  <2>11. Counted(way, results, up)
    BY <2>4, <2>9, <2>10
  <2> QED  BY <1>2, <1>5, <1>10, <2>3, <2>11, Onwards
<1> QED  BY <1>11, <1>12

LEMMA BacktrackGiven ==
  ASSUME NullIsNoResult, ConcretizedInv, Backtrack
  PROVE  ConcretizedInv'
<1>1. ~Idle /\ Top.k = "back" /\ UNCHANGED <<input, lzr, results, ended>>
  BY DEF Backtrack, At
<1>2. LinearizeInv /\ LzrOk /\ Counted(ch.path, results, TRUE)
  <2>1. GivesUp = TRUE
    BY <1>1 DEF GivesUp
  <2> QED  BY <1>1, <2>1 DEF ConcretizedInv
<1>3. LinearizeInv'
  BY <1>2, BacktrackStep
<1>4. PICK H, N : GoesBack(H, N)
  BY <1>1, <1>2, InBack
<1>5. IndicesTyped /\ IsChoice(ch)
  BY <1>1, <1>2, InBack
<1>6. PICK c, n, f, path, rs : c = H[N] /\ n = c.n /\ f = c.st[n] /\ path = ch.path /\ rs = results
  OBVIOUS
<1>7. /\ GoodConfig(c) /\ n > 0 /\ f.k = "args" /\ ch.path_idx = c.idx /\ Top = Failing(f)
      /\ Below(stack, c)
  BY <1>4, <1>6, GoesBackTop
<1>8. Run(H, N, path) /\ Bottom.k # "build"
  BY <1>4, <1>6 DEF GoesBack
<1>9. GoodApp(f, c.idx)
  BY <1>6, <1>7, TopFacts DEF Fits
<1>10. IsFrame(f) /\ f.marks \in Seq(Nat)
  BY <1>9 DEF GoodApp, IsFrame
<1>11. PICK m \in Nat : m = Len(f.cats) /\ Len(f.marks) = m + 1
  BY <1>9, ListFacts DEF GoodApp
<1>12. Top = [k |-> "back", fun |-> f.fun, args |-> f.args, got |-> f.got,
              marks |-> f.marks, cats |-> f.cats, trees |-> f.trees]
  BY <1>7, <1>10, FailingIs
<1>13. c.idx = Len(path) /\ path \in Seq(Nat) /\ Len(path) \in Nat
  BY <1>6, <1>8, RunFirst, LenProperties
<1>14. PICK way, up : way = ch'.path /\ up = GivesUp'
  OBVIOUS
<1>15. Counted(path, rs, TRUE)
  BY <1>2, <1>6
<1>16. Top.cats = f.cats /\ Top.marks = f.marks
  BY <1>12
<1>17. CASE m = 0
  <2>1. Return(NULL) /\ ch' = ch
    BY <1>11, <1>16, <1>17 DEF Backtrack
  <2>2. ~Idle' /\ GivesUp'
    BY <1>7, <1>8, <2>1, ReturnTop
  <2>3. up = TRUE
    BY <1>14, <2>2 DEF GivesUp
  <2>4. Counted(way, results, up)
    BY <1>2, <1>14, <2>1, <2>3
  <2> QED  BY <1>1, <1>3, <1>14, <2>2, <2>4, Onwards
<1>18. CASE m # 0
  <2>1. PICK i \in Nat : i = m - 1 /\ i + 1 \in 1..(m + 1)
    BY <1>18
  <2>2. PICK mark0 : mark0 = f.marks[i + 1]
    OBVIOUS
  <2>3. PICK back : back = gu_choice_reset(ch, mark0)
    OBVIOUS
  <2>4. PICK kind : kind = IF CanAdvance(back) THEN "args" ELSE "back"
    OBVIOUS
  <2>5. PICK g : g = [Top EXCEPT !.k = kind,
                                 !.cats = SubSeq(@, 1, i),
                                 !.trees = SubSeq(@, 1, i),
                                 !.marks = SubSeq(@, 1, i + 1)]
    OBVIOUS
  <2>6. ch' = gu_choice_advance(back) /\ Become(g)
    <3>1. Len(Top.cats) - 1 = i /\ ~(i < 0)
      BY <1>11, <1>16, <2>1
    <3> QED  BY <1>16, <2>2, <2>3, <2>4, <2>5, <3>1 DEF Backtrack
  <2>7. g.k = kind
    <3>1. PICK top : top = Top
      OBVIOUS
    <3>2. top = [k |-> top.k, fun |-> top.fun, args |-> top.args, got |-> top.got,
                 marks |-> top.marks, cats |-> top.cats, trees |-> top.trees]
      BY <1>12, <3>1
    <3>3. PICK ct, tr, mk : /\ ct = SubSeq(top.cats, 1, i) /\ tr = SubSeq(top.trees, 1, i)
                            /\ mk = SubSeq(top.marks, 1, i + 1)
      OBVIOUS
    <3>4. g = [top EXCEPT !.k = kind, !.cats = ct, !.trees = tr, !.marks = mk]
      BY <2>5, <3>1, <3>3
    <3>5. g = [k |-> kind, fun |-> top.fun, args |-> top.args, got |-> top.got,
               marks |-> mk, cats |-> ct, trees |-> tr]
      BY <3>2, <3>4
    <3> QED  BY <3>5
  <2>8. ~Idle' /\ Top' = g
    BY <1>1, <1>2, <2>6, BecomeTop
  <2>9. mark0 \in 0..Len(path)
    <3>1. i + 1 \in 1..Len(f.marks)
      BY <1>11, <2>1
    <3>2. mark0 \in Nat
      BY <1>10, <2>2, <3>1, ElementOfSeq
    <3>3. mark0 <= c.idx
      BY <1>9, <2>2, <3>1 DEF GoodApp
    <3> QED  BY <1>13, <3>2, <3>3
  <2>10. IsChoice(back) /\ back.path = path /\ back.path_idx = mark0
    BY <1>5, <1>6, <2>3 DEF IsChoice, gu_choice_reset
  <2>11. PICK q, o : Tracked(way, q, o)
    BY <1>1, <1>2, <1>3, <1>14, <2>8, NewTracked
  <2>12. way = gu_choice_advance(back).path
    BY <1>14, <2>6
  <2>13. Counted(way, rs, up)
    <3>1. CASE CanAdvance(back)
      <4>1. g.k = "args"
        BY <2>4, <2>7, <3>1
      <4>2. up = FALSE
        BY <1>14, <2>8, <4>1 DEF GivesUp
      <4>3. path = back.path /\ back.path_idx \in Nat
        BY <1>13, <2>9, <2>10
      <4>4. Counted(way, rs, FALSE)
        BY <1>2, <1>15, <2>10, <2>11, <2>12, <3>1, <4>3, CountedAdvance
      <4> QED  BY <4>2, <4>4
    <3>2. CASE ~CanAdvance(back)
      <4>1. g.k = "back"
        BY <2>4, <2>7, <3>2
      <4>2. up = TRUE
        BY <1>14, <2>8, <4>1 DEF GivesUp
      <4>3. path = back.path /\ back.path_idx \in 0..Len(path)
        BY <2>9, <2>10
      <4>4. Counted(way, rs, TRUE)
        BY <1>2, <1>15, <2>10, <2>11, <2>12, <3>2, <4>3, CountedCut
      <4> QED  BY <4>2, <4>4
    <3> QED  BY <3>1, <3>2
  <2>14. Counted(way, results, up)
    BY <1>6, <2>13
  <2> QED  BY <1>1, <1>3, <1>14, <2>8, <2>14, Onwards
<1> QED  BY <1>17, <1>18

LEMMA DryRunGiven ==
  ASSUME NullIsNoResult, ConcretizedInv, DryRun
  PROVE  ConcretizedInv'
<1>1. ~Idle /\ Top.k = "dry" /\ UNCHANGED <<input, lzr, results>>
  BY DEF DryRun, At
<1>2. LinearizeInv /\ LzrOk /\ Counted(ch.path, results, GivesUp) /\ ~ended
  BY <1>1 DEF ConcretizedInv
<1>3. LinearizeInv'
  BY <1>2, DryRunStep
<1>4. mark = 0 /\ IsChoice(ch)
  BY <1>1, <1>2, InEnd
<1>5. PICK back : back = gu_choice_reset(ch, mark)
  OBVIOUS
<1>6. back = [path |-> ch.path, path_idx |-> 0]
  BY <1>4, <1>5 DEF IsChoice, gu_choice_reset
<1>7. CASE HasFailed
  <2>1. Top.got = NULL /\ back = [path |-> <<>>, path_idx |-> 0]
    BY <1>6, <1>7 DEF HasFailed, Top
  <2>2. ~CanAdvance(back)
    BY <2>1 DEF CanAdvance, Untried
  <2>3. stack' = <<>> /\ ended'
    BY <1>5, <2>1, <2>2 DEF DryRun
  <2>4. GivesUp = TRUE
    BY <1>1, <2>1 DEF GivesUp
  <2>5. PICK path, rs : path = ch.path /\ rs = results
    OBVIOUS
  <2>6. Counted(path, rs, TRUE) /\ Len(path) = 0
    BY <1>2, <1>7, <2>4, <2>5 DEF HasFailed
  <2>7. Complete(rs)
    BY <1>2, <2>6, CountedNone
  <2>8. rs = results' /\ IsSeq(rs) /\ Listed(rs) /\ Idle'
    BY <1>1, <2>3, <2>5 DEF ConcretizedInv, Idle
  <2> QED  BY <1>1, <1>2, <1>3, <2>3, <2>7, <2>8, ComesToAnEnd
<1>8. ASSUME NEW H, NEW N, Run(H, N, ch.path), H[N].n = 0, IsResult(H[N].got), Top.got = H[N].got
      PROVE  ConcretizedInv'
  <2>1. Top.got # NULL
    BY <1>8 DEF IsResult, NullIsNoResult
  <2>2. PICK a, b : a = Infer(expr) /\ b = [k |-> "build", cat |-> Top.got.cat, got |-> NULL]
    OBVIOUS
  <2>3. ch' = back /\ stack' = <<a, b>> /\ ended' = ended
    BY <1>5, <2>1, <2>2 DEF DryRun
  <2>4. ~Idle' /\ Top' = a /\ a.k = "infer"
    BY <2>2, <2>3 DEF Idle, Top, Infer
  <2>5. PICK way, up : way = ch'.path /\ up = GivesUp'
    OBVIOUS
  <2>6. up = FALSE /\ GivesUp = FALSE /\ way = ch.path
    BY <1>1, <1>6, <2>1, <2>3, <2>4, <2>5 DEF GivesUp
  <2>7. Counted(way, results, up)
    BY <1>2, <2>6
  <2> QED  BY <1>1, <1>2, <1>3, <2>3, <2>4, <2>5, <2>7, Onwards
<1> QED  BY <1>1, <1>2, <1>7, <1>8, InEnd

LEMMA BuildGiven ==
  ASSUME ConcretizedInv, Build
  PROVE  ConcretizedInv'
<1>1. /\ ~Idle /\ Top.k = "build" /\ stack' = <<>> /\ UNCHANGED <<input, lzr, ended>>
      /\ results' = Append(results, Top.got.tree)
  BY DEF Build, At
<1>2. LinearizeInv /\ LzrOk /\ ~ended /\ Counted(ch.path, results, FALSE) /\ IsSeq(results) /\ Listed(results)
  <2>1. GivesUp = FALSE
    BY <1>1 DEF GivesUp
  <2> QED  BY <1>1, <2>1 DEF ConcretizedInv
<1>3. LinearizeInv'
  BY <1>2, BuildStep
<1>4. mark = 0 /\ expr = input.expr /\ IsChoice(ch) /\ IndicesTyped
  BY <1>1, <1>2, InEnd
<1>5. ~HasFailed
  BY <1>1 DEF HasFailed, Top
<1>6. PICK path, rs, x, ss : path = ch.path /\ rs = results /\ x = Top.got.tree /\ ss = results'
  OBVIOUS
<1>7. PICK H, N : Run(H, N, path) /\ H[N].n = 0 /\ x = H[N].got.tree
  <2>1. \E H, N : Run(H, N, ch.path) /\ H[N].n = 0 /\ IsResult(H[N].got) /\ Top.got = H[N].got
    BY <1>1, <1>2, <1>5, InEnd
  <2> QED  BY <1>6, <2>1
<1>8. ss = Append(rs, x) /\ IsSeq(rs) /\ Counted(path, rs, FALSE)
  BY <1>1, <1>2, <1>6
<1>9. /\ Counted(path, ss, TRUE) /\ Placed(x, Len(rs) + 1)
      /\ Len(ss) = Len(rs) + 1 /\ ss[Len(rs) + 1] = x /\ \A i \in 1..Len(rs) : ss[i] = rs[i]
  <2>1. Counted(path, ss, TRUE) /\ Placed(x, Len(rs) + 1)
    BY ONLY <1>2, <1>7, <1>8, CountedOver, Zenon
  <2>2. Len(ss) = Len(rs) + 1 /\ ss[Len(rs) + 1] = x /\ \A i \in 1..Len(rs) : ss[i] = rs[i]
    BY <1>8, AppendList
  <2> QED  BY <2>1, <2>2
<1>10. IsSeq(ss)
  BY <1>8, AppendList
<1>11. Listed(ss)
  <2>1. DOMAIN ss = 1..(Len(rs) + 1) /\ DOMAIN rs = 1..Len(rs) /\ Len(rs) \in Nat
    BY <1>8, <1>9, <1>10, ListFacts
  <2>2. \A i \in 1..Len(rs) : Placed(rs[i], i)
    BY <1>2, <1>6, <2>1 DEF Listed
  <2>3. ASSUME NEW i \in 1..(Len(rs) + 1) PROVE Placed(ss[i], i)
    <3>1. CASE i = Len(rs) + 1
      BY <1>9, <3>1
    <3>2. CASE i # Len(rs) + 1
      <4>1. i \in 1..Len(rs)
        BY <2>1, <3>2
      <4>2. ss[i] = rs[i]
        BY <1>9, <4>1
      <4> QED  BY <2>2, <4>1, <4>2
    <3> QED  BY <3>1, <3>2
  <2> QED  BY <2>1, <2>3 DEF Listed
<1>12. PICK back : back = gu_choice_reset(ch, mark)
  OBVIOUS
<1>13. IsChoice(back) /\ path = back.path /\ back.path_idx = 0
  BY <1>4, <1>6, <1>12 DEF IsChoice, gu_choice_reset
<1>14. PICK c1 : c1 = gu_choice_advance(back)
  OBVIOUS
<1>15. PICK way : way = c1.path
  OBVIOUS
<1>16. ch' = c1 /\ expr' = (IF CanAdvance(back) THEN expr ELSE NULL) /\ way = gu_choice_advance(back).path
  BY <1>12, <1>14, <1>15 DEF Build
<1>17. Idle' /\ GivesUp' = FALSE
  BY <1>1 DEF Idle, GivesUp
<1>18. CASE CanAdvance(back)
  <2>1. expr' # NULL /\ ~ended'
    BY <1>1, <1>2, <1>4, <1>16, <1>18, InputsAssumption DEF LzrOk
  <2>2. way = ch'.path
    BY <1>15, <1>16
  <2>3. PICK q, o : Tracked(way, q, o)
    BY <1>1, <1>2, <1>3, <2>1, <2>2, NewTracked
  <2>4. Counted(way, ss, FALSE)
    <3>1. back.path_idx \in Nat
      BY <1>13
    <3> QED  BY <1>2, <1>9, <1>13, <1>16, <1>18, <2>3, <3>1, CountedAdvance
  <2>5. Listed(ss)' /\ Counted(way, ss, FALSE)' /\ LzrOk'
    BY <1>1, <1>2, <1>11, <2>4, GivenPartsStay
  <2>6. Listed(results)' /\ Counted(ch.path, results, FALSE)' /\ IsSeq(results')
    BY <1>6, <1>10, <2>2, <2>5
  <2>7. Counted(ch.path, results, GivesUp)'
    BY <1>17, <2>6
  <2> QED  BY <1>3, <1>17, <2>1, <2>5, <2>6, <2>7 DEF ConcretizedInv
<1>19. CASE ~CanAdvance(back)
  <2>1. expr' = NULL
    BY <1>16, <1>19
  <2>2. 1 \in 1..N /\ H[1].idx = 0
    <3>1. 1 \in 1..N /\ H[1] = Root
      BY <1>7, RunFirst
    <3> QED  BY <3>1, RootIsGood
  <2>3. Run(H, 1, way)
    <3>1. Run(H, N, back.path) /\ back.path_idx = H[1].idx
      BY <1>7, <1>13, <2>2
    <3>2. Run(H, 1, c1.path)
      BY <1>4, <1>13, <1>14, <1>19, <2>2, <3>1, RunBack
    <3> QED  BY <1>15, <3>2
  <2>4. Len(way) = 0
    BY <2>2, <2>3 DEF Run
  <2>5. PICK q, o : Tracked(way, q, o)
    BY <1>2, <2>3, TrackedExists
  <2>6. Counted(way, ss, TRUE)
    <3>1. back.path_idx \in 0..Len(path)
      <4>1. Len(path) \in Nat
        BY <1>7, LenProperties DEF Run
      <4> QED  BY <1>13, <4>1
    <3> QED  BY <1>2, <1>9, <1>13, <1>16, <1>19, <2>5, <3>1, CountedCut
  <2>7. Complete(ss)
    BY <1>2, <2>4, <2>6, CountedNone
  <2> QED  BY <1>1, <1>2, <1>3, <1>6, <1>10, <1>11, <1>17, <2>1, <2>7, ComesToAnEnd
<1> QED  BY <1>18, <1>19

LEMMA EnumNextGiven ==
  ASSUME ConcretizedInv, pgf_cnc_tree_enum_next
  PROVE  ConcretizedInv'
<1>1. /\ Idle /\ ~ended /\ UNCHANGED <<input, lzr, expr, ch, results>>
      /\ expr = NULL => ended' /\ stack' = stack
      /\ expr # NULL => ended' = ended /\ stack' = <<Infer(expr), [k |-> "dry", got |-> NULL]>>
  BY DEF pgf_cnc_tree_enum_next
<1>2. LinearizeInv /\ LzrOk /\ IsSeq(results) /\ Listed(results)
  BY DEF ConcretizedInv
<1>3. LinearizeInv'
  BY <1>2, EnumNextStep
<1>4. CASE expr = NULL
  <2>1. PICK rs : rs = results
    OBVIOUS
  <2>2. rs = results' /\ IsSeq(rs) /\ Listed(rs) /\ Complete(rs) /\ Idle'
    BY <1>1, <1>2, <1>4, <2>1 DEF ConcretizedInv, Idle
  <2> QED  BY <1>1, <1>2, <1>3, <1>4, <2>2, ComesToAnEnd
<1>5. CASE expr # NULL
  <2>1. PICK a, b : a = Infer(expr) /\ b = [k |-> "dry", got |-> NULL]
    OBVIOUS
  <2>2. stack' = <<a, b>> /\ ~ended'
    BY <1>1, <1>5, <2>1
  <2>3. ~Idle' /\ Top' = a /\ a.k = "infer"
    BY <2>1, <2>2 DEF Idle, Top, Infer
  <2>4. PICK way, up : way = ch'.path /\ up = GivesUp'
    OBVIOUS
  <2>5. up = FALSE /\ GivesUp = FALSE /\ way = ch.path
    BY <1>1, <2>3, <2>4 DEF GivesUp
  <2>6. Counted(way, results, up)
    BY <1>1, <1>5, <2>5 DEF ConcretizedInv
  <2> QED  BY <1>1, <1>3, <2>2, <2>3, <2>4, <2>6, Continues
<1> QED  BY <1>4, <1>5

LEMMA InitOfGiven == Init => ConcretizedInv
<1> SUFFICES ASSUME Init PROVE ConcretizedInv
  OBVIOUS
<1>1. LinearizeInv /\ LzrOk
  BY InitOfInv, LzrIndexes DEF LzrOk, Init
<1>2. /\ ch = gu_new_choice /\ Idle /\ ~ended /\ expr = input.expr /\ expr # NULL
      /\ results = <<>> /\ IsChoice(ch) /\ GivesUp = FALSE
  BY InputsAssumption DEF Init, Idle, GivesUp, gu_new_choice, IsChoice
<1>3. PICK path, rs : path = ch.path /\ rs = results
  OBVIOUS
<1>4. PICK p, n : Tracked(path, p, n)
  BY <1>1, <1>2, <1>3, FirstRun, TrackedExists
<1>5. Len(p) = 0 /\ rs = <<>> /\ Len(rs) = 0
  <2>1. Len(path) = 0
    BY <1>2, <1>3 DEF gu_new_choice
  <2> QED  BY <1>1, <1>2, <1>3, <1>4, <2>1, TrackedFacts
<1>6. Passed(p) = {}
  <2>1. ASSUME NEW d \in Ders PROVE ~Before(d.dec, p)
    <3>1. Len(d.dec) \in Nat
      BY <1>1, DersTyped, DecIsSeq
    <3> QED  BY <1>5, <3>1 DEF Before
  <2> QED  BY <2>1 DEF Passed
<1>7. Counted(path, rs, FALSE)
  BY <1>4, <1>5, <1>6, FS_EmptySet DEF Counted, Shown
<1>8. IsSeq(rs) /\ Listed(rs)
  <2>1. <<>> \in Seq({})
    BY EmptySeq
  <2>2. IsSeq(rs)
    BY <1>5, <2>1, SeqIsItsOwn
  <2>3. DOMAIN rs = {}
    BY <1>5
  <2> QED  BY <2>2, <2>3 DEF Listed
<1> QED  BY <1>1, <1>2, <1>3, <1>7, <1>8 DEF ConcretizedInv

LEMMA StutterGiven ==
  ASSUME ConcretizedInv, UNCHANGED vars
  PROVE  ConcretizedInv'
<1>1. UNCHANGED <<input, lzr, expr, ch, mark, stack, results, ended>>
  BY DEF vars
<1>2. LinearizeInv'
  BY StutterStep DEF ConcretizedInv
<1>3. PICK path, rs, up : path = ch.path /\ rs = results /\ up = GivesUp
  OBVIOUS
<1>4. /\ LzrOk' = LzrOk /\ Listed(rs)' = Listed(rs) /\ Complete(rs)' = Complete(rs)
      /\ Counted(path, rs, up)' = Counted(path, rs, up)
  BY <1>1, GivenPartsStay
<1>5. Listed(results)' = Listed(results) /\ Complete(results)' = Complete(results)
  BY <1>1, <1>3, <1>4
<1>6. GivesUp' = GivesUp /\ Idle' = Idle
  BY <1>1 DEF GivesUp, Idle, Top
<1>7. Counted(ch.path, results, GivesUp)' = Counted(ch.path, results, GivesUp)
  BY <1>1, <1>3, <1>4, <1>6
<1> QED  BY <1>1, <1>2, <1>4, <1>5, <1>6, <1>7 DEF ConcretizedInv

\* The client has been given as many trees as there are derivations before the one
\* under way, each where it belongs.
THEOREM ConcretizedInvHolds == ASSUME NullIsNoResult PROVE Spec => []ConcretizedInv
<1>1. ConcretizedInv /\ [Next]_vars => ConcretizedInv'
  <2> SUFFICES ASSUME ConcretizedInv, [Next]_vars PROVE ConcretizedInv'
    OBVIOUS
  <2>1. CASE pgf_cnc_tree_enum_next
    BY <2>1, EnumNextGiven
  <2>2. CASE DryRun
    BY <2>2, DryRunGiven
  <2>3. CASE Build
    BY <2>3, BuildGiven
  <2>4. CASE pgf_lzn_infer
    BY <2>4, InferGiven
  <2>5. CASE InferArg
    BY <2>5, InferArgGiven
  <2>6. CASE pgf_lzn_pick_supercat
    BY <2>6, PickGiven
  <2>7. CASE InferEntry
    BY <2>7, InferEntryGiven
  <2>8. CASE Backtrack
    BY <2>8, BacktrackGiven
  <2>9. CASE UNCHANGED vars
    BY <2>9, StutterGiven
  <2> QED  BY <2>1, <2>2, <2>3, <2>4, <2>5, <2>6, <2>7, <2>8, <2>9 DEF Next, Step
<1> QED  BY <1>1, InitOfGiven, PTL DEF Spec

LEMMA GivenConcretizes == ConcretizedInv => ConcretizesAll
<1> SUFFICES ASSUME ConcretizedInv, Idle PROVE LET ds == Derivations(input.expr) IN
      /\ \A i \in DOMAIN results :
           \E d \in ds : results[i] = d.tree /\ Cardinality(Preceding(d.dec, ds)) = i - 1
      /\ ended => Cardinality(ds) = Len(results)
  BY DEF ConcretizesAll
<1>1. \A s, t : Precedes(s, t) <=> Before(s, t)
  BY DEF Precedes, Before
<1>2. \A s : Preceding(s, Ders) = Passed(s)
  BY <1>1 DEF Preceding, Passed
<1>3. ASSUME NEW i \in DOMAIN results
      PROVE  \E d \in Ders : results[i] = d.tree /\ Cardinality(Preceding(d.dec, Ders)) = i - 1
  <2>1. Placed(results[i], i)
    BY DEF ConcretizedInv, Listed
  <2> QED  BY <1>2, <2>1 DEF Placed
<1>4. ended => Cardinality(Ders) = Len(results)
  BY DEF ConcretizedInv, Complete, Shown
<1> QED  BY <1>3, <1>4 DEF Ders

\* pgf_lzr_concretize gives every derivation of the tree, once and in order, and
\* tells the end when it has given them all, whatever the grammar and the tree.
THEOREM AlwaysConcretizesAll == ASSUME NullIsNoResult PROVE Spec => []ConcretizesAll
<1> QED  BY ConcretizedInvHolds, GivenConcretizes, PTL

=============================================================================
