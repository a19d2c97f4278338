--------------------------- MODULE LinearizeProofs ---------------------------
(***************************************************************************)
(* The inference that builds a concrete tree repeats the one before it,    *)
(* for every grammar and every abstract tree.                              *)
(*                                                                         *)
(* The argument: behind the path of the GuChoice there is a run of the     *)
(* inference without a failure, from its start through all the decisions   *)
(* of the path.  A configuration of the run is the stack of the inference  *)
(* and the number of decisions made.  The inference either repeats the     *)
(* run, or is at its end and makes it longer.  When it fails, it goes back *)
(* to a configuration that the run has come past, because a frame of an    *)
(* application holds nothing but what was so when each of its arguments    *)
(* began; and the path is cut to the decisions before that configuration,  *)
(* or to a later one that has an alternative left.                         *)
(***************************************************************************)
EXTENDS Linearize, ArithmeticLemmas, SequenceTheorems

\* The alternatives of a decision can be counted.
IndicesTyped ==
  /\ \A cat : Len(Supers(cat)) \in Nat
  /\ \A f, cats : Len(InferEntries(f, cats)) \in Nat

\* A null pointer is not a category with its tree.
NullIsNoResult == \A c, t : NULL # [cat |-> c, tree |-> t]

IsResult(r) == r = [cat |-> r.cat, tree |-> r.tree]

-----------------------------------------------------------------------------
(* Configurations: n frames of the inference, the outermost first, what it *)
(* has returned, and the number of decisions it has made.                  *)

\* A frame of pgf_lzn_infer_application, when i decisions have been made.
GoodApp(f, i) ==
  /\ f = [k |-> f.k, fun |-> f.fun, args |-> f.args, got |-> f.got,
          marks |-> f.marks, cats |-> f.cats, trees |-> f.trees]
  /\ IsSeq(f.cats) /\ IsSeq(f.trees) /\ f.marks \in Seq(Nat)
  /\ Len(f.trees) = Len(f.cats) /\ Len(f.marks) = Len(f.cats) + 1
  /\ \A x, y \in 1..Len(f.marks) : x <= y => f.marks[x] <= f.marks[y]
  /\ \A x \in 1..Len(f.marks) : f.marks[x] <= i

\* The mark where frame x has begun its next argument.
LastMark(c, x) == IF x = 0 THEN 0 ELSE c.st[x].marks[Len(c.st[x].marks)]

GoodTop(c, f) ==
  /\ c.got = NULL
  /\ f.k \in {"infer", "args", "super"}
  /\ f.k = "infer" => f = [k |-> "infer", expr |-> f.expr] /\ c.idx = LastMark(c, c.n - 1)
  /\ f.k = "args" => f.got = NULL /\ c.idx = LastMark(c, c.n)
  /\ f.k = "super" => IsResult(f.got)

GoodConfig(c) ==
  /\ c = [n |-> c.n, st |-> c.st, got |-> c.got, idx |-> c.idx]
  /\ c.n \in Nat /\ c.idx \in Nat /\ c.st = [x \in 1..c.n |-> c.st[x]]
  /\ \A x \in 1..c.n : x < c.n => c.st[x].k = "args" /\ c.st[x].got = NULL
  /\ \A x \in 1..c.n :
       c.st[x].k # "infer" => GoodApp(c.st[x], c.idx) /\ c.st[x].marks[1] = LastMark(c, x - 1)
  /\ c.n > 0 => GoodTop(c, c.st[c.n])
  /\ c.n = 0 => IsResult(c.got)

\* The start of an inference.
Root == [n |-> 1, st |-> [x \in 1..1 |-> Infer(input.expr)], got |-> NULL, idx |-> 0]

\* A call, a new top frame, and a return with r to the frame below.
Pushed(c, f) ==
  [n |-> c.n + 1, st |-> [x \in 1..(c.n + 1) |-> IF x = c.n + 1 THEN f ELSE c.st[x]],
   got |-> c.got, idx |-> c.idx]

Put(c, f, i) ==
  [n |-> c.n, st |-> [x \in 1..c.n |-> IF x = c.n THEN f ELSE c.st[x]], got |-> c.got, idx |-> i]

Told(f, r) == [f EXCEPT !.k = "super", !.got = r]

Returned(c, r, i) ==
  [n |-> c.n - 1,
   st |-> [x \in 1..(c.n - 1) |->
             IF x = c.n - 1 THEN Told(c.st[x], r) ELSE c.st[x]],
   got |-> IF c.n = 1 THEN r ELSE c.got, idx |-> i]

Opened(f, i) ==
  [k |-> "args", fun |-> f.expr.fun, args |-> f.expr.args, got |-> NULL,
   marks |-> <<i>>, cats |-> <<>>, trees |-> <<>>]

WithArg(f, cat, i) ==
  [f EXCEPT !.k = "args", !.got = NULL, !.cats = Append(@, cat),
            !.trees = Append(@, f.got.tree), !.marks = Append(@, i)]

Recat(f, cat) == [f EXCEPT !.got.cat = cat]

\* What the inference does in a configuration with top frame f.
ToReturn(f) == f.k = "infer" /\ f.expr.fun = Literal
ToOpen(f) == f.k = "infer" /\ f.expr.fun # Literal /\ HasFun(f.expr.fun)
ToCall(f) == f.k = "args" /\ Len(f.cats) < Len(f.args)
ToChoose(f) ==
  f.k = "args" /\ Len(f.cats) = Len(f.args) /\ Len(InferEntries(f.fun, f.cats)) > 0
ToKeep(f) == f.k = "super" /\ Supers(f.got.cat) = <<>>
ToPick(f) == f.k = "super" /\ Supers(f.got.cat) # <<>>

\* It does not fail, and is not over.
Goes(c) ==
  LET f == c.st[c.n] IN
  c.n > 0 /\ (ToReturn(f) \/ ToOpen(f) \/ ToCall(f) \/ ToChoose(f) \/ ToKeep(f) \/ ToPick(f))

\* The alternatives of the decision that it makes, or 0.
Ways(c) ==
  LET f == c.st[c.n] IN
  IF ToPick(f) THEN Len(Supers(f.got.cat)) + 1
  ELSE IF ToChoose(f) THEN Len(InferEntries(f.fun, f.cats)) ELSE 0

\* Where it goes, with alternative a of the decision if there is one.
After(c, a) ==
  LET f == c.st[c.n]
      entry == InferEntries(f.fun, f.cats)[a + 1]
  IN IF ToReturn(f) THEN Returned(c, [cat |-> LitCat, tree |-> f.expr], c.idx)
     ELSE IF ToOpen(f) THEN Put(c, Opened(f, c.idx), c.idx)
     ELSE IF ToCall(f) THEN Pushed(c, Infer(f.args[Len(f.cats) + 1]))
     ELSE IF ToChoose(f)
     THEN Returned(c, [cat |-> entry.cat, tree |-> [fun |-> entry.prod.cnc, args |-> f.trees]],
                   c.idx + 1)
     ELSE IF ToKeep(f) THEN Put(c, WithArg(f, f.got.cat, c.idx), c.idx)
     ELSE IF a = 0 THEN Put(c, WithArg(f, f.got.cat, c.idx + 1), c.idx + 1)
     ELSE Put(c, Recat(f, Supers(f.got.cat)[a]), c.idx + 1)

-----------------------------------------------------------------------------
(* Sequences *)

LEMMA ListFacts ==
  ASSUME NEW s, IsSeq(s)
  PROVE  Len(s) \in Nat /\ DOMAIN s = 1..Len(s)
  BY LenProperties DEF IsSeq

LEMMA SeqIsItsOwn ==
  ASSUME NEW S, NEW s \in Seq(S)
  PROVE  IsSeq(s)
<1>1. /\ Len(s) \in Nat /\ DOMAIN s = 1..Len(s)
      /\ s \in [1..Len(s) -> {s[i] : i \in DOMAIN s}]
  BY LenProperties
<1> QED  BY <1>1 DEF IsSeq

LEMMA AppendList ==
  ASSUME NEW s, IsSeq(s), NEW e
  PROVE  /\ IsSeq(Append(s, e)) /\ Len(Append(s, e)) = Len(s) + 1
         /\ \A i \in 1..Len(s) : Append(s, e)[i] = s[i]
         /\ Append(s, e)[Len(s) + 1] = e
<1> DEFINE S == {s[i] : i \in DOMAIN s} \cup {e}
<1>1. s \in Seq(S) /\ e \in S
  BY DEF IsSeq
<1> HIDE DEF S
<1>2. /\ Append(s, e) \in Seq(S) /\ Len(Append(s, e)) = Len(s) + 1
      /\ \A i \in 1..Len(s) : Append(s, e)[i] = s[i]
      /\ Append(s, e)[Len(s) + 1] = e
  BY <1>1, AppendProperties
<1> QED  BY <1>2, SeqIsItsOwn

LEMMA ListsEqual ==
  ASSUME NEW s, NEW t, IsSeq(s), IsSeq(t), Len(s) = Len(t),
         \A i \in 1..Len(s) : s[i] = t[i]
  PROVE  s = t
<1> DEFINE S == {s[i] : i \in DOMAIN s} \cup {t[i] : i \in DOMAIN t}
<1>1. s \in Seq(S) /\ t \in Seq(S)
  BY DEF IsSeq
<1> HIDE DEF S
<1> QED  BY <1>1, SeqEqual

-----------------------------------------------------------------------------
(* The index of the linearizer *)

\* F is the recursive function of IndexedAt, for the sequence s, up to k.
IndexedBy(s, places, k, F) ==
  F = [n \in 0..k |->
         IF n = 0 THEN <<>> ELSE IF n \in places THEN Append(F[n - 1], s[n]) ELSE F[n - 1]]

LEMMA IndexedByExists ==
  ASSUME NEW s, NEW l \in Nat, NEW places
  PROVE  \E F : IndexedBy(s, places, l, F)
<1> DEFINE T == {k \in Nat : \E F : IndexedBy(s, places, k, F)}
<1>1. 0 \in T
  <2> DEFINE F == [n \in 0..0 |-> <<>>]
  <2>1. F = [n \in 0..0 |->
               IF n = 0 THEN <<>> ELSE IF n \in places THEN Append(F[n - 1], s[n]) ELSE F[n - 1]]
    OBVIOUS
  <2> HIDE DEF F
  <2>2. IndexedBy(s, places, 0, F)
    BY <2>1 DEF IndexedBy
  <2> QED  BY <2>2
<1>2. ASSUME NEW j \in Nat, j \in T PROVE j + 1 \in T
  <2>1. PICK F : IndexedBy(s, places, j, F)
    BY <1>2
  <2>2. PICK k \in Nat : k = j + 1
    OBVIOUS
  <2>3. PICK v : v = IF k \in places THEN Append(F[j], s[k]) ELSE F[j]
    OBVIOUS
  <2> DEFINE G == [n \in 0..k |-> IF n = k THEN v ELSE F[n]]
  <2>4. G[k] = v /\ \A n \in 0..j : G[n] = F[n]
    BY <2>2
  <2>5. G = [n \in 0..k |-> G[n]]
    OBVIOUS
  <2> HIDE DEF G
  <2>6. ASSUME NEW n \in 0..k
        PROVE  G[n] = IF n = 0 THEN <<>>
                      ELSE IF n \in places THEN Append(G[n - 1], s[n]) ELSE G[n - 1]
    <3>1. CASE n = k
      <4>1. n # 0 /\ n - 1 = j /\ G[n - 1] = F[j]
        BY <2>2, <2>4, <3>1
      <4> QED  BY <2>3, <2>4, <3>1, <4>1
    <3>2. CASE n # k
      <4>1. n \in 0..j /\ (n # 0 => n - 1 \in 0..j)
        BY <2>2, <3>2
      <4>2. F[n] = IF n = 0 THEN <<>>
                   ELSE IF n \in places THEN Append(F[n - 1], s[n]) ELSE F[n - 1]
        BY <2>1, <4>1 DEF IndexedBy
      <4> QED  BY <2>4, <4>1, <4>2
    <3> QED  BY <3>1, <3>2
  <2>7. IndexedBy(s, places, k, G)
    BY <2>5, <2>6 DEF IndexedBy
  <2> QED  BY <2>2, <2>7
<1> HIDE DEF T
<1>3. \A n \in 0..l : n \in T
  BY <1>1, <1>2, InductionUpTo
<1>4. l \in T
  BY <1>3
<1> QED  BY <1>4 DEF T

LEMMA IndexedByTyped ==
  ASSUME NEW S, NEW s, NEW l \in Nat, NEW places, \A n \in 1..l : n \in places => s[n] \in S,
         NEW F, IndexedBy(s, places, l, F)
  PROVE  F[l] \in Seq(S)
<1> DEFINE T == {n \in Nat : F[n] \in Seq(S)}
<1>2. \A n \in 0..l : F[n] = IF n = 0 THEN <<>>
                            ELSE IF n \in places THEN Append(F[n - 1], s[n]) ELSE F[n - 1]
  BY DEF IndexedBy
<1>3. 0 \in T
  <2>1. F[0] = <<>>
    BY <1>2
  <2>2. F[0] \in Seq(S)
    BY <2>1, EmptySeq, Zenon
  <2> QED  BY <2>2
<1>4. ASSUME NEW j \in 0..(l - 1), j \in T PROVE j + 1 \in T
  <2>1. PICK k \in 1..l : k = j + 1 /\ k - 1 = j
    OBVIOUS
  <2>2. F[k] = IF k \in places THEN Append(F[j], s[k]) ELSE F[j]
    BY <1>2, <2>1
  <2>3. F[j] \in Seq(S) /\ (k \in places => s[k] \in S)
    BY <1>4
  <2>4. k \in places => Append(F[j], s[k]) \in Seq(S)
    BY <2>3, AppendProperties
  <2>5. F[k] \in Seq(S)
    BY <2>2, <2>3, <2>4, Zenon
  <2> QED  BY <2>1, <2>5
<1> HIDE DEF T
<1>5. \A n \in 0..l : n \in T
  BY <1>3, <1>4, InductionUpTo
<1>6. l \in T
  BY <1>5
<1> QED  BY <1>6 DEF T

LEMMA IndexedAtIn ==
  ASSUME IsSeq(lzr), NEW places, NEW S, \A n \in DOMAIN lzr : n \in places => lzr[n] \in S
  PROVE  IndexedAt(places) \in Seq(S)
<1>1. PICK l \in Nat : l = Len(lzr) /\ DOMAIN lzr = 1..l
  BY ListFacts
<1>2. \E F : IndexedBy(lzr, places, Len(lzr), F)
  BY <1>1, IndexedByExists
<1>3. PICK F : IndexedBy(lzr, places, Len(lzr), F) /\ IndexedAt(places) = F[Len(lzr)]
  BY <1>2, Zenon DEF IndexedAt, IndexedBy
<1>4. F[l] \in Seq(S)
  BY <1>1, <1>3, IndexedByTyped
<1> QED  BY <1>1, <1>3, <1>4

LEMMA IndexedAtSeq ==
  ASSUME IsSeq(lzr), NEW places
  PROVE  IsSeq(IndexedAt(places))
<1>1. PICK S : S = {lzr[n] : n \in DOMAIN lzr}
  OBVIOUS
<1>2. IndexedAt(places) \in Seq(S)
  BY <1>1, IndexedAtIn
<1> QED  BY <1>2, SeqIsItsOwn

\* F is the recursive function of FlattenSeq, up to k.
FlattenBy(seqs, k, F) == F = [i \in 1..k |-> IF i = 1 THEN seqs[i] ELSE F[i - 1] \o seqs[i]]

LEMMA FlattenByExists ==
  ASSUME NEW seqs, NEW l \in Nat
  PROVE  \E F : FlattenBy(seqs, l, F)
<1> DEFINE T == {k \in Nat : \E F : FlattenBy(seqs, k, F)}
<1>1. 0 \in T
  <2> DEFINE F == [i \in 1..0 |-> <<>>]
  <2>1. F = [i \in 1..0 |-> IF i = 1 THEN seqs[i] ELSE F[i - 1] \o seqs[i]]
    OBVIOUS
  <2> HIDE DEF F
  <2>2. FlattenBy(seqs, 0, F)
    BY <2>1 DEF FlattenBy
  <2> QED  BY <2>2
<1>2. ASSUME NEW j \in Nat, j \in T PROVE j + 1 \in T
  <2>1. PICK F : FlattenBy(seqs, j, F)
    BY <1>2
  <2>2. PICK k \in Nat : k = j + 1
    OBVIOUS
  <2>3. PICK v : v = IF k = 1 THEN seqs[k] ELSE F[j] \o seqs[k]
    OBVIOUS
  <2> DEFINE G == [n \in 1..k |-> IF n = k THEN v ELSE F[n]]
  <2>4. G[k] = v /\ \A n \in 1..j : G[n] = F[n]
    BY <2>2
  <2>5. G = [n \in 1..k |-> G[n]]
    OBVIOUS
  <2> HIDE DEF G
  <2>6. ASSUME NEW n \in 1..k
        PROVE  G[n] = IF n = 1 THEN seqs[n] ELSE G[n - 1] \o seqs[n]
    <3>1. CASE n = k
      <4>1. n # 1 => n - 1 = j /\ G[n - 1] = F[j]
        BY <2>2, <2>4, <3>1
      <4> QED  BY <2>3, <2>4, <3>1, <4>1
    <3>2. CASE n # k
      <4>1. n \in 1..j /\ (n # 1 => n - 1 \in 1..j)
        BY <2>2, <3>2
      <4>2. F[n] = IF n = 1 THEN seqs[n] ELSE F[n - 1] \o seqs[n]
        BY <2>1, <4>1 DEF FlattenBy
      <4> QED  BY <2>4, <4>1, <4>2
    <3> QED  BY <3>1, <3>2
  <2>7. FlattenBy(seqs, k, G)
    BY <2>5, <2>6 DEF FlattenBy
  <2> QED  BY <2>2, <2>7
<1> HIDE DEF T
<1>3. \A n \in 0..l : n \in T
  BY <1>1, <1>2, InductionUpTo
<1>4. l \in T
  BY <1>3
<1> QED  BY <1>4 DEF T

LEMMA FlattenByTyped ==
  ASSUME NEW S, NEW seqs, NEW l \in Nat, \A i \in 1..l : seqs[i] \in Seq(S),
         NEW F, FlattenBy(seqs, l, F)
  PROVE  \A i \in 1..l : F[i] \in Seq(S)
<1> DEFINE T == {n \in Nat : n \in 1..l => F[n] \in Seq(S)}
<1>1. \A n \in 1..l : F[n] = IF n = 1 THEN seqs[n] ELSE F[n - 1] \o seqs[n]
  BY DEF FlattenBy
<1>2. 0 \in T
  OBVIOUS
<1>3. ASSUME NEW j \in 0..(l - 1), j \in T PROVE j + 1 \in T
  <2>1. PICK k \in 1..l : k = j + 1 /\ k - 1 = j
    OBVIOUS
  <2>2. seqs[k] \in Seq(S)
    OBVIOUS
  <2>3. F[k] \in Seq(S)
    <3>1. CASE k = 1
      <4>1. F[k] = seqs[k]
        BY <1>1, <3>1
      <4> QED  BY <2>2, <4>1
    <3>2. CASE k # 1
      <4>1. F[k] = F[j] \o seqs[k]
        BY <1>1, <2>1, <3>2
      <4>2. F[j] \in Seq(S)
        BY <1>3, <2>1, <3>2
      <4>3. F[j] \o seqs[k] \in Seq(S)
        BY <2>2, <4>2, ConcatProperties
      <4> QED  BY <4>1, <4>3
    <3> QED  BY <3>1, <3>2
  <2>4. k \in T
    BY <2>3
  <2> QED  BY <2>1, <2>4
<1>4. \A n \in 0..l : n \in T
  <2> HIDE DEF T
  <2> QED  BY <1>2, <1>3, InductionUpTo
<1> QED  BY <1>4

LEMMA FlattenedIn ==
  ASSUME NEW S, NEW seqs, IsSeq(seqs), \A i \in DOMAIN seqs : seqs[i] \in Seq(S)
  PROVE  FlattenSeq(seqs) \in Seq(S)
<1>1. PICK l \in Nat : l = Len(seqs) /\ DOMAIN seqs = 1..l
  BY ListFacts
<1>2. CASE l = 0
  <2>1. FlattenSeq(seqs) = <<>>
    BY <1>1, <1>2 DEF FlattenSeq
  <2> QED  BY <2>1
<1>3. CASE l # 0
  <2>2. \E F : FlattenBy(seqs, l, F)
    BY FlattenByExists
  <2>3. \E F : FlattenBy(seqs, l, F) /\ FlattenSeq(seqs) = F[l]
    BY <1>1, <1>3, <2>2, Zenon DEF FlattenSeq, FlattenBy
  <2>4. PICK F : FlattenBy(seqs, l, F) /\ FlattenSeq(seqs) = F[l]
    BY <2>3
  <2>5. \A i \in 1..l : F[i] \in Seq(S)
    BY <1>1, <2>4, FlattenByTyped
  <2> QED  BY <1>1, <1>3, <2>4, <2>5
<1> QED  BY <1>2, <1>3

LEMMA FlattenedSeq ==
  ASSUME NEW seqs, IsSeq(seqs), \A i \in DOMAIN seqs : IsSeq(seqs[i])
  PROVE  IsSeq(FlattenSeq(seqs))
<1>1. PICK l \in Nat : DOMAIN seqs = 1..l
  BY ListFacts
<1> DEFINE S == UNION {{seqs[i][j] : j \in DOMAIN seqs[i]} : i \in DOMAIN seqs}
<1>2. ASSUME NEW i \in DOMAIN seqs PROVE seqs[i] \in Seq(S)
  <2>0. PICK s : s = seqs[i]
    OBVIOUS
  <2>1. PICK m \in Nat : s = seqs[i] /\ DOMAIN s = 1..m /\ m = Len(s) /\ IsSeq(s)
    BY <2>0, ListFacts
  <2>2. \A j \in 1..m : s[j] \in S
    BY <2>1
  <2> HIDE DEF S
  <2>3. s = [j \in 1..m |-> s[j]]
    BY <2>1 DEF IsSeq
  <2>4. s \in [1..m -> S]
    BY <2>2, <2>3
  <2>5. s \in Seq(S)
    BY <2>4
  <2> QED  BY <2>1, <2>5
<1> HIDE DEF S
<1>3. FlattenSeq(seqs) \in Seq(S)
  BY <1>2, FlattenedIn
<1> QED  BY <1>3, SeqIsItsOwn

LEMMA FunctionIsSeq ==
  ASSUME NEW n \in Nat, NEW s, s = [i \in 1..n |-> s[i]]
  PROVE  IsSeq(s) /\ Len(s) = n /\ DOMAIN s = 1..n
<1> DEFINE S == {s[i] : i \in DOMAIN s}
<1>1. DOMAIN s = 1..n /\ \A i \in 1..n : s[i] \in S
  OBVIOUS
<1> HIDE DEF S
<1>2. s \in [1..n -> S]
  BY <1>1
<1>3. s \in Seq(S) /\ Len(s) = n
  BY <1>1, <1>2
<1> QED  BY <1>1, <1>3, SeqIsItsOwn

LEMMA ConcatSeq ==
  ASSUME NEW s, NEW t, IsSeq(s), IsSeq(t)
  PROVE  IsSeq(s \o t)
<1> DEFINE S == {s[i] : i \in DOMAIN s} \cup {t[i] : i \in DOMAIN t}
<1>1. s \in Seq(S) /\ t \in Seq(S)
  BY DEF IsSeq
<1> HIDE DEF S
<1>2. s \o t \in Seq(S)
  BY <1>1, ConcatProperties
<1> QED  BY <1>2, SeqIsItsOwn

\* The productions of the grammar g, each with its category.
InGrammar(g) ==
  {x \in [cat : DOMAIN g.prods, prod : UNION {{g.prods[ccat][i] : i \in DOMAIN g.prods[ccat]} : ccat \in DOMAIN g.prods}] :
     \E i \in DOMAIN g.prods[x.cat] : x.prod = g.prods[x.cat][i]}

LEMMA LzrIndexes == ASSUME Init PROVE lzr \in Seq(InGrammar(input.g))
<1>1. PICK g : /\ g = input.g
               /\ IsFiniteSet(DOMAIN g.cnccats)
               /\ \A cat \in DOMAIN g.cnccats : IsSeq(g.cnccats[cat])
               /\ IsSeq(g.extra_ccats)
               /\ \A ccat \in DOMAIN g.prods : IsSeq(g.prods[ccat])
  BY InputsAssumption DEF Init
<1>2. PICK names : names \in SetToSeqs(DOMAIN g.cnccats) /\ lzr = pgf_new_lzr(g, names)
  BY <1>1 DEF Init
<1>3. IsSeq(names) /\ \A i \in DOMAIN names : names[i] \in DOMAIN g.cnccats
  <2>1. PICK n \in Nat : n = Cardinality(DOMAIN g.cnccats)
    BY <1>1, FS_CardinalityType
  <2>2. names \in [1..n -> DOMAIN g.cnccats]
    BY <1>2, <2>1 DEF SetToSeqs
  <2> QED  BY <2>2, FunctionIsSeq
<1>4. IsSeq(IndexOrder(g, names))
  <2> DEFINE ccats == [i \in DOMAIN names |-> g.cnccats[names[i]]]
  <2>1. IsSeq(ccats)
    BY <1>3, ListFacts, FunctionIsSeq
  <2>2. \A i \in DOMAIN ccats : IsSeq(ccats[i])
    BY <1>1, <1>3
  <2> HIDE DEF ccats
  <2>3. IsSeq(FlattenSeq(ccats))
    BY <2>1, <2>2, FlattenedSeq
  <2>4. IsSeq(FlattenSeq(ccats) \o g.extra_ccats)
    BY <1>1, <2>3, ConcatSeq
  <2> QED  BY <2>4 DEF ccats, IndexOrder
<1>5. ASSUME NEW ccat PROVE Indexed(g, ccat) \in Seq(InGrammar(g))
  <2>1. CASE ccat \notin DOMAIN g.prods
    BY <2>1 DEF Indexed
  <2>2. CASE ccat \in DOMAIN g.prods
    <3>1. PICK n \in Nat : DOMAIN g.prods[ccat] = 1..n
      BY <1>1, <2>2, ListFacts
    <3>2. PICK x : x = [i \in 1..n |-> [cat |-> ccat, prod |-> g.prods[ccat][i]]]
      OBVIOUS
    <3>3. Indexed(g, ccat) = x
      BY <2>2, <3>1, <3>2 DEF Indexed
    <3>4. ASSUME NEW i \in 1..n PROVE x[i] \in InGrammar(g)
      <4>1. x[i] = [cat |-> ccat, prod |-> g.prods[ccat][i]] /\ i \in DOMAIN g.prods[ccat]
        BY <3>1, <3>2
      <4> QED  BY <2>2, <4>1 DEF InGrammar
    <3>5. x \in [1..n -> InGrammar(g)]
      BY <3>2, <3>4
    <3> QED  BY <3>3, <3>5
  <2> QED  BY <2>1, <2>2
<1>6. pgf_new_lzr(g, names) \in Seq(InGrammar(g))
  <2> DEFINE order == IndexOrder(g, names)
             found == [i \in DOMAIN order |-> Indexed(g, order[i])]
  <2>1. PICK n \in Nat : DOMAIN order = 1..n
    BY <1>4, ListFacts
  <2> HIDE DEF order
  <2>2. IsSeq(found)
    BY <2>1, FunctionIsSeq
  <2>3. \A i \in DOMAIN found : found[i] \in Seq(InGrammar(g))
    BY <1>5
  <2> HIDE DEF found
  <2>4. FlattenSeq(found) \in Seq(InGrammar(g))
    BY <2>2, <2>3, FlattenedIn
  <2> QED  BY <2>4 DEF found, order, pgf_new_lzr
<1> QED  BY <1>1, <1>2, <1>6

LEMMA LzrIsSeq == ASSUME Init PROVE IsSeq(lzr)
  BY LzrIndexes, SeqIsItsOwn

LEMMA IndexFacts ==
  ASSUME IsSeq(lzr)
  PROVE  IndicesTyped
<1>1. ASSUME NEW cat PROVE Len(Supers(cat)) \in Nat
  <2> DEFINE found == IndexedAt({n \in DOMAIN lzr : lzr[n].prod.fun = Coerce /\ lzr[n].prod.args = <<cat>>})
  <2>1. IsSeq(found)
    BY IndexedAtSeq
  <2>2. Supers(cat) = [i \in DOMAIN found |-> found[i].cat]
    BY DEF Supers
  <2> HIDE DEF found
  <2>3. PICK l \in Nat : DOMAIN found = 1..l
    BY <2>1, ListFacts
  <2> QED  BY <2>2, <2>3
<1>2. ASSUME NEW f, NEW cats PROVE Len(InferEntries(f, cats)) \in Nat
  <2> DEFINE found == IndexedAt({n \in DOMAIN lzr : lzr[n].prod.fun = f /\ lzr[n].prod.args = cats})
  <2>1. IsSeq(found) /\ InferEntries(f, cats) = found
    BY IndexedAtSeq DEF InferEntries
  <2> QED  BY <2>1, ListFacts
<1> QED  BY <1>1, <1>2 DEF IndicesTyped

-----------------------------------------------------------------------------
(* The steps of the inference keep a configuration good *)

\* A frame that has got the category of its next argument.
LEMMA WithArgGood ==
  ASSUME NEW f, NEW j \in Nat, GoodApp(f, j), NEW cat, NEW i \in Nat, j <= i,
         NEW g, g = WithArg(f, cat, i)
  PROVE  /\ GoodApp(g, i) /\ g.k = "args" /\ g.got = NULL
         /\ g.marks[1] = f.marks[1] /\ g.marks[Len(g.marks)] = i
         /\ g.fun = f.fun /\ g.args = f.args /\ Len(g.cats) = Len(f.cats) + 1
         /\ \A x \in 1..Len(f.cats) : g.cats[x] = f.cats[x] /\ g.trees[x] = f.trees[x]
         /\ \A x \in 1..Len(f.marks) : g.marks[x] = f.marks[x]
<1>1. PICK tree : tree = f.got.tree
  OBVIOUS
<1>2. g = [k |-> "args", fun |-> f.fun, args |-> f.args, got |-> NULL,
           marks |-> Append(f.marks, i), cats |-> Append(f.cats, cat), trees |-> Append(f.trees, tree)]
  BY <1>1 DEF GoodApp, WithArg
<1>3. /\ IsSeq(g.cats) /\ Len(g.cats) = Len(f.cats) + 1
      /\ \A x \in 1..Len(f.cats) : g.cats[x] = f.cats[x]
  BY <1>2, AppendList DEF GoodApp
<1>4. /\ IsSeq(g.trees) /\ Len(g.trees) = Len(f.trees) + 1
      /\ \A x \in 1..Len(f.trees) : g.trees[x] = f.trees[x]
  BY <1>2, AppendList DEF GoodApp
<1>5. /\ g.marks \in Seq(Nat) /\ Len(g.marks) = Len(f.marks) + 1
      /\ (\A x \in 1..Len(f.marks) : g.marks[x] = f.marks[x])
      /\ g.marks[Len(f.marks) + 1] = i
  BY <1>2, AppendProperties DEF GoodApp
<1>6. Len(f.cats) \in Nat /\ Len(f.marks) = Len(f.cats) + 1 /\ Len(f.trees) = Len(f.cats)
  BY ListFacts DEF GoodApp
<1>7. ASSUME NEW x \in 1..Len(g.marks) PROVE g.marks[x] <= i /\ g.marks[x] \in Nat
  <2>1. CASE x = Len(f.marks) + 1
    BY <1>5, <2>1
  <2>2. CASE x # Len(f.marks) + 1
    <3>1. x \in 1..Len(f.marks)
      BY <1>5, <1>6, <2>2
    <3>2. g.marks[x] = f.marks[x] /\ f.marks[x] <= j /\ f.marks[x] \in Nat
      BY <1>5, <3>1, ElementOfSeq DEF GoodApp
    <3> QED  BY <3>2
  <2> QED  BY <2>1, <2>2
<1>8. ASSUME NEW x \in 1..Len(g.marks), NEW y \in 1..Len(g.marks), x <= y
      PROVE  g.marks[x] <= g.marks[y]
  <2>1. CASE y = Len(f.marks) + 1
    BY <1>5, <1>7, <2>1
  <2>2. CASE y # Len(f.marks) + 1
    <3>0. PICK l \in Nat : l = Len(f.marks) /\ Len(g.marks) = l + 1
      BY ONLY <1>5, <1>6
    <3>1. x \in 1..Len(f.marks) /\ y \in 1..Len(f.marks)
      BY ONLY x \in 1..Len(g.marks), y \in 1..Len(g.marks), <1>8, <2>2, <3>0
    <3>2. g.marks[x] = f.marks[x] /\ g.marks[y] = f.marks[y]
      BY ONLY <1>5, <3>1
    <3>3. f.marks[x] <= f.marks[y]
      BY <1>8, <3>1 DEF GoodApp
    <3> QED  BY ONLY <3>2, <3>3
  <2> QED  BY <2>1, <2>2
<1>9. GoodApp(g, i)
  <2>1. g = [k |-> g.k, fun |-> g.fun, args |-> g.args, got |-> g.got,
             marks |-> g.marks, cats |-> g.cats, trees |-> g.trees]
    BY <1>2
  <2>2. Len(g.trees) = Len(g.cats) /\ Len(g.marks) = Len(g.cats) + 1
    BY <1>3, <1>4, <1>5, <1>6
  <2>3. IsSeq(g.cats) /\ IsSeq(g.trees) /\ g.marks \in Seq(Nat)
    BY <1>3, <1>4, <1>5
  <2>4. \A x, y \in 1..Len(g.marks) : x <= y => g.marks[x] <= g.marks[y]
    BY <1>8
  <2>5. \A x \in 1..Len(g.marks) : g.marks[x] <= i
    BY <1>7
  <2> QED  BY ONLY <2>1, <2>2, <2>3, <2>4, <2>5, Zenon DEF GoodApp
<1>10. g.k = "args" /\ g.got = NULL /\ g.fun = f.fun /\ g.args = f.args
  BY ONLY <1>2
<1>11. g.marks[1] = f.marks[1] /\ g.marks[Len(g.marks)] = i
  <2>1. 1 \in 1..Len(f.marks)
    BY ONLY <1>6
  <2> QED  BY ONLY <1>5, <2>1
<1>12. \A x \in 1..Len(f.cats) : g.cats[x] = f.cats[x] /\ g.trees[x] = f.trees[x]
  BY ONLY <1>3, <1>4, <1>6
<1> QED  BY ONLY <1>3, <1>5, <1>9, <1>10, <1>11, <1>12

LEMMA GoodAppLater ==
  ASSUME NEW f, NEW j \in Nat, GoodApp(f, j), NEW i \in Nat, j <= i
  PROVE  GoodApp(f, i)
<1>1. \A x \in 1..Len(f.marks) : f.marks[x] <= i
  <2> TAKE x \in 1..Len(f.marks)
  <2>1. f.marks[x] \in Nat /\ f.marks[x] <= j
    BY ElementOfSeq DEF GoodApp
  <2> QED  BY <2>1
<1> QED  BY <1>1 DEF GoodApp

\* A frame of an application as it is above frame x - 1.
Fits(c, f, i, x) == GoodApp(f, i) /\ f.marks[1] = LastMark(c, x - 1)

\* A configuration whose top frame has been replaced.
LEMMA PutGood ==
  ASSUME NEW c, GoodConfig(c), c.n > 0, NEW i \in Nat, c.idx <= i, NEW f, Fits(c, f, i, c.n),
         f.k \in {"args", "super"},
         f.k = "args" => f.got = NULL /\ f.marks[Len(f.marks)] = i,
         f.k = "super" => IsResult(f.got),
         NEW e, e = Put(c, f, i)
  PROVE  GoodConfig(e)
<1>1. PICK n \in Nat : n = c.n /\ n > 0
  BY DEF GoodConfig
<1>2. PICK j \in Nat : j = c.idx
  BY DEF GoodConfig
<1>3. /\ e = [n |-> e.n, st |-> e.st, got |-> e.got, idx |-> e.idx]
      /\ e.n = n /\ e.idx = i /\ e.got = c.got
      /\ e.st = [x \in 1..n |-> IF x = n THEN f ELSE c.st[x]]
  BY <1>1 DEF Put
<1>4. e.st = [x \in 1..n |-> e.st[x]] /\ e.st[n] = f /\ \A x \in 1..n : x # n => e.st[x] = c.st[x]
  BY <1>1, <1>3
<1>5. \A x \in 0..(n - 1) : LastMark(e, x) = LastMark(c, x)
  <2> TAKE x \in 0..(n - 1)
  <2>1. CASE x = 0
    BY <2>1 DEF LastMark
  <2>2. CASE x # 0
    <3>1. x \in 1..n /\ x # n
      BY <1>1, <2>2
    <3>2. e.st[x] = c.st[x]
      BY <1>4, <3>1
    <3> QED  BY <2>2, <3>2 DEF LastMark
  <2> QED  BY <2>1, <2>2
<1>6. LastMark(e, n) = f.marks[Len(f.marks)]
  BY <1>1, <1>4 DEF LastMark
<1>7. ASSUME NEW x \in 1..n, e.st[x].k # "infer"
      PROVE  GoodApp(e.st[x], i) /\ e.st[x].marks[1] = LastMark(e, x - 1)
  <2>1. x - 1 \in 0..(n - 1)
    BY <1>1
  <2>2. LastMark(e, x - 1) = LastMark(c, x - 1)
    BY <1>5, <2>1
  <2>3. CASE x = n
    BY <1>1, <1>4, <2>2, <2>3 DEF Fits
  <2>4. CASE x # n
    <3>1. e.st[x] = c.st[x] /\ GoodApp(c.st[x], j) /\ c.st[x].marks[1] = LastMark(c, x - 1)
      BY <1>1, <1>2, <1>4, <1>7, <2>4 DEF GoodConfig
    <3> QED  BY <1>2, <2>2, <3>1, GoodAppLater
  <2> QED  BY <2>3, <2>4
<1>8. \A x \in 1..n : x < n => e.st[x].k = "args" /\ e.st[x].got = NULL
  BY <1>1, <1>4 DEF GoodConfig
<1>9. GoodTop(e, e.st[n])
  <2>1. e.got = NULL
    BY <1>1, <1>3 DEF GoodConfig, GoodTop
  <2> QED  BY <1>3, <1>4, <1>6, <2>1 DEF GoodTop
<1> QED  BY <1>1, <1>3, <1>4, <1>7, <1>8, <1>9 DEF GoodConfig

\* A configuration after a return.
LEMMA ReturnedGood ==
  ASSUME NEW c, GoodConfig(c), c.n > 0, NEW i \in Nat, c.idx <= i, NEW r, IsResult(r),
         NEW e, e = Returned(c, r, i)
  PROVE  GoodConfig(e) /\ e.idx = i
<1>1. PICK n \in Nat : n = c.n - 1 /\ c.n = n + 1
  BY DEF GoodConfig
<1>2. PICK j \in Nat : j = c.idx
  BY DEF GoodConfig
<1>3. /\ e = [n |-> e.n, st |-> e.st, got |-> e.got, idx |-> e.idx]
      /\ e.n = n /\ e.idx = i /\ e.got = (IF c.n = 1 THEN r ELSE c.got)
      /\ e.st = [x \in 1..n |-> IF x = n THEN Told(c.st[x], r) ELSE c.st[x]]
  BY <1>1 DEF Returned
<1>4. e.st = [x \in 1..n |-> e.st[x]] /\ \A x \in 1..n : x # n => e.st[x] = c.st[x]
  BY <1>1, <1>3
<1>5. \A x \in 1..n : /\ c.st[x].k = "args" /\ c.st[x].got = NULL
                      /\ GoodApp(c.st[x], i) /\ c.st[x].marks[1] = LastMark(c, x - 1)
  <2> TAKE x \in 1..n
  <2>1. x \in 1..c.n /\ x < c.n
    BY <1>1
  <2>2. /\ c.st[x].k = "args" /\ c.st[x].got = NULL
        /\ GoodApp(c.st[x], j) /\ c.st[x].marks[1] = LastMark(c, x - 1)
    BY <1>2, <2>1 DEF GoodConfig
  <2> QED  BY <1>2, <2>2, GoodAppLater
<1>6. ASSUME n > 0
      PROVE  /\ e.st[n].k = "super" /\ e.st[n].got = r
             /\ e.st[n].marks = c.st[n].marks
             /\ GoodApp(e.st[n], i)
  <2>1. PICK f : f = c.st[n]
    OBVIOUS
  <2>2. GoodApp(f, i)
    BY <1>5, <1>6, <2>1
  <2>3. e.st[n] = Told(f, r)
    <3>1. n \in 1..n
      BY <1>1, <1>6
    <3> QED  BY <1>3, <2>1, <3>1
  <2>4. e.st[n] = [k |-> "super", fun |-> f.fun, args |-> f.args, got |-> r,
                   marks |-> f.marks, cats |-> f.cats, trees |-> f.trees]
    BY <2>2, <2>3 DEF GoodApp, Told
  <2> QED  BY <2>1, <2>2, <2>4 DEF GoodApp
<1>7. \A x \in 0..n : LastMark(e, x) = LastMark(c, x)
  <2> TAKE x \in 0..n
  <2>1. CASE x = 0
    BY <2>1 DEF LastMark
  <2>2. CASE x # 0 /\ x = n
    BY <1>6, <2>2 DEF LastMark
  <2>3. CASE x # 0 /\ x # n
    BY <1>4, <2>3 DEF LastMark
  <2> QED  BY <2>1, <2>2, <2>3
<1>8. ASSUME NEW x \in 1..n
      PROVE  GoodApp(e.st[x], i) /\ e.st[x].marks[1] = LastMark(e, x - 1)
  <2>1. x - 1 \in 0..n
    BY <1>1
  <2>2. LastMark(e, x - 1) = LastMark(c, x - 1)
    BY <1>7, <2>1
  <2>3. CASE x = n
    BY <1>5, <1>6, <2>2, <2>3
  <2>4. CASE x # n
    BY <1>4, <1>5, <2>2, <2>4
  <2> QED  BY <2>3, <2>4
<1>9. \A x \in 1..n : x < n => e.st[x].k = "args" /\ e.st[x].got = NULL
  <2> TAKE x \in 1..n
  <2> HAVE x < n
  <2>1. x # n
    BY <1>1
  <2> QED  BY <1>4, <1>5, <2>1
<1>10. n > 0 => GoodTop(e, e.st[n])
  <2> SUFFICES ASSUME n > 0 PROVE GoodTop(e, e.st[n])
    OBVIOUS
  <2>1. e.got = NULL
    <3>1. c.n # 1 /\ c.n > 0
      BY <1>1
    <3>2. c.got = NULL
      BY <3>1 DEF GoodConfig, GoodTop
    <3> QED  BY <1>3, <3>1, <3>2
  <2> QED  BY <1>6, <2>1 DEF GoodTop
<1>11. n = 0 => IsResult(e.got)
  <2> HAVE n = 0
  <2>1. c.n = 1
    BY <1>1
  <2> QED  BY <1>3, <2>1
<1> QED  BY <1>1, <1>3, <1>4, <1>8, <1>9, <1>10, <1>11 DEF GoodConfig

\* A configuration after a call.
LEMMA PushedGood ==
  ASSUME NEW c, GoodConfig(c), c.n > 0, c.st[c.n].k = "args", NEW x0, NEW e, e = Pushed(c, Infer(x0))
  PROVE  GoodConfig(e)
<1>1. PICK n \in Nat : n = c.n /\ n > 0
  BY DEF GoodConfig
<1>2. PICK i \in Nat : i = c.idx
  BY DEF GoodConfig
<1>3. /\ e = [n |-> e.n, st |-> e.st, got |-> e.got, idx |-> e.idx]
      /\ e.n = n + 1 /\ e.idx = i /\ e.got = c.got
      /\ e.st = [x \in 1..(n + 1) |-> IF x = n + 1 THEN Infer(x0) ELSE c.st[x]]
  BY <1>1, <1>2 DEF Pushed
<1>4. /\ e.st = [x \in 1..(n + 1) |-> e.st[x]] /\ e.st[n + 1] = Infer(x0)
      /\ \A x \in 1..n : e.st[x] = c.st[x]
  BY <1>1, <1>3
<1>5. \A x \in 0..n : LastMark(e, x) = LastMark(c, x)
  <2> TAKE x \in 0..n
  <2>1. CASE x = 0
    BY <2>1 DEF LastMark
  <2>2. CASE x # 0
    <3>1. x \in 1..n
      BY <1>1, <2>2
    <3>2. e.st[x] = c.st[x]
      BY <1>4, <3>1
    <3> QED  BY <2>2, <3>2 DEF LastMark
  <2> QED  BY <2>1, <2>2
<1>6. e.st[n + 1].k = "infer"
  BY <1>4 DEF Infer
<1>7. ASSUME NEW x \in 1..(n + 1), e.st[x].k # "infer"
      PROVE  GoodApp(e.st[x], i) /\ e.st[x].marks[1] = LastMark(e, x - 1)
  <2>1. x \in 1..n /\ x - 1 \in 0..n
    BY <1>1, <1>6, <1>7
  <2>2. e.st[x] = c.st[x] /\ LastMark(e, x - 1) = LastMark(c, x - 1)
    BY <1>4, <1>5, <2>1
  <2> QED  BY <1>1, <1>2, <1>7, <2>1, <2>2 DEF GoodConfig
<1>8. \A x \in 1..(n + 1) : x < n + 1 => e.st[x].k = "args" /\ e.st[x].got = NULL
  <2> SUFFICES ASSUME NEW x \in 1..(n + 1), x < n + 1
               PROVE  e.st[x].k = "args" /\ e.st[x].got = NULL
    OBVIOUS
  <2>0. x \in 1..n
    BY <1>1
  <2>1. e.st[x] = c.st[x]
    BY <1>4, <2>0
  <2>2. CASE x = n
    BY <1>1, <2>0, <2>1, <2>2 DEF GoodConfig, GoodTop
  <2>3. CASE x # n
    BY <1>1, <2>0, <2>1, <2>3 DEF GoodConfig
  <2> QED  BY <2>2, <2>3
<1>9. GoodTop(e, e.st[n + 1])
  <2>1. c.got = NULL /\ c.idx = LastMark(c, n)
    BY <1>1 DEF GoodConfig, GoodTop
  <2>2. e.n - 1 = n /\ LastMark(e, n) = LastMark(c, n)
    BY <1>1, <1>3, <1>5
  <2>3. e.st[n + 1] = [k |-> "infer", expr |-> e.st[n + 1].expr]
    BY <1>4 DEF Infer
  <2>4. e.got = NULL /\ e.idx = LastMark(e, e.n - 1)
    BY <1>2, <1>3, <2>1, <2>2
  <2> QED  BY <1>6, <2>3, <2>4 DEF GoodTop
<1>10. PICK m \in Nat : m = n + 1 /\ m > 0 /\ m # 0
  BY <1>1
<1>11. e.n = m /\ e.n \in Nat /\ e.idx = i /\ e.st = [x \in 1..m |-> e.st[x]]
  BY <1>3, <1>4, <1>10
<1>12. /\ \A x \in 1..m : x < m => e.st[x].k = "args" /\ e.st[x].got = NULL
       /\ \A x \in 1..m :
            e.st[x].k # "infer" => GoodApp(e.st[x], i) /\ e.st[x].marks[1] = LastMark(e, x - 1)
       /\ GoodTop(e, e.st[m])
  BY <1>7, <1>8, <1>9, <1>10
<1> QED  BY <1>2, <1>3, <1>10, <1>11, <1>12 DEF GoodConfig

-----------------------------------------------------------------------------
(* A step of the inference *)

\* The number of decisions of the step.
Made(c) == IF Ways(c) > 0 THEN 1 ELSE 0

\* c and e have the same frames below x, and the same application in x, up to
\* where it begins its argument i + 1.
SameUpTo(c, e, x, i) ==
  /\ \A y \in 1..(x - 1) : c.st[y] = e.st[y]
  /\ c.st[x].fun = e.st[x].fun /\ c.st[x].args = e.st[x].args
  /\ \A y \in 1..i : c.st[x].cats[y] = e.st[x].cats[y] /\ c.st[x].trees[y] = e.st[x].trees[y]
  /\ \A y \in 1..(i + 1) : c.st[x].marks[y] = e.st[x].marks[y]

\* The frames of e and the arguments they hold were in c, but for an argument
\* that its top frame is about to begin.
Carries(c, e) ==
  \A x \in 1..e.n : e.st[x].k # "infer" =>
    \A i \in 0..Len(e.st[x].cats) :
      \/ x = e.n /\ e.st[x].k = "args" /\ i = Len(e.st[x].cats)
      \/ /\ x \in 1..c.n /\ c.st[x].k # "infer" /\ i \in 0..Len(c.st[x].cats)
         /\ SameUpTo(e, c, x, i)

\* The facts of the top frame of a configuration.
LEMMA TopFacts ==
  ASSUME NEW c, GoodConfig(c), c.n > 0, NEW f, f = c.st[c.n]
  PROVE  /\ c.n \in Nat /\ c.n \in 1..c.n /\ c.idx \in Nat /\ c.got = NULL
         /\ f.k \in {"infer", "args", "super"}
         /\ f.k # "infer" => Fits(c, f, c.idx, c.n) /\ Len(f.cats) \in Nat
         /\ f.k = "infer" => c.idx = LastMark(c, c.n - 1) /\ f = [k |-> "infer", expr |-> f.expr]
         /\ f.k = "args" => f.got = NULL /\ c.idx = LastMark(c, c.n) /\ c.idx = f.marks[Len(f.marks)]
         /\ f.k = "super" => IsResult(f.got)
<1>1. c.n \in Nat /\ c.n \in 1..c.n /\ c.idx \in Nat /\ GoodTop(c, f)
  BY DEF GoodConfig
<1>2. f.k # "infer" => Fits(c, f, c.idx, c.n) /\ Len(f.cats) \in Nat
  BY <1>1, ListFacts DEF GoodConfig, GoodApp, Fits
<1>3. c.n # 0
  BY <1>1
<1> QED  BY <1>1, <1>2, <1>3 DEF GoodTop, LastMark

\* The steps of the inference, one by one.
LEMMA AfterReturn ==
  ASSUME NEW c, c.n > 0, NEW f, f = c.st[c.n], ToReturn(f), NEW a
  PROVE  /\ Goes(c) /\ Ways(c) = 0
         /\ After(c, a) = Returned(c, [cat |-> LitCat, tree |-> f.expr], c.idx)
  BY DEF Goes, Ways, After, ToReturn, ToPick, ToChoose

LEMMA AfterOpen ==
  ASSUME NEW c, c.n > 0, NEW f, f = c.st[c.n], ToOpen(f), NEW a
  PROVE  Goes(c) /\ Ways(c) = 0 /\ After(c, a) = Put(c, Opened(f, c.idx), c.idx)
<1>1. ~ToReturn(f) /\ ~ToPick(f) /\ ~ToChoose(f)
  BY DEF ToReturn, ToOpen, ToPick, ToChoose
<1> QED  BY <1>1 DEF Goes, Ways, After

LEMMA AfterCall ==
  ASSUME NEW c, GoodConfig(c), c.n > 0, NEW f, f = c.st[c.n], ToCall(f), NEW a
  PROVE  /\ Goes(c) /\ Ways(c) = 0
         /\ After(c, a) = Pushed(c, Infer(f.args[Len(f.cats) + 1]))
<1>1. f.k = "args" /\ Len(f.cats) < Len(f.args) /\ Len(f.cats) \in Nat
  BY TopFacts DEF ToCall
<1>2. ~ToReturn(f) /\ ~ToOpen(f) /\ ~ToPick(f) /\ ~ToChoose(f)
  BY <1>1 DEF ToReturn, ToOpen, ToPick, ToChoose
<1> QED  BY <1>2 DEF Goes, Ways, After

LEMMA AfterChoose ==
  ASSUME NEW c, GoodConfig(c), c.n > 0, NEW f, f = c.st[c.n], ToChoose(f), NEW a,
         NEW entry, entry = InferEntries(f.fun, f.cats)[a + 1]
  PROVE  /\ Goes(c) /\ Ways(c) = Len(InferEntries(f.fun, f.cats)) /\ Ways(c) > 0
         /\ After(c, a) =
              Returned(c, [cat |-> entry.cat, tree |-> [fun |-> entry.prod.cnc, args |-> f.trees]],
                       c.idx + 1)
<1>1. f.k = "args" /\ Len(f.cats) = Len(f.args) /\ Len(f.cats) \in Nat
  BY TopFacts DEF ToChoose
<1>2. ~ToReturn(f) /\ ~ToOpen(f) /\ ~ToPick(f) /\ ~ToCall(f)
  BY <1>1 DEF ToReturn, ToOpen, ToPick, ToCall
<1>3. Goes(c) /\ Ways(c) = Len(InferEntries(f.fun, f.cats)) /\ Ways(c) > 0
  BY <1>2 DEF Goes, Ways, ToChoose
<1> QED  BY <1>2, <1>3 DEF After

LEMMA AfterKeep ==
  ASSUME NEW c, c.n > 0, NEW f, f = c.st[c.n], ToKeep(f), NEW a
  PROVE  /\ Goes(c) /\ Ways(c) = 0
         /\ After(c, a) = Put(c, WithArg(f, f.got.cat, c.idx), c.idx)
<1>1. ~ToReturn(f) /\ ~ToOpen(f) /\ ~ToCall(f) /\ ~ToChoose(f) /\ ~ToPick(f)
  BY DEF ToReturn, ToOpen, ToCall, ToChoose, ToPick, ToKeep
<1> QED  BY <1>1 DEF Goes, Ways, After

LEMMA AfterPick ==
  ASSUME IndicesTyped, NEW c, c.n > 0, NEW f, f = c.st[c.n], ToPick(f), NEW a
  PROVE  /\ Goes(c) /\ Ways(c) = Len(Supers(f.got.cat)) + 1 /\ Ways(c) > 0
         /\ After(c, a) = IF a = 0 THEN Put(c, WithArg(f, f.got.cat, c.idx + 1), c.idx + 1)
                          ELSE Put(c, Recat(f, Supers(f.got.cat)[a]), c.idx + 1)
<1>1. ~ToReturn(f) /\ ~ToOpen(f) /\ ~ToCall(f) /\ ~ToChoose(f) /\ ~ToKeep(f)
  BY DEF ToReturn, ToOpen, ToCall, ToChoose, ToPick, ToKeep
<1>2. Goes(c) /\ Ways(c) = Len(Supers(f.got.cat)) + 1 /\ Ways(c) > 0
  BY DEF Goes, Ways, IndicesTyped
<1> QED  BY <1>1, <1>2 DEF After

\* Where a step goes, in general.
LEMMA AfterForms ==
  ASSUME NEW c, GoodConfig(c), Goes(c), IndicesTyped, NEW a, NEW f, f = c.st[c.n],
         NEW e, e = After(c, a), NEW i, i = c.idx + Made(c)
  PROVE  \/ \E r : IsResult(r) /\ e = Returned(c, r, i)
         \/ f.k = "infer" /\ Made(c) = 0 /\ e = Put(c, Opened(f, c.idx), c.idx)
         \/ f.k = "args" /\ Made(c) = 0 /\ \E x0 : e = Pushed(c, Infer(x0))
         \/ /\ f.k = "super"
            /\ e = Put(c, WithArg(f, f.got.cat, i), i)
         \/ f.k = "super" /\ \E cat : e = Put(c, Recat(f, cat), i)
<1>1. c.n > 0 /\ c.idx \in Nat
  BY DEF Goes, GoodConfig
<1>2. CASE ToReturn(f)
  <2>1. Ways(c) = 0 /\ e = Returned(c, [cat |-> LitCat, tree |-> f.expr], c.idx)
    BY <1>1, <1>2, AfterReturn
  <2>2. i = c.idx
    BY <1>1, <2>1 DEF Made
  <2>3. IsResult([cat |-> LitCat, tree |-> f.expr])
    BY DEF IsResult
  <2> QED  BY <2>1, <2>2, <2>3
<1>3. CASE ToOpen(f)
  <2>1. Ways(c) = 0 /\ e = Put(c, Opened(f, c.idx), c.idx)
    BY <1>1, <1>3, AfterOpen
  <2> QED  BY <1>3, <2>1 DEF Made, ToOpen
<1>4. CASE ToCall(f)
  <2>1. Ways(c) = 0 /\ e = Pushed(c, Infer(f.args[Len(f.cats) + 1]))
    BY <1>1, <1>4, AfterCall
  <2>2. f.k = "args" /\ Made(c) = 0
    <3>1. f.k = "args"
      BY <1>4 DEF ToCall
    <3>2. Made(c) = 0
      <4>1. Ways(c) = 0
        BY <2>1
      <4> QED  BY ONLY <4>1 DEF Made
    <3> QED  BY <3>1, <3>2
  <2>3. PICK x0 : x0 = f.args[Len(f.cats) + 1]
    OBVIOUS
  <2>4. e = Pushed(c, Infer(x0))
    BY <2>1, <2>3
  <2> QED  BY <2>2, <2>4
<1>5. CASE ToChoose(f)
  <2>1. PICK entry : entry = InferEntries(f.fun, f.cats)[a + 1]
    OBVIOUS
  <2>2. /\ Ways(c) > 0
        /\ e = Returned(c, [cat |-> entry.cat, tree |-> [fun |-> entry.prod.cnc, args |-> f.trees]],
                        c.idx + 1)
    BY <1>1, <1>5, <2>1, AfterChoose
  <2>3. i = c.idx + 1
    BY <2>2 DEF Made
  <2>4. IsResult([cat |-> entry.cat, tree |-> [fun |-> entry.prod.cnc, args |-> f.trees]])
    BY DEF IsResult
  <2> QED  BY <2>2, <2>3, <2>4
<1>6. CASE ToKeep(f)
  <2>1. Ways(c) = 0 /\ e = Put(c, WithArg(f, f.got.cat, c.idx), c.idx)
    BY <1>1, <1>6, AfterKeep
  <2>2. i = c.idx
    BY <1>1, <2>1 DEF Made
  <2> QED  BY <1>6, <2>1, <2>2 DEF ToKeep
<1>7. CASE ToPick(f)
  <2>1. Ways(c) > 0
    BY <1>1, <1>7, AfterPick
  <2>2. i = c.idx + 1 /\ f.k = "super"
    BY <1>7, <2>1 DEF Made, ToPick
  <2>3. CASE a = 0
    <3>1. e = Put(c, WithArg(f, f.got.cat, c.idx + 1), c.idx + 1)
      BY <1>1, <1>7, <2>3, AfterPick
    <3> QED  BY <2>2, <3>1
  <2>4. CASE a # 0
    <3>1. PICK cat : cat = Supers(f.got.cat)[a]
      OBVIOUS
    <3>2. e = Put(c, Recat(f, cat), c.idx + 1)
      BY <1>1, <1>7, <2>4, <3>1, AfterPick
    <3> QED  BY <2>2, <3>2
  <2> QED  BY <2>3, <2>4
<1> QED  BY <1>2, <1>3, <1>4, <1>5, <1>6, <1>7 DEF Goes

LEMMA MadeFacts ==
  ASSUME NEW c, GoodConfig(c)
  PROVE  /\ Made(c) \in {0, 1} /\ c.idx \in Nat
         /\ c.idx + Made(c) \in Nat /\ c.idx <= c.idx + Made(c)
  BY DEF Made, GoodConfig

LEMMA OpenedGood ==
  ASSUME NEW f, NEW i \in Nat, NEW g, g = Opened(f, i)
  PROVE  /\ GoodApp(g, i) /\ g.k = "args" /\ g.got = NULL /\ g.marks[1] = i
         /\ Len(g.marks) = 1 /\ Len(g.cats) = 0
<1>1. PICK a, b : a = f.expr.fun /\ b = f.expr.args
  OBVIOUS
<1>2. g = [k |-> "args", fun |-> a, args |-> b, got |-> NULL,
           marks |-> <<i>>, cats |-> <<>>, trees |-> <<>>]
  BY <1>1 DEF Opened
<1>3. IsSeq(<<>>) /\ Len(<<>>) = 0
  BY DEF IsSeq
<1>4. <<i>> \in Seq(Nat) /\ Len(<<i>>) = 1 /\ <<i>>[1] = i
  OBVIOUS
<1> QED  BY <1>2, <1>3, <1>4 DEF GoodApp

\* The top frame with another category of its argument.
LEMMA RecatGood ==
  ASSUME NEW f, NEW j \in Nat, GoodApp(f, j), NEW i \in Nat, j <= i, IsResult(f.got), f.k = "super",
         NEW cat, NEW g, g = Recat(f, cat)
  PROVE  /\ GoodApp(g, i) /\ g.k = "super" /\ IsResult(g.got)
         /\ g.fun = f.fun /\ g.args = f.args /\ g.cats = f.cats /\ g.trees = f.trees
         /\ g.marks = f.marks
<1>1. PICK tree : tree = f.got.tree
  OBVIOUS
<1>2. PICK r : r = [f.got EXCEPT !.cat = cat]
  OBVIOUS
<1>3. r = [cat |-> cat, tree |-> tree]
  BY <1>1, <1>2 DEF IsResult
<1>4. g = [k |-> "super", fun |-> f.fun, args |-> f.args, got |-> r,
           marks |-> f.marks, cats |-> f.cats, trees |-> f.trees]
  BY <1>2 DEF GoodApp, Recat
<1>5. IsResult(r)
  BY <1>3 DEF IsResult
<1>6. GoodApp(f, i)
  BY GoodAppLater
<1>7. /\ g.k = "super" /\ g.fun = f.fun /\ g.args = f.args /\ g.got = r
      /\ g.marks = f.marks /\ g.cats = f.cats /\ g.trees = f.trees
  BY <1>4
<1>8. g = [k |-> g.k, fun |-> g.fun, args |-> g.args, got |-> g.got,
           marks |-> g.marks, cats |-> g.cats, trees |-> g.trees]
  BY <1>4, <1>7
<1>9. GoodApp(g, i)
  BY <1>6, <1>7, <1>8, Zenon DEF GoodApp
<1> QED  BY <1>5, <1>7, <1>9

LEMMA AfterGood ==
  ASSUME NEW c, GoodConfig(c), Goes(c), IndicesTyped, NEW a, NEW e, e = After(c, a)
  PROVE  GoodConfig(e) /\ e.idx = c.idx + Made(c)
<1>1. c.n > 0
  BY DEF Goes
<1>2. PICK f : f = c.st[c.n]
  OBVIOUS
<1>3. PICK i \in Nat : i = c.idx + Made(c) /\ c.idx <= i
  BY MadeFacts
<1>4. PICK j \in Nat : j = c.idx
  BY MadeFacts
<1>5. CASE \E r : IsResult(r) /\ e = Returned(c, r, i)
  <2>1. PICK r : IsResult(r) /\ e = Returned(c, r, i)
    BY <1>5
  <2>2. GoodConfig(e) /\ e.idx = i
    BY <1>1, <1>3, <2>1, ReturnedGood
  <2> QED  BY <1>3, <2>2
<1>6. CASE f.k = "infer" /\ Made(c) = 0 /\ e = Put(c, Opened(f, c.idx), c.idx)
  <2>1. PICK g : g = Opened(f, j)
    OBVIOUS
  <2>2. /\ GoodApp(g, j) /\ g.k = "args" /\ g.got = NULL /\ g.marks[1] = j /\ Len(g.marks) = 1
    BY <2>1, OpenedGood
  <2>3. j = LastMark(c, c.n - 1)
    BY <1>1, <1>2, <1>4, <1>6, TopFacts
  <2>4. Fits(c, g, j, c.n) /\ g.marks[Len(g.marks)] = j /\ e = Put(c, g, j) /\ c.idx <= j
    BY <1>4, <1>6, <2>1, <2>2, <2>3 DEF Fits
  <2>5. GoodConfig(e)
    BY <1>1, <2>2, <2>4, PutGood
  <2>6. e.idx = j /\ i = j
    BY <1>3, <1>4, <1>6, <2>4 DEF Put
  <2> QED  BY <1>3, <2>5, <2>6
<1>7. CASE f.k = "args" /\ Made(c) = 0 /\ \E x0 : e = Pushed(c, Infer(x0))
  <2>1. PICK x0 : e = Pushed(c, Infer(x0))
    BY <1>7
  <2>2. GoodConfig(e)
    BY <1>1, <1>2, <1>7, <2>1, PushedGood
  <2>3. e.idx = j /\ i = j
    BY <1>3, <1>4, <1>7, <2>1 DEF Pushed
  <2> QED  BY <1>3, <2>2, <2>3
<1>8. CASE f.k = "super" /\ e = Put(c, WithArg(f, f.got.cat, i), i)
  <2>1. PICK cat, g : cat = f.got.cat /\ g = WithArg(f, cat, i)
    OBVIOUS
  <2>2. GoodApp(f, j) /\ f.marks[1] = LastMark(c, c.n - 1)
    BY <1>1, <1>2, <1>4, <1>8, TopFacts DEF Fits
  <2>3. /\ GoodApp(g, i) /\ g.k = "args" /\ g.got = NULL
        /\ g.marks[1] = f.marks[1] /\ g.marks[Len(g.marks)] = i
    BY <1>3, <1>4, <2>1, <2>2, WithArgGood
  <2>4. Fits(c, g, i, c.n) /\ e = Put(c, g, i)
    BY <1>8, <2>1, <2>2, <2>3 DEF Fits
  <2>5. GoodConfig(e)
    BY <1>1, <1>3, <2>3, <2>4, PutGood
  <2> QED  BY <1>3, <2>4, <2>5 DEF Put
<1>9. CASE f.k = "super" /\ \E cat : e = Put(c, Recat(f, cat), i)
  <2>1. PICK cat : e = Put(c, Recat(f, cat), i)
    BY <1>9
  <2>2. PICK g : g = Recat(f, cat)
    OBVIOUS
  <2>3. GoodApp(f, j) /\ f.marks[1] = LastMark(c, c.n - 1) /\ IsResult(f.got) /\ f.k = "super"
    BY <1>1, <1>2, <1>4, <1>9, TopFacts DEF Fits
  <2>4. GoodApp(g, i) /\ g.k = "super" /\ IsResult(g.got) /\ g.marks = f.marks
    BY <1>3, <1>4, <2>2, <2>3, RecatGood
  <2>5. Fits(c, g, i, c.n) /\ e = Put(c, g, i)
    BY <2>1, <2>2, <2>3, <2>4 DEF Fits
  <2>6. GoodConfig(e)
    BY <1>1, <1>3, <2>4, <2>5, PutGood
  <2> QED  BY <1>3, <2>5, <2>6 DEF Put
<1> QED  BY <1>2, <1>3, <1>5, <1>6, <1>7, <1>8, <1>9, AfterForms

\* A frame of c with the same arguments is carried.
LEMMA SameFrame ==
  ASSUME NEW c, NEW e, NEW x, NEW i,
         \A y \in 1..(x - 1) : e.st[y] = c.st[y],
         e.st[x].fun = c.st[x].fun, e.st[x].args = c.st[x].args,
         e.st[x].cats = c.st[x].cats, e.st[x].trees = c.st[x].trees,
         e.st[x].marks = c.st[x].marks
  PROVE  SameUpTo(e, c, x, i)
  BY DEF SameUpTo

LEMMA ReturnedCarries ==
  ASSUME NEW c, GoodConfig(c), c.n > 0, NEW i0, NEW r, NEW e, e = Returned(c, r, i0)
  PROVE  Carries(c, e)
<1>1. PICK n \in Nat : n = c.n - 1 /\ c.n = n + 1
  BY DEF GoodConfig
<1>2. /\ e.n = n
      /\ e.st = [x \in 1..n |-> IF x = n THEN Told(c.st[x], r) ELSE c.st[x]]
  BY <1>1 DEF Returned
<1>3. \A x \in 1..n : x # n => e.st[x] = c.st[x]
  BY <1>2
<1>4. \A x \in 1..n : x \in 1..c.n /\ c.st[x].k = "args" /\ GoodApp(c.st[x], c.idx)
  BY <1>1 DEF GoodConfig
<1>5. ASSUME NEW x \in 1..n
      PROVE  /\ e.st[x].fun = c.st[x].fun /\ e.st[x].args = c.st[x].args
             /\ e.st[x].cats = c.st[x].cats /\ e.st[x].trees = c.st[x].trees
             /\ e.st[x].marks = c.st[x].marks
  <2>1. PICK f, g : f = c.st[x] /\ g = e.st[x]
    OBVIOUS
  <2>2. CASE x = n
    <3>1. g = Told(f, r)
      BY <1>2, <2>1, <2>2
    <3>2. g = [k |-> "super", fun |-> f.fun, args |-> f.args, got |-> r,
               marks |-> f.marks, cats |-> f.cats, trees |-> f.trees]
      BY <1>4, <2>1, <3>1 DEF GoodApp, Told
    <3> QED  BY <2>1, <3>2
  <2>3. CASE x # n
    BY <1>3, <2>3
  <2> QED  BY <2>2, <2>3
<1>6. ASSUME NEW x \in 1..n, NEW y \in 1..(x - 1)
      PROVE  e.st[y] = c.st[y]
  BY <1>1, <1>3
<1>7. ASSUME NEW x \in 1..n, NEW i \in 0..Len(e.st[x].cats)
      PROVE  /\ x \in 1..c.n /\ c.st[x].k # "infer" /\ i \in 0..Len(c.st[x].cats)
             /\ SameUpTo(e, c, x, i)
  BY <1>4, <1>5, <1>6, SameFrame
<1> QED  BY <1>2, <1>7 DEF Carries

LEMMA PushedCarries ==
  ASSUME NEW c, GoodConfig(c), c.n > 0, c.st[c.n].k = "args",
         NEW x0, NEW e, e = Pushed(c, Infer(x0))
  PROVE  Carries(c, e)
<1>1. PICK n \in Nat : n = c.n /\ n > 0
  BY DEF GoodConfig
<1>2. e.n = n + 1 /\ e.st = [x \in 1..(n + 1) |-> IF x = n + 1 THEN Infer(x0) ELSE c.st[x]]
  BY <1>1 DEF Pushed
<1>3. e.st[n + 1].k = "infer" /\ \A x \in 1..n : e.st[x] = c.st[x]
  BY <1>2 DEF Infer
<1>4. ASSUME NEW x \in 1..n, NEW y \in 1..(x - 1)
      PROVE  e.st[y] = c.st[y]
  BY <1>1, <1>3
<1>5. ASSUME NEW x \in 1..e.n, e.st[x].k # "infer", NEW i \in 0..Len(e.st[x].cats)
      PROVE  /\ x \in 1..c.n /\ c.st[x].k # "infer" /\ i \in 0..Len(c.st[x].cats)
             /\ SameUpTo(e, c, x, i)
  <2>1. x \in 1..n
    BY <1>1, <1>2, <1>3, <1>5
  <2>2. e.st[x] = c.st[x]
    BY <1>3, <2>1
  <2>3. SameUpTo(e, c, x, i)
    BY <1>4, <2>1, <2>2, SameFrame
  <2> QED  BY <1>1, <1>5, <2>1, <2>2, <2>3
<1> QED  BY <1>5 DEF Carries

\* The top frame f is replaced by g, which has the arguments of f and perhaps
\* one more, or is a new application.
LEMMA PutCarries ==
  ASSUME NEW c, GoodConfig(c), c.n > 0, NEW i0, NEW f, f = c.st[c.n], NEW g, NEW e, e = Put(c, g, i0),
         \A i \in 0..Len(g.cats) :
           \/ g.k = "args" /\ i = Len(g.cats)
           \/ /\ f.k # "infer" /\ i \in 0..Len(f.cats) /\ g.fun = f.fun /\ g.args = f.args
              /\ \A y \in 1..i : g.cats[y] = f.cats[y] /\ g.trees[y] = f.trees[y]
              /\ \A y \in 1..(i + 1) : g.marks[y] = f.marks[y]
  PROVE  Carries(c, e)
<1>1. PICK n \in Nat : n = c.n /\ n > 0
  BY DEF GoodConfig
<1>2. e.n = n /\ e.st = [x \in 1..n |-> IF x = n THEN g ELSE c.st[x]]
  BY <1>1 DEF Put
<1>3. e.st[n] = g /\ \A x \in 1..n : x # n => e.st[x] = c.st[x]
  BY <1>1, <1>2
<1>4. ASSUME NEW x \in 1..n, NEW y \in 1..(x - 1)
      PROVE  e.st[y] = c.st[y]
  BY <1>1, <1>3
<1>5. ASSUME NEW x \in 1..n, e.st[x].k # "infer", NEW i \in 0..Len(e.st[x].cats)
      PROVE  \/ x = n /\ e.st[x].k = "args" /\ i = Len(e.st[x].cats)
             \/ /\ x \in 1..n /\ c.st[x].k # "infer" /\ i \in 0..Len(c.st[x].cats)
                /\ SameUpTo(e, c, x, i)
  <2>1. CASE x = n
    <3>1. e.st[x] = g /\ c.st[x] = f
      BY <1>1, <1>3, <2>1
    <3>2. CASE g.k = "args" /\ i = Len(g.cats)
      BY <2>1, <3>1, <3>2
    <3>3. CASE ~(g.k = "args" /\ i = Len(g.cats))
      <4>1. /\ f.k # "infer" /\ i \in 0..Len(f.cats) /\ g.fun = f.fun /\ g.args = f.args
            /\ \A y \in 1..i : g.cats[y] = f.cats[y] /\ g.trees[y] = f.trees[y]
            /\ \A y \in 1..(i + 1) : g.marks[y] = f.marks[y]
        BY <1>5, <3>1, <3>3
      <4>2. SameUpTo(e, c, x, i)
        BY <1>4, <3>1, <4>1 DEF SameUpTo
      <4> QED  BY <3>1, <4>1, <4>2
    <3> QED  BY <3>2, <3>3
  <2>2. CASE x # n
    <3>1. e.st[x] = c.st[x]
      BY <1>3, <2>2
    <3>2. SameUpTo(e, c, x, i)
      BY <1>4, <3>1, SameFrame
    <3> QED  BY <1>5, <3>1, <3>2
  <2> QED  BY <2>1, <2>2
<1> QED  BY <1>1, <1>2, <1>5 DEF Carries

LEMMA AfterCarries ==
  ASSUME NEW c, GoodConfig(c), Goes(c), IndicesTyped, NEW a, NEW e, e = After(c, a)
  PROVE  Carries(c, e)
<1>1. c.n > 0
  BY DEF Goes
<1>2. PICK f : f = c.st[c.n]
  OBVIOUS
<1>3. PICK i \in Nat : i = c.idx + Made(c) /\ c.idx <= i
  BY MadeFacts
<1>4. PICK j \in Nat : j = c.idx
  BY MadeFacts
<1>5. CASE \E r : IsResult(r) /\ e = Returned(c, r, i)
  BY <1>1, <1>5, ReturnedCarries
<1>6. CASE f.k = "infer" /\ Made(c) = 0 /\ e = Put(c, Opened(f, c.idx), c.idx)
  <2>1. PICK g : g = Opened(f, j)
    OBVIOUS
  <2>2. g.k = "args" /\ Len(g.cats) = 0
    BY <2>1, OpenedGood
  <2>3. \A x \in 0..Len(g.cats) : g.k = "args" /\ x = Len(g.cats)
    BY <2>2
  <2>4. e = Put(c, g, j)
    BY <1>4, <1>6, <2>1
  <2> QED  BY <1>1, <1>2, <2>3, <2>4, PutCarries
<1>7. CASE f.k = "args" /\ Made(c) = 0 /\ \E x0 : e = Pushed(c, Infer(x0))
  BY <1>1, <1>2, <1>7, PushedCarries
<1>8. CASE f.k = "super" /\ e = Put(c, WithArg(f, f.got.cat, i), i)
  <2>1. PICK cat, g : cat = f.got.cat /\ g = WithArg(f, cat, i)
    OBVIOUS
  <2>2. GoodApp(f, j) /\ Len(f.cats) \in Nat
    BY <1>1, <1>2, <1>4, <1>8, TopFacts DEF Fits
  <2>3. /\ g.k = "args" /\ g.fun = f.fun /\ g.args = f.args /\ Len(g.cats) = Len(f.cats) + 1
        /\ \A x \in 1..Len(f.cats) : g.cats[x] = f.cats[x] /\ g.trees[x] = f.trees[x]
        /\ \A x \in 1..Len(f.marks) : g.marks[x] = f.marks[x]
    <3>1. j \in Nat /\ i \in Nat /\ j <= i /\ GoodApp(f, j) /\ g = WithArg(f, cat, i)
      BY <1>3, <1>4, <2>1, <2>2
    <3>2. g.k = "args" /\ g.fun = f.fun /\ g.args = f.args
      BY ONLY <3>1, WithArgGood
    <3>3. /\ Len(g.cats) = Len(f.cats) + 1
          /\ \A x \in 1..Len(f.cats) : g.cats[x] = f.cats[x] /\ g.trees[x] = f.trees[x]
      BY ONLY <3>1, WithArgGood
    <3>4. \A x \in 1..Len(f.marks) : g.marks[x] = f.marks[x]
      BY ONLY <3>1, WithArgGood
    <3> QED  BY <3>2, <3>3, <3>4
  <2>4. PICK l \in Nat : l = Len(f.cats) /\ Len(f.marks) = l + 1 /\ Len(g.cats) = l + 1
    BY <2>2, <2>3 DEF GoodApp
  <2>5. ASSUME NEW x \in 0..Len(g.cats), x # Len(g.cats)
        PROVE  /\ x \in 0..Len(f.cats)
               /\ \A y \in 1..x : g.cats[y] = f.cats[y] /\ g.trees[y] = f.trees[y]
               /\ \A y \in 1..(x + 1) : g.marks[y] = f.marks[y]
    <3>1. x \in 0..l
      BY <2>4, <2>5
    <3>2. \A y \in 1..x : y \in 1..Len(f.cats)
      BY <2>4, <3>1
    <3>3. \A y \in 1..(x + 1) : y \in 1..Len(f.marks)
      BY <2>4, <3>1
    <3> QED  BY <2>3, <2>4, <3>1, <3>2, <3>3
  <2>6. e = Put(c, g, i)
    BY <1>8, <2>1
  <2>7. ASSUME NEW x \in 0..Len(g.cats)
        PROVE  \/ g.k = "args" /\ x = Len(g.cats)
               \/ /\ f.k # "infer" /\ x \in 0..Len(f.cats) /\ g.fun = f.fun /\ g.args = f.args
                  /\ \A y \in 1..x : g.cats[y] = f.cats[y] /\ g.trees[y] = f.trees[y]
                  /\ \A y \in 1..(x + 1) : g.marks[y] = f.marks[y]
    BY <1>8, <2>3, <2>5
  <2> QED  BY <1>1, <1>2, <2>6, <2>7, PutCarries
<1>9. CASE f.k = "super" /\ \E cat : e = Put(c, Recat(f, cat), i)
  <2>1. PICK cat : e = Put(c, Recat(f, cat), i)
    BY <1>9
  <2>2. PICK g : g = Recat(f, cat)
    OBVIOUS
  <2>3. GoodApp(f, j) /\ IsResult(f.got) /\ f.k = "super"
    BY <1>1, <1>2, <1>4, <1>9, TopFacts DEF Fits
  <2>4. /\ g.fun = f.fun /\ g.args = f.args /\ g.cats = f.cats /\ g.trees = f.trees
        /\ g.marks = f.marks
    BY <1>3, <1>4, <2>2, <2>3, RecatGood
  <2>5. e = Put(c, g, i)
    BY <2>1, <2>2
  <2> QED  BY <1>1, <1>2, <2>3, <2>4, <2>5, PutCarries
<1> QED  BY <1>2, <1>3, <1>5, <1>6, <1>7, <1>8, <1>9, AfterForms

-----------------------------------------------------------------------------
(* Runs of the inference without a failure *)

\* p is the configuration in which frame x of c has begun its argument i + 1.
Past(c, x, i, p) ==
  p.n = x /\ p.st[x].k = "args" /\ Len(p.st[x].cats) = i /\ SameUpTo(c, p, x, i)

\* The run H has come past everything that the frames of H[m] hold.
HasPasts(H, m) ==
  \A x \in 1..H[m].n : H[m].st[x].k # "infer" =>
    \A i \in 0..Len(H[m].st[x].cats) : \E l \in 1..m : Past(H[m], x, i, H[l])

\* The step from c to e, with the alternative that the path has for it.
Follows(c, path, e) ==
  /\ Goes(c)
  /\ IF Ways(c) = 0 THEN e = After(c, 0)
     ELSE path[c.idx + 1] \in 1..Ways(c) /\ e = After(c, Ways(c) - path[c.idx + 1])

\* H[1] ... H[N] is a run from the start that makes all decisions of the path.
Run(H, N, path) ==
  /\ N \in Nat \ {0} /\ path \in Seq(Nat)
  /\ H[1] = Root
  /\ \A m \in 1..N : GoodConfig(H[m]) /\ HasPasts(H, m)
  /\ \A m \in 1..(N - 1) : Follows(H[m], path, H[m + 1])
  /\ \A l, m \in 1..N : l <= m => H[l].idx <= H[m].idx
  /\ H[N].idx = Len(path)
  /\ \A j \in 1..Len(path) : \E m \in 1..(N - 1) : H[m].idx = j - 1 /\ Ways(H[m]) > 0

\* The definitions above read nothing of the state but the grammar and the tree.
LEMMA StepsStable ==
  ASSUME lzr' = lzr
  PROVE  /\ \A c : Goes(c)' = Goes(c) /\ Ways(c)' = Ways(c)
         /\ \A c, a : After(c, a)' = After(c, a)
<1>1. /\ \A cat : Supers(cat)' = Supers(cat)
      /\ \A f, cats : InferEntries(f, cats)' = InferEntries(f, cats)
  <2>1. ASSUME NEW cat PROVE Supers(cat)' = Supers(cat)
    BY DEF Supers, IndexedAt
  <2>2. ASSUME NEW f, NEW cats PROVE InferEntries(f, cats)' = InferEntries(f, cats)
    BY DEF InferEntries, IndexedAt
  <2> QED  BY <2>1, <2>2
<1>2. \A f : HasFun(f)' = HasFun(f)
  BY DEF HasFun
<1>3. ASSUME NEW f
      PROVE  /\ ToOpen(f)' = ToOpen(f) /\ ToChoose(f)' = ToChoose(f)
             /\ ToKeep(f)' = ToKeep(f) /\ ToPick(f)' = ToPick(f)
  BY <1>1, <1>2 DEF ToOpen, ToChoose, ToKeep, ToPick
<1>4. ASSUME NEW c PROVE Goes(c)' = Goes(c)
  BY <1>3 DEF Goes
<1>5. ASSUME NEW c PROVE Ways(c)' = Ways(c)
  BY <1>1, <1>3 DEF Ways
<1>6. ASSUME NEW c, NEW a PROVE After(c, a)' = After(c, a)
  <2>1. PICK f : f = c.st[c.n]
    OBVIOUS
  <2> QED  BY <1>1, <1>3, <2>1 DEF After
<1> QED  BY <1>4, <1>5, <1>6

LEMMA RunStable ==
  ASSUME lzr' = lzr, input' = input, NEW H, NEW N, NEW path, Run(H, N, path)
  PROVE  Run(H, N, path)'
<1>1. Root' = Root
  BY DEF Root
<1>2. ASSUME NEW c, NEW e PROVE Follows(c, path, e)' = Follows(c, path, e)
  BY StepsStable DEF Follows
<1> QED  BY <1>1, <1>2, StepsStable DEF Run

LEMMA PastsExtend ==
  ASSUME NEW H, NEW m \in Nat, HasPasts(H, m), NEW n, n = m + 1, Carries(H[m], H[n])
  PROVE  HasPasts(H, n)
<1> PICK c, e : c = H[m] /\ e = H[n]
  OBVIOUS
<1> SUFFICES ASSUME NEW x \in 1..e.n, e.st[x].k # "infer", NEW i \in 0..Len(e.st[x].cats)
             PROVE  \E l \in 1..n : Past(e, x, i, H[l])
  BY DEF HasPasts
<1>1. CASE x = e.n /\ e.st[x].k = "args" /\ i = Len(e.st[x].cats)
  <2>1. Past(e, x, i, e)
    BY <1>1 DEF Past, SameUpTo
  <2> QED  BY <2>1
<1>2. CASE /\ x \in 1..c.n /\ c.st[x].k # "infer" /\ i \in 0..Len(c.st[x].cats)
           /\ SameUpTo(e, c, x, i)
  <2>1. PICK l \in 1..m : Past(c, x, i, H[l])
    BY <1>2 DEF HasPasts
  <2>2. PICK p : p = H[l]
    OBVIOUS
  <2>3. SameUpTo(e, p, x, i)
    <3>1. SameUpTo(e, c, x, i) /\ SameUpTo(c, p, x, i)
      BY <1>2, <2>1, <2>2 DEF Past
    <3> QED  BY ONLY <3>1 DEF SameUpTo
  <2>4. Past(e, x, i, p) /\ l \in 1..n
    BY <2>1, <2>2, <2>3 DEF Past
  <2> QED  BY <2>2, <2>4
<1> QED  BY <1>1, <1>2 DEF Carries

LEMMA WaysType ==
  ASSUME IndicesTyped, NEW c
  PROVE  Ways(c) \in Nat
  BY DEF Ways, IndicesTyped

\* Where a step of a run goes.
LEMMA FollowsFacts ==
  ASSUME IndicesTyped, NEW c, GoodConfig(c), NEW path, NEW e, Follows(c, path, e)
  PROVE  GoodConfig(e) /\ e.idx = c.idx + Made(c) /\ Carries(c, e)
<1>1. Goes(c) /\ \E a : e = After(c, a)
  BY DEF Follows
<1> QED  BY <1>1, AfterGood, AfterCarries

\* H[1] ... H[l] is a run of the first decisions of the path.
CutsTo(H, l, path, cut) ==
  /\ Run(H, l, cut) /\ Len(cut) = H[l].idx /\ H[l].idx <= Len(path)
  /\ \A j \in 1..H[l].idx : cut[j] = path[j]

LEMMA RunCut ==
  ASSUME IndicesTyped, NEW H, NEW N, NEW path, Run(H, N, path), NEW l \in 1..N,
         NEW cut, cut = SubSeq(path, 1, H[l].idx)
  PROVE  CutsTo(H, l, path, cut)
<1>1. PICK i \in Nat : i = H[l].idx
  BY DEF Run, GoodConfig
<1>2. N \in Nat \ {0} /\ path \in Seq(Nat) /\ Len(path) \in Nat /\ l \in Nat \ {0}
  BY DEF Run
<1>3. i <= Len(path)
  BY <1>1, <1>2 DEF Run
<1>4. cut \in Seq(Nat) /\ Len(cut) = i /\ \A j \in 1..i : cut[j] = path[j]
  BY <1>1, <1>2, <1>3, SubSeqProperties, SMTT(30)
<1>5. ASSUME NEW m \in 1..(l - 1)
      PROVE  Follows(H[m], cut, H[m + 1])
  <2>1. PICK n \in 1..l : n = m + 1
    BY <1>2
  <2>2. m \in 1..(N - 1) /\ m \in 1..N /\ n \in 1..N /\ n <= l
    BY <1>2, <2>1
  <2>3. PICK c, e : c = H[m] /\ e = H[n]
    OBVIOUS
  <2>4. Follows(c, path, e) /\ GoodConfig(c)
    BY <2>1, <2>2, <2>3 DEF Run
  <2>5. e.idx = c.idx + Made(c) /\ e.idx <= i /\ c.idx \in Nat
    <3>1. e.idx = c.idx + Made(c) /\ c.idx \in Nat
      BY <2>4, FollowsFacts, MadeFacts
    <3>2. H[n].idx <= H[l].idx
      BY <2>2 DEF Run
    <3> QED  BY <1>1, <2>3, <3>1, <3>2
  <2>6. Ways(c) # 0 => cut[c.idx + 1] = path[c.idx + 1]
    <3> HAVE Ways(c) # 0
    <3>1. Ways(c) > 0
      BY <2>4, WaysType
    <3>2. c.idx + 1 \in 1..i
      BY <1>1, <2>5, <3>1 DEF Made
    <3> QED  BY <1>4, <3>2
  <2>7. Follows(c, cut, e)
    BY <2>4, <2>6 DEF Follows
  <2> QED  BY <2>1, <2>3, <2>7
<1>6. ASSUME NEW j \in 1..i
      PROVE  \E m \in 1..(l - 1) : H[m].idx = j - 1 /\ Ways(H[m]) > 0
  <2>1. PICK m \in 1..(N - 1) : H[m].idx = j - 1 /\ Ways(H[m]) > 0
    <3>1. j \in 1..Len(path)
      BY <1>2, <1>3
    <3> QED  BY <3>1 DEF Run
  <2>2. m \in 1..N
    BY <1>2
  <2>3. ~(l <= m)
    <3> SUFFICES ASSUME l <= m PROVE FALSE
      OBVIOUS
    <3>1. H[l].idx <= H[m].idx
      BY <2>2 DEF Run
    <3> QED  BY <1>1, <2>1, <3>1
  <2>4. m \in 1..(l - 1)
    BY <1>2, <2>3
  <2> QED  BY <2>1, <2>4
<1>7. \A m \in 1..l : m \in 1..N
  BY <1>2
<1>8. Run(H, l, cut)
  BY <1>1, <1>2, <1>4, <1>5, <1>6, <1>7 DEF Run
<1> QED  BY <1>1, <1>3, <1>4, <1>8 DEF CutsTo

\* A run goes on by a step, with a decision more if the step makes one.
Longer(H, N, e) == [m \in 1..(N + 1) |-> IF m = N + 1 THEN e ELSE H[m]]

LEMMA RunExtend ==
  ASSUME IndicesTyped, NEW H, NEW N, NEW path, Run(H, N, path),
         NEW long \in Seq(Nat), Len(long) = Len(path) + Made(H[N]),
         \A j \in 1..Len(path) : long[j] = path[j],
         NEW e, Follows(H[N], long, e),
         NEW G, G = Longer(H, N, e)
  PROVE  Run(G, N + 1, long) /\ G[N + 1] = e /\ \A m \in 1..N : G[m] = H[m]
<1>0. N \in Nat \ {0} /\ path \in Seq(Nat)
  BY DEF Run
<1>1. PICK n \in Nat : n = N + 1 /\ n > 1 /\ n - 1 = N
  BY ONLY <1>0
<1>2. N \in Nat \ {0} /\ path \in Seq(Nat) /\ N \in 1..N /\ 1 \in 1..N
  BY <1>0
<1>3. PICK k \in Nat : k = Len(path)
  BY <1>2
<1>4. PICK c : c = H[N] /\ GoodConfig(c) /\ c.idx = k
  BY <1>2, <1>3 DEF Run
<1>5. GoodConfig(e) /\ e.idx = k + Made(c) /\ Carries(c, e) /\ e.idx = Len(long)
  BY <1>3, <1>4, FollowsFacts
<1>6. G[n] = e /\ \A m \in 1..N : G[m] = H[m]
  BY <1>1 DEF Longer
<1>7. G[1] = Root
  BY <1>2, <1>6 DEF Run
<1>8. ASSUME NEW m \in 1..N PROVE HasPasts(G, m)
  <2>1. HasPasts(H, m) /\ \A l \in 1..m : G[l] = H[l]
    BY <1>2, <1>6 DEF Run
  <2>2. G[m] = H[m]
    BY <1>6
  <2> QED  BY <2>1, <2>2 DEF HasPasts
<1>9. HasPasts(G, n)
  <2>1. HasPasts(G, N) /\ Carries(G[N], G[n])
    BY <1>2, <1>4, <1>5, <1>6, <1>8
  <2> QED  BY <1>1, <1>2, <2>1, PastsExtend
<1>10. ASSUME NEW m \in 1..n PROVE GoodConfig(G[m]) /\ HasPasts(G, m)
  <2>1. CASE m = n
    BY <1>5, <1>6, <1>9, <2>1
  <2>2. CASE m # n
    <3>1. m \in 1..N
      BY <1>1, <2>2
    <3> QED  BY <1>6, <1>8, <3>1 DEF Run
  <2> QED  BY <2>1, <2>2
<1>11. ASSUME NEW m \in 1..(n - 1) PROVE Follows(G[m], long, G[m + 1])
  <2>1. CASE m = N
    BY <1>1, <1>2, <1>4, <1>6, <2>1
  <2>2. CASE m # N
    <3>1. PICK j \in 1..N : m \in 1..(N - 1) /\ m \in 1..N /\ j = m + 1
      BY <1>1, <1>2, <2>2
    <3>2. PICK d, f : d = H[m] /\ f = H[j] /\ G[m] = d /\ G[m + 1] = f
      BY <1>6, <3>1
    <3>3. Follows(d, path, f) /\ GoodConfig(d) /\ f.idx <= k
      BY <1>2, <1>3, <3>1, <3>2 DEF Run
    <3>4. f.idx = d.idx + Made(d) /\ d.idx \in Nat /\ Ways(d) \in Nat
      BY <3>3, FollowsFacts, MadeFacts, WaysType
    <3>5. Ways(d) # 0 => long[d.idx + 1] = path[d.idx + 1]
      <4> HAVE Ways(d) # 0
      <4>1. d.idx + 1 \in 1..k
        BY <3>3, <3>4 DEF Made
      <4> QED  BY <1>3, <4>1
    <3>6. Follows(d, long, f)
      BY <3>3, <3>5 DEF Follows
    <3> QED  BY <3>2, <3>6
  <2> QED  BY <2>1, <2>2
<1>12. ASSUME NEW l \in 1..n, NEW m \in 1..n, l <= m PROVE G[l].idx <= G[m].idx
  <2>1. CASE m = n
    <3>1. CASE l = n
      BY <1>5, <1>6, <2>1, <3>1, MadeFacts
    <3>2. CASE l # n
      <4>1. l \in 1..N /\ l <= N
        BY <1>1, <3>2
      <4>2. H[l].idx <= H[N].idx /\ GoodConfig(H[l])
        BY <1>2, <4>1 DEF Run
      <4>3. G[l].idx \in Nat /\ G[l].idx <= k
        BY <1>4, <1>6, <4>1, <4>2 DEF GoodConfig
      <4>4. Made(c) \in {0, 1}
        BY <1>4, MadeFacts
      <4> QED  BY <1>5, <1>6, <2>1, <4>3, <4>4
    <3> QED  BY <3>1, <3>2
  <2>2. CASE m # n
    <3>1. l \in 1..N /\ m \in 1..N
      BY <1>1, <1>12, <2>2
    <3> QED  BY <1>6, <1>12, <3>1 DEF Run
  <2> QED  BY <2>1, <2>2
<1>13. ASSUME NEW j \in 1..Len(long)
       PROVE  \E m \in 1..(n - 1) : G[m].idx = j - 1 /\ Ways(G[m]) > 0
  <2>1. CASE j \in 1..k
    <3>1. PICK m \in 1..(N - 1) : H[m].idx = j - 1 /\ Ways(H[m]) > 0
      BY <1>3, <2>1 DEF Run
    <3>2. m \in 1..N /\ m \in 1..(n - 1)
      BY <1>1, <1>2
    <3> QED  BY <1>6, <3>1, <3>2
  <2>2. CASE j \notin 1..k
    <3>1. Made(c) = 1 /\ j = k + 1
      BY <1>4, <1>5, <2>2, MadeFacts
    <3>2. c.idx = j - 1 /\ Ways(c) > 0
      BY <1>4, <3>1 DEF Made
    <3> QED  BY <1>1, <1>2, <1>4, <1>6, <3>2
  <2> QED  BY <2>1, <2>2
<1>14. Run(G, n, long)
  <2>1. n \in Nat \ {0} /\ long \in Seq(Nat) /\ G[n].idx = Len(long)
    BY <1>1, <1>5, <1>6
  <2>2. \A m \in 1..n : GoodConfig(G[m]) /\ HasPasts(G, m)
    BY <1>10
  <2>3. \A m \in 1..(n - 1) : Follows(G[m], long, G[m + 1])
    BY <1>11
  <2>4. \A l, m \in 1..n : l <= m => G[l].idx <= G[m].idx
    BY <1>12
  <2>5. \A j \in 1..Len(long) : \E m \in 1..(n - 1) : G[m].idx = j - 1 /\ Ways(G[m]) > 0
    BY <1>13
  <2> QED  BY <1>7, <2>1, <2>2, <2>3, <2>4, <2>5, Zenon DEF Run
<1> QED  BY <1>1, <1>6, <1>14

-----------------------------------------------------------------------------
(* The choice and the run of its path *)

IsChoice(c) == c = [path |-> c.path, path_idx |-> c.path_idx]

\* The run G of the path of c1 goes from configuration pos of H to e.
Onward(c1, H, N, pos, e, G, M) ==
  /\ Run(G, M, c1.path) /\ pos + 1 \in 1..M /\ G[pos + 1] = e
  /\ IsChoice(c1) /\ c1.path_idx = e.idx
  /\ pos < N => M = N /\ G = H

\* A step from configuration pos, where n alternatives are to be decided among
\* if n > 0: along the run, or making it longer.
LEMMA RunOn ==
  ASSUME IndicesTyped, NEW c0, IsChoice(c0), NEW H, NEW N, Run(H, N, c0.path),
         NEW pos \in 1..N, Goes(H[pos]), c0.path_idx = H[pos].idx,
         NEW n, n = Ways(H[pos]), NEW c1, c1 = gu_choice_next(c0, n),
         NEW a, a = IF n = 0 THEN 0 ELSE NextDecision(c0, n)
  PROVE  /\ n > 0 => Remaining(c0, n) \in 1..n
         /\ \E G, M : Onward(c1, H, N, pos, After(H[pos], a), G, M)
<1>1. PICK c, path, i : c = H[pos] /\ path = c0.path /\ i = c0.path_idx
  OBVIOUS
<1>2. c0 = [path |-> path, path_idx |-> i]
  BY <1>1 DEF IsChoice
<1>3. /\ N \in Nat \ {0} /\ path \in Seq(Nat) /\ Len(path) \in Nat /\ GoodConfig(c) /\ i = c.idx
      /\ i \in Nat /\ n \in Nat /\ pos \in Nat
  BY <1>1, WaysType DEF Run, GoodConfig
<1>4. CASE pos < N
  <2>1. PICK q \in 1..N : q = pos + 1
    BY <1>3, <1>4
  <2>2. PICK e : e = H[q]
    OBVIOUS
  <2>3. Follows(c, path, e)
    <3>1. pos \in 1..(N - 1)
      BY <1>3, <1>4
    <3> QED  BY <1>1, <2>1, <2>2, <3>1 DEF Run
  <2>4. e.idx = i + Made(c) /\ e.idx <= Len(path)
    <3>1. H[q].idx <= H[N].idx /\ H[N].idx = Len(path)
      BY <1>1, <1>3, <2>1 DEF Run
    <3> QED  BY <1>3, <2>2, <2>3, <3>1, FollowsFacts
  <2>5. CASE n = 0
    <3>1. c1 = c0 /\ a = 0 /\ e = After(c, 0) /\ Made(c) = 0
      BY <1>1, <2>3, <2>5 DEF gu_choice_next, Follows, Made
    <3>2. e.idx = i
      BY <1>3, <2>4, <3>1
    <3>3. /\ Run(H, N, c1.path) /\ IsChoice(c1) /\ c1.path_idx = H[q].idx
          /\ H[q] = After(H[pos], a)
      BY <1>1, <2>2, <3>1, <3>2
    <3>4. ~(n > 0)
      BY <2>5
    <3> QED  BY <2>1, <3>3, <3>4 DEF Onward
  <2>6. CASE n # 0
    <3>1. n > 0 /\ Made(c) = 1 /\ e.idx = i + 1
      BY <1>1, <1>3, <2>4, <2>6 DEF Made
    <3>2. i < Len(path)
      BY <1>3, <2>4, <3>1
    <3>3. Recorded(c0) /\ Remaining(c0, n) = path[i + 1]
      BY <1>2, <3>2 DEF Recorded, Remaining
    <3>4. path[i + 1] \in 1..n /\ e = After(c, n - path[i + 1])
      BY <1>1, <1>3, <2>3, <2>6 DEF Follows
    <3>5. path[i + 1] # 0
      BY <1>3, <3>4
    <3>6. a = n - path[i + 1]
      BY <2>6, <3>3, <3>5 DEF NextDecision
    <3>7. c1 = [path |-> path, path_idx |-> i + 1]
      BY <1>2, <2>6, <3>3 DEF gu_choice_next
    <3>8. IsChoice(c1) /\ c1.path = path /\ c1.path_idx = i + 1
      BY <3>7 DEF IsChoice
    <3>9. Run(H, N, c1.path) /\ H[q] = After(c, a) /\ c1.path_idx = H[q].idx
      BY <1>1, <2>2, <3>1, <3>4, <3>6, <3>8
    <3> QED  BY <1>1, <2>1, <3>3, <3>4, <3>8, <3>9 DEF Onward
  <2> QED  BY <2>5, <2>6
<1>5. CASE pos = N
  <2>1. i = Len(path) /\ pos + 1 \in 1..(N + 1)
    BY <1>1, <1>3, <1>5 DEF Run
  <2>2. ~Recorded(c0)
    BY <1>2, <1>3, <2>1 DEF Recorded
  <2>3. PICK long : long = IF n = 0 THEN path ELSE Append(path, n)
    OBVIOUS
  <2>4. /\ long \in Seq(Nat) /\ Len(long) = Len(path) + Made(c)
        /\ \A j \in 1..Len(path) : long[j] = path[j]
        /\ n # 0 => long[i + 1] = n
    <3>1. CASE n = 0
      BY <1>1, <1>3, <2>3, <3>1 DEF Made
    <3>2. CASE n # 0
      <4>1. Made(c) = 1
        BY <1>1, <1>3, <3>2 DEF Made
      <4> QED  BY <1>3, <2>1, <2>3, <3>2, <4>1, AppendProperties
    <3> QED  BY <3>1, <3>2
  <2>5. a = 0
    <3>1. n # 0 => Remaining(c0, n) = n
      BY <2>2 DEF Remaining
    <3> QED  BY <1>3, <3>1 DEF NextDecision
  <2>6. PICK e : e = After(c, a)
    OBVIOUS
  <2>7. Follows(c, long, e)
    BY <1>1, <1>3, <2>4, <2>5, <2>6 DEF Follows
  <2>8. PICK G : G = Longer(H, N, e)
    OBVIOUS
  <2>9. Run(G, N + 1, long) /\ G[N + 1] = e
    BY <1>1, <1>5, <2>4, <2>7, <2>8, RunExtend
  <2>10. IsChoice(c1) /\ c1.path = long /\ c1.path_idx = i + Made(c)
    <3>1. CASE n = 0
      BY <1>1, <1>2, <1>3, <2>3, <3>1 DEF gu_choice_next, Made, IsChoice
    <3>2. CASE n # 0
      <4>1. Made(c) = 1
        BY <1>1, <1>3, <3>2 DEF Made
      <4>2. c1 = [path |-> long, path_idx |-> i + 1]
        BY <1>2, <2>2, <2>3, <3>2 DEF gu_choice_next
      <4> QED  BY <4>1, <4>2 DEF IsChoice
    <3> QED  BY <3>1, <3>2
  <2>11. e.idx = i + Made(c)
    BY <1>3, <2>7, FollowsFacts
  <2>12. n > 0 => Remaining(c0, n) \in 1..n
    BY <1>3, <2>2 DEF Remaining
  <2>13. ~(pos < N)
    BY <1>3, <1>5
  <2>14. Onward(c1, H, N, pos, e, G, N + 1)
    BY <1>5, <2>1, <2>9, <2>10, <2>11, <2>13 DEF Onward
  <2> QED  BY <1>1, <2>6, <2>12, <2>14
<1> QED  BY <1>3, <1>4, <1>5

LEMMA LastUntriedIs ==
  ASSUME NEW c0, c0.path \in Seq(Nat), c0.path_idx \in Nat, CanAdvance(c0)
  PROVE  LastUntried(c0) \in Untried(c0)
<1>1. Untried(c0) \subseteq 0..Len(c0.path) /\ Len(c0.path) \in Nat
  BY DEF Untried
<1>2. \E j \in Untried(c0) : \A k \in Untried(c0) : k <= j
  BY <1>1, LargestExists DEF CanAdvance
<1> QED  BY <1>2, Zenon DEF LastUntried

\* Back to configuration l, and on to an alternative of a decision after it.
LEMMA RunBack ==
  ASSUME IndicesTyped, NEW c0, IsChoice(c0), NEW H, NEW N, Run(H, N, c0.path), NEW l \in 1..N,
         c0.path_idx = H[l].idx, NEW c1, c1 = gu_choice_advance(c0)
  PROVE  /\ IsChoice(c1) /\ c1.path_idx = H[l].idx
         /\ CanAdvance(c0) => \E G, M : /\ Run(G, M, c1.path) /\ l \in 1..M
                                        /\ \A m \in 1..l : G[m] = H[m]
         /\ ~CanAdvance(c0) => Run(H, l, c1.path)
<1>1. PICK path, i : path = c0.path /\ i = c0.path_idx
  OBVIOUS
<1>2. c0 = [path |-> path, path_idx |-> i]
  BY <1>1 DEF IsChoice
<1>3. /\ N \in Nat \ {0} /\ path \in Seq(Nat) /\ Len(path) \in Nat /\ GoodConfig(H[l]) /\ i = H[l].idx
      /\ i \in Nat /\ l \in Nat
  BY <1>1 DEF Run, GoodConfig
<1>4. CASE ~CanAdvance(c0)
  <2>1. c1 = [path |-> SubSeq(path, 1, i), path_idx |-> i]
    BY <1>2, <1>4 DEF gu_choice_advance
  <2>2. PICK cut : cut = SubSeq(path, 1, i)
    OBVIOUS
  <2>3. Run(H, l, cut)
    BY <1>1, <1>3, <2>2, RunCut DEF CutsTo
  <2> QED  BY <1>3, <1>4, <2>1, <2>2, <2>3 DEF IsChoice
<1>5. CASE CanAdvance(c0)
  <2>1. PICK L : L = LastUntried(c0)
    OBVIOUS
  <2>2. L \in (i + 1)..Len(path) /\ path[L] > 1
    BY <1>1, <1>3, <1>5, <2>1, LastUntriedIs DEF Untried
  <2>3. PICK k \in Nat : k = L - 1 /\ L = k + 1 /\ k >= i /\ L \in 1..Len(path)
    BY <1>3, <2>2
  <2>4. PICK m \in 1..(N - 1) : H[m].idx = k /\ Ways(H[m]) > 0
    BY <1>1, <2>3 DEF Run
  <2>5. PICK q \in 1..N : q = m + 1 /\ m \in 1..N /\ m \in Nat
    BY <1>3
  <2>6. PICK c : c = H[m] /\ GoodConfig(c) /\ c.idx = k /\ Ways(c) > 0 /\ Made(c) = 1
    BY <2>4, <2>5 DEF Run, Made
  <2>7. Follows(c, path, H[q])
    BY <1>1, <2>5, <2>6 DEF Run
  <2>8. H[q].idx = k + 1
    BY <2>6, <2>7, FollowsFacts
  <2>9. l <= m
    <3> SUFFICES ASSUME ~(l <= m) PROVE FALSE
      OBVIOUS
    <3>1. q <= l
      BY <1>3, <2>5
    <3>2. H[q].idx <= H[l].idx
      BY <3>1 DEF Run
    <3> QED  BY <1>3, <2>3, <2>8, <3>2
  <2>10. PICK cut : cut = SubSeq(path, 1, k)
    OBVIOUS
  <2>11. Run(H, m, cut) /\ Len(cut) = k /\ cut \in Seq(Nat)
    <3>1. Run(H, m, cut) /\ Len(cut) = k
      <4>1. cut = SubSeq(path, 1, H[m].idx)
        BY <2>4, <2>10
      <4>2. Run(H, N, path) /\ m \in 1..N /\ H[m].idx = k
        BY <1>1, <2>4, <2>5
      <4>3. CutsTo(H, m, path, cut)
        BY <4>1, <4>2, RunCut
      <4> QED  BY <4>2, <4>3 DEF CutsTo
    <3> QED  BY <3>1 DEF Run
  <2>12. PICK left : left = path[L] - 1
    OBVIOUS
  <2>13. left \in Nat /\ left \in 1..Ways(c) /\ Goes(c)
    <3>1. path[L] \in 1..Ways(c) /\ Goes(c) /\ Ways(c) \in Nat
      BY <2>3, <2>6, <2>7, WaysType DEF Follows
    <3> QED  BY <2>2, <2>12, <3>1
  <2>14. PICK long : long = Append(cut, left)
    OBVIOUS
  <2>15. /\ long \in Seq(Nat) /\ Len(long) = k + 1
         /\ \A j \in 1..k : long[j] = cut[j]
         /\ long[k + 1] = left
    BY <2>11, <2>13, <2>14, AppendProperties
  <2>16. PICK e : e = After(c, Ways(c) - left)
    OBVIOUS
  <2>17. Follows(c, long, e)
    BY <2>6, <2>13, <2>15, <2>16 DEF Follows
  <2>18. PICK G : G = Longer(H, m, e)
    OBVIOUS
  <2>19. Run(G, m + 1, long) /\ \A x \in 1..m : G[x] = H[x]
    <3>1. IndicesTyped /\ Run(H, m, cut) /\ Follows(H[m], long, e) /\ G = Longer(H, m, e)
      BY <2>6, <2>11, <2>17, <2>18
    <3>2. /\ long \in Seq(Nat) /\ Len(long) = Len(cut) + Made(H[m])
          /\ \A j \in 1..Len(cut) : long[j] = cut[j]
      BY <2>6, <2>11, <2>15
    <3> QED  BY ONLY <3>1, <3>2, RunExtend
  <2>20. c1 = [path |-> long, path_idx |-> i]
    <3>1. c1 = [path |-> Append(SubSeq(path, 1, L - 1), path[L] - 1), path_idx |-> i]
      BY <1>2, <1>5, <2>1 DEF gu_choice_advance
    <3> QED  BY <2>3, <2>10, <2>12, <2>14, <3>1
  <2>21. l \in 1..(m + 1) /\ \A x \in 1..l : x \in 1..m
    BY <1>3, <2>5, <2>9
  <2> QED  BY <1>3, <1>5, <2>19, <2>20, <2>21 DEF IsChoice
<1> QED  BY <1>4, <1>5

-----------------------------------------------------------------------------
(* The stack of the program and the frames of a configuration *)

Base(b) ==
  \/ b = [k |-> "dry", got |-> b.got]
  \/ b = [k |-> "build", cat |-> b.cat, got |-> b.got]

\* The stack s, with i decisions made, is that of configuration c; its last
\* element is the frame of pgf_lzn_next.
Shows(s, i, c) ==
  /\ IsSeq(s) /\ Len(s) = c.n + 1 /\ i = c.idx
  /\ \A x \in 1..c.n : s[c.n + 1 - x] = c.st[x]
  /\ Base(s[c.n + 1]) /\ s[c.n + 1].got = c.got

Failing(f) == [f EXCEPT !.k = "back"]

Given(f, r) == [f EXCEPT !.got = r]

\* The same where the inference has failed in the application of the top frame.
ShowsBack(s, i, c) ==
  /\ c.n > 0 /\ c.st[c.n].k = "args"
  /\ IsSeq(s) /\ Len(s) = c.n + 1 /\ i = c.idx
  /\ \A x \in 1..c.n :
       s[c.n + 1 - x] = IF x = c.n THEN Failing(c.st[x]) ELSE c.st[x]
  /\ Base(s[c.n + 1]) /\ s[c.n + 1].got = c.got

LEMMA PushFacts ==
  ASSUME NEW s, IsSeq(s), NEW f, NEW t, t = <<f>> \o s
  PROVE  /\ IsSeq(t) /\ Len(t) = Len(s) + 1 /\ t[1] = f
         /\ \A j \in 1..Len(s) : t[j + 1] = s[j]
<1> DEFINE S == {s[i] : i \in DOMAIN s} \cup {f}
<1>1. s \in Seq(S) /\ f \in S
  BY DEF IsSeq
<1> HIDE DEF S
<1>2. <<f>> \in Seq(S) /\ Len(<<f>>) = 1 /\ <<f>>[1] = f
  BY <1>1
<1>3. PICK u : u = <<f>>
  OBVIOUS
<1>4. /\ t \in Seq(S) /\ Len(t) = Len(u) + Len(s)
      /\ \A i \in 1..(Len(u) + Len(s)) : t[i] = IF i <= Len(u) THEN u[i] ELSE s[i - Len(u)]
  BY <1>1, <1>2, <1>3, ConcatProperties
<1>5. PICK l \in Nat : l = Len(s)
  BY <1>1
<1>6. Len(u) = 1 /\ u[1] = f
  BY <1>2, <1>3
<1>7. t[1] = f
  BY <1>4, <1>5, <1>6
<1>8. ASSUME NEW j \in 1..l PROVE t[j + 1] = s[j]
  <2>1. PICK i \in 1..(1 + l) : i = j + 1 /\ ~(i <= 1) /\ i - 1 = j
    BY <1>5
  <2>2. t[i] = s[i - 1]
    BY <1>4, <1>5, <1>6, <2>1
  <2> QED  BY <2>1, <2>2
<1>9. IsSeq(t)
  BY <1>4, SeqIsItsOwn
<1>10. Len(t) = l + 1
  BY <1>4, <1>5, <1>6
<1> QED  BY <1>5, <1>7, <1>8, <1>9, <1>10

LEMMA TailFacts ==
  ASSUME NEW s, IsSeq(s), Len(s) > 0, NEW t, t = Tail(s)
  PROVE  IsSeq(t) /\ Len(t) = Len(s) - 1 /\ \A j \in 1..(Len(s) - 1) : t[j] = s[j + 1]
<1> DEFINE S == {s[i] : i \in DOMAIN s}
<1>1. s \in Seq(S)
  BY DEF IsSeq
<1> HIDE DEF S
<1>2. s # <<>> /\ Len(s) \in Nat
  BY <1>1
<1>3. t \in Seq(S) /\ Len(t) = Len(s) - 1 /\ \A j \in 1..Len(t) : t[j] = s[j + 1]
  BY <1>1, <1>2, HeadTailProperties
<1> QED  BY <1>3, SeqIsItsOwn

LEMMA BecomeFacts ==
  ASSUME NEW s, IsSeq(s), Len(s) > 0, NEW f, NEW t, t = <<f>> \o Tail(s)
  PROVE  /\ IsSeq(t) /\ Len(t) = Len(s) /\ t[1] = f
         /\ \A j \in 2..Len(s) : t[j] = s[j]
<1>1. PICK u : u = Tail(s)
  OBVIOUS
<1>2. IsSeq(u) /\ Len(u) = Len(s) - 1 /\ \A j \in 1..(Len(s) - 1) : u[j] = s[j + 1]
  BY <1>1, TailFacts
<1>3. IsSeq(t) /\ Len(t) = Len(u) + 1 /\ t[1] = f /\ \A j \in 1..Len(u) : t[j + 1] = u[j]
  <2>1. t = <<f>> \o u /\ IsSeq(u)
    BY <1>1, <1>2, Zenon
  <2>2. IsSeq(t)
    BY <2>1, PushFacts
  <2>3. Len(t) = Len(u) + 1
    BY <2>1, PushFacts
  <2>4. t[1] = f
    BY <2>1, PushFacts
  <2>5. \A j \in 1..Len(u) : t[j + 1] = u[j]
    BY <2>1, PushFacts
  <2> QED  BY <2>2, <2>3, <2>4, <2>5
<1>4. PICK l \in Nat : l = Len(u) /\ Len(s) = l + 1
  BY <1>2, ListFacts
<1>5. ASSUME NEW j \in 2..Len(s) PROVE t[j] = s[j]
  <2>1. PICK i \in 1..l : j = i + 1
    BY <1>4
  <2> QED  BY <1>2, <1>3, <1>4, <2>1
<1> QED  BY <1>3, <1>4, <1>5

LEMMA ReturnFacts ==
  ASSUME NEW s, IsSeq(s), Len(s) > 1, NEW f, NEW t, t = <<f>> \o Tail(Tail(s))
  PROVE  /\ IsSeq(t) /\ Len(t) = Len(s) - 1 /\ t[1] = f
         /\ \A j \in 2..(Len(s) - 1) : t[j] = s[j + 1]
<1>0. PICK l \in Nat : l = Len(s) /\ l > 1
  BY ListFacts
<1>1. PICK u : u = Tail(s)
  OBVIOUS
<1>2. IsSeq(u) /\ Len(u) = l - 1 /\ \A j \in 1..(l - 1) : u[j] = s[j + 1]
  <2>0. Len(s) > 0
    BY <1>0
  <2>1. /\ IsSeq(u) /\ Len(u) = Len(s) - 1
        /\ \A j \in 1..(Len(s) - 1) : u[j] = s[j + 1]
    BY ONLY IsSeq(s), <1>1, <2>0, TailFacts, Zenon
  <2> QED  BY <1>0, <2>1
<1>3. IsSeq(t) /\ Len(t) = Len(u) /\ t[1] = f /\ \A j \in 2..Len(u) : t[j] = u[j]
  <2>1. t = <<f>> \o Tail(u) /\ Len(u) > 0
    BY <1>0, <1>1, <1>2
  <2>2. IsSeq(u)
    BY <1>2
  <2>3. IsSeq(t)
    BY <2>1, <2>2, BecomeFacts
  <2>4. Len(t) = Len(u)
    BY <2>1, <2>2, BecomeFacts
  <2>5. t[1] = f
    BY <2>1, <2>2, BecomeFacts
  <2>6. \A j \in 2..Len(u) : t[j] = u[j]
    BY <2>1, <2>2, BecomeFacts
  <2> QED  BY <2>3, <2>4, <2>5, <2>6
<1>4. ASSUME NEW j \in 2..(l - 1) PROVE t[j] = s[j + 1]
  BY <1>0, <1>2, <1>3
<1> QED  BY <1>0, <1>2, <1>3, <1>4

\* The same run of pgf_lzn_next.
SameBase(s, t) ==
  /\ t[Len(t)].k = s[Len(s)].k
  /\ s[Len(s)].k = "build" => t[Len(t)].cat = s[Len(s)].cat

LEMMA ShowsTop ==
  ASSUME NEW s, NEW i, NEW c, GoodConfig(c), Shows(s, i, c)
  PROVE  /\ c.n \in Nat /\ IsSeq(s) /\ Len(s) = c.n + 1 /\ i = c.idx /\ s # <<>>
         /\ c.n > 0 => s[1] = c.st[c.n] /\ Len(s) > 1 /\ Len(s) > 0
         /\ c.n = 0 => s[1] = s[Len(s)] /\ s[1].got = c.got
         /\ Base(s[Len(s)]) /\ s[Len(s)].got = c.got
<1>1. PICK n \in Nat : n = c.n
  BY DEF GoodConfig
<1>2. IsSeq(s) /\ Len(s) = n + 1 /\ s # <<>>
  BY <1>1 DEF Shows
<1>3. n > 0 => s[1] = c.st[n]
  <2> HAVE n > 0
  <2>1. n \in 1..n
    BY <1>1
  <2>2. s[c.n + 1 - n] = c.st[n]
    BY <1>1, <2>1 DEF Shows
  <2>3. c.n + 1 - n = 1
    BY <1>1
  <2> QED  BY <2>2, <2>3
<1>4. Base(s[n + 1]) /\ s[n + 1].got = c.got /\ i = c.idx
  BY <1>1 DEF Shows
<1> QED  BY <1>1, <1>2, <1>3, <1>4

LEMMA ShowsPut ==
  ASSUME NEW s, NEW i, NEW c, GoodConfig(c), Shows(s, i, c), c.n > 0,
         NEW f, NEW j, NEW e, e = Put(c, f, j), NEW t, t = <<f>> \o Tail(s)
  PROVE  Shows(t, j, e) /\ SameBase(s, t)
<1>1. PICK n \in Nat : n = c.n /\ n > 0
  BY DEF GoodConfig
<1>2. IsSeq(s) /\ Len(s) = n + 1 /\ Base(s[n + 1]) /\ s[n + 1].got = c.got
  BY <1>1 DEF Shows
<1>3. IsSeq(t) /\ Len(t) = n + 1 /\ t[1] = f /\ \A x \in 2..(n + 1) : t[x] = s[x]
  <2>1. Len(s) > 0
    BY <1>1, <1>2
  <2>2. IsSeq(t)
    BY <1>2, <2>1, BecomeFacts
  <2>3. Len(t) = Len(s)
    BY <1>2, <2>1, BecomeFacts
  <2>4. t[1] = f
    BY <1>2, <2>1, BecomeFacts
  <2>5. \A x \in 2..Len(s) : t[x] = s[x]
    BY <1>2, <2>1, BecomeFacts
  <2> QED  BY <1>2, <2>2, <2>3, <2>4, <2>5
<1>4. /\ e.n = n /\ e.idx = j /\ e.got = c.got
      /\ e.st = [x \in 1..n |-> IF x = n THEN f ELSE c.st[x]]
  BY <1>1 DEF Put
<1>5. ASSUME NEW x \in 1..n PROVE t[n + 1 - x] = e.st[x]
  <2>1. PICK y \in 1..n : y = n + 1 - x
    BY <1>1
  <2>2. CASE x = n
    <3>1. y = 1 /\ e.st[x] = f
      BY <1>4, <2>1, <2>2
    <3> QED  BY <1>3, <2>1, <3>1
  <2>3. CASE x # n
    <3>1. y \in 2..(n + 1) /\ e.st[x] = c.st[x]
      BY <1>4, <2>1, <2>3
    <3>2. s[n + 1 - x] = c.st[x]
      BY <1>1 DEF Shows
    <3> QED  BY <1>3, <2>1, <3>1, <3>2
  <2> QED  BY <2>2, <2>3
<1>6. t[n + 1] = s[n + 1]
  BY <1>1, <1>3
<1>7. Shows(t, j, e)
  BY <1>2, <1>3, <1>4, <1>5, <1>6 DEF Shows
<1> QED  BY <1>2, <1>3, <1>6, <1>7 DEF SameBase

LEMMA ShowsPushed ==
  ASSUME NEW s, NEW i, NEW c, GoodConfig(c), Shows(s, i, c),
         NEW f, NEW e, e = Pushed(c, f), NEW t, t = <<f>> \o s
  PROVE  Shows(t, i, e) /\ SameBase(s, t)
<1>1. PICK n \in Nat, m \in Nat : n = c.n /\ m = n + 1
  BY DEF GoodConfig
<1>2. IsSeq(s) /\ Len(s) = m /\ Base(s[m]) /\ s[m].got = c.got /\ i = c.idx
  BY <1>1 DEF Shows
<1>3. IsSeq(t) /\ Len(t) = m + 1 /\ t[1] = f /\ \A x \in 1..m : t[x + 1] = s[x]
  <2>2. IsSeq(t)
    BY <1>2, PushFacts
  <2>3. Len(t) = Len(s) + 1
    BY <1>2, PushFacts
  <2>4. t[1] = f
    BY <1>2, PushFacts
  <2>5. \A x \in 1..Len(s) : t[x + 1] = s[x]
    BY <1>2, PushFacts
  <2> QED  BY <1>2, <2>2, <2>3, <2>4, <2>5
<1>4. /\ e.n = m /\ e.idx = c.idx /\ e.got = c.got
      /\ e.st = [x \in 1..m |-> IF x = m THEN f ELSE c.st[x]]
  BY <1>1 DEF Pushed
<1>5. ASSUME NEW x \in 1..m PROVE t[m + 1 - x] = e.st[x]
  <2>1. PICK y \in 1..m : y = m + 1 - x
    <3>1. m \in Nat /\ x \in 1..m
      BY <1>1
    <3>2. m + 1 - x \in 1..m
      BY ONLY <3>1
    <3> QED  BY <3>2
  <2>2. CASE x = m
    <3>1. y = 1 /\ e.st[x] = f
      BY <1>4, <2>1, <2>2
    <3> QED  BY <1>3, <2>1, <3>1
  <2>3. CASE x # m
    <3>0. x \in 1..n /\ e.st[x] = c.st[x]
      BY <1>1, <1>4, <2>3
    <3>1. PICK z \in 1..m : y = z + 1 /\ z = n + 1 - x
      BY <1>1, <2>1, <3>0
    <3>2. s[n + 1 - x] = c.st[x]
      BY <1>1, <3>0 DEF Shows
    <3> QED  BY <1>3, <2>1, <3>0, <3>1, <3>2
  <2> QED  BY <2>2, <2>3
<1>6. t[m + 1] = s[m]
  BY <1>1, <1>3
<1>7. Shows(t, i, e)
  BY <1>2, <1>3, <1>4, <1>5, <1>6 DEF Shows
<1> QED  BY <1>2, <1>3, <1>6, <1>7 DEF SameBase

LEMMA BaseGot ==
  ASSUME NEW a, Base(a), NEW r, NEW d, d = Given(a, r)
  PROVE  Base(d) /\ d.got = r /\ d.k = a.k /\ (a.k = "build" => d.cat = a.cat)
<1>1. CASE a = [k |-> "dry", got |-> a.got]
  <2>1. d = [k |-> "dry", got |-> r]
    BY <1>1 DEF Given
  <2> QED  BY <1>1, <2>1 DEF Base
<1>2. CASE a = [k |-> "build", cat |-> a.cat, got |-> a.got]
  <2>1. d = [k |-> "build", cat |-> a.cat, got |-> r]
    BY <1>2 DEF Given
  <2> QED  BY <1>2, <2>1 DEF Base
<1> QED  BY <1>1, <1>2 DEF Base

\* The frame below the top one, when it is told r.
Back(s, c, r) == IF c.n = 1 THEN Given(s[2], r) ELSE Told(s[2], r)

LEMMA ShowsReturned ==
  ASSUME NEW s, NEW i, NEW c, GoodConfig(c), Shows(s, i, c), c.n > 0,
         NEW r, NEW j, NEW e, e = Returned(c, r, j),
         NEW b, b = Back(s, c, r),
         NEW t, t = <<b>> \o Tail(Tail(s))
  PROVE  Shows(t, j, e) /\ SameBase(s, t)
<1>1. PICK n \in Nat, m \in Nat : n = c.n /\ n > 0 /\ m = n - 1 /\ n = m + 1 /\ c.n - 1 = m
  BY DEF GoodConfig
<1>2. IsSeq(s) /\ Len(s) = n + 1 /\ Base(s[n + 1]) /\ s[n + 1].got = c.got
  BY <1>1 DEF Shows
<1>3. IsSeq(t) /\ Len(t) = n /\ t[1] = b /\ \A x \in 2..n : t[x] = s[x + 1]
  <2>1. Len(s) > 1 /\ Len(s) - 1 = n
    BY <1>1, <1>2
  <2>2. IsSeq(t)
    BY <1>2, <2>1, ReturnFacts
  <2>3. Len(t) = Len(s) - 1
    BY <1>2, <2>1, ReturnFacts
  <2>4. t[1] = b
    BY <1>2, <2>1, ReturnFacts
  <2>5. \A x \in 2..(Len(s) - 1) : t[x] = s[x + 1]
    BY <1>2, <2>1, ReturnFacts, SMTT(30)
  <2> QED  BY <2>1, <2>2, <2>3, <2>4, <2>5
<1>4. /\ e.n = m /\ e.idx = j /\ e.got = (IF c.n = 1 THEN r ELSE c.got)
      /\ e.st = [x \in 1..m |-> IF x = m THEN Told(c.st[x], r) ELSE c.st[x]]
  BY <1>1 DEF Returned
<1>5. ASSUME NEW x \in 1..m PROVE t[m + 1 - x] = e.st[x]
  <2>1. PICK y \in 1..m : y = m + 1 - x
    BY <1>1
  <2>2. s[n + 1 - x] = c.st[x]
    BY <1>1 DEF Shows
  <2>3. CASE x = m
    <3>0. n = x + 1 /\ x \in Nat /\ x > 0
      BY <1>1, <2>3
    <3>1. y = 1 /\ c.n # 1 /\ n + 1 - x = 2
      <4>1. y = 1
        BY <2>1, <2>3, <3>0
      <4>2. n # 1 /\ n + 1 - x = 2
        BY <3>0
      <4> QED  BY <1>1, <4>1, <4>2
    <3>2. b = Told(c.st[x], r)
      BY <1>1, <2>2, <3>1 DEF Back
    <3>3. e.st[x] = b
      BY <1>4, <2>3, <3>2
    <3>4. t[m + 1 - x] = t[1]
      BY <2>1, <3>1
    <3> QED  BY <1>3, <3>3, <3>4
  <2>4. CASE x # m
    <3>0. n = m + 1 /\ x < m
      BY <1>1, <2>4
    <3>1. y \in 2..n /\ y + 1 = n + 1 - x
      BY <2>1, <3>0
    <3>2. t[y] = s[y + 1] /\ e.st[x] = c.st[x]
      BY <1>3, <1>4, <2>4, <3>1
    <3> QED  BY <2>1, <2>2, <3>1, <3>2
  <2> QED  BY <2>3, <2>4
<1>6. Base(t[n]) /\ t[n].got = e.got /\ SameBase(s, t)
  <2>1. CASE n = 1
    <3>0. n + 1 = 2 /\ c.n = 1
      BY <1>1, <2>1
    <3>1. t[n] = Given(s[2], r) /\ s[n + 1] = s[2] /\ Base(s[2]) /\ e.got = r
      BY <1>2, <1>3, <1>4, <2>1, <3>0 DEF Back
    <3>2. PICK a : a = s[2]
      OBVIOUS
    <3>3. PICK d : d = Given(a, r)
      OBVIOUS
    <3>4. Base(d) /\ d.got = r /\ d.k = a.k /\ (a.k = "build" => d.cat = a.cat)
      BY <3>1, <3>2, <3>3, BaseGot
    <3>5. t[Len(t)] = d /\ s[Len(s)] = a
      BY <1>2, <1>3, <3>1, <3>2, <3>3
    <3>6. SameBase(s, t)
      BY <3>4, <3>5 DEF SameBase
    <3> QED  BY <1>3, <3>1, <3>4, <3>5, <3>6
  <2>2. CASE n # 1
    <3>1. n \in 2..n
      BY <1>1, <2>2
    <3>2. t[n] = s[n + 1] /\ e.got = c.got
      BY <1>1, <1>3, <1>4, <2>2, <3>1
    <3> QED  BY <1>2, <1>3, <3>2 DEF SameBase
  <2> QED  BY <2>1, <2>2
<1>7. Len(t) = e.n + 1 /\ Base(t[e.n + 1]) /\ t[e.n + 1].got = e.got
  BY <1>1, <1>3, <1>4, <1>6
<1>8. \A x \in 1..e.n : t[e.n + 1 - x] = e.st[x]
  BY <1>4, <1>5
<1>9. Shows(t, j, e)
  BY <1>3, <1>4, <1>7, <1>8 DEF Shows
<1> QED  BY <1>6, <1>9

-----------------------------------------------------------------------------
(* Going back *)

LEMMA SubSeqIs ==
  ASSUME NEW s, NEW t, IsSeq(s), IsSeq(t), Len(t) <= Len(s), \A j \in 1..Len(t) : t[j] = s[j]
  PROVE  t = SubSeq(s, 1, Len(t))
<1>1. PICK i \in Nat, l \in Nat : i = Len(t) /\ l = Len(s) /\ i <= l
  BY ListFacts
<1> DEFINE S == {s[j] : j \in DOMAIN s}
<1>2. s \in Seq(S)
  BY DEF IsSeq
<1> HIDE DEF S
<1>3. PICK u : u = SubSeq(s, 1, i)
  OBVIOUS
<1>4. u \in Seq(S) /\ Len(u) = i /\ \A j \in 1..i : u[j] = s[j]
  BY <1>1, <1>2, <1>3, SubSeqProperties
<1>5. IsSeq(u)
  BY <1>4, SeqIsItsOwn
<1>6. t = u
  BY <1>1, <1>4, <1>5, ListsEqual
<1> QED  BY <1>1, <1>3, <1>6

\* What the frame f was when it began its argument i + 1.
CutFrame(f, kind, i) ==
  [k |-> kind, fun |-> f.fun, args |-> f.args, got |-> NULL, marks |-> SubSeq(f.marks, 1, i + 1),
   cats |-> SubSeq(f.cats, 1, i), trees |-> SubSeq(f.trees, 1, i)]

\* A configuration that the run has come past is one that the frames remember.
LEMMA PastExact ==
  ASSUME NEW c, GoodConfig(c), NEW d, GoodConfig(d), NEW x \in 1..c.n, NEW f, f = c.st[x],
         f.k # "infer", NEW i \in 0..Len(f.cats), Past(c, x, i, d)
  PROVE  /\ d.n = x /\ \A y \in 1..(x - 1) : d.st[y] = c.st[y]
         /\ d.idx = f.marks[i + 1] /\ d.got = NULL
         /\ d.st[x] = CutFrame(f, "args", i)
<1>1. x \in Nat /\ x > 0 /\ x # 0 /\ d.n = x /\ x \in 1..x
  BY DEF GoodConfig, Past
<1>2. PICK g : g = d.st[x]
  OBVIOUS
<1>3. g.k = "args" /\ Len(g.cats) = i /\ SameUpTo(c, d, x, i)
  BY <1>2 DEF Past
<1>4. GoodApp(g, d.idx) /\ GoodTop(d, g) /\ GoodApp(f, c.idx)
  BY <1>1, <1>2, <1>3 DEF GoodConfig
<1>5. d.got = NULL /\ g.got = NULL /\ d.idx = LastMark(d, x)
  BY <1>1, <1>3, <1>4 DEF GoodTop
<1>6. /\ Len(f.cats) \in Nat /\ i \in Nat /\ i <= Len(f.cats)
      /\ Len(f.trees) = Len(f.cats) /\ Len(f.marks) = Len(f.cats) + 1
      /\ Len(g.trees) = i /\ Len(g.marks) = i + 1
  BY <1>3, <1>4, ListFacts DEF GoodApp
<1>7. d.idx = f.marks[i + 1]
  <2>1. d.idx = g.marks[i + 1]
    BY <1>1, <1>2, <1>5, <1>6 DEF LastMark
  <2>2. i + 1 \in 1..(i + 1)
    BY <1>6
  <2>3. g.marks[i + 1] = f.marks[i + 1]
    BY <1>2, <1>3, <2>2 DEF SameUpTo
  <2> QED  BY <2>1, <2>3
<1>8. g.cats = SubSeq(f.cats, 1, i)
  <2>1. \A j \in 1..Len(g.cats) : g.cats[j] = f.cats[j]
    BY <1>2, <1>3 DEF SameUpTo
  <2>2. IsSeq(g.cats) /\ IsSeq(f.cats) /\ Len(g.cats) <= Len(f.cats)
    BY <1>3, <1>4, <1>6 DEF GoodApp
  <2>3. g.cats = SubSeq(f.cats, 1, Len(g.cats))
    BY <2>1, <2>2, SubSeqIs
  <2> QED  BY <1>3, <2>3
<1>9. g.trees = SubSeq(f.trees, 1, i)
  <2>1. \A j \in 1..Len(g.trees) : g.trees[j] = f.trees[j]
    BY <1>2, <1>3, <1>6 DEF SameUpTo
  <2>2. IsSeq(g.trees) /\ IsSeq(f.trees) /\ Len(g.trees) <= Len(f.trees)
    BY <1>4, <1>6 DEF GoodApp
  <2>3. g.trees = SubSeq(f.trees, 1, Len(g.trees))
    BY <2>1, <2>2, SubSeqIs
  <2> QED  BY <1>6, <2>3
<1>10. g.marks = SubSeq(f.marks, 1, i + 1)
  <2>1. \A j \in 1..Len(g.marks) : g.marks[j] = f.marks[j]
    BY <1>2, <1>3, <1>6 DEF SameUpTo
  <2>2. IsSeq(g.marks) /\ IsSeq(f.marks) /\ Len(g.marks) <= Len(f.marks)
    BY <1>4, <1>6, SeqIsItsOwn DEF GoodApp
  <2>3. g.marks = SubSeq(f.marks, 1, Len(g.marks))
    BY <2>1, <2>2, SubSeqIs
  <2> QED  BY <1>6, <2>3
<1>11. g.fun = f.fun /\ g.args = f.args /\ \A y \in 1..(x - 1) : d.st[y] = c.st[y]
  BY <1>2, <1>3 DEF SameUpTo
<1>12. g = CutFrame(f, "args", i)
  BY <1>3, <1>4, <1>5, <1>8, <1>9, <1>10, <1>11 DEF GoodApp, CutFrame
<1> QED  BY <1>1, <1>2, <1>5, <1>7, <1>11, <1>12

\* All of the frame.
LEMMA CutNothing ==
  ASSUME NEW f, NEW j, GoodApp(f, j), f.k = "args", f.got = NULL
  PROVE  CutFrame(f, "args", Len(f.cats)) = f
<1>1. IsSeq(f.marks)
  BY SeqIsItsOwn DEF GoodApp
<1>2. /\ f.marks = SubSeq(f.marks, 1, Len(f.marks))
      /\ f.cats = SubSeq(f.cats, 1, Len(f.cats))
      /\ f.trees = SubSeq(f.trees, 1, Len(f.trees))
  <2>1. \A s : IsSeq(s) => s = SubSeq(s, 1, Len(s))
    <3> SUFFICES ASSUME NEW s, IsSeq(s) PROVE s = SubSeq(s, 1, Len(s))
      OBVIOUS
    <3>1. Len(s) <= Len(s)
      BY ListFacts
    <3> QED  BY <3>1, SubSeqIs
  <2> QED  BY <1>1, <2>1 DEF GoodApp
<1> QED  BY <1>2 DEF GoodApp, CutFrame

\* The frames of the stack s under its top one are those of configuration c.
Below(s, c) ==
  /\ c.n > 0 /\ IsSeq(s) /\ Len(s) = c.n + 1
  /\ \A x \in 1..c.n : x < c.n => s[c.n + 1 - x] = c.st[x]
  /\ Base(s[c.n + 1]) /\ s[c.n + 1].got = c.got

LEMMA ShowsBelow ==
  ASSUME NEW s, NEW i, NEW c, c.n \in Nat, c.n > 0, Shows(s, i, c) \/ ShowsBack(s, i, c)
  PROVE  Below(s, c)
<1>1. CASE Shows(s, i, c)
  BY <1>1 DEF Shows, Below
<1>2. CASE ShowsBack(s, i, c)
  <2>1. \A x \in 1..c.n : x < c.n => s[c.n + 1 - x] = c.st[x]
    <3> TAKE x \in 1..c.n
    <3> HAVE x < c.n
    <3>1. x # c.n
      OBVIOUS
    <3> QED  BY <1>2, <3>1 DEF ShowsBack
  <2> QED  BY <1>2, <2>1 DEF ShowsBack, Below
<1> QED  BY <1>1, <1>2

\* The top frame becomes what it was before, and then may fail again.
LEMMA ShowsCut ==
  ASSUME NEW s, NEW c, Below(s, c), NEW d, d.n \in Nat, d.n = c.n, d.got = c.got,
         \A y \in 1..(c.n - 1) : d.st[y] = c.st[y],
         NEW g, NEW t, t = <<g>> \o Tail(s)
  PROVE  /\ SameBase(s, t)
         /\ g = d.st[d.n] => Shows(t, d.idx, d)
         /\ d.st[d.n].k = "args" /\ g = Failing(d.st[d.n]) => ShowsBack(t, d.idx, d)
<1>1. PICK n \in Nat : n = c.n /\ d.n = n /\ n > 0
  BY DEF Below
<1>2. IsSeq(s) /\ Len(s) = n + 1 /\ Base(s[n + 1]) /\ s[n + 1].got = d.got
  BY <1>1 DEF Below
<1>3. IsSeq(t) /\ Len(t) = n + 1 /\ t[1] = g /\ \A x \in 2..(n + 1) : t[x] = s[x]
  <2>1. Len(s) > 0
    BY <1>1, <1>2
  <2>2. IsSeq(t)
    BY <1>2, <2>1, BecomeFacts
  <2>3. Len(t) = Len(s)
    BY <1>2, <2>1, BecomeFacts
  <2>4. t[1] = g
    BY <1>2, <2>1, BecomeFacts
  <2>5. \A x \in 2..Len(s) : t[x] = s[x]
    BY <1>2, <2>1, BecomeFacts
  <2> QED  BY <1>2, <2>2, <2>3, <2>4, <2>5
<1>4. ASSUME NEW x \in 1..n
      PROVE  /\ x = n => t[n + 1 - x] = g
             /\ x # n => t[n + 1 - x] = d.st[x]
  <2>1. CASE x = n
    <3>1. n + 1 - x = 1
      BY <2>1
    <3> QED  BY <1>3, <2>1, <3>1
  <2>2. CASE x # n
    <3>1. x \in 1..(n - 1) /\ x < n /\ n + 1 - x \in 2..(n + 1)
      BY <2>2
    <3>2. s[n + 1 - x] = c.st[x] /\ d.st[x] = c.st[x]
      BY <1>1, <3>1 DEF Below
    <3> QED  BY <1>3, <2>2, <3>1, <3>2
  <2> QED  BY <2>1, <2>2
<1>5. t[n + 1] = s[n + 1] /\ SameBase(s, t)
  BY <1>1, <1>2, <1>3 DEF SameBase
<1>6. ASSUME g = d.st[n] PROVE Shows(t, d.idx, d)
  <2>1. \A x \in 1..n : t[n + 1 - x] = d.st[x]
    BY <1>4, <1>6
  <2> QED  BY <1>1, <1>2, <1>3, <1>5, <2>1 DEF Shows
<1>7. ASSUME d.st[n].k = "args", g = Failing(d.st[n]) PROVE ShowsBack(t, d.idx, d)
  <2>1. \A x \in 1..n :
          t[n + 1 - x] = IF x = n THEN Failing(d.st[x]) ELSE d.st[x]
    BY <1>4, <1>7
  <2> QED  BY <1>1, <1>2, <1>3, <1>5, <1>7, <2>1 DEF ShowsBack
<1> QED  BY <1>1, <1>5, <1>6, <1>7

\* The stack s, whose top frame has failed, gives way to t: for the frame under
\* it that is the failure of its own, or the end.
FailsTo(s, c, t) ==
  /\ SameBase(s, t) /\ IsSeq(t)
  /\ c.n = 1 => Len(t) = 1 /\ Base(t[1]) /\ t[1].got = NULL
  /\ \A d : /\ c.n > 1 /\ d.n = c.n - 1 /\ d.got = c.got
            /\ \A y \in 1..(c.n - 1) : d.st[y] = c.st[y]
            /\ d.st[d.n].k = "args"
            => ShowsBack(t, d.idx, d)

LEMMA ShowsFailed ==
  ASSUME NEW s, NEW c, Below(s, c), c.n \in Nat,
         NEW b, b = IF c.n = 1 THEN Given(s[2], NULL) ELSE Failing(s[2]),
         NEW t, t = <<b>> \o Tail(Tail(s))
  PROVE  FailsTo(s, c, t)
<1>1. PICK n \in Nat, m \in Nat : n = c.n /\ n > 0 /\ m = n - 1 /\ n = m + 1 /\ c.n - 1 = m
  BY DEF Below
<1>2. IsSeq(s) /\ Len(s) = n + 1 /\ Base(s[n + 1]) /\ s[n + 1].got = c.got
  BY <1>1 DEF Below
<1>3. IsSeq(t) /\ Len(t) = n /\ t[1] = b /\ \A x \in 2..n : t[x] = s[x + 1]
  <2>1. Len(s) > 1 /\ Len(s) - 1 = n
    BY <1>1, <1>2
  <2>2. IsSeq(t)
    BY <1>2, <2>1, ReturnFacts
  <2>3. Len(t) = Len(s) - 1
    BY <1>2, <2>1, ReturnFacts
  <2>4. t[1] = b
    BY <1>2, <2>1, ReturnFacts
  <2>5. \A x \in 2..(Len(s) - 1) : t[x] = s[x + 1]
    BY <1>2, <2>1, ReturnFacts, SMTT(30)
  <2> QED  BY <2>1, <2>2, <2>3, <2>4, <2>5
<1>4. CASE n = 1
  <2>1. n + 1 = 2 /\ c.n = 1
    BY <1>1, <1>4
  <2>2. PICK a, r : a = s[2] /\ r = NULL
    OBVIOUS
  <2>3. b = Given(a, r) /\ Base(a)
    BY <1>2, <2>1, <2>2
  <2>4. Base(b) /\ b.got = NULL /\ b.k = a.k /\ (a.k = "build" => b.cat = a.cat)
    BY <2>2, <2>3, BaseGot
  <2>5. t[Len(t)] = b /\ s[Len(s)] = a
    BY <1>2, <1>3, <1>4, <2>1, <2>2
  <2>6. SameBase(s, t)
    BY <2>4, <2>5 DEF SameBase
  <2>7. ~(c.n > 1)
    BY <2>1
  <2> QED  BY <1>3, <1>4, <2>1, <2>4, <2>6, <2>7 DEF FailsTo
<1>5. CASE n # 1
  <2>1. n \in 2..n /\ c.n # 1 /\ b = Failing(s[2])
    BY <1>1, <1>5
  <2>2. t[n] = s[n + 1]
    BY <1>3, <2>1
  <2>3. SameBase(s, t)
    BY <1>2, <1>3, <2>2 DEF SameBase
  <2>4. ASSUME NEW d, d.n = c.n - 1, d.got = c.got, \A y \in 1..(c.n - 1) : d.st[y] = c.st[y],
               d.st[d.n].k = "args"
        PROVE  ShowsBack(t, d.idx, d)
    <3>1. d.n = m /\ m > 0 /\ d.st[m].k = "args"
      <4>1. d.n = m
        BY <1>1, <2>4
      <4>2. m > 0
        BY <1>1, <1>5
      <4> QED  BY <2>4, <4>1, <4>2
    <3>2. ASSUME NEW x \in 1..m
          PROVE  t[m + 1 - x] = IF x = m THEN Failing(d.st[x]) ELSE d.st[x]
      <4>0. x \in 1..n /\ x < n /\ n = m + 1
        BY <1>1
      <4>1. s[n + 1 - x] = c.st[x]
        BY <1>1, <4>0 DEF Below
      <4>2. d.st[x] = c.st[x]
        BY <1>1, <2>4
      <4>3. CASE x = m
        <5>1. m + 1 - x = 1 /\ n + 1 - x = 2
          BY <4>0, <4>3
        <5>2. s[2] = d.st[x]
          BY <4>1, <4>2, <5>1
        <5>3. t[m + 1 - x] = Failing(d.st[x])
          BY <1>3, <2>1, <5>1, <5>2
        <5> QED  BY <4>3, <5>3
      <4>4. CASE x # m
        <5>1. PICK y \in 2..n : y = m + 1 - x /\ y + 1 = n + 1 - x
          BY <4>0, <4>4
        <5>2. t[y] = s[y + 1]
          BY <1>3
        <5> QED  BY <4>1, <4>2, <4>4, <5>1, <5>2
      <4> QED  BY <4>3, <4>4
    <3>3. Len(t) = m + 1 /\ t[m + 1] = s[n + 1]
      BY <1>1, <1>3, <2>2
    <3> QED  BY <1>2, <1>3, <2>4, <3>1, <3>2, <3>3 DEF ShowsBack
  <2> QED  BY <1>3, <2>1, <2>3, <2>4 DEF FailsTo
<1> QED  BY <1>4, <1>5

-----------------------------------------------------------------------------
(* The inductive invariant *)

Bottom == stack[Len(stack)]

\* The inference is where the run H has been, or at its end.
Running(H, N, pos) ==
  /\ Run(H, N, ch.path) /\ pos \in 1..N
  /\ Shows(stack, ch.path_idx, H[pos])
  /\ Bottom.k = "build" => H[N].n = 0 /\ H[N].got.cat = Bottom.cat

\* It has failed in the application at the end of the run.
GoesBack(H, N) ==
  Run(H, N, ch.path) /\ ShowsBack(stack, ch.path_idx, H[N]) /\ Bottom.k # "build"

\* It has failed for good.
HasFailed ==
  /\ IsSeq(stack) /\ Len(stack) = 1 /\ stack[1] = [k |-> "dry", got |-> NULL]
  /\ ch = [path |-> <<>>, path_idx |-> 0]

AtWork ==
  \/ \E H, N, pos : Running(H, N, pos)
  \/ \E H, N : GoesBack(H, N)
  \/ HasFailed

LinearizeInv ==
  /\ IsSeq(lzr) /\ IsSeq(stack) /\ IsChoice(ch)
  /\ Idle /\ ~ended /\ expr # NULL =>
       ch.path_idx = 0 /\ expr = input.expr /\ \E H, N : Run(H, N, ch.path)
  /\ ~Idle => mark = 0 /\ expr = input.expr /\ AtWork

LEMMA RootIsGood == GoodConfig(Root) /\ Root.idx = 0 /\ Root.n = 1
<1>1. PICK c : c = Root
  OBVIOUS
<1>2. /\ c = [n |-> c.n, st |-> c.st, got |-> c.got, idx |-> c.idx]
      /\ c.n = 1 /\ c.idx = 0 /\ c.got = NULL /\ c.st = [x \in 1..1 |-> Infer(input.expr)]
  BY <1>1 DEF Root
<1>3. c.st[1] = Infer(input.expr) /\ c.st = [x \in 1..1 |-> c.st[x]]
  BY <1>2
<1>4. c.st[1].k = "infer" /\ c.st[1] = [k |-> "infer", expr |-> c.st[1].expr]
  BY <1>3 DEF Infer
<1>5. GoodTop(c, c.st[1])
  BY <1>2, <1>4 DEF GoodTop, LastMark
<1>6. GoodConfig(c)
  BY <1>2, <1>3, <1>4, <1>5 DEF GoodConfig
<1> QED  BY <1>1, <1>2, <1>6

\* The first configuration of a run.
LEMMA RunFirst ==
  ASSUME NEW H, NEW N, NEW path, Run(H, N, path)
  PROVE  1 \in 1..N /\ N \in 1..N /\ H[1] = Root /\ H[N].idx = Len(path) /\ N \in Nat /\ path \in Seq(Nat)
  BY DEF Run

\* Where the run stops, the inference is at its end.
LEMMA RunStops ==
  ASSUME NEW H, NEW N, NEW pos, Running(H, N, pos), ~Goes(H[pos])
  PROVE  pos = N
<1>1. pos \in 1..N /\ N \in Nat /\ (pos # N => pos \in 1..(N - 1))
  BY DEF Running, Run
<1>2. pos # N => Follows(H[pos], ch.path, H[pos + 1])
  BY <1>1 DEF Running, Run
<1> QED  BY <1>2 DEF Follows

LEMMA RunningConfig ==
  ASSUME NEW H, NEW N, NEW pos, Running(H, N, pos), NEW c, c = H[pos]
  PROVE  GoodConfig(c) /\ Shows(stack, ch.path_idx, c) /\ ch.path_idx = c.idx
  BY DEF Running, Run, Shows

\* It makes a step.
LEMMA GoOn ==
  ASSUME IndicesTyped, IsChoice(ch), NEW H, NEW N, NEW pos, Running(H, N, pos),
         NEW c, c = H[pos], Goes(c), NEW n, n = Ways(c),
         ch' = gu_choice_next(ch, n), NEW a, a = IF n = 0 THEN 0 ELSE NextDecision(ch, n),
         NEW e, e = After(c, a),
         Shows(stack', e.idx, e), SameBase(stack, stack'), lzr' = lzr, input' = input
  PROVE  IsChoice(ch') /\ \E G, M, q : Running(G, M, q)'
<1>0. PICK c0, c1 : c0 = ch /\ c1 = ch'
  OBVIOUS
<1>1. /\ IsChoice(c0) /\ Run(H, N, c0.path) /\ pos \in 1..N /\ Goes(H[pos])
      /\ c0.path_idx = H[pos].idx /\ n = Ways(H[pos]) /\ c1 = gu_choice_next(c0, n)
      /\ a = IF n = 0 THEN 0 ELSE NextDecision(c0, n)
  BY <1>0 DEF Running, Shows
<1>2. \E G, M : Onward(c1, H, N, pos, e, G, M)
  BY <1>1, RunOn
<1>3. PICK G, M : /\ Run(G, M, c1.path) /\ pos + 1 \in 1..M /\ G[pos + 1] = e
                  /\ IsChoice(c1) /\ c1.path_idx = e.idx
                  /\ pos < N => M = N /\ G = H
  BY <1>2 DEF Onward
<1>4. Run(G, M, c1.path)'
  <2>1. PICK path : path = c1.path
    OBVIOUS
  <2>2. Run(G, M, path)'
    BY <1>3, <2>1, RunStable
  <2> QED  BY <2>1, <2>2
<1>5. ASSUME Bottom'.k = "build" PROVE G[M].n = 0 /\ G[M].got.cat = Bottom'.cat
  <2>1. Bottom.k = "build" /\ Bottom'.cat = Bottom.cat
    BY <1>5 DEF SameBase, Bottom
  <2>2. H[N].n = 0 /\ H[N].got.cat = Bottom.cat
    BY <2>1 DEF Running
  <2>3. pos # N
    <3>1. c.n > 0
      BY DEF Goes
    <3> QED  BY <2>2, <3>1
  <2>4. pos < N
    BY <1>1, <2>3 DEF Run
  <2> QED  BY <1>3, <2>1, <2>2, <2>4
<1>6. PICK q : q = pos + 1
  OBVIOUS
<1>7. /\ Run(G, M, ch.path)' /\ q \in 1..M /\ Shows(stack', ch'.path_idx, G[q])
      /\ IsChoice(ch')
  BY <1>0, <1>3, <1>4, <1>6
<1>8. Running(G, M, q)'
  BY <1>5, <1>7 DEF Running
<1> QED  BY <1>7, <1>8

\* d is the configuration in which frame x of c, which is f, has begun its
\* argument i + 1.
WasAt(d, c, x, f, i) ==
  /\ GoodConfig(d) /\ d.n = x
  /\ \A y \in 1..(x - 1) : d.st[y] = c.st[y]
  /\ d.idx = f.marks[i + 1] /\ d.got = NULL
  /\ d.st[x] = CutFrame(f, "args", i)

LEMMA PastOf ==
  ASSUME NEW H, NEW N, NEW path, Run(H, N, path), NEW c, c = H[N],
         NEW x \in 1..c.n, NEW f, f = c.st[x], f.k # "infer", NEW i \in 0..Len(f.cats)
  PROVE  \E l \in 1..N : WasAt(H[l], c, x, f, i)
<1>1. N \in 1..N /\ GoodConfig(c) /\ HasPasts(H, N)
  BY DEF Run
<1>2. PICK l \in 1..N : Past(c, x, i, H[l])
  BY <1>1 DEF HasPasts
<1>3. GoodConfig(H[l])
  BY DEF Run
<1>4. PICK d : d = H[l]
  OBVIOUS
<1>5. /\ d.n = x /\ \A y \in 1..(x - 1) : d.st[y] = c.st[y]
      /\ d.idx = f.marks[i + 1] /\ d.got = NULL
      /\ d.st[x] = CutFrame(f, "args", i)
  BY <1>1, <1>2, <1>3, <1>4, PastExact
<1> QED  BY <1>3, <1>4, <1>5 DEF WasAt

\* The run is told of a failure in the application that it has begun last.
LEMMA FailReturns ==
  ASSUME IndicesTyped, IsChoice(ch), NEW H, NEW N, Run(H, N, ch.path), NEW c, c = H[N],
         Below(stack, c), c.idx = LastMark(c, c.n - 1), ch.path_idx = c.idx, Bottom.k # "build",
         NEW b, b = IF c.n = 1 THEN Given(stack[2], NULL) ELSE Failing(stack[2]),
         stack' = <<b>> \o Tail(Tail(stack)), ch' = ch, lzr' = lzr, input' = input
  PROVE  IsSeq(stack') /\ (HasFailed' \/ \E G, M : GoesBack(G, M)')
<1>1. PICK s, t, path : s = stack /\ t = stack' /\ path = ch.path
  OBVIOUS
<1>2. N \in 1..N /\ GoodConfig(c) /\ c.idx = Len(path) /\ path \in Seq(Nat) /\ Run(H, N, path)
  <2>1. Run(H, N, path)
    BY <1>1
  <2>2. N \in 1..N /\ H[N].idx = Len(path) /\ path \in Seq(Nat)
    BY <2>1, RunFirst
  <2>3. GoodConfig(H[N])
    BY <2>1, <2>2 DEF Run
  <2> QED  BY <2>1, <2>2, <2>3
<1>3. PICK n \in Nat : n = c.n /\ n > 0
  BY <1>2 DEF GoodConfig, Below
<1>4. /\ SameBase(s, t) /\ IsSeq(t)
      /\ n = 1 => Len(t) = 1 /\ Base(t[1]) /\ t[1].got = NULL
      /\ \A d : /\ c.n > 1 /\ d.n = c.n - 1 /\ d.got = c.got
                /\ \A y \in 1..(c.n - 1) : d.st[y] = c.st[y]
                /\ d.st[d.n].k = "args"
                => ShowsBack(t, d.idx, d)
  <2>1. Below(s, c) /\ b = IF c.n = 1 THEN Given(s[2], NULL) ELSE Failing(s[2])
    BY <1>1
  <2>2. t = <<b>> \o Tail(Tail(s))
    BY <1>1, Zenon
  <2>3. c.n \in Nat
    BY <1>3
  <2>4. FailsTo(s, c, t)
    BY <2>1, <2>2, <2>3, ShowsFailed
  <2> QED  BY <1>3, <2>4 DEF FailsTo
<1>5. t[Len(t)].k # "build"
  BY <1>1, <1>4 DEF SameBase, Bottom
<1>6. CASE n = 1
  <2>1. c.idx = 0
    BY <1>3, <1>6 DEF LastMark
  <2>2. path = <<>>
    BY <1>2, <2>1, EmptySeq
  <2>3. ch = [path |-> <<>>, path_idx |-> 0]
    BY <1>1, <2>1, <2>2 DEF IsChoice
  <2>4. t[1] = [k |-> "dry", got |-> NULL]
    <3>1. Base(t[1]) /\ t[1].got = NULL /\ t[1].k # "build"
      BY <1>4, <1>5, <1>6
    <3>2. CASE t[1] = [k |-> "build", cat |-> t[1].cat, got |-> t[1].got]
      BY <3>1, <3>2
    <3> QED  BY <3>1, <3>2 DEF Base
  <2>5. HasFailed'
    BY <1>1, <1>4, <1>6, <2>3, <2>4 DEF HasFailed
  <2> QED  BY <1>1, <1>4, <2>5
<1>7. CASE n # 1
  <2>1. PICK x \in Nat : x = n - 1 /\ x \in 1..n /\ x < n /\ x > 0 /\ x # 0
    BY <1>3, <1>7
  <2>2. PICK f : f = c.st[x]
    OBVIOUS
  <2>3. f.k = "args" /\ f.got = NULL /\ GoodApp(f, c.idx) /\ c.got = NULL
    BY <1>2, <1>3, <2>1, <2>2 DEF GoodConfig, GoodTop
  <2>4. PICK i \in Nat : i = Len(f.cats) /\ i \in 0..Len(f.cats) /\ Len(f.marks) = i + 1
    <3>1. Len(f.cats) \in Nat /\ Len(f.marks) = Len(f.cats) + 1
      BY <2>3, ListFacts DEF GoodApp
    <3> QED  BY <3>1
  <2>5. PICK l \in 1..N : WasAt(H[l], c, x, f, i)
    <3>1. x \in 1..c.n /\ f.k # "infer"
      BY <1>3, <2>1, <2>3
    <3> QED  BY <1>2, <2>2, <2>4, <3>1, PastOf
  <2>6. PICK d : /\ d = H[l] /\ GoodConfig(d) /\ d.n = x
                 /\ \A y \in 1..(x - 1) : d.st[y] = c.st[y]
                 /\ d.idx = f.marks[i + 1] /\ d.got = NULL
                 /\ d.st[x] = CutFrame(f, "args", i)
    BY <2>5 DEF WasAt
  <2>7. d.st[x] = f
    BY <2>3, <2>4, <2>6, CutNothing
  <2>8. \A y \in 1..(c.n - 1) : d.st[y] = c.st[y]
    <3> TAKE y \in 1..(c.n - 1)
    <3>1. y = x \/ y \in 1..(x - 1)
      BY <1>3, <2>1
    <3> QED  BY <2>2, <2>6, <2>7, <3>1
  <2>9. d.idx = c.idx
    <3>1. c.n - 1 = x
      BY <1>3, <2>1
    <3>2. c.idx = LastMark(c, x)
      BY <3>1
    <3> QED  BY <2>1, <2>2, <2>4, <2>6, <3>2 DEF LastMark
  <2>10. ShowsBack(t, d.idx, d)
    <3>1. c.n > 1 /\ d.n = c.n - 1 /\ d.got = c.got /\ d.st[d.n].k = "args"
      BY <1>3, <1>7, <2>1, <2>3, <2>6, <2>7
    <3> QED  BY <1>4, <2>8, <3>1
  <2>11. Run(H, l, path)
    <3>1. PICK cut : cut = SubSeq(path, 1, H[l].idx)
      OBVIOUS
    <3>2. Run(H, l, cut) /\ Len(cut) = H[l].idx /\ \A j \in 1..H[l].idx : cut[j] = path[j]
      <4>1. CutsTo(H, l, path, cut)
        BY <1>2, <3>1, RunCut
      <4> QED  BY <4>1 DEF CutsTo
    <3>3. Len(cut) = Len(path) /\ \A j \in 1..Len(path) : cut[j] = path[j]
      BY <1>2, <2>6, <2>9, <3>2
    <3>4. cut \in Seq(Nat)
      BY <3>2 DEF Run
    <3>5. cut = path
      BY <1>2, <3>3, <3>4, SeqEqual
    <3> QED  BY <3>2, <3>5
  <2>12. Run(H, l, path)'
    BY <2>11, RunStable
  <2>13. Run(H, l, ch.path)'
    BY <1>1, <2>12
  <2>14. ShowsBack(stack', ch'.path_idx, H[l]) /\ Bottom'.k # "build"
    BY <1>1, <1>5, <2>6, <2>9, <2>10 DEF Bottom
  <2>15. GoesBack(H, l)'
    BY <2>13, <2>14 DEF GoesBack
  <2> QED  BY <1>1, <1>4, <2>15
<1> QED  BY <1>6, <1>7

-----------------------------------------------------------------------------
(* The actions *)

\* What pgf_lzn_infer returns to.
LEMMA ReturnIs ==
  ASSUME NEW c, GoodConfig(c), Below(stack, c), NEW r, Return(r),
         NEW b, b = IF c.n = 1 THEN Given(stack[2], r)
                    ELSE IF r = NULL THEN Failing(stack[2])
                    ELSE Told(stack[2], r)
  PROVE  stack' = <<b>> \o Tail(Tail(stack))
<1>1. PICK f : f = stack[2]
  OBVIOUS
<1>2. c.n \in Nat /\ c.n > 0
  BY DEF GoodConfig, Below
<1>3. CASE c.n = 1
  <2>1. f.k \in {"dry", "build"}
    <3>1. Base(f)
      BY <1>1, <1>3 DEF Below
    <3> QED  BY <3>1 DEF Base
  <2>2. b = [f EXCEPT !.got = r]
    BY <1>1, <1>3 DEF Given
  <2> QED  BY <1>1, <2>1, <2>2 DEF Return
<1>4. CASE c.n # 1
  <2>0. PICK n \in Nat : n = c.n /\ n > 1
    BY <1>2, <1>4
  <2>1. PICK x \in Nat : x = n - 1 /\ x \in 1..n /\ x < n
    BY <2>0
  <2>7. n + 1 - x = 2
    BY <2>1
  <2>2. f = c.st[x]
    BY <1>1, <2>0, <2>1, <2>7 DEF Below
  <2>3. f.k = "args"
    BY <2>0, <2>1, <2>2 DEF GoodConfig
  <2>4. b = IF r = NULL THEN [f EXCEPT !.k = "back"] ELSE [f EXCEPT !.k = "super", !.got = r]
    BY <1>1, <1>4 DEF Failing, Told
  <2>5. CASE r = NULL
    BY <1>1, <2>3, <2>4, <2>5 DEF Return
  <2>6. CASE r # NULL
    BY <1>1, <2>3, <2>4, <2>6 DEF Return
  <2> QED  BY <2>5, <2>6
<1> QED  BY <1>3, <1>4

LEMMA ReturnShows ==
  ASSUME NEW c, GoodConfig(c), Shows(stack, ch.path_idx, c), c.n > 0, NEW r, r # NULL, Return(r),
         NEW j, NEW e, e = Returned(c, r, j)
  PROVE  Shows(stack', j, e) /\ SameBase(stack, stack')
<1>1. PICK b : b = Back(stack, c, r)
  OBVIOUS
<1>2. c.n \in Nat
  BY DEF GoodConfig
<1>3. Below(stack, c)
  BY <1>2, ShowsBelow
<1>4. stack' = <<b>> \o Tail(Tail(stack))
  <2>1. b = IF c.n = 1 THEN Given(stack[2], r) ELSE IF r = NULL THEN Failing(stack[2])
            ELSE Told(stack[2], r)
    BY <1>1 DEF Back
  <2> QED  BY <1>3, <2>1, ReturnIs
<1>5. PICK s, t, i : s = stack /\ t = stack' /\ i = ch.path_idx
  OBVIOUS
<1>6. /\ Shows(s, i, c) /\ t = <<b>> \o Tail(Tail(s))
      /\ b = Back(s, c, r)
  BY <1>1, <1>4, <1>5
<1>7. Shows(t, j, e)
  <2>1. \A b0, e0, t0 : /\ b0 = Back(s, c, r) /\ e0 = Returned(c, r, j)
                       /\ t0 = <<b0>> \o Tail(Tail(s))
                       => Shows(t0, j, e0)
    BY <1>6, ShowsReturned
  <2> QED  BY <1>6, <2>1
<1>8. SameBase(s, t)
  BY <1>6, ShowsReturned
<1> QED  BY <1>5, <1>7, <1>8

LEMMA BecomeShows ==
  ASSUME NEW c, GoodConfig(c), Shows(stack, ch.path_idx, c), c.n > 0, NEW f, Become(f),
         NEW j, NEW e, e = Put(c, f, j)
  PROVE  Shows(stack', j, e) /\ SameBase(stack, stack')
<1>1. PICK s, t, i : s = stack /\ t = stack' /\ i = ch.path_idx
  OBVIOUS
<1>2. Shows(s, i, c) /\ t = <<f>> \o Tail(s)
  BY <1>1 DEF Become
<1>3. Shows(t, j, e) /\ SameBase(s, t)
  BY <1>2, ShowsPut
<1> QED  BY <1>1, <1>3

\* The top of the stack in the three states of the inference.
LEMMA RunningTop ==
  ASSUME NEW H, NEW N, NEW pos, Running(H, N, pos), NEW c, c = H[pos]
  PROVE  /\ ~Idle /\ GoodConfig(c) /\ Shows(stack, ch.path_idx, c) /\ ch.path_idx = c.idx
         /\ c.n > 0 => Top = c.st[c.n] /\ Top.k \in {"infer", "args", "super"}
         /\ c.n = 0 => Top = Bottom /\ Top.k \in {"dry", "build"} /\ Base(Top) /\ Top.got = c.got
         /\ c.n = 0 => IsResult(c.got) /\ pos = N
<1>1. GoodConfig(c) /\ Shows(stack, ch.path_idx, c) /\ ch.path_idx = c.idx
  BY RunningConfig
<1>2. PICK s, i : s = stack /\ i = ch.path_idx
  OBVIOUS
<1>3. /\ c.n \in Nat /\ IsSeq(s) /\ Len(s) = c.n + 1 /\ i = c.idx /\ s # <<>>
      /\ c.n > 0 => s[1] = c.st[c.n] /\ Len(s) > 1 /\ Len(s) > 0
      /\ c.n = 0 => s[1] = s[Len(s)] /\ s[1].got = c.got
      /\ Base(s[Len(s)]) /\ s[Len(s)].got = c.got
  BY <1>1, <1>2, ShowsTop
<1>4. c.n > 0 => c.st[c.n].k \in {"infer", "args", "super"}
  BY <1>1 DEF GoodConfig, GoodTop
<1>5. c.n = 0 => s[1].k \in {"dry", "build"}
  BY <1>3 DEF Base
<1>6. c.n = 0 => IsResult(c.got)
  BY <1>1 DEF GoodConfig
<1>7. c.n = 0 => pos = N
  <2>1. c.n = 0 => ~Goes(H[pos])
    BY DEF Goes
  <2> QED  BY <2>1, RunStops
<1> QED  BY <1>1, <1>2, <1>3, <1>4, <1>5, <1>6, <1>7 DEF Idle, Top, Bottom

LEMMA GoesBackTop ==
  ASSUME NEW H, NEW N, GoesBack(H, N), NEW c, c = H[N]
  PROVE  /\ ~Idle /\ GoodConfig(c) /\ c.n > 0 /\ c.st[c.n].k = "args" /\ ch.path_idx = c.idx
         /\ Top = Failing(c.st[c.n]) /\ Top.k = "back" /\ Below(stack, c)
<1>1. PICK s, i : s = stack /\ i = ch.path_idx
  OBVIOUS
<1>2. ShowsBack(s, i, c) /\ GoodConfig(c)
  BY <1>1 DEF GoesBack, Run
<1>3. PICK n \in Nat : n = c.n /\ n > 0 /\ n \in 1..c.n /\ c.n + 1 - n = 1 /\ n + 1 > 0
  BY <1>2 DEF GoodConfig, ShowsBack
<1>4. PICK f : f = c.st[n]
  OBVIOUS
<1>5. s[1] = Failing(f) /\ Len(s) = n + 1 /\ IsSeq(s) /\ i = c.idx /\ f.k = "args"
  BY <1>2, <1>3, <1>4 DEF ShowsBack
<1>6. s # <<>>
  BY <1>3, <1>5, EmptySeq
<1>7. Failing(f).k = "back"
  <2>1. f = [k |-> f.k, fun |-> f.fun, args |-> f.args, got |-> f.got,
             marks |-> f.marks, cats |-> f.cats, trees |-> f.trees]
    BY <1>2, <1>3, <1>4, <1>5 DEF GoodConfig, GoodApp
  <2> QED  BY <2>1 DEF Failing
<1>8. Below(s, c)
  BY <1>2, <1>3, ShowsBelow
<1> QED  BY <1>1, <1>2, <1>3, <1>4, <1>5, <1>6, <1>7, <1>8 DEF Idle, Top

LEMMA AtWorkStack == AtWork => ~Idle /\ IsSeq(stack)
<1>1. ASSUME NEW H, NEW N, NEW pos, Running(H, N, pos) PROVE ~Idle /\ IsSeq(stack)
  <2>1. PICK c : c = H[pos]
    OBVIOUS
  <2>2. ~Idle /\ Shows(stack, ch.path_idx, c)
    BY <1>1, <2>1, RunningTop
  <2> QED  BY <2>2 DEF Shows
<1>2. ASSUME NEW H, NEW N, GoesBack(H, N) PROVE ~Idle /\ IsSeq(stack)
  <2>1. PICK c : c = H[N]
    OBVIOUS
  <2>2. ~Idle /\ Below(stack, c)
    BY <1>2, <2>1, GoesBackTop
  <2> QED  BY <2>2 DEF Below
<1>3. ASSUME HasFailed PROVE ~Idle /\ IsSeq(stack)
  <2>1. PICK s : s = stack
    OBVIOUS
  <2>2. Len(s) = 1
    BY <1>3, <2>1 DEF HasFailed
  <2>3. s # <<>>
    BY <2>2, EmptySeq
  <2>4. IsSeq(stack)
    BY <1>3 DEF HasFailed
  <2> QED  BY <2>1, <2>3, <2>4 DEF Idle
<1> QED  BY <1>1, <1>2, <1>3 DEF AtWork

\* A step of the inference that leaves it at work.
LEMMA StaysAtWork ==
  ASSUME LinearizeInv, ~Idle, lzr' = lzr, input' = input, expr' = expr, mark' = mark,
         IsChoice(ch'), AtWork'
  PROVE  LinearizeInv'
<1>1. (AtWork => ~Idle /\ IsSeq(stack))'
  BY AtWorkStack, PTL
<1>2. IsSeq(lzr')
  BY DEF LinearizeInv
<1> QED  BY <1>1, <1>2 DEF LinearizeInv

\* The inference is in pgf_lzn_infer, InferArg, InferEntry or pick_supercat.
LEMMA InRun ==
  ASSUME LinearizeInv, ~Idle, Top.k \in {"infer", "args", "super"}
  PROVE  /\ mark = 0 /\ expr = input.expr /\ IsChoice(ch) /\ IndicesTyped
         /\ \E H, N, pos : Running(H, N, pos) /\ H[pos].n > 0
<1>1. mark = 0 /\ expr = input.expr /\ IsChoice(ch) /\ AtWork /\ IndicesTyped
  BY IndexFacts DEF LinearizeInv
<1>2. ~HasFailed
  BY DEF HasFailed, Top
<1>3. ASSUME NEW H, NEW N, GoesBack(H, N) PROVE FALSE
  <2>1. PICK c : c = H[N]
    OBVIOUS
  <2>2. Top.k = "back"
    BY <1>3, <2>1, GoesBackTop
  <2> QED  BY <2>2
<1>4. PICK H, N, pos : Running(H, N, pos)
  BY <1>1, <1>2, <1>3 DEF AtWork
<1>5. PICK c : c = H[pos]
  OBVIOUS
<1>6. c.n # 0
  BY <1>4, <1>5, RunningTop
<1>7. c.n \in Nat
  BY <1>4, <1>5, RunningConfig DEF GoodConfig
<1>8. H[pos].n > 0
  BY <1>5, <1>6, <1>7
<1> QED  BY <1>1, <1>4, <1>8

\* A step without a decision.
LEMMA GoOnAlone ==
  ASSUME LinearizeInv, ~Idle, IndicesTyped, NEW H, NEW N, NEW pos, Running(H, N, pos),
         NEW c, c = H[pos], Goes(c), Ways(c) = 0, NEW e, e = After(c, 0),
         Shows(stack', c.idx, e), SameBase(stack, stack'), e.idx = c.idx,
         UNCHANGED <<input, lzr, expr, ch, mark>>
  PROVE  LinearizeInv'
<1>1. ch' = gu_choice_next(ch, 0)
  BY DEF gu_choice_next
<1>2. IsChoice(ch)
  BY DEF LinearizeInv
<1>3. Shows(stack', e.idx, e)
  OBVIOUS
<1>4. IsChoice(ch') /\ \E G, M, q : Running(G, M, q)'
  BY <1>1, <1>2, <1>3, GoOn
<1> QED  BY <1>4, StaysAtWork DEF AtWork

\* A failure of the inference that has begun last.
LEMMA FailOn ==
  ASSUME LinearizeInv, ~Idle, IndicesTyped, NEW H, NEW N, Run(H, N, ch.path), NEW c, c = H[N],
         GoodConfig(c), Below(stack, c), c.idx = LastMark(c, c.n - 1), ch.path_idx = c.idx,
         Bottom.k # "build", Return(NULL), UNCHANGED <<input, lzr, expr, ch, mark>>
  PROVE  LinearizeInv'
<1>1. PICK b : b = IF c.n = 1 THEN Given(stack[2], NULL) ELSE Failing(stack[2])
  OBVIOUS
<1>2. IsChoice(ch)
  BY DEF LinearizeInv
<1>3. stack' = <<b>> \o Tail(Tail(stack))
  BY <1>1, ReturnIs
<1>4. HasFailed' \/ \E G, M : GoesBack(G, M)'
  BY <1>1, <1>2, <1>3, FailReturns
<1> QED  BY <1>2, <1>4, StaysAtWork DEF AtWork

LEMMA InferStep ==
  ASSUME NullIsNoResult, LinearizeInv, pgf_lzn_infer
  PROVE  LinearizeInv'
<1>1. PICK f : f = Top
  OBVIOUS
<1>2. /\ ~Idle /\ f.k = "infer"
      /\ f.expr.fun = Literal => Return([cat |-> LitCat, tree |-> f.expr])
      /\ f.expr.fun # Literal /\ ~HasFun(f.expr.fun) => Return(NULL)
      /\ f.expr.fun # Literal /\ HasFun(f.expr.fun) => Become(Opened(f, ch.path_idx))
      /\ UNCHANGED <<input, lzr, expr, ch, mark>>
  BY <1>1 DEF pgf_lzn_infer, At, Opened, gu_choice_mark
<1>3. Top.k \in {"infer", "args", "super"}
  BY <1>1, <1>2
<1>4. PICK H, N, pos : Running(H, N, pos) /\ H[pos].n > 0
  BY <1>2, <1>3, InRun
<1>5. IndicesTyped
  BY <1>2, <1>3, InRun
<1>6. PICK c : c = H[pos]
  OBVIOUS
<1>7. /\ GoodConfig(c) /\ c.n > 0 /\ Shows(stack, ch.path_idx, c) /\ ch.path_idx = c.idx
      /\ f = c.st[c.n] /\ c.n \in Nat
  BY <1>1, <1>4, <1>6, RunningTop DEF GoodConfig
<1>8. CASE f.expr.fun = Literal
  <2>1. PICK r : r = [cat |-> LitCat, tree |-> f.expr]
    OBVIOUS
  <2>2. r # NULL /\ Return(r)
    BY <1>2, <1>8, <2>1 DEF NullIsNoResult
  <2>3. ToReturn(f)
    BY <1>2, <1>8 DEF ToReturn
  <2>4. PICK e : e = After(c, 0)
    OBVIOUS
  <2>5. Goes(c) /\ Ways(c) = 0 /\ e = Returned(c, r, c.idx)
    BY <1>7, <2>1, <2>3, <2>4, AfterReturn
  <2>6. Shows(stack', c.idx, e) /\ SameBase(stack, stack')
    BY <1>7, <2>2, <2>5, ReturnShows
  <2>7. e.idx = c.idx
    BY <2>5 DEF Returned
  <2> QED  BY <1>2, <1>4, <1>5, <1>6, <2>4, <2>5, <2>6, <2>7, GoOnAlone
<1>9. CASE f.expr.fun # Literal /\ HasFun(f.expr.fun)
  <2>1. PICK g : g = Opened(f, c.idx)
    OBVIOUS
  <2>2. Become(g)
    BY <1>2, <1>7, <1>9, <2>1
  <2>3. ToOpen(f)
    BY <1>2, <1>9 DEF ToOpen
  <2>4. PICK e : e = After(c, 0)
    OBVIOUS
  <2>5. Goes(c) /\ Ways(c) = 0 /\ e = Put(c, g, c.idx)
    BY <1>7, <2>1, <2>3, <2>4, AfterOpen
  <2>6. Shows(stack', c.idx, e) /\ SameBase(stack, stack')
    BY <1>7, <2>2, <2>5, BecomeShows
  <2>7. e.idx = c.idx
    BY <2>5 DEF Put
  <2> QED  BY <1>2, <1>4, <1>5, <1>6, <2>4, <2>5, <2>6, <2>7, GoOnAlone
<1>10. CASE f.expr.fun # Literal /\ ~HasFun(f.expr.fun)
  <2>1. ~Goes(c)
    BY <1>2, <1>7, <1>10 DEF Goes, ToReturn, ToOpen, ToCall, ToChoose, ToKeep, ToPick
  <2>2. pos = N
    BY <1>4, <1>6, <2>1, RunStops
  <2>3. Run(H, N, ch.path) /\ c = H[N] /\ Bottom.k # "build"
    BY <1>4, <1>6, <1>7, <2>2 DEF Running
  <2>4. c.idx = LastMark(c, c.n - 1)
    BY <1>2, <1>7, TopFacts
  <2>5. Below(stack, c)
    BY <1>7, ShowsBelow
  <2> QED  BY <1>2, <1>5, <1>7, <1>10, <2>3, <2>4, <2>5, FailOn
<1> QED  BY <1>8, <1>9, <1>10

LEMMA InferArgStep ==
  ASSUME LinearizeInv, InferArg
  PROVE  LinearizeInv'
<1>1. PICK f : f = Top
  OBVIOUS
<1>2. PICK g : g = Infer(f.args[Len(f.cats) + 1])
  OBVIOUS
<1>3. /\ ~Idle /\ ToCall(f) /\ f.k = "args" /\ stack' = <<g>> \o stack
      /\ UNCHANGED <<input, lzr, expr, ch, mark>>
  BY <1>1, <1>2 DEF InferArg, At, ToCall
<1>4. Top.k \in {"infer", "args", "super"}
  BY <1>1, <1>3
<1>5. PICK H, N, pos : Running(H, N, pos) /\ H[pos].n > 0
  BY <1>3, <1>4, InRun
<1>6. IndicesTyped
  BY <1>3, <1>4, InRun
<1>7. PICK c : c = H[pos]
  OBVIOUS
<1>8. /\ GoodConfig(c) /\ c.n > 0 /\ Shows(stack, ch.path_idx, c) /\ ch.path_idx = c.idx
      /\ f = c.st[c.n]
  BY <1>1, <1>5, <1>7, RunningTop
<1>9. PICK e : e = After(c, 0)
  OBVIOUS
<1>10. Goes(c) /\ Ways(c) = 0 /\ e = Pushed(c, g)
  BY <1>2, <1>3, <1>8, <1>9, AfterCall
<1>11. Shows(stack', c.idx, e) /\ SameBase(stack, stack')
  <2>1. PICK s, t, i : s = stack /\ t = stack' /\ i = ch.path_idx
    OBVIOUS
  <2>2. Shows(s, i, c) /\ t = <<g>> \o s /\ i = c.idx
    BY <1>3, <1>8, <2>1
  <2>3. Shows(t, i, e) /\ SameBase(s, t)
    BY <1>8, <1>10, <2>2, ShowsPushed
  <2> QED  BY <2>1, <2>2, <2>3
<1>12. e.idx = c.idx
  BY <1>10 DEF Pushed
<1> QED  BY <1>3, <1>5, <1>6, <1>7, <1>9, <1>10, <1>11, <1>12, GoOnAlone

\* A step with a decision.
LEMMA GoOnChoosing ==
  ASSUME LinearizeInv, ~Idle, IndicesTyped, NEW H, NEW N, NEW pos, Running(H, N, pos),
         NEW c, c = H[pos], Goes(c), NEW n, n = Ways(c), n > 0,
         NEW e, e = After(c, NextDecision(ch, n)), ch' = gu_choice_next(ch, n),
         Shows(stack', e.idx, e), SameBase(stack, stack'),
         UNCHANGED <<input, lzr, expr, mark>>
  PROVE  LinearizeInv'
<1>1. IsChoice(ch)
  BY DEF LinearizeInv
<1>2. PICK a : a = NextDecision(ch, n)
  OBVIOUS
<1>3. a = IF n = 0 THEN 0 ELSE NextDecision(ch, n)
  BY <1>2
<1>4. e = After(c, a)
  BY <1>2
<1>5. IsChoice(ch') /\ \E G, M, q : Running(G, M, q)'
  BY <1>1, <1>3, <1>4, GoOn
<1> QED  BY <1>5, StaysAtWork DEF AtWork

LEMMA PickStep ==
  ASSUME LinearizeInv, pgf_lzn_pick_supercat
  PROVE  LinearizeInv'
<1>1. PICK f, supers, n, d : /\ f = Top /\ supers = Supers(f.got.cat) /\ n = Len(supers) + 1
                            /\ d = NextDecision(ch, n)
  OBVIOUS
<1>2. ~Idle /\ f.k = "super" /\ UNCHANGED <<input, lzr, expr, mark>>
  BY <1>1 DEF pgf_lzn_pick_supercat, At
<1>3. /\ supers = <<>> => Become(WithArg(f, f.got.cat, ch.path_idx)) /\ ch' = ch
      /\ supers # <<>> =>
           /\ ch' = gu_choice_next(ch, n)
           /\ d = 0 => Become(WithArg(f, f.got.cat, gu_choice_next(ch, n).path_idx))
           /\ d # 0 => Become(Recat(f, supers[d]))
  BY <1>1 DEF pgf_lzn_pick_supercat, SetArg, WithArg, Recat, gu_choice_mark
<1>4. Top.k \in {"infer", "args", "super"}
  BY <1>1, <1>2
<1>5. PICK H, N, pos : Running(H, N, pos) /\ H[pos].n > 0
  BY <1>2, <1>4, InRun
<1>6. IndicesTyped
  BY <1>2, <1>4, InRun
<1>7. PICK c : c = H[pos]
  OBVIOUS
<1>8. /\ GoodConfig(c) /\ c.n > 0 /\ Shows(stack, ch.path_idx, c) /\ ch.path_idx = c.idx
      /\ f = c.st[c.n]
  BY <1>1, <1>5, <1>7, RunningTop
<1>9. CASE supers = <<>>
  <2>1. PICK g : g = WithArg(f, f.got.cat, c.idx)
    OBVIOUS
  <2>2. Become(g) /\ ch' = ch
    BY <1>3, <1>8, <1>9, <2>1
  <2>3. ToKeep(f)
    BY <1>1, <1>2, <1>9 DEF ToKeep
  <2>4. PICK e : e = After(c, 0)
    OBVIOUS
  <2>5. Goes(c) /\ Ways(c) = 0 /\ e = Put(c, g, c.idx)
    BY <1>8, <2>1, <2>3, <2>4, AfterKeep
  <2>6. Shows(stack', c.idx, e) /\ SameBase(stack, stack')
    BY <1>8, <2>2, <2>5, BecomeShows
  <2>7. e.idx = c.idx
    BY <2>5 DEF Put
  <2> QED  BY <1>2, <1>5, <1>6, <1>7, <2>2, <2>4, <2>5, <2>6, <2>7, GoOnAlone
<1>10. CASE supers # <<>>
  <2>1. ToPick(f)
    BY <1>1, <1>2, <1>10 DEF ToPick
  <2>2. PICK e : e = After(c, d)
    OBVIOUS
  <2>3. /\ Goes(c) /\ Ways(c) = n /\ n > 0
        /\ e = IF d = 0 THEN Put(c, WithArg(f, f.got.cat, c.idx + 1), c.idx + 1)
               ELSE Put(c, Recat(f, supers[d]), c.idx + 1)
    BY <1>1, <1>6, <1>8, <2>1, <2>2, AfterPick
  <2>4. gu_choice_next(ch, n).path_idx = c.idx + 1
    BY <1>8, <2>3 DEF gu_choice_next
  <2>5. PICK g : g = IF d = 0 THEN WithArg(f, f.got.cat, c.idx + 1) ELSE Recat(f, supers[d])
    OBVIOUS
  <2>6. Become(g)
    BY <1>3, <1>10, <2>4, <2>5
  <2>7. e = Put(c, g, c.idx + 1)
    BY <2>3, <2>5
  <2>8. e.idx = c.idx + 1
    BY <2>7 DEF Put
  <2>9. Shows(stack', e.idx, e) /\ SameBase(stack, stack')
    BY <1>8, <2>6, <2>7, <2>8, BecomeShows
  <2>10. e = After(c, NextDecision(ch, n)) /\ n = Ways(c) /\ ch' = gu_choice_next(ch, n)
    BY <1>1, <1>3, <1>10, <2>2, <2>3
  <2> QED  BY <1>2, <1>5, <1>6, <1>7, <2>3, <2>9, <2>10, GoOnChoosing
<1> QED  BY <1>9, <1>10

LEMMA InferEntryStep ==
  ASSUME NullIsNoResult, LinearizeInv, InferEntry
  PROVE  LinearizeInv'
<1>1. PICK f, entries, n, entry, r :
        /\ f = Top /\ entries = InferEntries(f.fun, f.cats) /\ n = Len(entries)
        /\ entry = entries[NextDecision(ch, n) + 1]
        /\ r = [cat |-> entry.cat, tree |-> [fun |-> entry.prod.cnc, args |-> f.trees]]
  OBVIOUS
<1>2. /\ ~Idle /\ f.k = "args" /\ Len(f.cats) = Len(f.args)
      /\ UNCHANGED <<input, lzr, expr, mark>>
      /\ n = 0 => Become(Failing(f)) /\ ch' = ch
      /\ n # 0 => ch' = gu_choice_next(ch, n) /\ Return(r)
  BY <1>1 DEF InferEntry, At, Failing
<1>3. Top.k \in {"infer", "args", "super"}
  BY <1>1, <1>2
<1>4. PICK H, N, pos : Running(H, N, pos) /\ H[pos].n > 0
  BY <1>2, <1>3, InRun
<1>5. IndicesTyped
  BY <1>2, <1>3, InRun
<1>6. PICK c : c = H[pos]
  OBVIOUS
<1>7. /\ GoodConfig(c) /\ c.n > 0 /\ Shows(stack, ch.path_idx, c) /\ ch.path_idx = c.idx
      /\ f = c.st[c.n] /\ c.n \in Nat
  BY <1>1, <1>4, <1>6, RunningTop DEF GoodConfig
<1>8. n \in Nat
  BY <1>1, <1>5 DEF IndicesTyped
<1>9. CASE n = 0
  <2>1. ~Goes(c)
    <3>1. Len(f.cats) \in Nat
      BY <1>2, <1>7, TopFacts
    <3>2. ~ToCall(f)
      BY <1>2, <3>1 DEF ToCall
    <3>3. ~ToChoose(f)
      BY <1>1, <1>9 DEF ToChoose
    <3>4. ~ToReturn(f) /\ ~ToOpen(f) /\ ~ToKeep(f) /\ ~ToPick(f)
      BY <1>2 DEF ToReturn, ToOpen, ToKeep, ToPick
    <3> QED  BY <1>7, <3>2, <3>3, <3>4 DEF Goes
  <2>2. pos = N
    BY <1>4, <1>6, <2>1, RunStops
  <2>3. Run(H, N, ch.path) /\ c = H[N] /\ Bottom.k # "build"
    BY <1>4, <1>6, <1>7, <2>2 DEF Running
  <2>4. PICK s, t, g : s = stack /\ t = stack' /\ g = Failing(f)
    OBVIOUS
  <2>5. Below(s, c)
    BY <1>7, <2>4, ShowsBelow
  <2>6. t = <<g>> \o Tail(s)
    BY <1>2, <1>9, <2>4 DEF Become
  <2>7. SameBase(s, t) /\ ShowsBack(t, c.idx, c)
    BY <1>2, <1>7, <2>4, <2>5, <2>6, ShowsCut
  <2>8. Run(H, N, ch.path)'
    <3>1. PICK path : path = ch.path
      OBVIOUS
    <3>2. Run(H, N, path)'
      BY <1>2, <2>3, <3>1, RunStable
    <3> QED  BY <1>2, <1>9, <3>1, <3>2
  <2>9. ShowsBack(stack', ch'.path_idx, H[N]) /\ Bottom'.k # "build"
    BY <1>2, <1>7, <1>9, <2>3, <2>4, <2>7 DEF SameBase, Bottom
  <2>10. GoesBack(H, N)'
    BY <2>8, <2>9 DEF GoesBack
  <2>11. IsChoice(ch')
    BY <1>2, <1>9 DEF LinearizeInv
  <2> QED  BY <1>2, <2>10, <2>11, StaysAtWork DEF AtWork
<1>10. CASE n # 0
  <2>1. PICK a : a = NextDecision(ch, n)
    OBVIOUS
  <2>2. ToChoose(f)
    BY <1>1, <1>2, <1>8, <1>10 DEF ToChoose
  <2>3. PICK e : e = After(c, a)
    OBVIOUS
  <2>4. entry = InferEntries(f.fun, f.cats)[a + 1]
    BY <1>1, <2>1
  <2>5. Goes(c) /\ Ways(c) = n /\ n > 0 /\ e = Returned(c, r, c.idx + 1)
    <3>1. PICK made : made = [cat |-> entry.cat, tree |-> [fun |-> entry.prod.cnc, args |-> f.trees]]
      OBVIOUS
    <3>2. Goes(c) /\ Ways(c) = Len(InferEntries(f.fun, f.cats)) /\ Ways(c) > 0
      BY <1>7, <2>2, AfterChoose
    <3>3. After(c, a) = Returned(c, made, c.idx + 1)
      BY <1>7, <2>2, <2>4, <3>1, AfterChoose
    <3> QED  BY <1>1, <2>3, <3>1, <3>2, <3>3
  <2>6. r # NULL /\ Return(r)
    BY <1>1, <1>2, <1>10 DEF NullIsNoResult
  <2>7. e.idx = c.idx + 1
    BY <2>5 DEF Returned
  <2>8. Shows(stack', e.idx, e) /\ SameBase(stack, stack')
    BY <1>7, <2>5, <2>6, <2>7, ReturnShows
  <2>9. e = After(c, NextDecision(ch, n)) /\ n = Ways(c) /\ ch' = gu_choice_next(ch, n)
    BY <1>2, <1>10, <2>1, <2>3, <2>5
  <2> QED  BY <1>2, <1>4, <1>5, <1>6, <2>5, <2>8, <2>9, GoOnChoosing
<1> QED  BY <1>9, <1>10

\* The inference is in the inner loop of pgf_lzn_infer_application.
LEMMA InBack ==
  ASSUME LinearizeInv, ~Idle, Top.k = "back"
  PROVE  /\ mark = 0 /\ expr = input.expr /\ IsChoice(ch) /\ IndicesTyped
         /\ \E H, N : GoesBack(H, N)
<1>1. mark = 0 /\ expr = input.expr /\ IsChoice(ch) /\ AtWork /\ IndicesTyped
  BY IndexFacts DEF LinearizeInv
<1>2. ~HasFailed
  BY DEF HasFailed, Top
<1>3. ASSUME NEW H, NEW N, NEW pos, Running(H, N, pos) PROVE FALSE
  <2>1. PICK c : c = H[pos]
    OBVIOUS
  <2>2. Top.k \in {"infer", "args", "super", "dry", "build"}
    <3>1. c.n \in Nat
      BY <1>3, <2>1, RunningConfig DEF GoodConfig
    <3>2. c.n = 0 => Top.k \in {"dry", "build"}
      BY <1>3, <2>1, RunningTop
    <3>3. c.n > 0 => Top.k \in {"infer", "args", "super"}
      BY <1>3, <2>1, RunningTop
    <3> QED  BY <3>1, <3>2, <3>3
  <2> QED  BY <2>2
<1> QED  BY <1>1, <1>2, <1>3 DEF AtWork

IsFrame(h) ==
  h = [k |-> h.k, fun |-> h.fun, args |-> h.args, got |-> h.got,
       marks |-> h.marks, cats |-> h.cats, trees |-> h.trees]

LEMMA FailingIs ==
  ASSUME NEW h, IsFrame(h)
  PROVE  Failing(h) = [k |-> "back", fun |-> h.fun, args |-> h.args, got |-> h.got,
                       marks |-> h.marks, cats |-> h.cats, trees |-> h.trees]
  BY DEF Failing, IsFrame

LEMMA BacktrackStep ==
  ASSUME LinearizeInv, Backtrack
  PROVE  LinearizeInv'
<1>1. ~Idle /\ Top.k = "back" /\ UNCHANGED <<input, lzr, expr, mark>>
  BY DEF Backtrack, At
<1>2. PICK H, N : GoesBack(H, N)
  BY <1>1, InBack
<1>3. IndicesTyped /\ IsChoice(ch)
  BY <1>1, InBack
<1>4. PICK c, n, f, path : c = H[N] /\ n = c.n /\ f = c.st[n] /\ path = ch.path
  OBVIOUS
<1>5. /\ GoodConfig(c) /\ n > 0 /\ f.k = "args" /\ ch.path_idx = c.idx /\ Top = Failing(f)
      /\ Below(stack, c)
  BY <1>2, <1>4, GoesBackTop
<1>6. Run(H, N, path) /\ Bottom.k # "build"
  BY <1>2, <1>4 DEF GoesBack
<1>7. /\ n \in Nat /\ n \in 1..n /\ c.got = NULL /\ f.got = NULL /\ GoodApp(f, c.idx)
      /\ f.marks[1] = LastMark(c, n - 1) /\ c.idx = f.marks[Len(f.marks)]
  <2>1. n \in Nat /\ n \in 1..n /\ c.got = NULL /\ f.got = NULL
    BY <1>4, <1>5, TopFacts
  <2>2. Fits(c, f, c.idx, n) /\ c.idx = f.marks[Len(f.marks)]
    BY <1>4, <1>5, TopFacts
  <2> QED  BY <2>1, <2>2 DEF Fits
<1>8. PICK m \in Nat : m = Len(f.cats) /\ Len(f.marks) = m + 1
  BY <1>7, ListFacts DEF GoodApp
<1>9. f = [k |-> f.k, fun |-> f.fun, args |-> f.args, got |-> f.got,
           marks |-> f.marks, cats |-> f.cats, trees |-> f.trees]
  BY <1>7 DEF GoodApp
<1>10. /\ Top.cats = f.cats /\ Top.marks = f.marks
  BY <1>5, <1>9 DEF Failing
<1>11. CASE m = 0
  <2>1. Return(NULL) /\ ch' = ch
    BY <1>8, <1>10, <1>11 DEF Backtrack
  <2>2. c.idx = LastMark(c, c.n - 1)
    <3>1. Len(f.marks) = 1
      BY <1>8, <1>11
    <3>2. c.idx = f.marks[1]
      BY <1>7, <3>1
    <3> QED  BY <1>4, <1>7, <3>2
  <2>3. Run(H, N, ch.path) /\ c.n > 0
    BY <1>4, <1>5, <1>6
  <2> QED  BY <1>1, <1>3, <1>4, <1>5, <1>6, <2>1, <2>2, <2>3, FailOn
<1>12. CASE m # 0
  <2>1. PICK i \in Nat : i = m - 1 /\ i \in 0..m
    BY <1>12
  <2>2. PICK back, c1 : /\ back = gu_choice_reset(ch, f.marks[i + 1])
                        /\ c1 = gu_choice_advance(back)
    OBVIOUS
  <2>3. PICK g : g = CutFrame(f, IF CanAdvance(back) THEN "args" ELSE "back", i)
    OBVIOUS
  <2>4. /\ ch' = c1
        /\ Become([Top EXCEPT !.k = IF CanAdvance(back) THEN "args" ELSE "back",
                              !.cats = SubSeq(@, 1, i),
                              !.trees = SubSeq(@, 1, i),
                              !.marks = SubSeq(@, 1, i + 1)])
    <3>1. Len(Top.cats) - 1 = i /\ ~(i < 0)
      BY <1>8, <1>10, <2>1
    <3> QED  BY <1>10, <2>2, <3>1 DEF Backtrack
  <2>5. Become(g)
    <3>1. [Top EXCEPT !.k = IF CanAdvance(back) THEN "args" ELSE "back",
                      !.cats = SubSeq(@, 1, i),
                      !.trees = SubSeq(@, 1, i),
                      !.marks = SubSeq(@, 1, i + 1)] = g
      <4>1. Top = [k |-> "back", fun |-> f.fun, args |-> f.args, got |-> NULL,
                   marks |-> f.marks, cats |-> f.cats, trees |-> f.trees]
        BY <1>5, <1>7, <1>9 DEF Failing
      <4>2. PICK kind, top : kind = (IF CanAdvance(back) THEN "args" ELSE "back") /\ top = Top
        OBVIOUS
      <4>3. g = [k |-> kind, fun |-> f.fun, args |-> f.args, got |-> NULL,
                 marks |-> SubSeq(f.marks, 1, i + 1), cats |-> SubSeq(f.cats, 1, i),
                 trees |-> SubSeq(f.trees, 1, i)]
        BY <2>3, <4>2 DEF CutFrame
      <4>4. [top EXCEPT !.k = kind,
                        !.cats = SubSeq(@, 1, i),
                        !.trees = SubSeq(@, 1, i),
                        !.marks = SubSeq(@, 1, i + 1)] = g
        <5>1. IsFrame(top)
          BY <4>1, <4>2 DEF IsFrame
        <5>2. top.fun = f.fun /\ top.args = f.args /\ top.got = NULL /\ top.marks = f.marks
              /\ top.cats = f.cats /\ top.trees = f.trees
          BY <4>1, <4>2
        <5>3. PICK ct, tr, mk : /\ ct = SubSeq(top.cats, 1, i) /\ tr = SubSeq(top.trees, 1, i)
                                /\ mk = SubSeq(top.marks, 1, i + 1)
          OBVIOUS
        <5>4. PICK cut : cut = [top EXCEPT !.k = kind,
                                           !.cats = SubSeq(@, 1, i),
                                           !.trees = SubSeq(@, 1, i),
                                           !.marks = SubSeq(@, 1, i + 1)]
          OBVIOUS
        <5>5. cut = [top EXCEPT !.k = kind, !.cats = ct, !.trees = tr, !.marks = mk]
          BY <5>3, <5>4
        <5>6. cut = [k |-> kind, fun |-> top.fun, args |-> top.args, got |-> top.got,
                     marks |-> mk, cats |-> ct, trees |-> tr]
          BY <5>1, <5>5 DEF IsFrame
        <5> QED  BY <4>3, <5>2, <5>3, <5>4, <5>6
      <4> QED  BY <4>2, <4>4
    <3> QED  BY <2>4, <3>1
  <2>6. PICK l \in 1..N : WasAt(H[l], c, n, f, i)
    BY <1>4, <1>5, <1>6, <1>7, <1>8, <2>1, PastOf
  <2>7. PICK d : /\ d = H[l] /\ GoodConfig(d) /\ d.n = n
                 /\ \A y \in 1..(n - 1) : d.st[y] = c.st[y]
                 /\ d.idx = f.marks[i + 1] /\ d.got = NULL
                 /\ d.st[n] = CutFrame(f, "args", i)
    BY <2>6 DEF WasAt
  <2>8. IsChoice(back) /\ back.path = path /\ back.path_idx = H[l].idx
    BY <1>3, <1>4, <2>2, <2>7 DEF IsChoice, gu_choice_reset
  <2>9. /\ IsChoice(c1) /\ c1.path_idx = d.idx
        /\ CanAdvance(back) => \E G, M : /\ Run(G, M, c1.path) /\ l \in 1..M
                                         /\ \A y \in 1..l : G[y] = H[y]
        /\ ~CanAdvance(back) => Run(H, l, c1.path)
    BY <1>3, <1>6, <2>2, <2>7, <2>8, RunBack
  <2>10. PICK s, t : s = stack /\ t = stack'
    OBVIOUS
  <2>11. /\ SameBase(s, t)
         /\ g = d.st[d.n] => Shows(t, d.idx, d)
         /\ d.st[d.n].k = "args" /\ g = Failing(d.st[d.n]) => ShowsBack(t, d.idx, d)
    <3>1. Below(s, c) /\ d.n \in Nat /\ d.n = c.n /\ d.got = c.got
      BY <1>4, <1>5, <1>7, <2>7, <2>10
    <3>2. t = <<g>> \o Tail(s)
      BY <2>5, <2>10 DEF Become
    <3>3. \A y \in 1..(c.n - 1) : d.st[y] = c.st[y]
      BY <1>4, <2>7
    <3> QED  BY <3>1, <3>2, <3>3, ShowsCut
  <2>12. Bottom'.k # "build"
    BY <1>6, <2>10, <2>11 DEF SameBase, Bottom
  <2>13. CASE CanAdvance(back)
    <3>1. PICK G, M : /\ Run(G, M, c1.path) /\ l \in 1..M
                      /\ \A y \in 1..l : G[y] = H[y]
      BY <2>9, <2>13
    <3>2. G[l] = d
      <4>1. l \in 1..l
        BY <3>1
      <4> QED  BY <2>7, <3>1, <4>1
    <3>3. Run(G, M, c1.path)'
      <4>1. PICK p : p = c1.path
        OBVIOUS
      <4>2. Run(G, M, p)'
        BY <1>1, <3>1, <4>1, RunStable
      <4> QED  BY <4>1, <4>2
    <3>4. Shows(stack', ch'.path_idx, G[l])
      BY <2>3, <2>4, <2>7, <2>9, <2>10, <2>11, <2>13, <3>2
    <3>5. Running(G, M, l)'
      BY <2>4, <2>12, <3>1, <3>3, <3>4 DEF Running
    <3> QED  BY <1>1, <2>4, <2>9, <3>5, StaysAtWork DEF AtWork
  <2>14. CASE ~CanAdvance(back)
    <3>1. Run(H, l, c1.path)'
      <4>1. PICK p : p = c1.path
        OBVIOUS
      <4>2. Run(H, l, p)'
        BY <1>1, <2>9, <2>14, <4>1, RunStable
      <4> QED  BY <4>1, <4>2
    <3>2. d.st[n].k = "args" /\ g = Failing(d.st[n])
      <4>1. PICK h : h = d.st[n]
        OBVIOUS
      <4>2. h = CutFrame(f, "args", i) /\ g = CutFrame(f, "back", i)
        BY <2>3, <2>7, <2>14, <4>1
      <4>3. h.k = "args"
        BY <4>2 DEF CutFrame
      <4>4. h = [k |-> "args", fun |-> f.fun, args |-> f.args, got |-> NULL,
                 marks |-> SubSeq(f.marks, 1, i + 1), cats |-> SubSeq(f.cats, 1, i),
                 trees |-> SubSeq(f.trees, 1, i)]
        BY <4>2 DEF CutFrame
      <4>5. g = [k |-> "back", fun |-> f.fun, args |-> f.args, got |-> NULL,
                 marks |-> SubSeq(f.marks, 1, i + 1), cats |-> SubSeq(f.cats, 1, i),
                 trees |-> SubSeq(f.trees, 1, i)]
        BY <4>2 DEF CutFrame
      <4>6. g = Failing(h)
        <5>1. IsFrame(h)
          BY <4>4 DEF IsFrame
        <5>2. Failing(h) = [k |-> "back", fun |-> h.fun, args |-> h.args, got |-> h.got,
                            marks |-> h.marks, cats |-> h.cats, trees |-> h.trees]
          BY <5>1, FailingIs
        <5> QED  BY <4>4, <4>5, <5>2
      <4> QED  BY <4>1, <4>3, <4>6
    <3>3. ShowsBack(stack', ch'.path_idx, H[l])
      BY <2>4, <2>7, <2>9, <2>10, <2>11, <3>2
    <3>4. GoesBack(H, l)'
      BY <2>4, <2>12, <3>1, <3>3 DEF GoesBack
    <3> QED  BY <1>1, <2>4, <2>9, <3>4, StaysAtWork DEF AtWork
  <2> QED  BY <2>13, <2>14
<1> QED  BY <1>11, <1>12

\* An inference starts where the run has started.
LEMMA Starts ==
  ASSUME NEW H, NEW N, NEW path, Run(H, N, path), NEW b, Base(b), b.got = NULL,
         b.k = "build" => H[N].n = 0 /\ H[N].got.cat = b.cat,
         stack' = <<Infer(input.expr), b>>, ch' = [path |-> path, path_idx |-> 0],
         lzr' = lzr, input' = input
  PROVE  IsChoice(ch') /\ Running(H, N, 1)'
<1>1. PICK a, s : a = Infer(input.expr) /\ s = <<a, b>>
  OBVIOUS
<1>2. IsSeq(s) /\ Len(s) = 2 /\ s[1] = a /\ s[2] = b
  <2>1. s \in Seq({a, b})
    BY <1>1
  <2>2. IsSeq(s)
    BY <2>1, SeqIsItsOwn
  <2> QED  BY <1>1, <2>2
<1>3. 1 \in 1..N /\ H[1] = Root
  BY RunFirst
<1>4. PICK c : c = Root
  OBVIOUS
<1>5. c.n = 1 /\ c.idx = 0 /\ c.got = NULL /\ c.st[1] = a
  BY <1>1, <1>4 DEF Root
<1>6. Shows(s, 0, c)
  <2>1. \A x \in 1..c.n : s[c.n + 1 - x] = c.st[x]
    <3> TAKE x \in 1..c.n
    <3>1. x = 1 /\ c.n + 1 - x = 1
      BY <1>5
    <3> QED  BY <1>2, <1>5, <3>1
  <2>2. c.n + 1 = 2
    BY <1>5
  <2> QED  BY <1>2, <1>5, <2>1, <2>2 DEF Shows
<1>7. Run(H, N, path)'
  BY RunStable
<1>8. Shows(stack', ch'.path_idx, H[1]) /\ stack' = s
  BY <1>1, <1>3, <1>4, <1>6
<1>9. Bottom' = b
  BY <1>2, <1>8 DEF Bottom
<1>10. Run(H, N, ch.path)' /\ IsChoice(ch')
  BY <1>7 DEF IsChoice
<1> QED  BY <1>3, <1>8, <1>9, <1>10 DEF Running

\* The top of the stack is the frame of pgf_lzn_next: the inference is over.
LEMMA InEnd ==
  ASSUME LinearizeInv, ~Idle, Top.k \in {"dry", "build"}
  PROVE  /\ mark = 0 /\ expr = input.expr /\ IsChoice(ch) /\ IndicesTyped
         /\ \/ HasFailed
            \/ \E H, N : Run(H, N, ch.path) /\ H[N].n = 0 /\ IsResult(H[N].got) /\ Top.got = H[N].got
<1>1. mark = 0 /\ expr = input.expr /\ IsChoice(ch) /\ AtWork /\ IndicesTyped
  BY IndexFacts DEF LinearizeInv
<1>2. ASSUME NEW H, NEW N, GoesBack(H, N) PROVE FALSE
  <2>1. PICK c : c = H[N]
    OBVIOUS
  <2>2. Top.k = "back"
    BY <1>2, <2>1, GoesBackTop
  <2> QED  BY <2>2
<1>3. ASSUME NEW H, NEW N, NEW pos, Running(H, N, pos)
      PROVE  Run(H, N, ch.path) /\ H[N].n = 0 /\ IsResult(H[N].got) /\ Top.got = H[N].got
  <2>1. PICK c : c = H[pos]
    OBVIOUS
  <2>2. c.n \in Nat
    BY <1>3, <2>1, RunningConfig DEF GoodConfig
  <2>3. ~(c.n > 0)
    <3>1. c.n > 0 => Top.k \in {"infer", "args", "super"}
      BY <1>3, <2>1, RunningTop
    <3> QED  BY <3>1
  <2>4. c.n = 0
    BY <2>2, <2>3
  <2>5. Top.got = c.got /\ IsResult(c.got) /\ pos = N
    BY <1>3, <2>1, <2>4, RunningTop
  <2> QED  BY <1>3, <2>1, <2>4, <2>5 DEF Running
<1> QED  BY <1>1, <1>2, <1>3 DEF AtWork

LEMMA DryRunStep ==
  ASSUME NullIsNoResult, LinearizeInv, DryRun
  PROVE  LinearizeInv'
<1>1. ~Idle /\ Top.k = "dry" /\ UNCHANGED <<input, lzr, expr, mark>>
  BY DEF DryRun, At
<1>2. mark = 0 /\ expr = input.expr /\ IsChoice(ch)
  BY <1>1, InEnd
<1>3. PICK back : back = gu_choice_reset(ch, mark)
  OBVIOUS
<1>4. back = [path |-> ch.path, path_idx |-> 0]
  BY <1>2, <1>3 DEF IsChoice, gu_choice_reset
<1>5. CASE HasFailed
  <2>1. Top.got = NULL /\ back = [path |-> <<>>, path_idx |-> 0]
    BY <1>4, <1>5 DEF HasFailed, Top
  <2>2. ~CanAdvance(back)
    BY <2>1 DEF CanAdvance, Untried
  <2>3. stack' = <<>> /\ ended' /\ ch' = gu_choice_advance(back)
    BY <1>3, <2>1, <2>2 DEF DryRun
  <2>4. ch' = [back EXCEPT !.path = SubSeq(@, 1, back.path_idx)]
    BY <2>2, <2>3 DEF gu_choice_advance
  <2>5. IsChoice(ch')
    BY <2>1, <2>4 DEF IsChoice
  <2>6. <<>> \in Seq({})
    BY EmptySeq
  <2>7. IsSeq(stack')
    BY <2>3, <2>6, SeqIsItsOwn
  <2> QED  BY <1>1, <2>3, <2>5, <2>7 DEF LinearizeInv, Idle
<1>6. ASSUME NEW H, NEW N, Run(H, N, ch.path), H[N].n = 0, IsResult(H[N].got), Top.got = H[N].got
      PROVE  LinearizeInv'
  <2>1. PICK b : b = [k |-> "build", cat |-> Top.got.cat, got |-> NULL]
    OBVIOUS
  <2>2. Top.got # NULL
    BY <1>6 DEF IsResult, NullIsNoResult
  <2>3. ch' = back /\ stack' = <<Infer(expr), b>>
    BY <1>3, <2>1, <2>2 DEF DryRun
  <2>4. Base(b) /\ b.got = NULL /\ H[N].got.cat = b.cat
    BY <1>6, <2>1 DEF Base
  <2>5. IsChoice(ch') /\ Running(H, N, 1)'
    <3>1. PICK path : path = ch.path
      OBVIOUS
    <3>2. Run(H, N, path) /\ ch' = [path |-> path, path_idx |-> 0]
      BY <1>4, <1>6, <2>3, <3>1
    <3>3. stack' = <<Infer(input.expr), b>>
      BY <1>2, <2>3
    <3> QED  BY <1>1, <1>6, <2>4, <3>2, <3>3, Starts
  <2> QED  BY <1>1, <2>5, StaysAtWork DEF AtWork
<1> QED  BY <1>1, <1>5, <1>6, InEnd

LEMMA BuildStep ==
  ASSUME LinearizeInv, Build
  PROVE  LinearizeInv'
<1>1. ~Idle /\ Top.k = "build" /\ stack' = <<>> /\ UNCHANGED <<input, lzr>>
  BY DEF Build, At
<1>2. mark = 0 /\ expr = input.expr /\ IsChoice(ch) /\ IndicesTyped
  BY <1>1, InEnd
<1>3. PICK back : back = gu_choice_reset(ch, mark)
  OBVIOUS
<1>4. /\ ch' = gu_choice_advance(back)
      /\ expr' = IF CanAdvance(back) THEN expr ELSE NULL
  BY <1>3 DEF Build
<1>5. PICK c0, path : c0 = back /\ path = ch.path
  OBVIOUS
<1>6. IsChoice(c0) /\ c0.path = path /\ c0.path_idx = 0
  BY <1>2, <1>3, <1>5 DEF IsChoice, gu_choice_reset
<1>7. ~HasFailed
  BY <1>1 DEF HasFailed, Top
<1>8. PICK H, N : Run(H, N, path)
  BY <1>1, <1>5, <1>7, InEnd
<1>9. 1 \in 1..N /\ H[1].idx = 0
  <2>1. 1 \in 1..N /\ H[1] = Root
    BY <1>8, RunFirst
  <2> QED  BY <2>1, RootIsGood
<1>10. PICK c1 : c1 = gu_choice_advance(c0)
  OBVIOUS
<1>11. /\ IsChoice(c1) /\ c1.path_idx = 0
       /\ CanAdvance(c0) => \E G, M : Run(G, M, c1.path)
  <2>1. Run(H, N, c0.path) /\ c0.path_idx = H[1].idx
    BY <1>6, <1>8, <1>9
  <2>2. IsChoice(c1) /\ c1.path_idx = H[1].idx
    BY <1>2, <1>6, <1>9, <1>10, <2>1, RunBack
  <2>3. CanAdvance(c0) => \E G, M : /\ Run(G, M, c1.path) /\ 1 \in 1..M
                                    /\ \A m \in 1..1 : G[m] = H[m]
    BY <1>2, <1>6, <1>9, <1>10, <2>1, RunBack
  <2> QED  BY <1>9, <2>2, <2>3
<1>12. ch' = c1 /\ (expr' # NULL => CanAdvance(c0) /\ expr' = input.expr)
  BY <1>2, <1>4, <1>5, <1>10
<1>13. expr' # NULL => \E G, M : Run(G, M, ch.path)'
  <2> SUFFICES ASSUME expr' # NULL PROVE \E G, M : Run(G, M, ch.path)'
    OBVIOUS
  <2>1. PICK G, M, p : p = c1.path /\ Run(G, M, p)
    BY <1>11, <1>12
  <2>2. Run(G, M, p)'
    BY <1>1, <2>1, RunStable
  <2>3. Run(G, M, ch.path)'
    BY <1>12, <2>1, <2>2
  <2> QED  BY <2>3
<1>14. <<>> \in Seq({})
  BY EmptySeq
<1>15. IsSeq(stack')
  BY <1>1, <1>14, SeqIsItsOwn
<1> QED  BY <1>1, <1>11, <1>12, <1>13, <1>15 DEF LinearizeInv, Idle

LEMMA EnumNextStep ==
  ASSUME LinearizeInv, pgf_cnc_tree_enum_next
  PROVE  LinearizeInv'
<1>1. /\ Idle /\ ~ended /\ UNCHANGED <<input, lzr, expr, ch>>
      /\ expr = NULL => ended' /\ UNCHANGED <<mark, stack>>
      /\ expr # NULL =>
           /\ mark' = ch.path_idx /\ ended' = ended
           /\ stack' = <<Infer(expr), [k |-> "dry", got |-> NULL]>>
  BY DEF pgf_cnc_tree_enum_next, gu_choice_mark
<1>2. CASE expr = NULL
  BY <1>1, <1>2 DEF LinearizeInv, Idle
<1>3. CASE expr # NULL
  <2>1. ch.path_idx = 0 /\ expr = input.expr /\ IsChoice(ch)
    BY <1>1, <1>3 DEF LinearizeInv
  <2>2. PICK path : path = ch.path
    OBVIOUS
  <2>3. PICK H, N : Run(H, N, path)
    BY <1>1, <1>3, <2>2 DEF LinearizeInv
  <2>4. PICK b : b = [k |-> "dry", got |-> NULL]
    OBVIOUS
  <2>5. Base(b) /\ b.got = NULL /\ b.k # "build"
    BY <2>4 DEF Base
  <2>6. ch' = [path |-> path, path_idx |-> 0] /\ stack' = <<Infer(input.expr), b>>
    BY <1>1, <1>3, <2>1, <2>2, <2>4 DEF IsChoice
  <2>7. IsChoice(ch') /\ Running(H, N, 1)'
    BY <1>1, <2>3, <2>5, <2>6, Starts
  <2>8. AtWork'
    BY <2>7 DEF AtWork
  <2>9. (AtWork => ~Idle /\ IsSeq(stack))'
    BY AtWorkStack, PTL
  <2>10. IsSeq(lzr') /\ mark' = 0 /\ expr' = input'.expr
    BY <1>1, <1>3, <2>1 DEF LinearizeInv
  <2> QED  BY <2>7, <2>8, <2>9, <2>10 DEF LinearizeInv
<1> QED  BY <1>2, <1>3

-----------------------------------------------------------------------------
(* What the runs check *)

LEMMA FirstRun == ASSUME IsChoice(ch), ch = gu_new_choice PROVE \E H, N : Run(H, N, ch.path)
<1> DEFINE H == [m \in 1..1 |-> Root]
<1>1. H[1] = Root /\ 1 \in 1..1
  OBVIOUS
<1>2. PICK path : path = <<>>
  OBVIOUS
<1>3. path \in Seq(Nat) /\ Len(path) = 0
  BY <1>2
<1> HIDE DEF H
<1>4. PICK c : c = Root
  OBVIOUS
<1>5. GoodConfig(c) /\ c.idx = 0 /\ c.n = 1
  BY <1>4, RootIsGood
<1>6. c.st[1].k = "infer"
  BY <1>4 DEF Root, Infer
<1>7. HasPasts(H, 1)
  <2>1. \A x \in 1..c.n : c.st[x].k = "infer"
    BY <1>5, <1>6
  <2> QED  BY <1>1, <1>4, <2>1 DEF HasPasts
<1>8. \A m \in 1..1 : H[m] = c /\ m = 1
  BY <1>1, <1>4
<1>9. Run(H, 1, path)
  <2>1. \A m \in 1..1 : GoodConfig(H[m]) /\ HasPasts(H, m)
    BY <1>5, <1>7, <1>8
  <2>2. \A l, m \in 1..1 : l <= m => H[l].idx <= H[m].idx
    BY <1>5, <1>8
  <2>3. H[1].idx = Len(path)
    BY <1>3, <1>5, <1>8
  <2> QED  BY <1>1, <1>3, <2>1, <2>2, <2>3 DEF Run
<1> QED  BY <1>2, <1>9 DEF gu_new_choice

LEMMA InitOfInv == Init => LinearizeInv
<1> SUFFICES ASSUME Init PROVE LinearizeInv
  OBVIOUS
<1>1. IsSeq(lzr)
  BY LzrIsSeq
<1>2. ch = gu_new_choice /\ IsChoice(ch) /\ ch.path_idx = 0
  BY DEF Init, gu_new_choice, IsChoice
<1>3. \E H, N : Run(H, N, ch.path)
  BY <1>2, FirstRun
<1>4. <<>> \in Seq({})
  BY EmptySeq
<1>5. IsSeq(<<>>)
  BY <1>4, SeqIsItsOwn
<1> QED  BY <1>1, <1>2, <1>3, <1>5 DEF Init, LinearizeInv, Idle

LEMMA StutterStep ==
  ASSUME LinearizeInv, UNCHANGED vars
  PROVE  LinearizeInv'
<1>1. UNCHANGED <<input, lzr, expr, ch, mark, stack, ended>>
  BY DEF vars
<1>2. ASSUME NEW H, NEW N, Run(H, N, ch.path) PROVE Run(H, N, ch.path)'
  <2>1. PICK path : path = ch.path
    OBVIOUS
  <2>2. Run(H, N, path)'
    BY <1>1, <1>2, <2>1, RunStable
  <2> QED  BY <1>1, <2>1, <2>2
<1>3. (~Idle => AtWork) => (~Idle => AtWork')
  <2>1. ASSUME NEW H, NEW N, NEW pos, Running(H, N, pos) PROVE Running(H, N, pos)'
    BY <1>1, <1>2, <2>1 DEF Running, Bottom
  <2>2. ASSUME NEW H, NEW N, GoesBack(H, N) PROVE GoesBack(H, N)'
    BY <1>1, <1>2, <2>2 DEF GoesBack, Bottom
  <2>3. HasFailed => HasFailed'
    BY <1>1 DEF HasFailed
  <2> QED  BY <2>1, <2>2, <2>3 DEF AtWork
<1>4. (\E H, N : Run(H, N, ch.path)) => \E H, N : Run(H, N, ch.path)'
  BY <1>2
<1> QED  BY <1>1, <1>3, <1>4 DEF LinearizeInv, Idle

\* Behind the path of the choice there is a run of the inference, in which it is
\* or from which it has just fallen back, whatever the grammar and the tree.
THEOREM PathHasARun == ASSUME NullIsNoResult PROVE Spec => []LinearizeInv
<1>1. LinearizeInv /\ [Next]_vars => LinearizeInv'
  <2> SUFFICES ASSUME LinearizeInv, [Next]_vars PROVE LinearizeInv'
    OBVIOUS
  <2>1. CASE pgf_cnc_tree_enum_next
    BY <2>1, EnumNextStep
  <2>2. CASE DryRun
    BY <2>2, DryRunStep
  <2>3. CASE Build
    BY <2>3, BuildStep
  <2>4. CASE pgf_lzn_infer
    BY <2>4, InferStep
  <2>5. CASE InferArg
    BY <2>5, InferArgStep
  <2>6. CASE pgf_lzn_pick_supercat
    BY <2>6, PickStep
  <2>7. CASE InferEntry
    BY <2>7, InferEntryStep
  <2>8. CASE Backtrack
    BY <2>8, BacktrackStep
  <2>9. CASE UNCHANGED vars
    BY <2>9, StutterStep
  <2> QED  BY <2>1, <2>2, <2>3, <2>4, <2>5, <2>6, <2>7, <2>8, <2>9 DEF Next, Step
<1> QED  BY <1>1, InitOfInv, PTL DEF Spec

\* The marks of an application, as far as the path has come.
MarksNest(f) ==
  /\ \A i \in DOMAIN f.marks : f.marks[i] <= ch.path_idx
  /\ \A i, j \in DOMAIN f.marks : i <= j => f.marks[i] <= f.marks[j]

LEMMA GoodMarks ==
  ASSUME NEW f, GoodApp(f, ch.path_idx)
  PROVE  MarksNest(f) /\ MarksNest(Failing(f))
<1>1. DOMAIN f.marks = 1..Len(f.marks)
  BY DEF GoodApp
<1>2. MarksNest(f)
  BY <1>1 DEF GoodApp, MarksNest
<1>3. PICK g : g = Failing(f)
  OBVIOUS
<1>4. g.marks = f.marks
  BY <1>3, FailingIs DEF GoodApp, IsFrame
<1> QED  BY <1>2, <1>3, <1>4 DEF MarksNest

\* The marks of the frames of a configuration, the top one of which may have failed.
LEMMA MarksOfConfig ==
  ASSUME NEW c, GoodConfig(c), ch.path_idx = c.idx, IsSeq(stack), Len(stack) = c.n + 1,
         \A x \in 1..c.n : \/ stack[c.n + 1 - x] = c.st[x]
                           \/ c.st[x].k = "args" /\ stack[c.n + 1 - x] = Failing(c.st[x]),
         Base(stack[c.n + 1])
  PROVE  \A n \in DOMAIN stack : stack[n].k \in {"args", "super", "back"} => MarksNest(stack[n])
<1> SUFFICES ASSUME NEW n \in DOMAIN stack, stack[n].k \in {"args", "super", "back"}
             PROVE  MarksNest(stack[n])
  OBVIOUS
<1>1. PICK m \in Nat : m = c.n
  BY DEF GoodConfig
<1>2. n \in 1..(m + 1)
  BY <1>1, ListFacts
<1>3. n # m + 1
  BY <1>1 DEF Base
<1>4. PICK x \in 1..m : n = m + 1 - x
  <2>1. m + 1 - n \in 1..m /\ n = m + 1 - (m + 1 - n)
    BY <1>2, <1>3
  <2> QED  BY <2>1
<1>5. PICK f : f = c.st[x]
  OBVIOUS
<1>6. stack[n] = f \/ (f.k = "args" /\ stack[n] = Failing(f))
  BY <1>1, <1>4, <1>5
<1>7. f.k # "infer"
  <2>1. "infer" \notin {"args", "super", "back"}
    OBVIOUS
  <2>2. stack[n] = f => f.k # "infer"
    BY <2>1
  <2>3. f.k = "args" => f.k # "infer"
    OBVIOUS
  <2> QED  BY <1>6, <2>2, <2>3
<1>8. GoodApp(f, ch.path_idx)
  BY <1>1, <1>5, <1>7 DEF GoodConfig
<1>9. MarksNest(f) /\ MarksNest(Failing(f))
  BY <1>8, GoodMarks
<1> QED  BY <1>6, <1>9

LEMMA MarksAlways ==
  ASSUME LinearizeInv
  PROVE  \A n \in DOMAIN stack : stack[n].k \in {"args", "super", "back"} => MarksNest(stack[n])
<1>1. CASE Idle
  BY <1>1 DEF Idle
<1>2. CASE ~Idle
  <2>1. AtWork
    BY <1>2 DEF LinearizeInv
  <2>2. ASSUME NEW H, NEW N, NEW pos, Running(H, N, pos)
        PROVE  \A n \in DOMAIN stack : stack[n].k \in {"args", "super", "back"} => MarksNest(stack[n])
    <3>1. PICK c : c = H[pos]
      OBVIOUS
    <3>2. GoodConfig(c) /\ ch.path_idx = c.idx /\ Shows(stack, ch.path_idx, c)
      BY <2>2, <3>1, RunningConfig
    <3>3. /\ IsSeq(stack) /\ Len(stack) = c.n + 1 /\ Base(stack[c.n + 1])
          /\ \A x \in 1..c.n : stack[c.n + 1 - x] = c.st[x]
      BY <3>2 DEF Shows
    <3> QED  BY <3>2, <3>3, MarksOfConfig
  <2>3. ASSUME NEW H, NEW N, GoesBack(H, N)
        PROVE  \A n \in DOMAIN stack : stack[n].k \in {"args", "super", "back"} => MarksNest(stack[n])
    <3>1. PICK c : c = H[N]
      OBVIOUS
    <3>2. GoodConfig(c) /\ ch.path_idx = c.idx
      BY <2>3, <3>1, GoesBackTop
    <3>3. ShowsBack(stack, ch.path_idx, c)
      BY <2>3, <3>1 DEF GoesBack
    <3>4. /\ IsSeq(stack) /\ Len(stack) = c.n + 1 /\ Base(stack[c.n + 1]) /\ c.st[c.n].k = "args"
          /\ \A x \in 1..c.n : stack[c.n + 1 - x] = IF x = c.n THEN Failing(c.st[x]) ELSE c.st[x]
      BY <3>3 DEF ShowsBack
    <3>5. \A x \in 1..c.n : \/ stack[c.n + 1 - x] = c.st[x]
                            \/ c.st[x].k = "args" /\ stack[c.n + 1 - x] = Failing(c.st[x])
      <4> TAKE x \in 1..c.n
      <4>1. CASE x = c.n
        BY <3>4, <4>1
      <4>2. CASE x # c.n
        BY <3>4, <4>2
      <4> QED  BY <4>1, <4>2
    <3> QED  BY <3>2, <3>4, <3>5, MarksOfConfig
  <2>4. ASSUME HasFailed
        PROVE  \A n \in DOMAIN stack : stack[n].k \in {"args", "super", "back"} => MarksNest(stack[n])
    <3>1. PICK s : s = stack
      OBVIOUS
    <3>2. DOMAIN s = 1..1 /\ s[1].k = "dry"
      BY <2>4, <3>1, ListFacts DEF HasFailed
    <3>3. \A n \in DOMAIN s : s[n].k = "dry"
      <4> TAKE n \in DOMAIN s
      <4>1. n = 1
        BY <3>2
      <4> QED  BY <3>2, <4>1
    <3> QED  BY <3>1, <3>3
  <2> QED  BY <2>1, <2>2, <2>3, <2>4 DEF AtWork
<1> QED  BY <1>1, <1>2

\* A decision that is met again offers what it offered before.
LEMMA DecisionsNest ==
  ASSUME LinearizeInv, ~Idle, NEW f, f = Top, f.k \in {"args", "super"},
         NEW n, \/ ToPick(f) /\ n = Len(Supers(f.got.cat)) + 1
                \/ ToChoose(f) /\ n = Len(InferEntries(f.fun, f.cats))
  PROVE  Remaining(ch, n) <= n
<1>1. Top.k \in {"infer", "args", "super"}
  OBVIOUS
<1>2. PICK H, N, pos : Running(H, N, pos) /\ H[pos].n > 0
  BY <1>1, InRun
<1>3. IndicesTyped /\ IsChoice(ch)
  BY <1>1, InRun
<1>4. PICK c : c = H[pos]
  OBVIOUS
<1>5. GoodConfig(c) /\ c.n > 0 /\ ch.path_idx = c.idx /\ f = c.st[c.n]
  BY <1>2, <1>4, RunningTop
<1>6. Goes(c) /\ Ways(c) = n /\ n > 0
  <2>1. CASE ToPick(f) /\ n = Len(Supers(f.got.cat)) + 1
    <3>1. PICK e : e = After(c, 0)
      OBVIOUS
    <3>2. Goes(c) /\ Ways(c) = Len(Supers(f.got.cat)) + 1 /\ Ways(c) > 0
      BY <1>3, <1>5, <2>1, AfterPick
    <3> QED  BY <2>1, <3>2
  <2>2. CASE ToChoose(f) /\ n = Len(InferEntries(f.fun, f.cats))
    <3>1. PICK entry : entry = InferEntries(f.fun, f.cats)[0 + 1]
      OBVIOUS
    <3>2. Goes(c) /\ Ways(c) = Len(InferEntries(f.fun, f.cats)) /\ Ways(c) > 0
      BY <1>5, <2>2, <3>1, AfterChoose
    <3> QED  BY <2>2, <3>2
  <2> QED  BY <2>1, <2>2
<1>7. n \in Nat
  BY <1>3, <1>6, WaysType
<1>8. PICK c0 : c0 = ch
  OBVIOUS
<1>9. IsChoice(c0) /\ Run(H, N, c0.path) /\ pos \in 1..N /\ Goes(H[pos]) /\ c0.path_idx = H[pos].idx
  BY <1>2, <1>3, <1>4, <1>5, <1>6, <1>8 DEF Running
<1>10. PICK c1, a : c1 = gu_choice_next(c0, n) /\ a = IF n = 0 THEN 0 ELSE NextDecision(c0, n)
  OBVIOUS
<1>11. n > 0 => Remaining(c0, n) \in 1..n
  BY <1>3, <1>4, <1>6, <1>9, <1>10, RunOn
<1> QED  BY <1>6, <1>7, <1>8, <1>11

LEMMA InvNests == LinearizeInv => ChoicesNest
<1> SUFFICES ASSUME LinearizeInv PROVE ChoicesNest
  OBVIOUS
<1>1. IndicesTyped
  BY IndexFacts DEF LinearizeInv
<1>2. PICK f : f = Top
  OBVIOUS
<1>3. ASSUME At("super"), NEW n, n = Len(Supers(f.got.cat)), n > 0
      PROVE  Remaining(ch, n + 1) <= n + 1
  <2>1. ~Idle /\ f.k = "super"
    BY <1>2, <1>3 DEF At
  <2>2. ToPick(f)
    <3>1. PICK s : s = Supers(f.got.cat)
      OBVIOUS
    <3>2. s # <<>>
      BY <1>3, <3>1
    <3> QED  BY <2>1, <3>1, <3>2 DEF ToPick
  <2> QED  BY <1>2, <1>3, <2>1, <2>2, DecisionsNest
<1>4. ASSUME At("args"), Len(f.cats) = Len(f.args), NEW n, n = Len(InferEntries(f.fun, f.cats)), n > 0
      PROVE  Remaining(ch, n) <= n
  <2>1. ~Idle /\ f.k = "args"
    BY <1>2, <1>4 DEF At
  <2>2. ToChoose(f)
    BY <1>4, <2>1 DEF ToChoose
  <2> QED  BY <1>2, <1>4, <2>1, <2>2, DecisionsNest
<1>5. \A n \in DOMAIN stack : stack[n].k \in {"args", "super", "back"} => MarksNest(stack[n])
  BY MarksAlways
<1> QED  BY <1>2, <1>3, <1>4, <1>5 DEF ChoicesNest, MarksNest

LEMMA InvRepeats == ASSUME NullIsNoResult PROVE LinearizeInv => BuildRepeatsDryRun
<1> SUFFICES ASSUME LinearizeInv, ~Idle, Bottom.k = "build"
             PROVE  ~At("back") /\ (At("build") => Top.got # NULL /\ Top.got.cat = Top.cat)
  BY InvNests DEF BuildRepeatsDryRun, Bottom
<1>1. AtWork
  BY DEF LinearizeInv
<1>2. ~HasFailed
  BY DEF HasFailed, Bottom
<1>3. PICK H, N, pos : Running(H, N, pos)
  BY <1>1, <1>2 DEF AtWork, GoesBack
<1>4. PICK c : c = H[pos]
  OBVIOUS
<1>5. c.n \in Nat
  BY <1>3, <1>4, RunningConfig DEF GoodConfig
<1>6. CASE c.n > 0
  <2>1. Top.k \in {"infer", "args", "super"}
    BY <1>3, <1>4, <1>6, RunningTop
  <2> QED  BY <2>1 DEF At
<1>7. CASE c.n = 0
  <2>1. Top = Bottom /\ Top.k \in {"dry", "build"} /\ Top.got = c.got /\ IsResult(c.got) /\ pos = N
    BY <1>3, <1>4, <1>7, RunningTop
  <2>2. H[N].got.cat = Bottom.cat
    BY <1>3 DEF Running
  <2>3. Top.got # NULL /\ Top.got.cat = Top.cat
    BY <1>4, <2>1, <2>2 DEF IsResult, NullIsNoResult
  <2> QED  BY <2>1, <2>3 DEF At
<1> QED  BY <1>5, <1>6, <1>7

\* The inference for the tree finds what the dry run has left it, and never goes
\* back (gu_assert(cat == cat2), linearize.c:423), whatever the grammar, the tree
\* and the order of the hash table.
THEOREM BuildAlwaysRepeats == ASSUME NullIsNoResult PROVE Spec => []BuildRepeatsDryRun
<1>1. Spec => []LinearizeInv
  BY PathHasARun
<1>2. LinearizeInv => BuildRepeatsDryRun
  BY InvRepeats
<1> QED  BY <1>1, <1>2, PTL
=============================================================================
