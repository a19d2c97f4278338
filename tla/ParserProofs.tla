---------------------------- MODULE ParserProofs ----------------------------
(***************************************************************************)
(* Proofs about Parser, for every set of well-formed grammars, any tokens  *)
(* and any resizing of the hash tables.                                    *)
(*                                                                         *)
(* The argument: everything the parser keeps, in its chart or on the C     *)
(* stack, was right when it was stored, and stays right as the chart       *)
(* grows, because a category never changes the concrete category it        *)
(* belongs to, and an item waits for the very category it was stored       *)
(* under.                                                                  *)
(***************************************************************************)
EXTENDS Parser, SequenceTheorems, TLAPS

-----------------------------------------------------------------------------
(* Sequences *)

LEMMA SeqIsSeq ==
  ASSUME NEW S, NEW s \in Seq(S)
  PROVE  IsSeq(s)
<1>1. /\ Len(s) \in Nat /\ DOMAIN s = 1..Len(s)
      /\ s \in [1..Len(s) -> {s[i] : i \in DOMAIN s}]
  BY LenProperties
<1> QED  BY <1>1 DEF IsSeq

LEMMA IsSeqFacts ==
  ASSUME NEW s, IsSeq(s)
  PROVE  Len(s) \in Nat /\ DOMAIN s = 1..Len(s)
  BY LenProperties DEF IsSeq

\* Append to, and pop or replace the top of a sequence.
LEMMA AppendSeq ==
  ASSUME NEW s, IsSeq(s), NEW e
  PROVE  /\ IsSeq(Append(s, e)) /\ Len(Append(s, e)) = Len(s) + 1
         /\ \A i \in 1..Len(s) : Append(s, e)[i] = s[i]
         /\ Append(s, e)[Len(s) + 1] = e
<1> DEFINE S == {s[i] : i \in DOMAIN s} \cup {e}
<1>1. s \in Seq(S) /\ e \in S
  BY DEF IsSeq
<1> HIDE DEF S
<1>2. /\ Append(s, e) \in Seq(S) /\ Len(Append(s, e)) = Len(s) + 1
      /\ \A i \in 1..Len(s) : Append(s, e)[i] = s[i]
      /\ Append(s, e)[Len(s) + 1] = e
  BY <1>1, AppendProperties
<1> QED  BY <1>2, SeqIsSeq

LEMMA TailSeq ==
  ASSUME NEW s, IsSeq(s), s # <<>>
  PROVE  /\ IsSeq(Tail(s)) /\ Len(s) \in Nat \ {0} /\ Len(Tail(s)) = Len(s) - 1
         /\ \A i \in 1..(Len(s) - 1) : Tail(s)[i] = s[i + 1]
<1> DEFINE S == {s[i] : i \in DOMAIN s}
<1>1. s \in Seq(S)
  BY DEF IsSeq
<1> HIDE DEF S
<1>2. /\ Tail(s) \in Seq(S) /\ Len(s) \in Nat /\ Len(s) # 0 /\ Len(Tail(s)) = Len(s) - 1
      /\ \A i \in 1..Len(Tail(s)) : Tail(s)[i] = s[i + 1]
  BY <1>1, EmptySeq, HeadTailProperties, LenProperties
<1> QED  BY <1>2, SeqIsSeq

LEMMA BecomeSeq ==
  ASSUME NEW s, IsSeq(s), s # <<>>, NEW f
  PROVE  /\ IsSeq(<<f>> \o Tail(s)) /\ Len(<<f>> \o Tail(s)) = Len(s)
         /\ (<<f>> \o Tail(s))[1] = f
         /\ \A i \in 2..Len(s) : (<<f>> \o Tail(s))[i] = s[i]
<1>1. PICK t : t = Tail(s)
  OBVIOUS
<1>2. /\ IsSeq(t) /\ Len(s) \in Nat \ {0} /\ Len(t) = Len(s) - 1
      /\ \A i \in 1..(Len(s) - 1) : t[i] = s[i + 1]
  BY <1>1, TailSeq
<1> DEFINE S == {t[i] : i \in DOMAIN t} \cup {f}
<1>3. t \in Seq(S) /\ <<f>> \in Seq(S)
  BY <1>2 DEF IsSeq
<1> HIDE DEF S
<1>4. /\ <<f>> \o t \in Seq(S) /\ Len(<<f>> \o t) = 1 + Len(t)
      /\ \A i \in 1..(1 + Len(t)) : (<<f>> \o t)[i] = IF i <= 1 THEN <<f>>[i] ELSE t[i - 1]
  BY <1>3, ConcatProperties
<1>5. \A i \in 2..Len(s) : (<<f>> \o t)[i] = s[i]
  <2> SUFFICES ASSUME NEW i \in 2..Len(s)
               PROVE  (<<f>> \o t)[i] = s[i]
    OBVIOUS
  <2>1. i \in 1..(1 + Len(t)) /\ ~(i <= 1) /\ i - 1 \in 1..(Len(s) - 1) /\ (i - 1) + 1 = i
    BY <1>2
  <2> QED  BY <1>2, <1>4, <2>1
<1>6. IsSeq(<<f>> \o t)
  BY <1>4, SeqIsSeq
<1>7. Len(<<f>> \o t) = Len(s) /\ (<<f>> \o t)[1] = f
  BY <1>2, <1>4
<1> QED  BY <1>1, <1>5, <1>6, <1>7

LEMMA CallSeq ==
  ASSUME NEW s, IsSeq(s), s # <<>>, NEW f, NEW g
  PROVE  /\ IsSeq(<<f, g>> \o Tail(s)) /\ Len(<<f, g>> \o Tail(s)) = Len(s) + 1
         /\ (<<f, g>> \o Tail(s))[1] = f /\ (<<f, g>> \o Tail(s))[2] = g
         /\ \A i \in 3..(Len(s) + 1) : (<<f, g>> \o Tail(s))[i] = s[i - 1]
<1>1. PICK t : t = Tail(s)
  OBVIOUS
<1>2. /\ IsSeq(t) /\ Len(s) \in Nat \ {0} /\ Len(t) = Len(s) - 1
      /\ \A i \in 1..(Len(s) - 1) : t[i] = s[i + 1]
  BY <1>1, TailSeq
<1> DEFINE S == {t[i] : i \in DOMAIN t} \cup {f, g}
<1>3. t \in Seq(S) /\ <<f, g>> \in Seq(S)
  BY <1>2 DEF IsSeq
<1> HIDE DEF S
<1>4. /\ <<f, g>> \o t \in Seq(S) /\ Len(<<f, g>> \o t) = 2 + Len(t)
      /\ \A i \in 1..(2 + Len(t)) : (<<f, g>> \o t)[i] = IF i <= 2 THEN <<f, g>>[i] ELSE t[i - 2]
  BY <1>3, ConcatProperties
<1>5. \A i \in 3..(Len(s) + 1) : (<<f, g>> \o t)[i] = s[i - 1]
  <2> SUFFICES ASSUME NEW i \in 3..(Len(s) + 1)
               PROVE  (<<f, g>> \o t)[i] = s[i - 1]
    OBVIOUS
  <2>1. i \in 1..(2 + Len(t)) /\ ~(i <= 2) /\ i - 2 \in 1..(Len(s) - 1) /\ (i - 2) + 1 = i - 1
    BY <1>2
  <2> QED  BY <1>2, <1>4, <2>1
<1>6. IsSeq(<<f, g>> \o t)
  BY <1>4, SeqIsSeq
<1>7. Len(<<f, g>> \o t) = Len(s) + 1 /\ (<<f, g>> \o t)[1] = f /\ (<<f, g>> \o t)[2] = g
  BY <1>2, <1>4
<1> QED  BY <1>1, <1>5, <1>6, <1>7

LEMMA ExceptIsSeq ==
  ASSUME NEW s, IsSeq(s), NEW t, DOMAIN t = DOMAIN s, t = [i \in DOMAIN t |-> t[i]]
  PROVE  IsSeq(t) /\ Len(t) = Len(s)
<1>1. PICK n \in Nat : n = Len(s) /\ DOMAIN t = 1..n
  BY IsSeqFacts
<1> DEFINE S == {t[i] : i \in DOMAIN t}
<1>2. t \in [1..n -> S]
  BY <1>1
<1> HIDE DEF S
<1>3. t \in Seq(S) /\ Len(t) = n
  BY <1>2
<1> QED  BY <1>1, <1>3, SeqIsSeq

\* What is anywhere in a sequence, and what is there after one of these steps.
Members(s) == {s[i] : i \in 1..Len(s)}

LEMMA TailMembers ==
  ASSUME NEW s, IsSeq(s), s # <<>>
  PROVE  Members(Tail(s)) \subseteq Members(s)
<1>1. PICK n \in Nat \ {0} : n = Len(s)
  BY TailSeq
<1>2. \A i \in 1..Len(Tail(s)) : Tail(s)[i] = s[i + 1] /\ i + 1 \in 1..Len(s)
  BY <1>1, TailSeq
<1> QED  BY <1>2 DEF Members

LEMMA BecomeMembers ==
  ASSUME NEW s, IsSeq(s), s # <<>>, NEW f
  PROVE  Members(<<f>> \o Tail(s)) \subseteq Members(s) \cup {f}
<1>1. PICK n \in Nat \ {0} : n = Len(s)
  BY TailSeq
<1>2. PICK t : t = <<f>> \o Tail(s)
  OBVIOUS
<1>3. Len(t) = n /\ t[1] = f /\ \A i \in 2..n : t[i] = s[i]
  BY <1>1, <1>2, BecomeSeq
<1>4. \A i \in 1..n : i = 1 \/ i \in 2..n
  BY <1>1
<1> QED  BY <1>1, <1>2, <1>3, <1>4 DEF Members

LEMMA CallMembers ==
  ASSUME NEW s, IsSeq(s), s # <<>>, NEW f, NEW g
  PROVE  Members(<<f, g>> \o Tail(s)) \subseteq Members(s) \cup {f, g}
<1>1. PICK n \in Nat \ {0} : n = Len(s)
  BY TailSeq
<1>2. PICK t : t = <<f, g>> \o Tail(s)
  OBVIOUS
<1>3. Len(t) = n + 1 /\ t[1] = f /\ t[2] = g /\ \A i \in 3..(n + 1) : t[i] = s[i - 1]
  BY <1>1, <1>2, CallSeq
<1>4. \A i \in 1..(n + 1) : i = 1 \/ i = 2 \/ (i \in 3..(n + 1) /\ i - 1 \in 1..n)
  BY <1>1
<1> QED  BY <1>1, <1>2, <1>3, <1>4 DEF Members

LEMMA AppendMembers ==
  ASSUME NEW s, IsSeq(s), NEW e
  PROVE  Members(s) \subseteq Members(Append(s, e)) /\ e \in Members(Append(s, e))
         /\ Members(Append(s, e)) \subseteq Members(s) \cup {e}
<1>1. PICK n, t : n = Len(s) /\ t = Append(s, e)
  OBVIOUS
<1>2. n \in Nat /\ Len(t) = n + 1 /\ (\A i \in 1..n : t[i] = s[i]) /\ t[n + 1] = e
  BY <1>1, AppendSeq, IsSeqFacts
<1>3. \A i \in 1..(n + 1) : i \in 1..n \/ i = n + 1
  BY <1>2
<1>4. n + 1 \in 1..(n + 1) /\ \A i \in 1..n : i \in 1..(n + 1)
  BY <1>2
<1> QED  BY <1>1, <1>2, <1>3, <1>4 DEF Members

LEMMA NewSeqs ==
  /\ IsSeq(<<>>) /\ Members(<<>>) = {}
  /\ \A f : IsSeq(<<f>>) /\ Members(<<f>>) = {f}
<1>1. IsSeq(<<>>) /\ Members(<<>>) = {}
  BY DEF IsSeq, Members
<1>2. ASSUME NEW f
      PROVE  IsSeq(<<f>>) /\ Members(<<f>>) = {f}
  <2>1. PICK s : s = <<f>>
    OBVIOUS
  <2>2. s \in Seq({f}) /\ Len(s) = 1 /\ s[1] = f /\ 1..1 = {1}
    BY <2>1
  <2>3. IsSeq(s) /\ Members(s) = {f}
    BY <2>2, SeqIsSeq DEF Members
  <2> QED  BY <2>1, <2>3
<1> QED  BY <1>1, <1>2

-----------------------------------------------------------------------------
(* The inductive invariant *)

\* A production of the concrete category k, in the chart as it is now.
ArgCats(args) == [d \in DOMAIN args |-> CncCat(args[d])]

ProdOK(prod, k) ==
  /\ prod.args \in [DOMAIN prod.args -> Fids]
  /\ ProdFits(concr, prod, k, ArgCats(prod.args))

\* An item: its production is one of the category it was predicted for, each of its
\* arguments has the concrete category of the one it replaced, and in the middle of
\* a form it has not come to the end of it.
ItemOK(item) ==
  /\ DOMAIN item = {"conts", "prod", "args", "seq_idx", "tok_idx", "alt"}
  /\ item.conts \in DOMAIN conts
  /\ item.conts[2] \in Fids /\ item.conts[3] \in 1..NCtnts(item.conts[2])
  /\ ProdOK(item.prod, CncCat(item.conts[2]))
  /\ item.args \in [DOMAIN item.prod.args -> Fids]
  /\ \A d \in DOMAIN item.prod.args : CncCat(item.args[d]) = CncCat(item.prod.args[d])
  /\ item.seq_idx \in 0..Len(Lin(item)) /\ item.tok_idx \in Nat /\ item.alt \in Nat
  /\ item.tok_idx > 0 =>
       /\ ~AtEnd(item) /\ CurrSym(item).t \in {"ks", "kp"}
       /\ item.alt + 1 \in DOMAIN Forms(CurrSym(item))
       /\ item.tok_idx < Len(Forms(CurrSym(item))[item.alt + 1])

\* The item stands before a symbol for constituent r of cat, or is the sentence.
WaitsFor(item, cat, r) ==
  item # NULL =>
    /\ ItemOK(item) /\ ~AtEnd(item) /\ CurrSym(item).t = "cat"
    /\ item.args[CurrSym(item).d] = cat /\ CurrSym(item).r = r

BeforeToken(item) == ItemOK(item) /\ ~AtEnd(item) /\ CurrSym(item).t \in {"ks", "kp"}

\* A call that is under way.
FrameOK(f) ==
  /\ f.k = "start" =>
       /\ DOMAIN f = {"k", "cats", "r"} /\ IsSeq(f.cats)
       /\ \A c \in Members(f.cats) : c \in Fids /\ f.r \in 1..NCtnts(c)
  /\ f.k = "scan" =>
       /\ DOMAIN f = {"k", "tok", "agenda"}
       /\ \A item \in f.agenda : BeforeToken(item)
  /\ f.k = "forms" =>
       /\ DOMAIN f = {"k", "item", "todo"}
       /\ BeforeToken(f.item) /\ f.todo \subseteq OpenForms(f.item)
  /\ f.k = "item" => ItemOK(f.item)
  /\ f.k = "predict" =>
       f.cat \in Fids /\ f.r \in 1..NCtnts(f.cat) /\ WaitsFor(f.item, f.cat, f.r)
  /\ f.k = "prods" =>
       /\ DOMAIN f = {"k", "item", "conts", "i", "n"}
       /\ f.conts \in DOMAIN conts /\ HasProds(f.conts[2])
       /\ WaitsFor(f.item, f.conts[2], f.conts[3])
       /\ f.i \in Nat \ {0} /\ f.n \in Nat /\ f.n <= Len(Prods(f.conts[2]))
  /\ f.k = "combine" =>
       /\ f.cat \in DOMAIN ccats
       /\ f.cont # NULL =>
            /\ ItemOK(f.cont) /\ ~AtEnd(f.cont) /\ CurrSym(f.cont).t = "cat"
            /\ CncCat(f.cont.args[CurrSym(f.cont).d]) = CncCat(f.cat)
  /\ f.k = "complete" => ItemOK(f.item) /\ AtEnd(f.item)
  /\ f.k = "contss" =>
       /\ DOMAIN f = {"k", "cat", "prod", "i"}
       /\ f.cat \in DOMAIN ccats /\ ProdOK(f.prod, CncCat(f.cat)) /\ f.i \in Nat \ {0}
  /\ f.k = "conts" =>
       /\ DOMAIN f = {"k", "conts", "cat", "todo"}
       /\ f.conts \in DOMAIN conts /\ f.cat \in DOMAIN ccats
       /\ CncCat(f.cat) = CncCat(f.conts[2]) /\ f.todo \subseteq conts[f.conts]

\* The categories that have been created.
CatsOK ==
  /\ concr \in Grammars
  /\ next_fid \in Int /\ next_fid <= PGF_FID_SYNTHETIC
  /\ DOMAIN ccats = next_fid..(PGF_FID_SYNTHETIC - 1)
  /\ \A fid \in DOMAIN ccats :
       /\ DOMAIN ccats[fid] = {"cat", "prods"}
       /\ ccats[fid].cat \in DOMAIN concr.cnccats /\ IsSeq(ccats[fid].prods)
       /\ \A prod \in Members(ccats[fid].prods) : ProdOK(prod, ccats[fid].cat)

ContsOK ==
  \A cid \in DOMAIN conts :
    /\ cid[1] \in DOMAIN parses /\ cid[2] \in Fids /\ cid[3] \in 1..NCtnts(cid[2])
    /\ \A item \in conts[cid] : WaitsFor(item, cid[2], cid[3])

ParsesOK ==
  /\ IsSeq(parses)
  /\ \A p \in DOMAIN parses :
       /\ DOMAIN parses[p] = {"start", "toks", "fid", "transitions", "completed"}
       /\ DOMAIN parses[p].transitions = Tokens /\ IsSeq(parses[p].completed)
       /\ \A tok \in Tokens : \A item \in parses[p].transitions[tok] :
            BeforeToken(item) /\ Matching(item, tok) # {}

\* What the call that is running has made; the categories among it are newer than
\* its parse.
ParsingOK ==
  /\ DOMAIN parsing = {"parse", "seen", "generated"}
  /\ parsing.parse \in 0..Len(parses)
  /\ \A item \in parsing.seen : ItemOK(item)
  /\ \A cid \in DOMAIN parsing.generated :
       /\ cid \in DOMAIN conts /\ parsing.generated[cid] \in DOMAIN ccats
       /\ CncCat(parsing.generated[cid]) = CncCat(cid[2])
       /\ parsing.generated[cid] < parses[parsing.parse].fid
  /\ parsing.parse > 0 =>
       parses[parsing.parse].fid \in Int /\ next_fid <= parses[parsing.parse].fid
  /\ parsing.parse = 0 => DOMAIN parsing.generated = {}

StackOK ==
  /\ IsSeq(stack)
  /\ stack # <<>> => parsing.parse > 0
  /\ \A f \in Members(stack) : FrameOK(f)

ChartInv == CatsOK /\ ContsOK /\ ParsesOK /\ ParsingOK /\ StackOK

-----------------------------------------------------------------------------
(* What is stored stays right *)

\* The chart grows: categories, productions and continuations are added.
Grows ==
  /\ concr' = concr /\ DOMAIN ccats \subseteq DOMAIN ccats' /\ DOMAIN conts \subseteq DOMAIN conts'
  /\ \A fid \in DOMAIN ccats : ccats'[fid].cat = ccats[fid].cat
                               /\ Len(ccats[fid].prods) <= Len(ccats'[fid].prods)
                               /\ Len(ccats[fid].prods) \in Nat /\ Len(ccats'[fid].prods) \in Nat
  /\ \A cid \in DOMAIN conts : conts[cid] \subseteq conts'[cid]

\* A grammar as it is.
LEMMA GrammarFacts ==
  ASSUME CatsOK
  PROVE  /\ WellFormed(concr)
         /\ \A c \in DOMAIN concr.cat : ~Synthetic(c)
         /\ \A fid \in DOMAIN ccats : Synthetic(fid) /\ fid \in Int
<1>1. WellFormed(concr)
  BY GrammarsAssumption DEF CatsOK
<1>2. \A c \in DOMAIN concr.cat : ~Synthetic(c)
  BY <1>1 DEF WellFormed, Synthetic, PGF_FID_SYNTHETIC
<1>3. \A fid \in DOMAIN ccats : Synthetic(fid) /\ fid \in Int
  BY DEF CatsOK, Synthetic, PGF_FID_SYNTHETIC
<1> QED  BY <1>1, <1>2, <1>3

\* Every category has a concrete one, with a number of constituents.
LEMMA FidFacts ==
  ASSUME CatsOK, NEW fid \in Fids
  PROVE  CncCat(fid) \in DOMAIN concr.cnccats /\ NCtnts(fid) \in Nat
<1>1. CncCat(fid) \in DOMAIN concr.cnccats
  <2>1. CASE fid \in DOMAIN ccats
    BY <2>1, GrammarFacts DEF CncCat, CatsOK
  <2>2. CASE fid \in DOMAIN concr.cat
    BY <2>2, GrammarFacts DEF CncCat, WellFormed
  <2> QED  BY <2>1, <2>2 DEF Fids
<1> QED  BY <1>1, GrammarFacts DEF NCtnts, WellFormed

LEMMA CatKept ==
  ASSUME CatsOK, Grows, NEW fid \in Fids
  PROVE  fid \in Fids' /\ CncCat(fid)' = CncCat(fid) /\ NCtnts(fid)' = NCtnts(fid)
<1>1. fid \in Fids'
  BY DEF Fids, Grows
<1>2. CncCat(fid)' = CncCat(fid)
  <2>1. CASE fid \in DOMAIN ccats
    BY <2>1, GrammarFacts DEF CncCat, Grows
  <2>2. CASE fid \in DOMAIN concr.cat
    BY <2>2, GrammarFacts DEF CncCat, Grows
  <2> QED  BY <2>1, <2>2 DEF Fids
<1> QED  BY <1>1, <1>2 DEF NCtnts, Grows

LEMMA ProdKept ==
  ASSUME CatsOK, Grows, NEW prod, NEW k, ProdOK(prod, k)
  PROVE  ProdOK(prod, k)'
<1>1. prod.args \in [DOMAIN prod.args -> Fids']
  BY CatKept DEF ProdOK
<1>2. \A d \in DOMAIN prod.args : CncCat(prod.args[d])' = CncCat(prod.args[d])
  BY CatKept DEF ProdOK
<1>3. ArgCats(prod.args)' = ArgCats(prod.args)
  BY <1>2 DEF ArgCats
<1> QED  BY <1>1, <1>3 DEF ProdOK, Grows

\* The symbols of an item depend on the grammar alone.
LEMMA LinKept ==
  ASSUME Grows, NEW item
  PROVE  /\ Lin(item)' = Lin(item) /\ AtEnd(item)' = AtEnd(item) /\ CurrSym(item)' = CurrSym(item)
         /\ OpenForms(item)' = OpenForms(item)
         /\ \A tok : Matching(item, tok)' = Matching(item, tok)
  BY DEF Grows, Lin, AtEnd, CurrSym, OpenForms, Matching

LEMMA ItemKept ==
  ASSUME CatsOK, Grows, NEW item, ItemOK(item)
  PROVE  ItemOK(item)'
<1>1. item.conts \in DOMAIN conts'
  BY DEF ItemOK, Grows
<1>2. PICK cat : cat = item.conts[2]
  OBVIOUS
<1>3. cat \in Fids /\ item.conts[3] \in 1..NCtnts(cat) /\ ProdOK(item.prod, CncCat(cat))
  BY <1>2 DEF ItemOK
<1>4. cat \in Fids' /\ CncCat(cat)' = CncCat(cat) /\ item.conts[3] \in 1..NCtnts(cat)'
  BY <1>3, CatKept
<1>5. PICK k : k = CncCat(cat)
  OBVIOUS
<1>6. ProdOK(item.prod, k)'
  BY <1>3, <1>5, ProdKept
<1>7. ProdOK(item.prod, CncCat(cat))'
  BY <1>4, <1>5, <1>6 DEF ProdOK
<1>8. item.args \in [DOMAIN item.prod.args -> Fids']
  BY CatKept DEF ItemOK
<1>9. ASSUME NEW d \in DOMAIN item.prod.args
      PROVE  CncCat(item.args[d])' = CncCat(item.prod.args[d])'
  <2>1. item.args[d] \in Fids /\ item.prod.args[d] \in Fids
    BY <1>9 DEF ItemOK, ProdOK
  <2> QED  BY <2>1, CatKept DEF ItemOK
<1> QED  BY <1>1, <1>2, <1>4, <1>7, <1>8, <1>9, LinKept DEF ItemOK

LEMMA WaitsKept ==
  ASSUME CatsOK, Grows, NEW item, NEW cat, NEW r, WaitsFor(item, cat, r)
  PROVE  WaitsFor(item, cat, r)'
  BY ItemKept, LinKept DEF WaitsFor

LEMMA BeforeTokenKept ==
  ASSUME CatsOK, Grows, NEW item, BeforeToken(item)
  PROVE  BeforeToken(item)'
  BY ItemKept, LinKept DEF BeforeToken

\* The symbol an item stands before is one of its production's.
LEMMA CurrSymFits ==
  ASSUME NEW item, ItemOK(item), ~AtEnd(item)
  PROVE  /\ SymbolFits(concr, CurrSym(item), ArgCats(item.prod.args))
         /\ Len(Lin(item)) \in Nat /\ item.seq_idx + 1 \in 1..Len(Lin(item))
<1>1. PICK r, lin : r = item.conts[3] /\ lin = LinOf(concr, item.prod, r)
  OBVIOUS
<1>2. lin = Lin(item) /\ r \in 1..concr.cnccats[CncCat(item.conts[2])].n_ctnts
  BY <1>1 DEF ItemOK, Lin, NCtnts
<1>3. /\ IsSeq(lin)
      /\ \A i \in DOMAIN lin : SymbolFits(concr, lin[i], ArgCats(item.prod.args))
  BY <1>1, <1>2 DEF ItemOK, ProdOK, ProdFits
<1>4. Len(lin) \in Nat /\ DOMAIN lin = 1..Len(lin)
  BY <1>3, IsSeqFacts
<1>5. item.seq_idx \in 0..Len(lin) /\ item.seq_idx # Len(lin)
  BY <1>2 DEF ItemOK, AtEnd
<1>6. item.seq_idx + 1 \in 1..Len(lin)
  BY <1>4, <1>5
<1> QED  BY <1>2, <1>3, <1>4, <1>6 DEF CurrSym

\* The productions of a category: each fits it.
LEMMA ProdsFacts ==
  ASSUME CatsOK, NEW fid \in Fids, HasProds(fid)
  PROVE  /\ IsSeq(Prods(fid)) /\ Len(Prods(fid)) \in Nat
         /\ \A i \in 1..Len(Prods(fid)) : ProdOK(Prods(fid)[i], CncCat(fid))
<1>1. CASE fid \in DOMAIN ccats
  <2>1. Prods(fid) = ccats[fid].prods /\ CncCat(fid) = ccats[fid].cat
    BY <1>1, GrammarFacts DEF Prods, CncCat
  <2> QED  BY <1>1, <2>1, IsSeqFacts DEF CatsOK, Members
<1>2. CASE fid \in DOMAIN concr.cat
  <2>1. ~Synthetic(fid) /\ fid \in DOMAIN concr.prods
    BY <1>2, GrammarFacts DEF HasProds
  <2>2. Prods(fid) = concr.prods[fid] /\ CncCat(fid) = concr.cat[fid]
    BY <2>1 DEF Prods, CncCat
  <2>3. IsSeq(Prods(fid))
    BY <2>1, <2>2, GrammarFacts DEF WellFormed
  <2>4. Len(Prods(fid)) \in Nat /\ DOMAIN Prods(fid) = 1..Len(Prods(fid))
    BY <2>3, IsSeqFacts
  <2>5. ASSUME NEW i \in 1..Len(Prods(fid))
        PROVE  ProdOK(Prods(fid)[i], CncCat(fid))
    <3>1. PICK prod : prod = concr.prods[fid][i]
      OBVIOUS
    <3>2. /\ prod.args \in [DOMAIN prod.args -> DOMAIN concr.cat]
          /\ ProdFits(concr, prod, concr.cat[fid], [d \in DOMAIN prod.args |-> concr.cat[prod.args[d]]])
      <4>1. WellFormed(concr) /\ fid \in DOMAIN concr.prods /\ i \in DOMAIN concr.prods[fid]
        BY <2>1, <2>2, <2>4, GrammarFacts
      <4>2. LET p == concr.prods[fid][i] IN
            /\ p.args \in [DOMAIN p.args -> DOMAIN concr.cat]
            /\ ProdFits(concr, p, concr.cat[fid], [d \in DOMAIN p.args |-> concr.cat[p.args[d]]])
        BY <4>1, Zenon DEF WellFormed
      <4> QED  BY <3>1, <4>2
    <3>3. \A d \in DOMAIN prod.args : CncCat(prod.args[d]) = concr.cat[prod.args[d]]
      BY <3>2, GrammarFacts DEF CncCat
    <3>4. ArgCats(prod.args) = [d \in DOMAIN prod.args |-> concr.cat[prod.args[d]]]
      BY <3>3 DEF ArgCats
    <3>5. prod.args \in [DOMAIN prod.args -> Fids]
      BY <3>2 DEF Fids
    <3> QED  BY <2>2, <3>1, <3>2, <3>4, <3>5 DEF ProdOK
  <2> QED  BY <2>3, <2>4, <2>5
<1> QED  BY <1>1, <1>2 DEF Fids

LEMMA ProdsKept ==
  ASSUME CatsOK, Grows, NEW fid \in Fids, HasProds(fid)
  PROVE  HasProds(fid)' /\ \A n \in Nat : n <= Len(Prods(fid)) => n <= Len(Prods(fid)')
<1>1. HasProds(fid)'
  BY DEF HasProds, Grows
<1>2. CASE fid \in DOMAIN ccats
  BY <1>1, <1>2, GrammarFacts DEF Prods, Grows
<1>3. CASE fid \in DOMAIN concr.cat
  BY <1>1, <1>3, GrammarFacts DEF Prods, Grows
<1> QED  BY <1>1, <1>2, <1>3 DEF Fids

LEMMA FrameKept ==
  ASSUME CatsOK, ContsOK, Grows, NEW f, FrameOK(f)
  PROVE  FrameOK(f)'
<1>1. f.k = "start" =>
        /\ DOMAIN f = {"k", "cats", "r"} /\ IsSeq(f.cats)
        /\ \A c \in Members(f.cats) : c \in Fids' /\ f.r \in 1..NCtnts(c)'
  BY CatKept DEF FrameOK
<1>2. f.k = "scan" =>
        /\ DOMAIN f = {"k", "tok", "agenda"}
        /\ \A item \in f.agenda : BeforeToken(item)'
  BY BeforeTokenKept DEF FrameOK
<1>3. f.k = "forms" =>
        /\ DOMAIN f = {"k", "item", "todo"}
        /\ BeforeToken(f.item)' /\ f.todo \subseteq OpenForms(f.item)'
  BY BeforeTokenKept, LinKept DEF FrameOK
<1>4. f.k = "item" => ItemOK(f.item)'
  BY ItemKept DEF FrameOK
<1>5. f.k = "predict" =>
        f.cat \in Fids' /\ f.r \in 1..NCtnts(f.cat)' /\ WaitsFor(f.item, f.cat, f.r)'
  BY CatKept, WaitsKept DEF FrameOK
<1>6. f.k = "prods" =>
        /\ DOMAIN f = {"k", "item", "conts", "i", "n"}
        /\ f.conts \in DOMAIN conts' /\ HasProds(f.conts[2])'
        /\ WaitsFor(f.item, f.conts[2], f.conts[3])'
        /\ f.i \in Nat \ {0} /\ f.n \in Nat /\ f.n <= Len(Prods(f.conts[2])')
  <2> SUFFICES ASSUME f.k = "prods"
               PROVE  /\ DOMAIN f = {"k", "item", "conts", "i", "n"}
                      /\ f.conts \in DOMAIN conts' /\ HasProds(f.conts[2])'
                      /\ WaitsFor(f.item, f.conts[2], f.conts[3])'
                      /\ f.i \in Nat \ {0} /\ f.n \in Nat /\ f.n <= Len(Prods(f.conts[2])')
    OBVIOUS
  <2>1. PICK fid : fid = f.conts[2]
    OBVIOUS
  <2>2. /\ DOMAIN f = {"k", "item", "conts", "i", "n"}
        /\ f.conts \in DOMAIN conts /\ HasProds(fid) /\ WaitsFor(f.item, fid, f.conts[3])
        /\ f.i \in Nat \ {0} /\ f.n \in Nat /\ f.n <= Len(Prods(fid))
    BY <2>1 DEF FrameOK
  <2>3. fid \in Fids
    BY <2>1, <2>2 DEF ContsOK
  <2>4. HasProds(fid)' /\ f.n <= Len(Prods(fid)')
    BY <2>2, <2>3, ProdsKept
  <2> QED  BY <2>1, <2>2, <2>4, WaitsKept DEF Grows
<1>7. f.k = "combine" =>
        /\ f.cat \in DOMAIN ccats'
        /\ f.cont # NULL =>
             /\ ItemOK(f.cont)' /\ ~AtEnd(f.cont)' /\ CurrSym(f.cont)'.t = "cat"
             /\ CncCat(f.cont.args[CurrSym(f.cont).d])' = CncCat(f.cat)'
  <2> SUFFICES ASSUME f.k = "combine"
               PROVE  /\ f.cat \in DOMAIN ccats'
                      /\ f.cont # NULL =>
                           /\ ItemOK(f.cont)' /\ ~AtEnd(f.cont)' /\ CurrSym(f.cont)'.t = "cat"
                           /\ CncCat(f.cont.args[CurrSym(f.cont).d])' = CncCat(f.cat)'
    OBVIOUS
  <2>1. f.cat \in DOMAIN ccats /\ f.cat \in Fids /\ f.cat \in DOMAIN ccats'
    BY DEF FrameOK, Fids, Grows
  <2>2. ASSUME f.cont # NULL
        PROVE  /\ ItemOK(f.cont)' /\ ~AtEnd(f.cont)' /\ CurrSym(f.cont)'.t = "cat"
               /\ CncCat(f.cont.args[CurrSym(f.cont).d])' = CncCat(f.cat)'
    <3>1. PICK item, sym : item = f.cont /\ sym = CurrSym(item)
      OBVIOUS
    <3>2. /\ ItemOK(item) /\ ~AtEnd(item) /\ sym.t = "cat"
          /\ CncCat(item.args[sym.d]) = CncCat(f.cat)
      BY <2>2, <3>1 DEF FrameOK
    <3>3. sym.d \in DOMAIN item.prod.args
      BY <3>1, <3>2, CurrSymFits DEF SymbolFits, ArgCats
    <3>4. item.args[sym.d] \in Fids
      BY <3>2, <3>3 DEF ItemOK
    <3>5. CncCat(item.args[sym.d])' = CncCat(f.cat)'
      BY <2>1, <3>2, <3>4, CatKept
    <3> QED  BY <3>1, <3>2, <3>5, ItemKept, LinKept
  <2> QED  BY <2>1, <2>2
<1>8. f.k = "complete" => ItemOK(f.item)' /\ AtEnd(f.item)'
  BY ItemKept, LinKept DEF FrameOK
<1>9. f.k = "contss" =>
        /\ DOMAIN f = {"k", "cat", "prod", "i"}
        /\ f.cat \in DOMAIN ccats' /\ ProdOK(f.prod, CncCat(f.cat))' /\ f.i \in Nat \ {0}
  <2> SUFFICES ASSUME f.k = "contss"
               PROVE  /\ DOMAIN f = {"k", "cat", "prod", "i"}
                      /\ f.cat \in DOMAIN ccats' /\ ProdOK(f.prod, CncCat(f.cat))' /\ f.i \in Nat \ {0}
    OBVIOUS
  <2>1. PICK k, cat : k = CncCat(cat) /\ cat = f.cat
    OBVIOUS
  <2>2. /\ DOMAIN f = {"k", "cat", "prod", "i"} /\ f.i \in Nat \ {0}
        /\ cat \in DOMAIN ccats /\ ProdOK(f.prod, k)
    BY <2>1 DEF FrameOK
  <2>3. ProdOK(f.prod, k)' /\ CncCat(cat)' = k /\ cat \in DOMAIN ccats'
    BY <2>1, <2>2, ProdKept, CatKept DEF Fids, Grows
  <2>4. ProdOK(f.prod, CncCat(cat))'
    BY <2>3 DEF ProdOK
  <2> QED  BY <2>1, <2>2, <2>3, <2>4
<1>10. f.k = "conts" =>
         /\ DOMAIN f = {"k", "conts", "cat", "todo"}
         /\ f.conts \in DOMAIN conts' /\ f.cat \in DOMAIN ccats'
         /\ CncCat(f.cat)' = CncCat(f.conts[2])' /\ f.todo \subseteq conts'[f.conts]
  <2> SUFFICES ASSUME f.k = "conts"
               PROVE  /\ DOMAIN f = {"k", "conts", "cat", "todo"}
                      /\ f.conts \in DOMAIN conts' /\ f.cat \in DOMAIN ccats'
                      /\ CncCat(f.cat)' = CncCat(f.conts[2])' /\ f.todo \subseteq conts'[f.conts]
    OBVIOUS
  <2>1. /\ DOMAIN f = {"k", "conts", "cat", "todo"} /\ f.conts \in DOMAIN conts
        /\ f.cat \in DOMAIN ccats /\ CncCat(f.cat) = CncCat(f.conts[2])
        /\ f.todo \subseteq conts[f.conts]
    BY DEF FrameOK
  <2>2. f.conts[2] \in Fids /\ f.cat \in Fids
    BY <2>1 DEF ContsOK, Fids
  <2> QED  BY <2>1, <2>2, CatKept DEF Grows
<1> QED  BY <1>1, <1>2, <1>3, <1>4, <1>5, <1>6, <1>7, <1>8, <1>9, <1>10 DEF FrameOK

-----------------------------------------------------------------------------
(* Steps that leave a part as it is *)

LEMMA QuietGrows ==
  ASSUME CatsOK, UNCHANGED <<concr, ccats, conts>>
  PROVE  Grows
<1>1. \A fid \in DOMAIN ccats : Len(ccats[fid].prods) \in Nat
  BY IsSeqFacts DEF CatsOK
<1> QED  BY <1>1 DEF Grows

LEMMA CatsKept ==
  ASSUME CatsOK, UNCHANGED <<concr, next_fid, ccats>>, Grows
  PROVE  CatsOK'
<1>1. ASSUME NEW fid \in DOMAIN ccats
      PROVE  /\ DOMAIN ccats[fid] = {"cat", "prods"}
             /\ ccats[fid].cat \in DOMAIN concr.cnccats /\ IsSeq(ccats[fid].prods)
             /\ \A prod \in Members(ccats[fid].prods) : ProdOK(prod, ccats[fid].cat)'
  <2>1. PICK k : k = ccats[fid].cat
    OBVIOUS
  <2>2. \A prod \in Members(ccats[fid].prods) : ProdOK(prod, k)'
    BY <2>1, ProdKept DEF CatsOK
  <2>3. \A prod \in Members(ccats[fid].prods) : ProdOK(prod, ccats[fid].cat)'
    BY <2>1, <2>2 DEF ProdOK
  <2> QED  BY <2>3 DEF CatsOK
<1> QED  BY <1>1 DEF CatsOK

LEMMA ContsKept ==
  ASSUME CatsOK, ContsOK, Grows, conts' = conts, DOMAIN parses \subseteq DOMAIN parses'
  PROVE  ContsOK'
<1>1. ASSUME NEW cid \in DOMAIN conts
      PROVE  /\ cid[1] \in DOMAIN parses' /\ cid[2] \in Fids' /\ cid[3] \in 1..NCtnts(cid[2])'
             /\ \A item \in conts[cid] : WaitsFor(item, cid[2], cid[3])'
  <2>1. /\ cid[1] \in DOMAIN parses /\ cid[2] \in Fids /\ cid[3] \in 1..NCtnts(cid[2])
        /\ \A item \in conts[cid] : WaitsFor(item, cid[2], cid[3])
    BY DEF ContsOK
  <2> QED  BY <2>1, CatKept, WaitsKept
<1> QED  BY <1>1 DEF ContsOK

\* What was filed under a token stays there and can still be scanned with it.
LEMMA FiledKept ==
  ASSUME CatsOK, ParsesOK, Grows, NEW p \in DOMAIN parses, NEW tok \in Tokens,
         NEW item \in parses[p].transitions[tok]
  PROVE  BeforeToken(item)' /\ Matching(item, tok)' # {}
<1>1. BeforeToken(item) /\ Matching(item, tok) # {}
  BY DEF ParsesOK
<1>2. BeforeToken(item)'
  BY <1>1, BeforeTokenKept
<1>3. Matching(item, tok)' = Matching(item, tok)
  BY LinKept
<1> QED  BY <1>1, <1>2, <1>3

LEMMA ParsesKept ==
  ASSUME CatsOK, ParsesOK, Grows, parses' = parses
  PROVE  ParsesOK'
  BY FiledKept DEF ParsesOK

LEMMA ParsingKept ==
  ASSUME CatsOK, ContsOK, ParsesOK, ParsingOK, Grows, parsing' = parsing, next_fid' = next_fid, Len(parses') = Len(parses),
         parsing.parse > 0 => parses'[parsing.parse].fid = parses[parsing.parse].fid,
         parsing.parse > 0
  PROVE  ParsingOK'
<1>1. \A item \in parsing.seen : ItemOK(item)'
  BY ItemKept DEF ParsingOK
<1>2. ASSUME NEW cid \in DOMAIN parsing.generated
      PROVE  /\ cid \in DOMAIN conts' /\ parsing.generated[cid] \in DOMAIN ccats'
             /\ CncCat(parsing.generated[cid])' = CncCat(cid[2])'
             /\ parsing.generated[cid] < parses'[parsing.parse].fid
  <2>1. PICK fid : fid = parsing.generated[cid]
    OBVIOUS
  <2>2. /\ cid \in DOMAIN conts /\ fid \in DOMAIN ccats /\ CncCat(fid) = CncCat(cid[2])
        /\ fid < parses[parsing.parse].fid
    BY <2>1 DEF ParsingOK
  <2>3. cid[2] \in Fids /\ fid \in Fids
    BY <2>2 DEF ContsOK, Fids
  <2> QED  BY <2>1, <2>2, <2>3, CatKept DEF Grows
<1> QED  BY <1>1, <1>2 DEF ParsingOK

\* A step of the parser that changes the stack only.
LEMMA ChartKept ==
  ASSUME ChartInv, stack # <<>>, UNCHANGED <<concr, next_fid, parses, ccats, conts, parsing>>
  PROVE  Grows /\ CatsOK' /\ ContsOK' /\ ParsesOK' /\ ParsingOK'
<1>1. Grows /\ parsing.parse > 0
  BY QuietGrows DEF ChartInv, StackOK
<1> QED  BY <1>1, CatsKept, ContsKept, ParsesKept, ParsingKept DEF ChartInv

-----------------------------------------------------------------------------
(* The stack *)

LEMMA TopOK ==
  ASSUME StackOK, ~Idle
  PROVE  /\ IsSeq(stack) /\ stack # <<>> /\ Len(stack) \in Nat \ {0} /\ parsing.parse > 0
         /\ Top \in Members(stack) /\ FrameOK(Top)
<1>1. IsSeq(stack) /\ stack # <<>> /\ Len(stack) \in Nat \ {0} /\ parsing.parse > 0
  BY TailSeq DEF StackOK, Idle
<1>2. Top \in Members(stack)
  BY <1>1 DEF Top, Members
<1> QED  BY <1>1, <1>2 DEF StackOK

LEMMA PopOK ==
  ASSUME CatsOK, ContsOK, StackOK, Grows, ~Idle, Pop, parsing'.parse = parsing.parse
  PROVE  StackOK'
<1>1. IsSeq(stack) /\ stack # <<>> /\ parsing.parse > 0
  BY TopOK
<1>2. IsSeq(stack') /\ Members(stack)' \subseteq Members(stack) \cup {}
  BY <1>1, TailSeq, TailMembers DEF Pop
<1>3. \A f \in Members(stack)' : FrameOK(f)'
  BY <1>2, FrameKept DEF StackOK
<1> QED  BY <1>1, <1>2, <1>3 DEF StackOK

LEMMA BecomeOK ==
  ASSUME CatsOK, ContsOK, StackOK, Grows, ~Idle, NEW f, Become(f), FrameOK(f)', parsing'.parse = parsing.parse
  PROVE  StackOK'
<1>1. IsSeq(stack) /\ stack # <<>> /\ parsing.parse > 0
  BY TopOK
<1>2. IsSeq(stack') /\ Members(stack)' \subseteq Members(stack) \cup {f}
  BY <1>1, BecomeSeq, BecomeMembers DEF Become
<1>3. \A g \in Members(stack)' : FrameOK(g)'
  BY <1>2, FrameKept DEF StackOK
<1> QED  BY <1>1, <1>2, <1>3 DEF StackOK

LEMMA CallOK ==
  ASSUME CatsOK, ContsOK, StackOK, Grows, ~Idle, NEW f, NEW g, Call(f, g), FrameOK(f)', FrameOK(g)',
         parsing'.parse = parsing.parse
  PROVE  StackOK'
<1>1. IsSeq(stack) /\ stack # <<>> /\ parsing.parse > 0
  BY TopOK
<1>2. IsSeq(stack') /\ Members(stack)' \subseteq Members(stack) \cup {f, g}
  BY <1>1, CallSeq, CallMembers DEF Call
<1>3. \A h \in Members(stack)' : FrameOK(h)'
  BY <1>2, FrameKept DEF StackOK
<1> QED  BY <1>1, <1>2, <1>3 DEF StackOK

-----------------------------------------------------------------------------
(* The calls of the client *)

\* A new parse, for which the stack is that of its first call.
LEMMA BeginStep ==
  ASSUME ChartInv, NEW start, NEW toks, NEW calls, Begin(start, toks, calls), IsSeq(calls),
         \A f \in Members(calls) : FrameOK(f)'
  PROVE  ChartInv'
<1>1. /\ UNCHANGED <<concr, next_fid, ccats, conts>> /\ stack' = calls
      /\ parses' = Append(parses, NewParse(start, toks)) /\ parsing' = NewParsing(Len(parses) + 1)
  BY DEF Begin
<1>2. Grows /\ CatsOK'
  BY <1>1, QuietGrows, CatsKept DEF ChartInv
<1>3. PICK n, new : n \in Nat /\ n = Len(parses) /\ new = NewParse(start, toks)
  BY IsSeqFacts DEF ChartInv, ParsesOK
<1>4. /\ IsSeq(parses') /\ DOMAIN parses = 1..n /\ DOMAIN parses' = 1..(n + 1) /\ Len(parses') = n + 1
      /\ \A p \in 1..n : parses'[p] = parses[p]
      /\ parses'[n + 1] = new
  BY <1>1, <1>3, AppendSeq, IsSeqFacts DEF ChartInv, ParsesOK
<1>5. ContsOK'
  <2>1. DOMAIN parses \subseteq DOMAIN parses'
    BY <1>3, <1>4
  <2> QED  BY <1>1, <1>2, <2>1, ContsKept DEF ChartInv
<1>6. ParsesOK'
  <2>1. ASSUME NEW p \in 1..n
        PROVE  /\ DOMAIN parses'[p] = {"start", "toks", "fid", "transitions", "completed"}
               /\ DOMAIN parses'[p].transitions = Tokens /\ IsSeq(parses'[p].completed)
               /\ \A tok \in Tokens : \A item \in parses'[p].transitions[tok] :
                    BeforeToken(item)' /\ Matching(item, tok)' # {}
    BY <1>2, <1>4, <2>1, FiledKept DEF ChartInv, ParsesOK
  <2>2. /\ DOMAIN new = {"start", "toks", "fid", "transitions", "completed"}
        /\ DOMAIN new.transitions = Tokens /\ IsSeq(new.completed)
        /\ \A tok \in Tokens : new.transitions[tok] = {}
    BY <1>3, NewSeqs DEF NewParse
  <2>3. \A p \in DOMAIN parses' : p \in 1..n \/ p = n + 1
    BY <1>3, <1>4
  <2> QED  BY <1>4, <2>1, <2>2, <2>3 DEF ParsesOK
<1>7. ParsingOK'
  <2>1. /\ DOMAIN parsing' = {"parse", "seen", "generated"}
        /\ parsing'.parse = n + 1 /\ parsing'.seen = {} /\ DOMAIN parsing'.generated = {}
    BY <1>1, <1>3 DEF NewParsing
  <2>2. parses'[n + 1].fid = next_fid
    BY <1>3, <1>4 DEF NewParse
  <2>3. next_fid \in Int
    BY DEF ChartInv, CatsOK
  <2> QED  BY <1>1, <1>4, <2>1, <2>2, <2>3 DEF ParsingOK
<1>8. StackOK'
  <2>1. parsing'.parse > 0
    BY <1>1, <1>3 DEF NewParsing
  <2> QED  BY <1>1, <2>1 DEF StackOK
<1> QED  BY <1>2, <1>5, <1>6, <1>7, <1>8 DEF ChartInv

LEMMA ParseStep ==
  ASSUME ChartInv, NEW cat, NEW r \in CtntIds(cat), pgf_parser_parse(cat, r)
  PROVE  ChartInv'
<1>1. CASE cat \in DOMAIN concr.cnccats
  <2>1. PICK f : f = [k |-> "start", cats |-> concr.cnccats[cat].cats, r |-> r]
    OBVIOUS
  <2>2. Begin(<<cat, r>>, <<>>, <<f>>)
    BY <1>1, <2>1 DEF pgf_parser_parse
  <2>3. Grows
    BY <2>2, QuietGrows DEF Begin, ChartInv
  <2>4. CatsOK /\ WellFormed(concr)
    BY GrammarFacts DEF ChartInv
  <2>5. /\ f.k = "start" /\ DOMAIN f = {"k", "cats", "r"} /\ f.r = r
        /\ f.cats = concr.cnccats[cat].cats
    BY <2>1
  <2>6. IsSeq(f.cats)
    BY <1>1, <2>4, <2>5 DEF WellFormed
  <2>7. ASSUME NEW c \in Members(f.cats)
        PROVE  c \in Fids /\ r \in 1..NCtnts(c)
    <3>1. PICK i \in DOMAIN f.cats : c = f.cats[i]
      BY <2>6, IsSeqFacts DEF Members
    <3>2. c \in DOMAIN concr.cat /\ concr.cat[c] = cat
      BY <1>1, <2>4, <2>5, <3>1 DEF WellFormed
    <3>3. CncCat(c) = cat /\ c \in Fids
      BY <2>4, <3>2, GrammarFacts DEF CncCat, Fids
    <3> QED  BY <1>1, <3>3 DEF NCtnts, CtntIds
  <2>8. FrameOK(f)
    BY <2>5, <2>6, <2>7 DEF FrameOK
  <2>9. FrameOK(f)'
    BY <2>3, <2>8, FrameKept DEF ChartInv
  <2>10. IsSeq(<<f>>) /\ \A g \in Members(<<f>>) : FrameOK(g)'
    BY <2>9, NewSeqs
  <2> QED  BY <2>2, <2>10, BeginStep
<1>2. CASE cat \notin DOMAIN concr.cnccats
  <2>1. Begin(<<cat, r>>, <<>>, <<>>)
    BY <1>2 DEF pgf_parser_parse
  <2>2. IsSeq(<<>>) /\ \A g \in Members(<<>>) : FrameOK(g)'
    BY NewSeqs
  <2> QED  BY <2>1, <2>2, BeginStep
<1> QED  BY <1>1, <1>2

LEMMA TokenStep ==
  ASSUME ChartInv, NEW p \in DOMAIN parses, NEW tok \in Tokens, pgf_parse_token(p, tok)
  PROVE  ChartInv'
<1>1. PICK f : f = [k |-> "scan", tok |-> tok, agenda |-> parses[p].transitions[tok]]
  OBVIOUS
<1>2. Begin(parses[p].start, Append(parses[p].toks, tok), <<f>>)
  BY <1>1 DEF pgf_parse_token
<1>3. Grows
  BY <1>2, QuietGrows DEF Begin, ChartInv
<1>4. f.k = "scan" /\ DOMAIN f = {"k", "tok", "agenda"} /\ f.agenda = parses[p].transitions[tok]
  BY <1>1
<1>5. \A item \in f.agenda : BeforeToken(item)
  BY <1>4 DEF ChartInv, ParsesOK
<1>6. FrameOK(f)
  BY <1>4, <1>5 DEF FrameOK
<1>7. FrameOK(f)'
  BY <1>3, <1>6, FrameKept DEF ChartInv
<1>8. IsSeq(<<f>>) /\ \A g \in Members(<<f>>) : FrameOK(g)'
  BY <1>7, NewSeqs
<1> QED  BY <1>2, <1>8, BeginStep

-----------------------------------------------------------------------------
(* Steps that change the stack only *)

LEMMA StartStep ==
  ASSUME ChartInv, Start
  PROVE  ChartInv'
<1>1. ~Idle /\ Top.k = "start" /\ UNCHANGED <<concr, next_fid, parses, ccats, conts, parsing>>
  BY DEF Start
<1>2. Grows /\ CatsOK' /\ ContsOK' /\ ParsesOK' /\ ParsingOK' /\ FrameOK(Top)
  BY <1>1, ChartKept, TopOK DEF ChartInv, Idle
<1>3. PICK top : top = Top
  OBVIOUS
<1>4. /\ DOMAIN top = {"k", "cats", "r"} /\ IsSeq(top.cats)
      /\ \A c \in Members(top.cats) : c \in Fids /\ top.r \in 1..NCtnts(c)
  BY <1>1, <1>2, <1>3 DEF FrameOK
<1>5. CASE top.cats = <<>>
  <2>1. Pop
    BY <1>3, <1>5 DEF Start
  <2>2. StackOK'
    BY <1>1, <1>2, <2>1, PopOK DEF ChartInv
  <2> QED  BY <1>2, <2>2 DEF ChartInv
<1>6. CASE top.cats # <<>>
  <2>1. PICK f, g : /\ f = [k |-> "predict", item |-> NULL, cat |-> Head(top.cats), r |-> top.r]
                    /\ g = [top EXCEPT !.cats = Tail(@)]
    OBVIOUS
  <2>2. Call(f, g)
    BY <1>3, <1>6, <2>1 DEF Start
  <2>3. Head(top.cats) \in Members(top.cats)
    BY <1>4, <1>6, TailSeq DEF Members
  <2>4. FrameOK(f)
    <3>1. f.k = "predict" /\ f.item = NULL /\ f.cat = Head(top.cats) /\ f.r = top.r
      BY <2>1
    <3> QED  BY <1>4, <2>3, <3>1 DEF FrameOK, WaitsFor
  <2>5. FrameOK(g)
    <3>1. g.k = "start" /\ DOMAIN g = {"k", "cats", "r"} /\ g.cats = Tail(top.cats) /\ g.r = top.r
      BY <1>1, <1>3, <1>4, <2>1
    <3>2. IsSeq(g.cats) /\ Members(g.cats) \subseteq Members(top.cats)
      BY <1>4, <1>6, <3>1, TailSeq, TailMembers
    <3> QED  BY <1>4, <3>1, <3>2 DEF FrameOK
  <2>6. StackOK'
    BY <1>1, <1>2, <2>2, <2>4, <2>5, FrameKept, CallOK DEF ChartInv
  <2> QED  BY <1>2, <2>6 DEF ChartInv
<1> QED  BY <1>5, <1>6

LEMMA ScanStep ==
  ASSUME ChartInv, Scan
  PROVE  ChartInv'
<1>1. ~Idle /\ Top.k = "scan" /\ UNCHANGED <<concr, next_fid, parses, ccats, conts, parsing>>
  BY DEF Scan
<1>2. Grows /\ CatsOK' /\ ContsOK' /\ ParsesOK' /\ ParsingOK' /\ FrameOK(Top)
  BY <1>1, ChartKept, TopOK DEF ChartInv, Idle
<1>3. PICK top : top = Top
  OBVIOUS
<1>4. DOMAIN top = {"k", "tok", "agenda"} /\ \A item \in top.agenda : BeforeToken(item)
  BY <1>1, <1>2, <1>3 DEF FrameOK
<1>5. CASE Pop
  <2>1. StackOK'
    BY <1>1, <1>2, <1>5, PopOK DEF ChartInv
  <2> QED  BY <1>2, <2>1 DEF ChartInv
<1>6. ASSUME NEW item \in top.agenda, NEW f, NEW g, Call(f, g),
             f = [k |-> "forms", item |-> item, todo |-> Matching(item, top.tok)],
             g = [top EXCEPT !.agenda = @ \ {item}]
      PROVE  ChartInv'
  <2>1. FrameOK(f)
    <3>1. f.k = "forms" /\ DOMAIN f = {"k", "item", "todo"} /\ f.item = item
          /\ f.todo \subseteq OpenForms(item)
      BY <1>6 DEF Matching
    <3> QED  BY <1>4, <3>1 DEF FrameOK
  <2>2. FrameOK(g)
    <3>1. g.k = "scan" /\ DOMAIN g = {"k", "tok", "agenda"} /\ g.agenda \subseteq top.agenda
      BY <1>1, <1>3, <1>4, <1>6
    <3> QED  BY <1>4, <3>1 DEF FrameOK
  <2>3. StackOK'
    BY <1>1, <1>2, <1>6, <2>1, <2>2, FrameKept, CallOK DEF ChartInv
  <2> QED  BY <1>2, <2>3 DEF ChartInv
<1> QED  BY <1>3, <1>5, <1>6 DEF Scan

-----------------------------------------------------------------------------
(* The items that are made *)

\* The forms that are open exist, and the item is not at the end of them.
LEMMA OpenFormsFacts ==
  ASSUME NEW item, BeforeToken(item), NEW i \in OpenForms(item)
  PROVE  /\ i \in DOMAIN Forms(CurrSym(item)) /\ i \in Nat \ {0}
         /\ Len(Forms(CurrSym(item))[i]) \in Nat
         /\ item.tok_idx < Len(Forms(CurrSym(item))[i])
<1>1. PICK sym, forms : sym = CurrSym(item) /\ forms = Forms(sym)
  OBVIOUS
<1>2. ItemOK(item) /\ ~AtEnd(item) /\ sym.t \in {"ks", "kp"}
  BY <1>1 DEF BeforeToken
<1>3. SymbolFits(concr, sym, ArgCats(item.prod.args))
  BY <1>1, <1>2, CurrSymFits
<1>4. IsSeq(forms) /\ \A j \in DOMAIN forms : forms[j] \in Seq(Tokens) /\ forms[j] # <<>>
  BY <1>1, <1>2, <1>3 DEF SymbolFits
<1>5. DOMAIN forms = 1..Len(forms) /\ \A j \in DOMAIN forms : Len(forms[j]) \in Nat \ {0}
  BY <1>4, IsSeqFacts, EmptySeq, LenProperties
<1>6. item.tok_idx \in Nat
  BY <1>2 DEF ItemOK
<1>7. CASE item.tok_idx > 0
  BY <1>1, <1>2, <1>5, <1>7 DEF OpenForms, ItemOK
<1>8. CASE item.tok_idx = 0
  BY <1>1, <1>5, <1>8 DEF OpenForms
<1> QED  BY <1>6, <1>7, <1>8

LEMMA ScannedOK ==
  ASSUME NEW item, BeforeToken(item), NEW i \in OpenForms(item)
  PROVE  ItemOK(Scanned(item, i))
<1>1. PICK new, len : new = Scanned(item, i) /\ len = Len(Forms(CurrSym(item))[i])
  OBVIOUS
<1>2. ItemOK(item) /\ ~AtEnd(item) /\ CurrSym(item).t \in {"ks", "kp"}
  BY DEF BeforeToken
<1>3. i \in DOMAIN Forms(CurrSym(item)) /\ i \in Nat \ {0} /\ len \in Nat /\ item.tok_idx < len
  BY <1>1, OpenFormsFacts
<1>4. item.seq_idx \in Nat /\ item.tok_idx \in Nat /\ Len(Lin(item)) \in Nat
      /\ item.seq_idx + 1 \in 1..Len(Lin(item))
  BY <1>2, CurrSymFits DEF ItemOK
<1>5. DOMAIN item = {"conts", "prod", "args", "seq_idx", "tok_idx", "alt"}
  BY <1>2 DEF ItemOK
<1>6. /\ DOMAIN new = {"conts", "prod", "args", "seq_idx", "tok_idx", "alt"}
      /\ new.conts = item.conts /\ new.prod = item.prod /\ new.args = item.args /\ new.alt = i - 1
      /\ new.tok_idx = (IF item.tok_idx + 1 = len THEN 0 ELSE item.tok_idx + 1)
      /\ new.seq_idx = (IF item.tok_idx + 1 = len THEN item.seq_idx + 1 ELSE item.seq_idx)
  BY <1>1, <1>5 DEF Scanned
<1>7. Lin(new) = Lin(item)
  BY <1>6 DEF Lin
<1>8. new.seq_idx \in 0..Len(Lin(new)) /\ new.tok_idx \in Nat /\ new.alt \in Nat
  BY <1>3, <1>4, <1>6, <1>7
<1>9. ASSUME new.tok_idx > 0
      PROVE  /\ ~AtEnd(new) /\ CurrSym(new).t \in {"ks", "kp"}
             /\ new.alt + 1 \in DOMAIN Forms(CurrSym(new))
             /\ new.tok_idx < Len(Forms(CurrSym(new))[new.alt + 1])
  <2>1. new.seq_idx = item.seq_idx /\ new.tok_idx = item.tok_idx + 1 /\ item.tok_idx + 1 # len
    BY <1>6, <1>9
  <2>2. CurrSym(new) = CurrSym(item) /\ ~AtEnd(new)
    BY <1>2, <1>7, <2>1 DEF CurrSym, AtEnd
  <2>3. new.alt + 1 = i /\ new.tok_idx < len
    BY <1>3, <1>4, <1>6, <2>1
  <2> QED  BY <1>1, <1>2, <1>3, <2>2, <2>3
<1>10. ItemOK(new)
  BY <1>2, <1>6, <1>8, <1>9 DEF ItemOK
<1> QED  BY <1>1, <1>10

LEMMA CombinedOK ==
  ASSUME NEW cont, ItemOK(cont), ~AtEnd(cont), CurrSym(cont).t = "cat", NEW fid \in Fids,
         CncCat(cont.args[CurrSym(cont).d]) = CncCat(fid)
  PROVE  ItemOK(Combined(cont, fid))
<1>1. PICK new, d : new = Combined(cont, fid) /\ d = CurrSym(cont).d
  OBVIOUS
<1>2. d \in DOMAIN cont.prod.args
  BY <1>1, CurrSymFits DEF SymbolFits, ArgCats
<1>3. /\ DOMAIN cont = {"conts", "prod", "args", "seq_idx", "tok_idx", "alt"}
      /\ cont.args \in [DOMAIN cont.prod.args -> Fids]
      /\ \A c \in DOMAIN cont.prod.args : CncCat(cont.args[c]) = CncCat(cont.prod.args[c])
      /\ cont.seq_idx \in Nat /\ cont.tok_idx \in Nat /\ cont.alt \in Nat
  BY CurrSymFits DEF ItemOK
<1>4. cont.tok_idx = 0
  BY <1>3 DEF ItemOK
<1>5. /\ DOMAIN new = {"conts", "prod", "args", "seq_idx", "tok_idx", "alt"}
      /\ new.conts = cont.conts /\ new.prod = cont.prod /\ new.alt = cont.alt
      /\ new.tok_idx = cont.tok_idx /\ new.seq_idx = cont.seq_idx + 1
      /\ new.args = [cont.args EXCEPT ![d] = fid]
  BY <1>1, <1>3 DEF Combined
<1>6. new.args \in [DOMAIN new.prod.args -> Fids]
  BY <1>3, <1>5
<1>7. \A c \in DOMAIN new.prod.args : CncCat(new.args[c]) = CncCat(new.prod.args[c])
  BY <1>1, <1>2, <1>3, <1>5
<1>8. Lin(new) = Lin(cont)
  BY <1>5 DEF Lin
<1>9. new.seq_idx \in 0..Len(Lin(new))
  BY <1>3, <1>5, <1>8, CurrSymFits
<1>10. ItemOK(new)
  BY <1>3, <1>4, <1>5, <1>6, <1>7, <1>9 DEF ItemOK
<1> QED  BY <1>1, <1>10

LEMMA NewItemOK ==
  ASSUME ContsOK, NEW cid \in DOMAIN conts, NEW prod, ProdOK(prod, CncCat(cid[2]))
  PROVE  ItemOK(pgf_new_item(cid, prod))
<1>1. PICK new : new = pgf_new_item(cid, prod)
  OBVIOUS
<1>2. /\ DOMAIN new = {"conts", "prod", "args", "seq_idx", "tok_idx", "alt"}
      /\ new.conts = cid /\ new.prod = prod /\ new.args = prod.args
      /\ new.seq_idx = 0 /\ new.tok_idx = 0 /\ new.alt = 0
  BY <1>1 DEF pgf_new_item
<1>3. cid[2] \in Fids /\ cid[3] \in 1..NCtnts(cid[2])
  BY DEF ContsOK
<1>4. IsSeq(Lin(new))
  BY <1>2, <1>3 DEF Lin, ProdOK, ProdFits, NCtnts
<1>5. Len(Lin(new)) \in Nat
  BY <1>4, IsSeqFacts
<1>6. ItemOK(new)
  BY <1>2, <1>3, <1>5 DEF ItemOK, ProdOK
<1> QED  BY <1>1, <1>6

\* A completed item stands for a production of its category.
LEMMA DoneProdOK ==
  ASSUME NEW item, ItemOK(item)
  PROVE  ProdOK(DoneProd(item), CncCat(item.conts[2]))
<1>1. PICK prod : prod = DoneProd(item)
  OBVIOUS
<1>2. prod.fun = item.prod.fun /\ prod.args = item.args
  BY <1>1 DEF DoneProd
<1>3. DOMAIN item.args = DOMAIN item.prod.args
      /\ \A d \in DOMAIN item.prod.args : CncCat(item.args[d]) = CncCat(item.prod.args[d])
  BY DEF ItemOK
<1>4. ArgCats(prod.args) = ArgCats(item.prod.args)
  BY <1>2, <1>3 DEF ArgCats
<1>5. prod.args \in [DOMAIN prod.args -> Fids]
  BY <1>2, <1>3 DEF ItemOK
<1>6. ProdFits(concr, prod, CncCat(item.conts[2]), ArgCats(prod.args))
  BY <1>2, <1>4 DEF ItemOK, ProdOK, ProdFits, LinOf
<1> QED  BY <1>1, <1>5, <1>6 DEF ProdOK

LEMMA ScanFormsStep ==
  ASSUME ChartInv, ScanForms
  PROVE  ChartInv'
<1>1. ~Idle /\ Top.k = "forms" /\ UNCHANGED <<concr, next_fid, parses, ccats, conts, parsing>>
  BY DEF ScanForms
<1>2. Grows /\ CatsOK' /\ ContsOK' /\ ParsesOK' /\ ParsingOK' /\ FrameOK(Top)
  BY <1>1, ChartKept, TopOK DEF ChartInv, Idle
<1>3. PICK top : top = Top
  OBVIOUS
<1>4. /\ DOMAIN top = {"k", "item", "todo"}
      /\ BeforeToken(top.item) /\ top.todo \subseteq OpenForms(top.item)
  BY <1>1, <1>2, <1>3 DEF FrameOK
<1>5. CASE Pop
  <2>1. StackOK'
    BY <1>1, <1>2, <1>5, PopOK DEF ChartInv
  <2> QED  BY <1>2, <2>1 DEF ChartInv
<1>6. ASSUME NEW i \in top.todo, NEW f, NEW g, Call(f, g),
             f = ItemFrame(Scanned(top.item, i)), g = [top EXCEPT !.todo = @ \ {i}]
      PROVE  ChartInv'
  <2>1. FrameOK(f)
    <3>1. PICK item : item = Scanned(top.item, i)
      OBVIOUS
    <3>2. ItemOK(item)
      BY <1>4, <3>1, ScannedOK
    <3>3. f.k = "item" /\ f.item = item
      BY <1>6, <3>1 DEF ItemFrame
    <3> QED  BY <3>2, <3>3 DEF FrameOK
  <2>2. FrameOK(g)
    <3>1. /\ g.k = "forms" /\ DOMAIN g = {"k", "item", "todo"} /\ g.item = top.item
          /\ g.todo \subseteq top.todo
      BY <1>1, <1>3, <1>4, <1>6
    <3> QED  BY <1>4, <3>1 DEF FrameOK
  <2>3. StackOK'
    BY <1>1, <1>2, <1>6, <2>1, <2>2, FrameKept, CallOK DEF ChartInv
  <2> QED  BY <1>2, <2>3 DEF ChartInv
<1> QED  BY <1>3, <1>5, <1>6 DEF ScanForms

LEMMA ItemSeenStep ==
  ASSUME ChartInv, ItemSeen
  PROVE  ChartInv'
<1>1. ~Idle /\ Pop /\ UNCHANGED <<concr, next_fid, parses, ccats, conts, parsing>>
  BY DEF ItemSeen
<1>2. Grows /\ CatsOK' /\ ContsOK' /\ ParsesOK' /\ ParsingOK'
  BY <1>1, ChartKept DEF ChartInv, Idle
<1>3. StackOK'
  BY <1>1, <1>2, PopOK DEF ChartInv
<1> QED  BY <1>2, <1>3 DEF ChartInv

LEMMA ProdsLoopStep ==
  ASSUME ChartInv, ProdsLoop
  PROVE  ChartInv'
<1>1. ~Idle /\ Top.k = "prods" /\ UNCHANGED <<concr, next_fid, parses, ccats, conts, parsing>>
  BY DEF ProdsLoop
<1>2. Grows /\ CatsOK' /\ ContsOK' /\ ParsesOK' /\ ParsingOK' /\ FrameOK(Top)
  BY <1>1, ChartKept, TopOK DEF ChartInv, Idle
<1>3. PICK top, cid : top = Top /\ cid = Top.conts
  OBVIOUS
<1>4. PICK fid : fid = cid[2]
  OBVIOUS
<1>5. /\ DOMAIN top = {"k", "item", "conts", "i", "n"} /\ top.k = "prods" /\ top.conts = cid
      /\ cid \in DOMAIN conts /\ HasProds(fid) /\ WaitsFor(top.item, fid, cid[3])
      /\ top.i \in Nat \ {0} /\ top.n \in Nat /\ top.n <= Len(Prods(fid))
  BY <1>1, <1>2, <1>3, <1>4 DEF FrameOK
<1>6. fid \in Fids /\ CatsOK /\ ContsOK /\ ParsingOK
  BY <1>4, <1>5 DEF ChartInv, ContsOK
<1>7. CASE top.i <= top.n
  <2>1. PICK prod : prod = Prods(fid)[top.i]
    OBVIOUS
  <2>2. Len(Prods(fid)) \in Nat /\ \A i \in 1..Len(Prods(fid)) : ProdOK(Prods(fid)[i], CncCat(fid))
    BY <1>5, <1>6, ProdsFacts
  <2>3. top.i \in 1..Len(Prods(fid))
    BY <1>5, <1>7, <2>2
  <2>4. ProdOK(prod, CncCat(cid[2]))
    BY <1>4, <2>1, <2>2, <2>3
  <2>5. PICK new : new = pgf_new_item(cid, prod)
    OBVIOUS
  <2>6. ItemOK(new)
    BY <1>5, <1>6, <2>4, <2>5, NewItemOK
  <2>7. PICK f, g : f = ItemFrame(new) /\ g = [top EXCEPT !.i = @ + 1]
    OBVIOUS
  <2>8. Call(f, g)
    BY <1>3, <1>4, <1>5, <1>7, <2>1, <2>5, <2>7 DEF ProdsLoop
  <2>9. FrameOK(f)
    <3>1. f.k = "item" /\ f.item = new
      BY <2>7 DEF ItemFrame
    <3> QED  BY <2>6, <3>1 DEF FrameOK
  <2>10. FrameOK(g)
    <3>1. /\ DOMAIN g = {"k", "item", "conts", "i", "n"} /\ g.k = "prods" /\ g.conts = cid
          /\ g.item = top.item /\ g.n = top.n /\ g.i = top.i + 1
      BY <1>5, <2>7
    <3> QED  BY <1>4, <1>5, <3>1 DEF FrameOK
  <2>11. StackOK'
    BY <1>1, <1>2, <2>8, <2>9, <2>10, FrameKept, CallOK DEF ChartInv
  <2> QED  BY <1>2, <2>11 DEF ChartInv
<1>8. CASE ~(top.i <= top.n) /\ cid \in DOMAIN parsing.generated
  <2>1. PICK done, f : /\ done = parsing.generated[cid]
                       /\ f = [k |-> "combine", cont |-> top.item, cat |-> done]
    OBVIOUS
  <2>2. Become(f)
    BY <1>3, <1>8, <2>1 DEF ProdsLoop
  <2>3. done \in DOMAIN ccats /\ CncCat(done) = CncCat(fid)
    BY <1>4, <1>6, <1>8, <2>1 DEF ParsingOK
  <2>4. f.k = "combine" /\ f.cont = top.item /\ f.cat = done
    BY <2>1
  <2>5. FrameOK(f)
    BY <1>5, <2>3, <2>4 DEF FrameOK, WaitsFor
  <2>6. StackOK'
    BY <1>1, <1>2, <2>2, <2>5, FrameKept, BecomeOK DEF ChartInv
  <2> QED  BY <1>2, <2>6 DEF ChartInv
<1>9. CASE ~(top.i <= top.n) /\ cid \notin DOMAIN parsing.generated
  <2>1. Pop
    BY <1>3, <1>9 DEF ProdsLoop
  <2>2. StackOK'
    BY <1>1, <1>2, <2>1, PopOK DEF ChartInv
  <2> QED  BY <1>2, <2>2 DEF ChartInv
<1> QED  BY <1>7, <1>8, <1>9

LEMMA ContssLoopStep ==
  ASSUME ChartInv, ContssLoop
  PROVE  ChartInv'
<1>1. ~Idle /\ Top.k = "contss" /\ UNCHANGED <<concr, next_fid, parses, ccats, conts, parsing>>
  BY DEF ContssLoop
<1>2. Grows /\ CatsOK' /\ ContsOK' /\ ParsesOK' /\ ParsingOK' /\ FrameOK(Top)
  BY <1>1, ChartKept, TopOK DEF ChartInv, Idle
<1>3. PICK top, cid : top = Top /\ cid = ContsId(Top.cat, Top.i)
  OBVIOUS
<1>4. /\ DOMAIN top = {"k", "cat", "prod", "i"} /\ top.k = "contss"
      /\ top.cat \in DOMAIN ccats /\ ProdOK(top.prod, CncCat(top.cat)) /\ top.i \in Nat \ {0}
  BY <1>1, <1>2, <1>3 DEF FrameOK
<1>5. cid[2] = top.cat
  BY <1>3 DEF ContsId
<1>6. PICK g : g = [top EXCEPT !.i = @ + 1]
  OBVIOUS
<1>7. FrameOK(g)
  <2>1. /\ DOMAIN g = {"k", "cat", "prod", "i"} /\ g.k = "contss" /\ g.cat = top.cat
        /\ g.prod = top.prod /\ g.i = top.i + 1
    BY <1>4, <1>6
  <2> QED  BY <1>4, <2>1 DEF FrameOK
<1>8. CASE top.i > NCtnts(top.cat)
  <2>1. Pop
    BY <1>3, <1>8 DEF ContssLoop
  <2>2. StackOK'
    BY <1>1, <1>2, <2>1, PopOK DEF ChartInv
  <2> QED  BY <1>2, <2>2 DEF ChartInv
<1>9. CASE ~(top.i > NCtnts(top.cat)) /\ cid \in DOMAIN conts
  <2>1. PICK new, f : new = pgf_new_item(cid, top.prod) /\ f = ItemFrame(new)
    OBVIOUS
  <2>2. Call(f, g)
    BY <1>3, <1>6, <1>9, <2>1 DEF ContssLoop
  <2>3. ItemOK(new)
    BY <1>4, <1>5, <1>9, <2>1, NewItemOK DEF ChartInv
  <2>4. f.k = "item" /\ f.item = new
    BY <2>1 DEF ItemFrame
  <2>5. FrameOK(f)
    BY <2>3, <2>4 DEF FrameOK
  <2>6. StackOK'
    BY <1>1, <1>2, <1>7, <2>2, <2>5, FrameKept, CallOK DEF ChartInv
  <2> QED  BY <1>2, <2>6 DEF ChartInv
<1>10. CASE ~(top.i > NCtnts(top.cat)) /\ cid \notin DOMAIN conts
  <2>1. Become(g)
    BY <1>3, <1>6, <1>10 DEF ContssLoop
  <2>2. StackOK'
    BY <1>1, <1>2, <1>7, <2>1, FrameKept, BecomeOK DEF ChartInv
  <2> QED  BY <1>2, <2>2 DEF ChartInv
<1> QED  BY <1>8, <1>9, <1>10

LEMMA ContsLoopStep ==
  ASSUME ChartInv, ContsLoop
  PROVE  ChartInv'
<1>1. ~Idle /\ Top.k = "conts" /\ UNCHANGED <<concr, next_fid, parses, ccats, conts, parsing>>
  BY DEF ContsLoop
<1>2. Grows /\ CatsOK' /\ ContsOK' /\ ParsesOK' /\ ParsingOK' /\ FrameOK(Top)
  BY <1>1, ChartKept, TopOK DEF ChartInv, Idle
<1>3. PICK top, cid : top = Top /\ cid = Top.conts
  OBVIOUS
<1>4. /\ DOMAIN top = {"k", "conts", "cat", "todo"} /\ top.k = "conts" /\ top.conts = cid
      /\ cid \in DOMAIN conts /\ top.cat \in DOMAIN ccats
      /\ CncCat(top.cat) = CncCat(cid[2]) /\ top.todo \subseteq conts[cid]
  BY <1>1, <1>2, <1>3 DEF FrameOK
<1>5. CASE Pop
  <2>1. StackOK'
    BY <1>1, <1>2, <1>5, PopOK DEF ChartInv
  <2> QED  BY <1>2, <2>1 DEF ChartInv
<1>6. ASSUME NEW cont \in top.todo, NEW f, NEW g, Call(f, g),
             f = [k |-> "combine", cont |-> cont, cat |-> top.cat],
             g = [top EXCEPT !.todo = @ \ {cont}]
      PROVE  ChartInv'
  <2>1. FrameOK(f)
    <3>1. f.k = "combine" /\ f.cont = cont /\ f.cat = top.cat
      BY <1>6
    <3>2. WaitsFor(cont, cid[2], cid[3])
      BY <1>4 DEF ChartInv, ContsOK
    <3> QED  BY <1>4, <3>1, <3>2 DEF FrameOK, WaitsFor
  <2>2. FrameOK(g)
    <3>1. /\ DOMAIN g = {"k", "conts", "cat", "todo"} /\ g.k = "conts" /\ g.conts = cid
          /\ g.cat = top.cat /\ g.todo \subseteq top.todo
      BY <1>4, <1>6
    <3> QED  BY <1>4, <3>1 DEF FrameOK
  <2>3. StackOK'
    BY <1>1, <1>2, <1>6, <2>1, <2>2, FrameKept, CallOK DEF ChartInv
  <2> QED  BY <1>2, <2>3 DEF ChartInv
<1> QED  BY <1>3, <1>5, <1>6 DEF ContsLoop

-----------------------------------------------------------------------------
(* Steps that change the chart *)

LEMMA ParsingSeen ==
  ASSUME CatsOK, ContsOK, ParsesOK, ParsingOK, Grows, next_fid' = next_fid, Len(parses') = Len(parses),
         parses'[parsing.parse].fid = parses[parsing.parse].fid, parsing.parse > 0,
         NEW item, ItemOK(item), parsing' = [parsing EXCEPT !.seen = @ \cup {item}]
  PROVE  ParsingOK' /\ parsing'.parse = parsing.parse
<1>1. /\ DOMAIN parsing' = {"parse", "seen", "generated"} /\ parsing'.parse = parsing.parse
      /\ parsing'.generated = parsing.generated /\ parsing'.seen = parsing.seen \cup {item}
  BY DEF ParsingOK
<1>2. \A other \in parsing'.seen : ItemOK(other)'
  BY <1>1, ItemKept DEF ParsingOK
<1>3. ASSUME NEW cid \in DOMAIN parsing.generated
      PROVE  /\ cid \in DOMAIN conts' /\ parsing.generated[cid] \in DOMAIN ccats'
             /\ CncCat(parsing.generated[cid])' = CncCat(cid[2])'
             /\ parsing.generated[cid] < parses'[parsing.parse].fid
  <2>1. PICK fid : fid = parsing.generated[cid]
    OBVIOUS
  <2>2. /\ cid \in DOMAIN conts /\ fid \in DOMAIN ccats /\ CncCat(fid) = CncCat(cid[2])
        /\ fid < parses[parsing.parse].fid
    BY <2>1 DEF ParsingOK
  <2>3. cid[2] \in Fids /\ fid \in Fids
    BY <2>2 DEF ContsOK, Fids
  <2> QED  BY <2>1, <2>2, <2>3, CatKept DEF Grows
<1> QED  BY <1>1, <1>2, <1>3 DEF ParsingOK

\* An item is filed under the tokens that can come next.
LEMMA FiledOK ==
  ASSUME CatsOK, ParsesOK, Grows, NEW p \in DOMAIN parses, NEW item, BeforeToken(item),
         parses' = [parses EXCEPT ![p].transitions =
              [tok \in Tokens |-> IF tok \in Expected(item) THEN @[tok] \cup {item} ELSE @[tok]]]
  PROVE  /\ ParsesOK' /\ Len(parses') = Len(parses) /\ DOMAIN parses' = DOMAIN parses
         /\ \A q \in DOMAIN parses : parses'[q].fid = parses[q].fid
<1>1. PICK old, new, filed :
        /\ old = parses[p] /\ new = [old EXCEPT !.transitions = filed]
        /\ filed = [tok \in Tokens |-> IF tok \in Expected(item)
                                       THEN old.transitions[tok] \cup {item}
                                       ELSE old.transitions[tok]]
  OBVIOUS
<1>2. /\ DOMAIN parses' = DOMAIN parses /\ parses' = [q \in DOMAIN parses' |-> parses'[q]]
      /\ parses'[p] = new /\ \A q \in DOMAIN parses : q # p => parses'[q] = parses[q]
  BY <1>1
<1>3. IsSeq(parses') /\ Len(parses') = Len(parses)
  BY <1>2, ExceptIsSeq DEF ParsesOK
<1>4. /\ DOMAIN new = {"start", "toks", "fid", "transitions", "completed"}
      /\ new.transitions = filed /\ new.fid = old.fid
  BY <1>1 DEF ParsesOK
<1>5. ASSUME NEW tok \in Tokens, NEW other \in filed[tok]
      PROVE  BeforeToken(other)' /\ Matching(other, tok)' # {}
  <2>1. CASE other \in old.transitions[tok]
    BY <1>1, <2>1, FiledKept
  <2>2. CASE other = item /\ tok \in Expected(item)
    <3>1. Matching(item, tok) # {}
      BY <2>2 DEF Expected, Matching
    <3> QED  BY <2>2, <3>1, BeforeTokenKept, LinKept
  <2> QED  BY <1>1, <1>5, <2>1, <2>2
<1>6. DOMAIN filed = Tokens
  BY <1>1
<1>7. \A q \in DOMAIN parses :
        /\ DOMAIN parses'[q] = {"start", "toks", "fid", "transitions", "completed"}
        /\ DOMAIN parses'[q].transitions = Tokens
        /\ \A tok \in Tokens : \A other \in parses'[q].transitions[tok] :
             BeforeToken(other)' /\ Matching(other, tok)' # {}
  <2> SUFFICES ASSUME NEW q \in DOMAIN parses
               PROVE  /\ DOMAIN parses'[q] = {"start", "toks", "fid", "transitions", "completed"}
                      /\ DOMAIN parses'[q].transitions = Tokens
                      /\ \A tok \in Tokens : \A other \in parses'[q].transitions[tok] :
                           BeforeToken(other)' /\ Matching(other, tok)' # {}
    OBVIOUS
  <2>1. CASE q = p
    BY <1>2, <1>4, <1>5, <1>6, <2>1
  <2>2. CASE q # p
    BY <1>2, <2>2, FiledKept DEF ParsesOK
  <2> QED  BY <2>1, <2>2
<1>8. ParsesOK'
  BY <1>2, <1>3, <1>7 DEF ParsesOK
<1> QED  BY <1>1, <1>2, <1>3, <1>4, <1>8

LEMMA ItemNewStep ==
  ASSUME ChartInv, ItemNew
  PROVE  ChartInv'
<1>1. /\ ~Idle /\ Top.k = "item" /\ UNCHANGED <<concr, next_fid, ccats, conts>>
      /\ parsing' = [parsing EXCEPT !.seen = @ \cup {Top.item}]
  BY DEF ItemNew
<1>2. PICK item, sym : item = Top.item /\ sym = CurrSym(item)
  OBVIOUS
<1>3. Grows /\ CatsOK' /\ FrameOK(Top) /\ parsing.parse > 0
  BY <1>1, QuietGrows, CatsKept, TopOK DEF ChartInv
<1>4. ItemOK(item)
  BY <1>1, <1>2, <1>3 DEF FrameOK
<1>5. parsing.parse \in DOMAIN parses
  BY <1>3, IsSeqFacts DEF ChartInv, ParsingOK, ParsesOK
<1>6. ASSUME parses' = parses, StackOK'
      PROVE  ChartInv'
  BY <1>1, <1>2, <1>3, <1>4, <1>6, ContsKept, ParsesKept, ParsingSeen DEF ChartInv
<1>7. parsing'.parse = parsing.parse
  BY <1>1 DEF ChartInv, ParsingOK
<1>8. CASE AtEnd(item)
  <2>1. PICK f : f = [k |-> "complete", item |-> item]
    OBVIOUS
  <2>2. Become(f) /\ parses' = parses
    BY <1>2, <1>8, <2>1 DEF ItemNew
  <2>3. FrameOK(f)
    <3>1. f.k = "complete" /\ f.item = item
      BY <2>1
    <3> QED  BY <1>4, <1>8, <3>1 DEF FrameOK
  <2>4. StackOK'
    BY <1>1, <1>3, <1>7, <2>2, <2>3, FrameKept, BecomeOK DEF ChartInv
  <2> QED  BY <1>6, <2>2, <2>4
<1>9. ASSUME ~AtEnd(item)
      PROVE  SymbolFits(concr, sym, ArgCats(item.prod.args))
  BY <1>2, <1>4, <1>9, CurrSymFits
<1>10. CASE ~AtEnd(item) /\ sym.t = "cat"
  <2>1. PICK cat, f : /\ cat = item.args[sym.d]
                      /\ f = [k |-> "predict", item |-> item, cat |-> cat, r |-> sym.r]
    OBVIOUS
  <2>2. Become(f) /\ parses' = parses
    BY <1>2, <1>10, <2>1 DEF ItemNew, PredictedCat
  <2>3. sym.d \in DOMAIN item.prod.args
        /\ sym.r \in 1..concr.cnccats[CncCat(item.prod.args[sym.d])].n_ctnts
    BY <1>9, <1>10 DEF SymbolFits, ArgCats
  <2>4. cat \in Fids /\ CncCat(cat) = CncCat(item.prod.args[sym.d])
    BY <1>4, <2>1, <2>3 DEF ItemOK
  <2>5. sym.r \in 1..NCtnts(cat)
    BY <2>3, <2>4 DEF NCtnts
  <2>6. FrameOK(f)
    <3>1. f.k = "predict" /\ f.item = item /\ f.cat = cat /\ f.r = sym.r
      BY <2>1
    <3>2. WaitsFor(item, cat, sym.r)
      BY <1>2, <1>4, <1>10, <2>1 DEF WaitsFor
    <3> QED  BY <2>4, <2>5, <3>1, <3>2 DEF FrameOK
  <2>7. StackOK'
    BY <1>1, <1>3, <1>7, <2>2, <2>6, FrameKept, BecomeOK DEF ChartInv
  <2> QED  BY <1>6, <2>2, <2>7
<1>11. CASE ~AtEnd(item) /\ sym.t = "lit"
  <2>1. Pop /\ parses' = parses
    BY <1>2, <1>11 DEF ItemNew
  <2>2. StackOK'
    BY <1>1, <1>3, <1>7, <2>1, PopOK DEF ChartInv
  <2> QED  BY <1>6, <2>1, <2>2
<1>12. CASE ~AtEnd(item) /\ sym.t # "cat" /\ sym.t # "lit"
  <2>1. /\ Pop
        /\ parses' = [parses EXCEPT ![parsing.parse].transitions =
             [tok \in Tokens |-> IF tok \in Expected(item) THEN @[tok] \cup {item} ELSE @[tok]]]
    BY <1>2, <1>12 DEF ItemNew
  <2>2. sym.t \in {"ks", "kp"}
    BY <1>9, <1>12 DEF SymbolFits
  <2>3. BeforeToken(item)
    BY <1>2, <1>4, <1>12, <2>2 DEF BeforeToken
  <2>4. /\ ParsesOK' /\ Len(parses') = Len(parses) /\ DOMAIN parses' = DOMAIN parses
        /\ parses'[parsing.parse].fid = parses[parsing.parse].fid
    BY <1>3, <1>5, <2>1, <2>3, FiledOK DEF ChartInv
  <2>5. StackOK'
    BY <1>1, <1>3, <1>7, <2>1, PopOK DEF ChartInv
  <2>6. ContsOK'
    BY <1>1, <1>3, <2>4, ContsKept DEF ChartInv
  <2>7. ParsingOK'
    BY <1>1, <1>2, <1>3, <1>4, <2>4, ParsingSeen DEF ChartInv
  <2> QED  BY <1>3, <2>4, <2>5, <2>6, <2>7 DEF ChartInv
<1> QED  BY <1>8, <1>10, <1>11, <1>12

\* A sentence category is entered into the parse.
LEMMA CompletedOK ==
  ASSUME CatsOK, ParsesOK, Grows, NEW p \in DOMAIN parses, NEW cat,
         parses' = [parses EXCEPT ![p].completed = Append(@, cat)]
  PROVE  /\ ParsesOK' /\ Len(parses') = Len(parses) /\ DOMAIN parses' = DOMAIN parses
         /\ \A q \in DOMAIN parses : parses'[q].fid = parses[q].fid
<1>1. PICK old, new : old = parses[p] /\ new = [old EXCEPT !.completed = Append(@, cat)]
  OBVIOUS
<1>2. /\ DOMAIN parses' = DOMAIN parses /\ parses' = [q \in DOMAIN parses' |-> parses'[q]]
      /\ parses'[p] = new /\ \A q \in DOMAIN parses : q # p => parses'[q] = parses[q]
  BY <1>1
<1>3. IsSeq(parses') /\ Len(parses') = Len(parses)
  BY <1>2, ExceptIsSeq DEF ParsesOK
<1>4. /\ DOMAIN new = {"start", "toks", "fid", "transitions", "completed"}
      /\ new.transitions = old.transitions /\ new.fid = old.fid /\ IsSeq(new.completed)
  BY <1>1, AppendSeq DEF ParsesOK
<1>5. \A q \in DOMAIN parses :
        /\ DOMAIN parses'[q] = {"start", "toks", "fid", "transitions", "completed"}
        /\ parses'[q].transitions = parses[q].transitions
        /\ parses'[q].fid = parses[q].fid /\ IsSeq(parses'[q].completed)
  BY <1>1, <1>2, <1>4 DEF ParsesOK
<1>6. \A q \in DOMAIN parses :
        /\ DOMAIN parses'[q].transitions = Tokens
        /\ \A tok \in Tokens : \A item \in parses'[q].transitions[tok] :
             BeforeToken(item)' /\ Matching(item, tok)' # {}
  BY <1>5, FiledKept DEF ParsesOK
<1> QED  BY <1>2, <1>3, <1>5, <1>6 DEF ParsesOK

LEMMA CombineStep ==
  ASSUME ChartInv, pgf_parsing_combine
  PROVE  ChartInv'
<1>1. ~Idle /\ Top.k = "combine" /\ UNCHANGED <<concr, next_fid, ccats, conts, parsing>>
  BY DEF pgf_parsing_combine
<1>2. Grows /\ CatsOK' /\ FrameOK(Top) /\ parsing.parse > 0
  BY <1>1, QuietGrows, CatsKept, TopOK DEF ChartInv
<1>3. PICK top : top = Top
  OBVIOUS
<1>4. /\ top.cat \in DOMAIN ccats
      /\ top.cont # NULL =>
           /\ ItemOK(top.cont) /\ ~AtEnd(top.cont) /\ CurrSym(top.cont).t = "cat"
           /\ CncCat(top.cont.args[CurrSym(top.cont).d]) = CncCat(top.cat)
  BY <1>1, <1>2, <1>3 DEF FrameOK
<1>5. CASE top.cont = NULL
  <2>1. Pop /\ parses' = [parses EXCEPT ![parsing.parse].completed = Append(@, top.cat)]
    BY <1>3, <1>5 DEF pgf_parsing_combine
  <2>2. parsing.parse \in DOMAIN parses
    BY <1>2, IsSeqFacts DEF ChartInv, ParsingOK, ParsesOK
  <2>3. /\ ParsesOK' /\ Len(parses') = Len(parses) /\ DOMAIN parses' = DOMAIN parses
        /\ parses'[parsing.parse].fid = parses[parsing.parse].fid
    BY <1>2, <2>1, <2>2, CompletedOK DEF ChartInv
  <2>4. ContsOK' /\ ParsingOK'
    BY <1>1, <1>2, <2>3, ContsKept, ParsingKept DEF ChartInv
  <2>5. StackOK'
    BY <1>1, <1>2, <2>1, PopOK DEF ChartInv
  <2> QED  BY <1>2, <2>3, <2>4, <2>5 DEF ChartInv
<1>6. CASE top.cont # NULL
  <2>1. PICK item, f : item = Combined(top.cont, top.cat) /\ f = ItemFrame(item)
    OBVIOUS
  <2>2. Become(f) /\ parses' = parses
    BY <1>3, <1>6, <2>1 DEF pgf_parsing_combine
  <2>3. ItemOK(item)
    BY <1>4, <1>6, <2>1, CombinedOK DEF Fids
  <2>4. f.k = "item" /\ f.item = item
    BY <2>1 DEF ItemFrame
  <2>5. FrameOK(f)
    BY <2>3, <2>4 DEF FrameOK
  <2>6. StackOK'
    BY <1>1, <1>2, <2>2, <2>5, FrameKept, BecomeOK DEF ChartInv
  <2>7. ContsOK' /\ ParsesOK' /\ ParsingOK'
    BY <1>1, <1>2, <2>2, ContsKept, ParsesKept, ParsingKept DEF ChartInv
  <2> QED  BY <1>2, <2>6, <2>7 DEF ChartInv
<1> QED  BY <1>5, <1>6

\* A production is added to a category of this parse.
LEMMA CompleteOldStep ==
  ASSUME ChartInv, CompleteOld
  PROVE  ChartInv'
<1>1. /\ ~Idle /\ Top.k = "complete" /\ Top.item.conts \in DOMAIN parsing.generated
      /\ UNCHANGED <<concr, next_fid, parses, conts, parsing>>
  BY DEF CompleteOld
<1>2. PICK item, cid : item = Top.item /\ cid = Top.item.conts
  OBVIOUS
<1>3. PICK prod, fid, f : /\ prod = DoneProd(item) /\ fid = parsing.generated[cid]
                          /\ f = [k |-> "contss", cat |-> fid, prod |-> prod, i |-> 1]
  OBVIOUS
<1>4. ccats' = [ccats EXCEPT ![fid].prods = Append(@, prod)] /\ Become(f)
  BY <1>2, <1>3 DEF CompleteOld
<1>5. FrameOK(Top) /\ parsing.parse > 0 /\ CatsOK /\ ContsOK /\ ParsesOK /\ ParsingOK /\ StackOK
  BY <1>1, TopOK DEF ChartInv
<1>6. ItemOK(item)
  BY <1>1, <1>2, <1>5 DEF FrameOK
<1>7. fid \in DOMAIN ccats /\ CncCat(fid) = CncCat(cid[2])
  BY <1>1, <1>2, <1>3, <1>5 DEF ParsingOK
<1>8. PICK k, old : k = CncCat(fid) /\ old = ccats[fid].prods
  OBVIOUS
<1>9. ProdOK(prod, k)
  BY <1>2, <1>3, <1>6, <1>7, <1>8, DoneProdOK
<1>10. IsSeq(old) /\ k = ccats[fid].cat /\ DOMAIN ccats[fid] = {"cat", "prods"}
  BY <1>5, <1>7, <1>8, GrammarFacts DEF CatsOK, CncCat
<1>11. PICK new : new = Append(old, prod)
  OBVIOUS
<1>12. /\ IsSeq(new) /\ Len(new) = Len(old) + 1 /\ Len(old) \in Nat
       /\ \A i \in 1..Len(old) : new[i] = old[i]
       /\ new[Len(old) + 1] = prod
  BY <1>10, <1>11, AppendSeq, IsSeqFacts
<1>13. Members(new) \subseteq Members(old) \cup {prod}
  <2>1. \A i \in 1..Len(new) : i \in 1..Len(old) \/ i = Len(old) + 1
    BY <1>12
  <2> QED  BY <1>12, <2>1 DEF Members
<1>14. /\ DOMAIN ccats' = DOMAIN ccats
       /\ \A c \in DOMAIN ccats : c # fid => ccats'[c] = ccats[c]
       /\ DOMAIN ccats'[fid] = {"cat", "prods"} /\ ccats'[fid].cat = k /\ ccats'[fid].prods = new
  BY <1>4, <1>7, <1>8, <1>10, <1>11
<1>15. Grows
  <2>1. \A c \in DOMAIN ccats : /\ ccats'[c].cat = ccats[c].cat
                                /\ Len(ccats[c].prods) <= Len(ccats'[c].prods)
                                /\ Len(ccats[c].prods) \in Nat /\ Len(ccats'[c].prods) \in Nat
    <3> SUFFICES ASSUME NEW c \in DOMAIN ccats
                 PROVE  /\ ccats'[c].cat = ccats[c].cat
                        /\ Len(ccats[c].prods) <= Len(ccats'[c].prods)
                        /\ Len(ccats[c].prods) \in Nat /\ Len(ccats'[c].prods) \in Nat
      OBVIOUS
    <3>1. CASE c = fid
      BY <1>8, <1>10, <1>12, <1>14, <3>1
    <3>2. CASE c # fid
      <4>1. Len(ccats[c].prods) \in Nat
        BY <1>5, IsSeqFacts DEF CatsOK
      <4> QED  BY <1>14, <3>2, <4>1
    <3> QED  BY <3>1, <3>2
  <2> QED  BY <1>1, <1>14, <2>1 DEF Grows
<1>16. CatsOK'
  <2>1. ASSUME NEW c \in DOMAIN ccats
        PROVE  /\ DOMAIN ccats'[c] = {"cat", "prods"}
               /\ ccats'[c].cat \in DOMAIN concr.cnccats /\ IsSeq(ccats'[c].prods)
               /\ \A p \in Members(ccats'[c].prods) : ProdOK(p, ccats[c].cat)'
    <3>1. PICK kc : kc = ccats[c].cat
      OBVIOUS
    <3>2. \A p \in Members(ccats[c].prods) : ProdOK(p, kc)'
      BY <1>5, <1>15, <3>1, ProdKept DEF CatsOK
    <3>3. CASE c = fid
      <4>1. \A p \in Members(new) : ProdOK(p, k)'
        BY <1>5, <1>8, <1>9, <1>10, <1>13, <1>15, <3>1, <3>2, <3>3, ProdKept
      <4>2. kc = k /\ kc \in DOMAIN concr.cnccats
        BY <1>5, <1>10, <3>1, <3>3 DEF CatsOK
      <4>3. ccats'[c].cat = k /\ ccats'[c].prods = new
        BY <1>14, <3>3
      <4>4. \A p \in Members(new) : ProdOK(p, ccats[c].cat)'
        BY <4>1, <4>3 DEF ProdOK
      <4> QED  BY <1>12, <1>14, <3>3, <4>2, <4>3, <4>4
    <3>4. CASE c # fid
      <4>1. ccats'[c] = ccats[c] /\ ccats'[c].cat = kc
        BY <1>14, <3>1, <3>4
      <4>2. \A p \in Members(ccats[c].prods) : ProdOK(p, ccats[c].cat)'
        BY <3>2, <4>1 DEF ProdOK
      <4> QED  BY <1>5, <4>1, <4>2 DEF CatsOK
    <3> QED  BY <3>3, <3>4
  <2> QED  BY <1>1, <1>5, <1>14, <2>1 DEF CatsOK
<1>17. ContsOK' /\ ParsesOK' /\ ParsingOK'
  BY <1>1, <1>5, <1>15, ContsKept, ParsesKept, ParsingKept
<1>18. StackOK'
  <2>1. f.k = "contss" /\ DOMAIN f = {"k", "cat", "prod", "i"}
        /\ f.cat = fid /\ f.prod = prod /\ f.i = 1
    BY <1>3
  <2>2. FrameOK(f)
    BY <1>7, <1>8, <1>9, <2>1 DEF FrameOK
  <2> QED  BY <1>1, <1>4, <1>5, <1>15, <2>2, FrameKept, BecomeOK
<1> QED  BY <1>16, <1>17, <1>18 DEF ChartInv

\* A category is created for what these continuations wait for.
LEMMA CompleteNewStep ==
  ASSUME ChartInv, CompleteNew
  PROVE  ChartInv'
<1>1. /\ ~Idle /\ Top.k = "complete" /\ Top.item.conts \notin DOMAIN parsing.generated
      /\ UNCHANGED <<concr, parses, conts>>
  BY DEF CompleteNew
<1>2. PICK item, cid, fid : item = Top.item /\ cid = item.conts /\ fid = next_fid - 1
  OBVIOUS
<1>3. PICK prod, k : prod = DoneProd(item) /\ k = CncCat(cid[2])
  OBVIOUS
<1>4. PICK cat, f : /\ cat = [cat |-> k, prods |-> <<prod>>]
                    /\ f = [k |-> "conts", conts |-> cid, cat |-> fid, todo |-> conts[cid]]
  OBVIOUS
<1>5. /\ next_fid' = fid /\ Become(f)
      /\ ccats' = [c \in DOMAIN ccats \cup {fid} |-> IF c = fid THEN cat ELSE ccats[c]]
      /\ parsing' = [parsing EXCEPT !.generated =
                       [c \in DOMAIN @ \cup {cid} |-> IF c = cid THEN fid ELSE @[c]]]
  BY <1>2, <1>3, <1>4 DEF CompleteNew, FreshFid
<1>6. FrameOK(Top) /\ parsing.parse > 0 /\ CatsOK /\ ContsOK /\ ParsesOK /\ ParsingOK /\ StackOK
  BY <1>1, TopOK DEF ChartInv
<1>7. ItemOK(item) /\ cid \in DOMAIN conts /\ cid[2] \in Fids
  BY <1>1, <1>2, <1>6 DEF FrameOK, ItemOK
<1>8. ProdOK(prod, k)
  BY <1>2, <1>3, <1>7, DoneProdOK
<1>9. /\ fid \in Int /\ fid <= PGF_FID_SYNTHETIC /\ fid \notin DOMAIN ccats
      /\ DOMAIN ccats \cup {fid} = fid..(PGF_FID_SYNTHETIC - 1)
  BY <1>2, <1>6 DEF CatsOK, PGF_FID_SYNTHETIC
<1>10. /\ DOMAIN ccats' = DOMAIN ccats \cup {fid} /\ ccats'[fid] = cat
       /\ \A c \in DOMAIN ccats : ccats'[c] = ccats[c]
  BY <1>5, <1>9
<1>11. Grows
  <2>1. \A c \in DOMAIN ccats : Len(ccats[c].prods) \in Nat
    BY <1>6, IsSeqFacts DEF CatsOK
  <2> QED  BY <1>1, <1>10, <2>1 DEF Grows
<1>12. k \in DOMAIN concr.cnccats
  BY <1>3, <1>6, <1>7, FidFacts
<1>13. /\ DOMAIN cat = {"cat", "prods"} /\ cat.cat = k /\ IsSeq(cat.prods)
       /\ Members(cat.prods) = {prod}
  BY <1>4, NewSeqs
<1>14. CatsOK'
  <2>1. ASSUME NEW c \in DOMAIN ccats
        PROVE  /\ DOMAIN ccats[c] = {"cat", "prods"}
               /\ ccats[c].cat \in DOMAIN concr.cnccats /\ IsSeq(ccats[c].prods)
               /\ \A p \in Members(ccats[c].prods) : ProdOK(p, ccats[c].cat)'
    <3>1. PICK kc : kc = ccats[c].cat
      OBVIOUS
    <3>2. \A p \in Members(ccats[c].prods) : ProdOK(p, kc)'
      BY <1>6, <1>11, <3>1, ProdKept DEF CatsOK
    <3>3. ccats'[c].cat = kc
      BY <1>10, <3>1
    <3>4. \A p \in Members(ccats[c].prods) : ProdOK(p, ccats[c].cat)'
      BY <3>2, <3>3 DEF ProdOK
    <3> QED  BY <1>6, <3>4 DEF CatsOK
  <2>2. \A p \in Members(cat.prods) : ProdOK(p, k)'
    BY <1>6, <1>8, <1>11, <1>13, ProdKept
  <2>3. \A c \in DOMAIN ccats' :
          /\ DOMAIN ccats'[c] = {"cat", "prods"}
          /\ ccats'[c].cat \in DOMAIN concr.cnccats /\ IsSeq(ccats'[c].prods)
          /\ \A p \in Members(ccats'[c].prods) : ProdOK(p, ccats[c].cat)'
    <3> SUFFICES ASSUME NEW c \in DOMAIN ccats'
                 PROVE  /\ DOMAIN ccats'[c] = {"cat", "prods"}
                        /\ ccats'[c].cat \in DOMAIN concr.cnccats /\ IsSeq(ccats'[c].prods)
                        /\ \A p \in Members(ccats'[c].prods) : ProdOK(p, ccats[c].cat)'
      OBVIOUS
    <3>1. CASE c \in DOMAIN ccats
      BY <1>10, <2>1, <3>1
    <3>2. CASE c = fid
      <4>1. ccats'[c] = cat /\ ccats'[c].cat = k
        BY <1>10, <1>13, <3>2
      <4>2. \A p \in Members(cat.prods) : ProdOK(p, ccats[c].cat)'
        BY <2>2, <4>1 DEF ProdOK
      <4> QED  BY <1>12, <1>13, <4>1, <4>2
    <3> QED  BY <1>10, <3>1, <3>2
  <2> QED  BY <1>1, <1>5, <1>6, <1>9, <1>10, <2>3 DEF CatsOK
<1>15. ContsOK' /\ ParsesOK'
  BY <1>1, <1>6, <1>11, ContsKept, ParsesKept
<1>16. CncCat(fid)' = k /\ CncCat(cid[2])' = k
  <2>1. CncCat(fid)' = k
    BY <1>9, <1>10, <1>13 DEF CncCat, Synthetic
  <2>2. PICK c : c = cid[2]
    OBVIOUS
  <2>3. CncCat(c)' = k
    BY <1>3, <1>6, <1>7, <1>11, <2>2, CatKept
  <2> QED  BY <2>1, <2>2, <2>3
<1>17. PICK p \in DOMAIN parses : p = parsing.parse
  BY <1>6, IsSeqFacts DEF ParsingOK, ParsesOK
<1>18. /\ DOMAIN parsing' = {"parse", "seen", "generated"} /\ parsing'.parse = p
       /\ parsing'.seen = parsing.seen
       /\ DOMAIN parsing'.generated = DOMAIN parsing.generated \cup {cid}
       /\ parsing'.generated[cid] = fid
       /\ \A c \in DOMAIN parsing.generated : parsing'.generated[c] = parsing.generated[c]
  BY <1>1, <1>2, <1>5, <1>6, <1>17 DEF ParsingOK
<1>19. ParsingOK'
  <2>1. \A other \in parsing.seen : ItemOK(other)'
    BY <1>6, <1>11, ItemKept DEF ParsingOK
  <2>2. ASSUME NEW c \in DOMAIN parsing.generated
        PROVE  \E done : /\ done = parsing'.generated[c]
                         /\ c \in DOMAIN conts' /\ done \in DOMAIN ccats'
                         /\ CncCat(done)' = CncCat(c[2])' /\ done < parses'[p].fid
    <3>1. PICK done : done = parsing.generated[c]
      OBVIOUS
    <3>2. /\ c \in DOMAIN conts /\ done \in DOMAIN ccats /\ CncCat(done) = CncCat(c[2])
          /\ done < parses[p].fid
      BY <1>6, <1>17, <3>1 DEF ParsingOK
    <3>3. c[2] \in Fids /\ done \in Fids
      BY <1>6, <3>2 DEF ContsOK, Fids
    <3>4. done = parsing'.generated[c] /\ CncCat(done)' = CncCat(c[2])'
      BY <1>6, <1>11, <1>18, <3>1, <3>2, <3>3, CatKept
    <3> QED  BY <1>1, <1>11, <3>2, <3>4 DEF Grows
  <2>3. parses[p].fid \in Int /\ next_fid \in Int /\ fid < parses[p].fid
    BY <1>2, <1>6, <1>17 DEF CatsOK, ParsingOK
  <2>4. /\ cid \in DOMAIN conts' /\ fid \in DOMAIN ccats' /\ CncCat(fid)' = CncCat(cid[2])'
        /\ fid < parses'[p].fid
    BY <1>1, <1>7, <1>10, <1>16, <2>3
  <2>5. \A c \in DOMAIN parsing'.generated :
          /\ c \in DOMAIN conts' /\ parsing'.generated[c] \in DOMAIN ccats'
          /\ CncCat(parsing.generated[c])' = CncCat(c[2])'
          /\ parsing'.generated[c] < parses'[p].fid
    <3> SUFFICES ASSUME NEW c \in DOMAIN parsing'.generated
                 PROVE  /\ c \in DOMAIN conts' /\ parsing'.generated[c] \in DOMAIN ccats'
                        /\ CncCat(parsing.generated[c])' = CncCat(c[2])'
                        /\ parsing'.generated[c] < parses'[p].fid
      OBVIOUS
    <3>1. CASE c \in DOMAIN parsing.generated
      BY <2>2, <3>1
    <3>2. CASE c = cid
      BY <1>18, <2>4, <3>2 DEF CncCat
    <3> QED  BY <1>18, <3>1, <3>2
  <2>6. parsing'.parse \in 0..Len(parses') /\ next_fid' <= parses'[p].fid /\ parses'[p].fid \in Int
    BY <1>1, <1>2, <1>5, <1>6, <1>17, <1>18, <2>3 DEF ParsingOK
  <2> QED  BY <1>6, <1>17, <1>18, <2>1, <2>5, <2>6 DEF ParsingOK
<1>20. StackOK'
  <2>1. f.k = "conts" /\ DOMAIN f = {"k", "conts", "cat", "todo"}
        /\ f.conts = cid /\ f.cat = fid /\ f.todo = conts[cid]
    BY <1>4
  <2>2. FrameOK(f)'
    BY <1>1, <1>7, <1>10, <1>16, <2>1 DEF FrameOK
  <2> QED  BY <1>1, <1>5, <1>6, <1>11, <1>17, <1>18, <2>2, BecomeOK
<1> QED  BY <1>14, <1>15, <1>19, <1>20 DEF ChartInv

\* A continuation is added to a set, which a caller may be enumerating.
LEMMA InsertContStack ==
  ASSUME CatsOK, ContsOK, StackOK, Grows, ~Idle, parsing'.parse = parsing.parse,
         NEW cid \in DOMAIN conts, NEW item, conts'[cid] = conts[cid] \cup {item},
         NEW loop, FrameOK(loop)',
         NEW n \in 2..Len(stack), Enumerating(stack[n], cid),
         NEW todo \in StillToVisit(stack[n].todo, cid, item),
         stack' = [stack EXCEPT ![1] = loop, ![n].todo = todo]
  PROVE  StackOK'
<1>1. IsSeq(stack) /\ Len(stack) \in Nat \ {0} /\ DOMAIN stack = 1..Len(stack) /\ parsing.parse > 0
  BY TopOK, IsSeqFacts
<1>2. PICK f, g, t : f = stack[n] /\ g = [f EXCEPT !.todo = todo] /\ t = stack'
  OBVIOUS
<1>3. FrameOK(f) /\ f.k = "conts" /\ f.conts = cid
  <2>1. f \in Members(stack)
    BY <1>1, <1>2 DEF Members
  <2> QED  BY <1>2, <2>1 DEF StackOK, Enumerating
<1>4. DOMAIN f = {"k", "conts", "cat", "todo"} /\ f.todo \subseteq conts[cid]
  BY <1>3 DEF FrameOK
<1>5. todo \subseteq conts'[cid]
  BY <1>2, <1>4 DEF StillToVisit
<1>6. /\ DOMAIN g = {"k", "conts", "cat", "todo"} /\ g.k = "conts" /\ g.conts = cid
      /\ g.cat = f.cat /\ g.todo = todo
  BY <1>2, <1>3, <1>4
<1>7. FrameOK(f)'
  BY <1>3, FrameKept
<1>8. FrameOK(g)'
  BY <1>3, <1>5, <1>6, <1>7 DEF FrameOK
<1>9. /\ DOMAIN t = DOMAIN stack /\ t = [i \in DOMAIN t |-> t[i]]
      /\ \A i \in 1..Len(stack) : t[i] = (IF i = n THEN g ELSE IF i = 1 THEN loop ELSE stack[i])
  <2>1. PICK s : s = [stack EXCEPT ![1] = loop]
    OBVIOUS
  <2>2. /\ DOMAIN s = DOMAIN stack /\ n \in DOMAIN s /\ n # 1 /\ 1 \in DOMAIN s
        /\ \A i \in 1..Len(stack) : s[i] = (IF i = 1 THEN loop ELSE stack[i])
    BY <1>1, <2>1
  <2>3. s[n] = f /\ t = [s EXCEPT ![n].todo = todo]
    BY <1>1, <1>2, <2>1, <2>2
  <2>4. t = [s EXCEPT ![n] = g]
    BY <1>2, <2>3
  <2> QED  BY <1>1, <2>2, <2>4
<1>10. IsSeq(t) /\ Len(t) = Len(stack)
  BY <1>1, <1>9, ExceptIsSeq
<1>11. Members(t) \subseteq Members(stack) \cup {loop, g}
  BY <1>9, <1>10 DEF Members
<1>12. \A h \in Members(stack)' : FrameOK(h)'
  BY <1>2, <1>8, <1>11, FrameKept DEF StackOK
<1> QED  BY <1>1, <1>2, <1>10, <1>12 DEF StackOK

LEMMA PredictStep ==
  ASSUME ChartInv, Predict
  PROVE  ChartInv'
<1>1. ~Idle /\ Top.k = "predict" /\ UNCHANGED <<concr, next_fid, parses, ccats, parsing>>
  BY DEF Predict
<1>2. FrameOK(Top) /\ parsing.parse > 0 /\ CatsOK /\ ContsOK /\ ParsesOK /\ ParsingOK /\ StackOK
  BY <1>1, TopOK DEF ChartInv
<1>3. PICK item, cat, r : item = Top.item /\ cat = Top.cat /\ r = Top.r
  OBVIOUS
<1>4. cat \in Fids /\ r \in 1..NCtnts(cat) /\ WaitsFor(item, cat, r)
  BY <1>1, <1>2, <1>3 DEF FrameOK
<1>5. PICK cid : cid = ContsId(cat, r)
  OBVIOUS
<1>6. cid[1] \in DOMAIN parses /\ cid[2] = cat /\ cid[3] = r
  BY <1>2, <1>5, IsSeqFacts DEF ContsId, ParsingOK, ParsesOK
<1>7. ASSUME conts' = conts, StackOK'
      PROVE  ChartInv'
  BY <1>1, <1>2, <1>7, ChartKept DEF ChartInv, Idle
<1>8. CASE ~HasProds(cat)
  <2>1. Pop /\ conts' = conts
    BY <1>3, <1>8 DEF Predict
  <2>2. StackOK'
    BY <1>1, <1>2, <2>1, QuietGrows, PopOK
  <2> QED  BY <1>7, <2>1, <2>2
<1>9. CASE HasProds(cat)
  <2>1. PICK old, n, loop :
          /\ old = (IF cid \in DOMAIN conts THEN conts[cid] ELSE {}) /\ n = Len(Prods(cat))
          /\ loop = [k |-> "prods", item |-> item, conts |-> cid, i |-> 1, n |-> n]
    OBVIOUS
  <2>2. IF item \in old THEN Become([loop EXCEPT !.i = n + 1]) /\ UNCHANGED conts
                        ELSE InsertCont(cid, old, item, loop)
    BY <1>3, <1>5, <1>9, <2>1 DEF Predict
  <2>3. n \in Nat
    BY <1>2, <1>4, <1>9, <2>1, ProdsFacts
  <2>4. CASE item \in old
    <3>1. PICK f : f = [loop EXCEPT !.i = n + 1]
      OBVIOUS
    <3>2. /\ DOMAIN f = {"k", "item", "conts", "i", "n"} /\ f.k = "prods" /\ f.item = item
          /\ f.conts = cid /\ f.i = n + 1 /\ f.n = n
      BY <2>1, <3>1
    <3>3. cid \in DOMAIN conts
      BY <2>1, <2>4
    <3>4. FrameOK(f)
      BY <1>4, <1>6, <1>9, <2>1, <2>3, <3>2, <3>3 DEF FrameOK
    <3>5. Become(f) /\ conts' = conts
      BY <2>2, <2>4, <3>1
    <3>6. StackOK'
      BY <1>1, <1>2, <3>4, <3>5, QuietGrows, FrameKept, BecomeOK
    <3> QED  BY <1>7, <3>5, <3>6
  <2>5. CASE item \notin old
    <3>1. InsertCont(cid, old, item, loop)
      BY <2>2, <2>5
    <3>2. /\ DOMAIN conts' = DOMAIN conts \cup {cid} /\ conts'[cid] = old \cup {item}
          /\ \A c \in DOMAIN conts : c # cid => conts'[c] = conts[c]
      BY <3>1 DEF InsertCont
    <3>3. Grows
      <4>1. \A fid \in DOMAIN ccats : Len(ccats[fid].prods) \in Nat
        BY <1>2, IsSeqFacts DEF CatsOK
      <4>2. \A c \in DOMAIN conts : conts[c] \subseteq conts'[c]
        BY <2>1, <3>2
      <4> QED  BY <1>1, <3>2, <4>1, <4>2 DEF Grows
    <3>4. CatsOK' /\ ParsesOK' /\ ParsingOK'
      BY <1>1, <1>2, <3>3, CatsKept, ParsesKept, ParsingKept
    <3>5. WaitsFor(item, cat, r)' /\ cat \in Fids' /\ r \in 1..NCtnts(cat)'
      BY <1>2, <1>4, <3>3, WaitsKept, CatKept
    <3>6. ContsOK'
      <4>1. ASSUME NEW c \in DOMAIN conts
            PROVE  /\ c[1] \in DOMAIN parses' /\ c[2] \in Fids' /\ c[3] \in 1..NCtnts(c[2])'
                   /\ \A other \in conts[c] : WaitsFor(other, c[2], c[3])'
        <5>1. PICK fid : fid = c[2]
          OBVIOUS
        <5>2. /\ c[1] \in DOMAIN parses /\ fid \in Fids /\ c[3] \in 1..NCtnts(fid)
              /\ \A other \in conts[c] : WaitsFor(other, fid, c[3])
          BY <1>2, <5>1 DEF ContsOK
        <5> QED  BY <1>1, <1>2, <3>3, <5>1, <5>2, CatKept, WaitsKept
      <4>2. \A c \in DOMAIN conts' : \A other \in conts'[c] :
              (c = cid /\ other = item) \/ (c \in DOMAIN conts /\ other \in conts[c])
        <5>1. \A other \in conts'[cid] : other = item \/ (cid \in DOMAIN conts /\ other \in conts[cid])
          <6>1. conts'[cid] = old \cup {item}
            BY <3>2
          <6>2. \A other \in old : cid \in DOMAIN conts /\ other \in conts[cid]
            BY <2>1
          <6> QED  BY <6>1, <6>2
        <5>2. \A c \in DOMAIN conts' : c # cid => c \in DOMAIN conts /\ conts'[c] = conts[c]
          BY <3>2
        <5> QED  BY <5>1, <5>2
      <4>3. ASSUME NEW c \in DOMAIN conts'
            PROVE  c[1] \in DOMAIN parses' /\ c[2] \in Fids' /\ c[3] \in 1..NCtnts(c[2])'
        BY <1>1, <1>6, <3>2, <3>5, <4>1
      <4>4. ASSUME NEW c \in DOMAIN conts', NEW other \in conts'[c]
            PROVE  WaitsFor(other, c[2], c[3])'
        BY <1>6, <3>5, <4>1, <4>2
      <4> QED  BY <4>3, <4>4 DEF ContsOK
    <3>7. FrameOK(loop)'
      <4>1. /\ DOMAIN loop = {"k", "item", "conts", "i", "n"} /\ loop.k = "prods"
            /\ loop.item = item /\ loop.conts = cid /\ loop.i = 1 /\ loop.n = n
        BY <2>1
      <4>2. HasProds(cat)' /\ n <= Len(Prods(cat)')
        BY <1>2, <1>4, <1>9, <2>1, <2>3, <3>3, ProdsKept
      <4>3. cid \in DOMAIN conts' /\ 1 \in Nat \ {0}
        BY <3>2
      <4> QED  BY <1>6, <2>3, <3>5, <4>1, <4>2, <4>3 DEF FrameOK
    <3>8. CASE Become(loop)
      <4>1. StackOK'
        BY <1>1, <1>2, <3>3, <3>7, <3>8, BecomeOK
      <4> QED  BY <3>4, <3>6, <4>1 DEF ChartInv
    <3>9. ASSUME NEW m \in 2..Len(stack), Enumerating(stack[m], cid),
                 NEW todo \in StillToVisit(stack[m].todo, cid, item),
                 stack' = [stack EXCEPT ![1] = loop, ![m].todo = todo]
          PROVE  ChartInv'
      <4>1. PICK f : f = stack[m]
        OBVIOUS
      <4>2. f \in Members(stack) /\ f.k = "conts" /\ f.conts = cid
        <5>1. m \in 1..Len(stack)
          BY <1>2, <3>9, IsSeqFacts DEF StackOK
        <5> QED  BY <3>9, <4>1, <5>1 DEF Members, Enumerating
      <4>3. cid \in DOMAIN conts
        BY <1>2, <4>2 DEF StackOK, FrameOK
      <4>4. conts'[cid] = conts[cid] \cup {item}
        BY <2>1, <3>2, <4>3
      <4>5. StackOK'
        BY <1>1, <1>2, <3>3, <3>7, <3>9, <4>3, <4>4, InsertContStack
      <4> QED  BY <3>4, <3>6, <4>5 DEF ChartInv
    <3> QED  BY <3>1, <3>8, <3>9 DEF InsertCont
  <2> QED  BY <2>4, <2>5
<1> QED  BY <1>8, <1>9

-----------------------------------------------------------------------------
(* The theorems *)

LEMMA InitOK ==
  ASSUME Init
  PROVE  ChartInv
<1>1. IsSeq(<<>>) /\ Members(<<>>) = {} /\ DOMAIN <<>> = {} /\ Len(<<>>) = 0
  BY NewSeqs
<1>2. CatsOK
  BY <1>1 DEF Init, CatsOK, PGF_FID_SYNTHETIC
<1>3. ContsOK /\ ParsesOK
  BY <1>1 DEF Init, ContsOK, ParsesOK
<1>4. ParsingOK
  BY <1>1 DEF Init, ParsingOK, NewParsing
<1>5. StackOK
  BY <1>1 DEF Init, StackOK
<1> QED  BY <1>2, <1>3, <1>4, <1>5 DEF ChartInv

LEMMA ChartStutter ==
  ASSUME ChartInv, UNCHANGED vars
  PROVE  ChartInv'
<1>1. UNCHANGED <<concr, next_fid, parses, ccats, conts, parsing, stack>>
  BY DEF vars
<1>2. Grows
  BY <1>1, QuietGrows DEF ChartInv
<1>3. CatsOK' /\ ContsOK' /\ ParsesOK'
  BY <1>1, <1>2, CatsKept, ContsKept, ParsesKept DEF ChartInv
<1>4. ParsingOK'
  BY <1>1 DEF ChartInv, ParsingOK, ItemOK, ProdOK, ArgCats, Fids, CncCat, NCtnts, Lin, AtEnd, CurrSym
<1>5. StackOK'
  BY <1>1, <1>2, FrameKept DEF ChartInv, StackOK
<1> QED  BY <1>3, <1>4, <1>5 DEF ChartInv

\* Every step of the client and of the parser keeps the invariant.
LEMMA ChartNext ==
  ASSUME ChartInv, [Next]_vars
  PROVE  ChartInv'
<1>1. ASSUME NEW cat \in concr.abscats, NEW r \in CtntIds(cat), pgf_parser_parse(cat, r)
      PROVE  ChartInv'
  BY <1>1, ParseStep
<1>2. ASSUME NEW p \in DOMAIN parses, NEW tok \in Tokens, pgf_parse_token(p, tok)
      PROVE  ChartInv'
  BY <1>2, TokenStep
<1>3. CASE Step
  BY <1>3, StartStep, ScanStep, ScanFormsStep, ItemNewStep, ItemSeenStep, PredictStep,
     ProdsLoopStep, CombineStep, CompleteOldStep, ContssLoopStep, CompleteNewStep,
     ContsLoopStep DEF Step
<1>4. CASE UNCHANGED vars
  BY <1>4, ChartStutter
<1> QED  BY <1>1, <1>2, <1>3, <1>4 DEF Next

\* What the parser keeps in its chart and on the C stack is right throughout.
THEOREM ChartInvHolds == Spec => []ChartInv
<1>1. Init => ChartInv
  BY InitOK
<1>2. ChartInv /\ [Next]_vars => ChartInv'
  BY ChartNext
<1> QED  BY <1>1, <1>2, PTL DEF Spec

LEMMA ItemIsItem ==
  ASSUME NEW item, ItemOK(item)
  PROVE  IsItem(item)
  BY DEF ItemOK, IsItem

LEMMA ChartInvSound ==
  ASSUME ChartInv
  PROVE  ChartSound
<1>1. TypeOK
  <2>1. ASSUME NEW cid \in DOMAIN conts
        PROVE  /\ cid[1] \in DOMAIN parses /\ cid[2] \in Fids
               /\ \A item \in conts[cid] \ {NULL} : IsItem(item)
    BY ItemIsItem DEF ChartInv, ContsOK, WaitsFor
  <2>2. \A item \in parsing.seen : IsItem(item)
    BY ItemIsItem DEF ChartInv, ParsingOK
  <2> QED  BY <2>1, <2>2 DEF TypeOK, ChartInv, CatsOK, ParsingOK
<1>2. ContsSound
  BY DEF ContsSound, ChartInv, ContsOK, WaitsFor
<1>3. TransitionsSound
  <2> SUFFICES ASSUME NEW p \in DOMAIN parses, NEW tok \in Tokens,
                      NEW item \in parses[p].transitions[tok]
               PROVE  /\ ~AtEnd(item) /\ CurrSym(item).t \in {"ks", "kp"}
                      /\ Matching(item, tok) # {}
                      /\ \A i \in OpenForms(item) :
                           /\ i \in DOMAIN Forms(CurrSym(item))
                           /\ item.tok_idx < Len(Forms(CurrSym(item))[i])
    BY DEF TransitionsSound
  <2>1. BeforeToken(item) /\ Matching(item, tok) # {}
    BY DEF ChartInv, ParsesOK
  <2>2. \A i \in OpenForms(item) : /\ i \in DOMAIN Forms(CurrSym(item))
                                   /\ item.tok_idx < Len(Forms(CurrSym(item))[i])
    BY <2>1, OpenFormsFacts
  <2> QED  BY <2>1, <2>2 DEF BeforeToken
<1> QED  BY <1>1, <1>2, <1>3 DEF ChartSound

\* Whatever the grammars, the tokens that are fed, the parses that are branched from
\* and the resizing of the hash tables: new categories never collide, everything that
\* an item or a continuation of the chart refers to exists, and the assertions that
\* pgf_parsing_combine, pgf_parsing_scan and pgf_parsing_predict make of what they are
\* given never fail.
THEOREM ChartAlwaysSound == Spec => []ChartSound
<1>1. ChartInv => ChartSound
  BY ChartInvSound
<1> QED  BY <1>1, ChartInvHolds, PTL

\* What a step may do to the parses there are, to their categories and continuations.
OldKept ==
  /\ \A p \in DOMAIN parses : p # parsing'.parse => parses'[p] = parses[p]
  /\ \A fid \in DOMAIN ccats :
       fid >= parses'[parsing'.parse].fid => ccats'[fid] = ccats[fid]
  /\ \A cid \in DOMAIN conts : cid[1] # parsing'.parse => conts'[cid] = conts[cid]

LEMMA BeginKeepsOld ==
  ASSUME ChartInv, NEW start, NEW toks, NEW calls, Begin(start, toks, calls)
  PROVE  OldKept
<1>1. ccats' = ccats /\ conts' = conts /\ parses' = Append(parses, NewParse(start, toks))
  BY DEF Begin
<1>2. IsSeq(parses) /\ DOMAIN parses = 1..Len(parses)
  BY IsSeqFacts DEF ChartInv, ParsesOK
<1>3. \A p \in DOMAIN parses : parses'[p] = parses[p]
  BY <1>1, <1>2, AppendSeq
<1> QED  BY <1>1, <1>3 DEF OldKept

LEMMA StepKeepsOld ==
  ASSUME ChartInv, Step
  PROVE  OldKept
<1>1. ~Idle
  BY DEF Step, Start, Scan, ScanForms, ItemNew, ItemSeen, Predict, ProdsLoop, pgf_parsing_combine,
     CompleteOld, ContssLoop, CompleteNew, ContsLoop
<1>2. parsing.parse > 0 /\ FrameOK(Top)
  BY <1>1, TopOK DEF ChartInv
<1>3. CASE UNCHANGED <<parses, ccats, conts>>
  BY <1>3 DEF OldKept
<1>4. CASE Start \/ Scan \/ ScanForms \/ ItemSeen \/ ProdsLoop \/ ContssLoop \/ ContsLoop
  BY <1>3, <1>4 DEF Start, Scan, ScanForms, ItemSeen, ProdsLoop, ContssLoop, ContsLoop
<1>5. CASE ItemNew
  <2>1. ccats' = ccats /\ conts' = conts /\ parsing'.parse = parsing.parse
    BY <1>5 DEF ItemNew, ChartInv, ParsingOK
  <2>2. \A p \in DOMAIN parses : p # parsing.parse => parses'[p] = parses[p]
    BY <1>5 DEF ItemNew
  <2> QED  BY <2>1, <2>2 DEF OldKept
<1>6. CASE pgf_parsing_combine
  <2>1. ccats' = ccats /\ conts' = conts /\ parsing' = parsing
    BY <1>6 DEF pgf_parsing_combine
  <2>2. \A p \in DOMAIN parses : p # parsing.parse => parses'[p] = parses[p]
    BY <1>6 DEF pgf_parsing_combine
  <2> QED  BY <2>1, <2>2 DEF OldKept
<1>7. CASE Predict
  <2>1. ccats' = ccats /\ parses' = parses /\ parsing' = parsing
    BY <1>7 DEF Predict
  <2>2. PICK cid : cid = ContsId(Top.cat, Top.r)
    OBVIOUS
  <2>3. cid[1] = parsing.parse
    BY <2>2 DEF ContsId
  <2>4. conts' = conts \/ \E old, item, loop : InsertCont(cid, old, item, loop)
    BY <1>7, <2>2 DEF Predict
  <2>5. \A c \in DOMAIN conts : c # cid => conts'[c] = conts[c]
    BY <2>4 DEF InsertCont
  <2> QED  BY <2>1, <2>3, <2>5 DEF OldKept
\* The categories that are still added to are those of this parse.
<1>8. CASE CompleteOld
  <2>1. conts' = conts /\ parses' = parses /\ parsing' = parsing
    BY <1>8 DEF CompleteOld
  <2>2. PICK fid : fid = parsing.generated[Top.item.conts]
    OBVIOUS
  <2>3. fid \in DOMAIN ccats /\ fid < parses[parsing.parse].fid
    BY <1>8, <2>2 DEF CompleteOld, ChartInv, ParsingOK
  <2>4. \A c \in DOMAIN ccats : c # fid => ccats'[c] = ccats[c]
    BY <1>8, <2>2 DEF CompleteOld
  <2>5. fid \in Int /\ parses[parsing.parse].fid \in Int
    BY <1>2, <2>3, GrammarFacts DEF ChartInv, ParsingOK
  <2> QED  BY <2>1, <2>3, <2>4, <2>5 DEF OldKept
<1>9. CASE CompleteNew
  <2>1. conts' = conts /\ parses' = parses
    BY <1>9 DEF CompleteNew
  <2>2. FreshFid \notin DOMAIN ccats
    BY DEF FreshFid, ChartInv, CatsOK
  <2>3. \A c \in DOMAIN ccats : ccats'[c] = ccats[c]
    BY <1>9, <2>2 DEF CompleteNew
  <2> QED  BY <2>1, <2>3 DEF OldKept
<1> QED  BY <1>4, <1>5, <1>6, <1>7, <1>8, <1>9 DEF Step

\* parser.h's promise, for every grammar: no step that builds a parse changes an
\* earlier one, nor the categories and the continuations that it refers to.
THEOREM OldParsesStay == Spec => OldParsesUnaffected
<1>1. ASSUME ChartInv, [Next]_vars
      PROVE  [OldKept]_vars
  <2>1. ASSUME NEW cat \in concr.abscats, NEW r \in CtntIds(cat), pgf_parser_parse(cat, r)
        PROVE  OldKept
    BY <1>1, <2>1, BeginKeepsOld DEF pgf_parser_parse
  <2>2. ASSUME NEW p \in DOMAIN parses, NEW tok \in Tokens, pgf_parse_token(p, tok)
        PROVE  OldKept
    BY <1>1, <2>2, BeginKeepsOld DEF pgf_parse_token
  <2> QED  BY <1>1, <2>1, <2>2, StepKeepsOld DEF Next
<1>2. Spec => [][OldKept]_vars
  BY <1>1, ChartInvHolds, PTL DEF Spec
<1> QED  BY <1>2 DEF OldParsesUnaffected, OldKept

-----------------------------------------------------------------------------
(***************************************************************************)
(* The chart is closed when a call returns: whatever a rule of the parser  *)
(* yields is in the chart, or the frame that will see to it is on the C    *)
(* stack.                                                                  *)
(***************************************************************************)
Pending == Members(stack)

\* The item has been met, or its call is about to start.
Handled(item) == item \in parsing.seen \/ ItemFrame(item) \in Pending

\* The item that waits has been combined with the category, or will be.
CombineFrame(cont, cat) == [k |-> "combine", cont |-> cont, cat |-> cat]

Awaited(cont, cat) ==
  \/ CombineFrame(cont, cat) \in Pending
  \/ IF cont = NULL THEN cat \in Members(parses[parsing.parse].completed)
                    ELSE Handled(Combined(cont, cat))

\* Frames of the loops that have not come to production i, to constituent r of the
\* new production, or to this continuation; and of a loop that ends by combining it.
InProds(cid, i) == \E f \in Pending : f.k = "prods" /\ f.conts = cid /\ f.i <= i /\ i <= f.n

InContss(cat, prod, r) ==
  \E f \in Pending : f.k = "contss" /\ f.cat = cat /\ f.prod = prod /\ f.i <= r

InConts(cid, cat, cont) ==
  \E f \in Pending : f.k = "conts" /\ f.conts = cid /\ f.cat = cat /\ cont \in f.todo

EndsWith(cid, cont) == \E f \in Pending : f.k = "prods" /\ f.conts = cid /\ f.item = cont

Tried(cid, i) ==
  \/ Handled(pgf_new_item(cid, Prods(cid[2])[i])) \/ InProds(cid, i)
  \/ InContss(cid[2], Prods(cid[2])[i], cid[3])

Met(cid, cont) ==
  \/ Awaited(cont, parsing.generated[cid]) \/ InConts(cid, parsing.generated[cid], cont)
  \/ EndsWith(cid, cont)

\* What an item that has been met asks for, by the symbol it stands before.
Completes(item) ==
  \/ [k |-> "complete", item |-> item] \in Pending
  \/ /\ item.conts \in DOMAIN parsing.generated
     /\ DoneProd(item) \in Members(ccats[parsing.generated[item.conts]].prods)

Waits(item) ==
  LET cat == PredictedCat(item)
      cid == ContsId(cat, CurrSym(item).r)
  IN HasProds(cat) =>
       \/ [k |-> "predict", item |-> item, cat |-> cat, r |-> CurrSym(item).r] \in Pending
       \/ cid \in DOMAIN conts /\ item \in conts[cid]

Filed(item) == \A tok \in Expected(item) : item \in parses[parsing.parse].transitions[tok]

Served(item) ==
  IF AtEnd(item) THEN Completes(item)
  ELSE CASE CurrSym(item).t = "cat" -> Waits(item)
         [] CurrSym(item).t = "lit" -> TRUE
         [] OTHER -> Filed(item)

\* Every production of a category that is waited for is tried.
AllTried ==
  \A cid \in DOMAIN conts :
    /\ cid = <<cid[1], cid[2], cid[3]>>
    /\ cid[1] = parsing.parse /\ HasProds(cid[2]) =>
         \A i \in 1..Len(Prods(cid[2])) : Tried(cid, i)

\* Everything that waits for a category that was completed is combined with it.
AllMet == \A cid \in DOMAIN parsing.generated : \A cont \in conts[cid] : Met(cid, cont)

AllServed == \A item \in parsing.seen : Served(item)

ClosedInv == AllTried /\ AllMet /\ AllServed

\* Nothing that is in the chart, and nothing below the top of the stack, is lost.
Advances ==
  /\ parsing.seen \subseteq parsing'.seen /\ parsing'.parse = parsing.parse
  /\ \A cid \in DOMAIN parsing.generated :
       cid \in DOMAIN parsing'.generated /\ parsing'.generated[cid] = parsing.generated[cid]
  /\ Members(parses[parsing.parse].completed) \subseteq Members(parses'[parsing.parse].completed)
  /\ \A tok \in Tokens :
       parses[parsing.parse].transitions[tok] \subseteq parses'[parsing.parse].transitions[tok]
  /\ \A fid \in DOMAIN ccats : \A i \in 1..Len(ccats[fid].prods) :
       ccats'[fid].prods[i] = ccats[fid].prods[i]
  /\ \A f \in Pending :
       \/ f \in Pending' \/ f = Top
       \/ f.k = "conts" /\ \E g \in Pending' :
            g.k = "conts" /\ g.conts = f.conts /\ g.cat = f.cat /\ f.todo \subseteq g.todo

\* What the frame on top had to see to is done, or a frame that is pending now will.
TopDone ==
  /\ Top.k = "item" => Top.item \in parsing'.seen
  /\ Top.k = "complete" =>
       /\ Top.item.conts \in DOMAIN parsing'.generated
       /\ DoneProd(Top.item) \in Members(ccats'[parsing'.generated[Top.item.conts]].prods)
  /\ Top.k = "predict" /\ HasProds(Top.cat) =>
       ContsId(Top.cat, Top.r) \in DOMAIN conts' /\ Top.item \in conts'[ContsId(Top.cat, Top.r)]
  /\ Top.k = "combine" =>
       IF Top.cont = NULL THEN Top.cat \in Members(parses'[parsing.parse].completed)
       ELSE ItemFrame(Combined(Top.cont, Top.cat)) \in Pending'
  /\ Top.k = "conts" => \A cont \in Top.todo :
       \/ CombineFrame(cont, Top.cat) \in Pending'
       \/ \E g \in Pending' : g.k = "conts" /\ g.conts = Top.conts /\ g.cat = Top.cat /\ cont \in g.todo
  /\ Top.k = "prods" =>
       /\ \A i \in Nat : Top.i <= i /\ i <= Top.n =>
            \/ ItemFrame(pgf_new_item(Top.conts, Prods(Top.conts[2])[i])) \in Pending'
            \/ \E g \in Pending' : g.k = "prods" /\ g.conts = Top.conts /\ g.i <= i /\ i <= g.n
       /\ \/ \E g \in Pending' : g.k = "prods" /\ g.conts = Top.conts /\ g.item = Top.item
          \/ Top.conts \notin DOMAIN parsing'.generated
          \/ CombineFrame(Top.item, parsing'.generated[Top.conts]) \in Pending'
  /\ Top.k = "contss" => \A r \in 1..NCtnts(Top.cat) :
       Top.i <= r /\ ContsId(Top.cat, r) \in DOMAIN conts =>
         \/ ItemFrame(pgf_new_item(ContsId(Top.cat, r), Top.prod)) \in Pending'
         \/ \E g \in Pending' : g.k = "contss" /\ g.cat = Top.cat /\ g.prod = Top.prod /\ g.i <= r

Progress == ~Idle /\ Grows /\ Advances /\ TopDone

LEMMA HandledKept ==
  ASSUME Progress, NEW item, Handled(item)
  PROVE  Handled(item)'
<1>1. PICK f : f = ItemFrame(item)
  OBVIOUS
<1>2. f.k = "item" /\ f.item = item
  BY <1>1 DEF ItemFrame
<1>3. CASE item \in parsing.seen
  BY <1>3 DEF Progress, Advances, Handled
<1>4. CASE f \in Pending
  <2>1. f \in Pending' \/ f = Top
    BY <1>2, <1>4 DEF Progress, Advances
  <2>2. f = Top => item \in parsing'.seen
    BY <1>2 DEF Progress, TopDone
  <2> QED  BY <1>1, <2>1, <2>2 DEF Handled, ItemFrame
<1> QED  BY <1>1, <1>3, <1>4 DEF Handled

LEMMA AwaitedKept ==
  ASSUME Progress, NEW cont, NEW cat, Awaited(cont, cat)
  PROVE  Awaited(cont, cat)'
<1>1. PICK item : item = Combined(cont, cat) /\ item = Combined(cont, cat)'
  BY LinKept DEF Combined, Progress
<1>2. PICK f : f = CombineFrame(cont, cat)
  OBVIOUS
<1>3. f.k = "combine" /\ f.cont = cont /\ f.cat = cat
  BY <1>2 DEF CombineFrame
<1>4. parsing'.parse = parsing.parse
  BY DEF Progress, Advances
<1>5. CASE f \in Pending /\ f # Top
  <2>1. f \in Pending'
    BY <1>3, <1>5 DEF Progress, Advances
  <2> QED  BY <1>2, <2>1 DEF Awaited, CombineFrame
<1>6. CASE f = Top
  <2>1. IF cont = NULL THEN cat \in Members(parses'[parsing.parse].completed)
        ELSE ItemFrame(item) \in Pending'
    BY <1>1, <1>3, <1>6 DEF Progress, TopDone
  <2>2. cont # NULL => Handled(item)'
    BY <2>1 DEF Handled, ItemFrame
  <2>3. cont = NULL => cat \in Members(parses[parsing.parse].completed)'
    BY <1>4, <2>1 DEF Members
  <2>4. cont # NULL => Handled(Combined(cont, cat))'
    BY <1>1, <2>2 DEF Handled
  <2> QED  BY <2>3, <2>4 DEF Awaited
<1>7. CASE cont = NULL /\ cat \in Members(parses[parsing.parse].completed)
  <2>1. cat \in Members(parses'[parsing.parse].completed)
    BY <1>7 DEF Progress, Advances
  <2>2. cat \in Members(parses[parsing.parse].completed)'
    BY <1>4, <2>1 DEF Members
  <2> QED  BY <1>7, <2>2 DEF Awaited
<1>8. CASE cont # NULL /\ Handled(item)
  <2>1. Handled(item)'
    BY <1>8, HandledKept
  <2>2. Handled(Combined(cont, cat))'
    BY <1>1, <2>1 DEF Handled
  <2> QED  BY <1>8, <2>2 DEF Awaited
<1> QED  BY <1>1, <1>2, <1>5, <1>6, <1>7, <1>8 DEF Awaited

\* The productions there were stay where they were.
LEMMA ProdStays ==
  ASSUME CatsOK, Progress, NEW fid \in Fids, HasProds(fid), NEW i \in 1..Len(Prods(fid))
  PROVE  Prods(fid)'[i] = Prods(fid)[i]
<1>1. CASE fid \in DOMAIN ccats
  BY <1>1, GrammarFacts DEF Prods, Progress, Advances
<1>2. CASE fid \in DOMAIN concr.cat
  BY <1>2, GrammarFacts DEF Prods, Progress, Grows
<1> QED  BY <1>1, <1>2 DEF Fids

LEMMA TriedKept ==
  ASSUME ChartInv, Progress, NEW cid \in DOMAIN conts, cid = <<cid[1], cid[2], cid[3]>>,
         cid[1] = parsing.parse, HasProds(cid[2]), NEW i \in 1..Len(Prods(cid[2])), Tried(cid, i)
  PROVE  Tried(cid, i)'
<1>1. PICK fid, r : fid = cid[2] /\ r = cid[3]
  OBVIOUS
<1>2. fid \in Fids /\ r \in 1..NCtnts(fid) /\ CatsOK
  BY <1>1 DEF ChartInv, ContsOK
<1>3. PICK prod : prod = Prods(fid)[i] /\ prod = Prods(fid)'[i]
  BY <1>1, <1>2, ProdStays
<1>4. PICK new : new = pgf_new_item(cid, prod)
  OBVIOUS
<1>5. i \in Nat
  BY <1>1, <1>2, ProdsFacts
<1>6. SUFFICES Handled(new)' \/ InProds(cid, i)' \/ InContss(fid, prod, r)'
  <2>1. Handled(new)' => Handled(pgf_new_item(cid, Prods(cid[2])[i]))'
    BY <1>1, <1>3, <1>4 DEF Handled, pgf_new_item
  <2>2. InContss(fid, prod, r)' => InContss(cid[2], Prods(cid[2])[i], cid[3])'
    BY <1>1, <1>3 DEF InContss
  <2> QED  BY <2>1, <2>2 DEF Tried
<1>7. CASE Handled(new)
  BY <1>7, HandledKept
<1>8. ASSUME NEW f \in Pending, f.k = "prods", f.conts = cid, f.i <= i, i <= f.n
      PROVE  Handled(new)' \/ InProds(cid, i)'
  <2>1. CASE f \in Pending'
    BY <1>8, <2>1 DEF InProds
  <2>2. CASE f = Top
    <3>1. \/ ItemFrame(new) \in Pending'
          \/ \E g \in Pending' : g.k = "prods" /\ g.conts = cid /\ g.i <= i /\ i <= g.n
      BY <1>1, <1>3, <1>4, <1>5, <1>8, <2>2 DEF Progress, TopDone
    <3> QED  BY <3>1 DEF InProds, Handled, ItemFrame
  <2> QED  BY <1>8, <2>1, <2>2 DEF Progress, Advances
<1>9. ASSUME NEW f \in Pending, f.k = "contss", f.cat = fid, f.prod = prod, f.i <= r
      PROVE  Handled(new)' \/ InContss(fid, prod, r)'
  <2>1. CASE f \in Pending'
    BY <1>9, <2>1 DEF InContss
  <2>2. CASE f = Top
    <3>1. ContsId(fid, r) = cid
      BY <1>1 DEF ContsId
    <3>2. \/ ItemFrame(new) \in Pending'
          \/ \E g \in Pending' : g.k = "contss" /\ g.cat = fid /\ g.prod = prod /\ g.i <= r
      BY <1>2, <1>4, <1>9, <2>2, <3>1 DEF Progress, TopDone
    <3> QED  BY <3>2 DEF InContss, Handled, ItemFrame
  <2> QED  BY <1>9, <2>1, <2>2 DEF Progress, Advances
<1>10. Handled(new) \/ InProds(cid, i) \/ InContss(fid, prod, r)
  BY <1>1, <1>3, <1>4 DEF Tried
<1> QED  BY <1>7, <1>8, <1>9, <1>10 DEF InProds, InContss

LEMMA MetKept ==
  ASSUME Progress, NEW cid \in DOMAIN parsing.generated, NEW cont, Met(cid, cont)
  PROVE  Met(cid, cont)'
<1>1. PICK cat : cat = parsing.generated[cid] /\ cat = parsing'.generated[cid]
                 /\ cid \in DOMAIN parsing'.generated
  BY DEF Progress, Advances
<1>2. SUFFICES Awaited(cont, cat)' \/ InConts(cid, cat, cont)' \/ EndsWith(cid, cont)'
  BY <1>1 DEF Met, Awaited, InConts, CombineFrame, Handled, Combined
<1>3. CASE Awaited(cont, cat)
  BY <1>3, AwaitedKept
<1>4. CombineFrame(cont, cat) \in Pending' => Awaited(cont, cat)'
  BY DEF Awaited, CombineFrame
<1>5. ASSUME NEW f \in Pending, f.k = "conts", f.conts = cid, f.cat = cat, cont \in f.todo
      PROVE  Awaited(cont, cat)' \/ InConts(cid, cat, cont)'
  <2>1. CASE f = Top
    <3>1. \/ CombineFrame(cont, cat) \in Pending'
          \/ \E g \in Pending' : g.k = "conts" /\ g.conts = cid /\ g.cat = cat /\ cont \in g.todo
      BY <1>5, <2>1 DEF Progress, TopDone
    <3> QED  BY <1>4, <3>1 DEF InConts
  <2>2. CASE f # Top
    <3>1. \E g \in Pending' : g.k = "conts" /\ g.conts = cid /\ g.cat = cat /\ cont \in g.todo
      BY <1>5, <2>2 DEF Progress, Advances
    <3> QED  BY <3>1 DEF InConts
  <2> QED  BY <2>1, <2>2
<1>6. ASSUME NEW f \in Pending, f.k = "prods", f.conts = cid, f.item = cont
      PROVE  Awaited(cont, cat)' \/ EndsWith(cid, cont)'
  <2>1. CASE f = Top
    <3>1. \/ \E g \in Pending' : g.k = "prods" /\ g.conts = cid /\ g.item = cont
          \/ CombineFrame(cont, cat) \in Pending'
      BY <1>1, <1>6, <2>1 DEF Progress, TopDone
    <3> QED  BY <1>4, <3>1 DEF EndsWith
  <2>2. CASE f # Top
    <3>1. f \in Pending'
      BY <1>6, <2>2 DEF Progress, Advances
    <3> QED  BY <1>6, <3>1 DEF EndsWith
  <2> QED  BY <2>1, <2>2
<1> QED  BY <1>1, <1>3, <1>5, <1>6 DEF Met, InConts, EndsWith

\* The tokens an item can be scanned with next are tokens.
LEMMA ExpectedTokens ==
  ASSUME NEW item, BeforeToken(item), NEW tok \in Expected(item)
  PROVE  tok \in Tokens
<1>1. PICK i \in OpenForms(item) : tok = Forms(CurrSym(item))[i][item.tok_idx + 1]
  BY DEF Expected
<1>2. PICK form : form = Forms(CurrSym(item))[i]
  OBVIOUS
<1>3. i \in DOMAIN Forms(CurrSym(item)) /\ Len(form) \in Nat /\ item.tok_idx < Len(form)
  BY <1>2, OpenFormsFacts
<1>4. item.tok_idx \in Nat
  BY DEF BeforeToken, ItemOK
<1>5. form \in Seq(Tokens)
  BY <1>2, <1>3, CurrSymFits DEF BeforeToken, SymbolFits
<1>6. item.tok_idx + 1 \in 1..Len(form)
  BY <1>3, <1>4
<1> QED  BY <1>1, <1>2, <1>5, <1>6

LEMMA ServedKept ==
  ASSUME ChartInv, Progress, NEW item, ItemOK(item), Served(item)
  PROVE  Served(item)'
<1>1. PICK p : p = parsing.parse /\ p = parsing'.parse
  BY DEF Progress, Advances
<1>2. /\ AtEnd(item)' = AtEnd(item) /\ CurrSym(item)' = CurrSym(item)
      /\ OpenForms(item)' = OpenForms(item)
  BY LinKept DEF Progress
<1>3. CASE AtEnd(item)
  <2>1. PICK f, cid, prod : /\ f = [k |-> "complete", item |-> item] /\ cid = item.conts
                            /\ prod = DoneProd(item)
    OBVIOUS
  <2>2. f.k = "complete" /\ f.item = item
    BY <2>1
  <2>3. CASE f \in Pending'
    BY <1>2, <1>3, <2>1, <2>3 DEF Served, Completes
  <2>4. ASSUME cid \in DOMAIN parsing'.generated,
               prod \in Members(ccats'[parsing'.generated[cid]].prods)
        PROVE  Served(item)'
    <3>1. Completes(item)'
      BY <2>1, <2>4 DEF Completes, Members, DoneProd
    <3> QED  BY <1>2, <1>3, <3>1 DEF Served
  <2>5. CASE f = Top
    BY <2>1, <2>2, <2>4, <2>5 DEF Progress, TopDone
  <2>6. ASSUME cid \in DOMAIN parsing.generated, NEW fid, fid = parsing.generated[cid],
               prod \in Members(ccats[fid].prods)
        PROVE  Served(item)'
    <3>1. cid \in DOMAIN parsing'.generated /\ parsing'.generated[cid] = fid /\ fid \in DOMAIN ccats
      BY <2>6 DEF Progress, Advances, ChartInv, ParsingOK
    <3>2. PICK i \in 1..Len(ccats[fid].prods) : prod = ccats[fid].prods[i]
      BY <2>6 DEF Members
    <3>3. ccats'[fid].prods[i] = prod
      BY <3>1, <3>2 DEF Progress, Advances
    <3>4. i \in 1..Len(ccats'[fid].prods)
      BY <3>1, <3>2 DEF Progress, Grows
    <3>5. prod \in Members(ccats'[fid].prods)
      BY <3>3, <3>4 DEF Members
    <3> QED  BY <2>4, <3>1, <3>5
  <2>7. f \in Pending => f \in Pending' \/ f = Top
    BY <2>2 DEF Progress, Advances
  <2> QED  BY <1>3, <2>1, <2>3, <2>5, <2>6, <2>7 DEF Served, Completes
<1>4. CASE ~AtEnd(item) /\ CurrSym(item).t = "cat"
  <2>1. PICK cat, r : cat = PredictedCat(item) /\ r = CurrSym(item).r
    OBVIOUS
  <2>2. PredictedCat(item)' = cat
    BY <1>2, <2>1 DEF PredictedCat
  <2>3. PICK f, cid : /\ f = [k |-> "predict", item |-> item, cat |-> cat, r |-> r]
                      /\ cid = <<p, cat, r>>
    OBVIOUS
  <2>4. f.k = "predict" /\ f.item = item /\ f.cat = cat /\ f.r = r
    BY <2>3
  <2>5. HasProds(cat)' = HasProds(cat)
    BY DEF HasProds, Progress, Grows
  <2>6. HasProds(cat) => f \in Pending \/ (cid \in DOMAIN conts /\ item \in conts[cid])
    BY <1>1, <1>4, <2>1, <2>3 DEF Served, Waits, ContsId
  <2>7. HasProds(cat) => f \in Pending' \/ (cid \in DOMAIN conts' /\ item \in conts'[cid])
    <3>1. CASE f \in Pending /\ f # Top
      BY <2>4, <3>1 DEF Progress, Advances
    <3>2. CASE f = Top
      BY <1>1, <2>3, <2>4, <3>2 DEF Progress, TopDone, ContsId
    <3>3. CASE cid \in DOMAIN conts /\ item \in conts[cid]
      BY <3>3 DEF Progress, Grows
    <3> QED  BY <2>6, <3>1, <3>2, <3>3
  <2>8. Waits(item)'
    BY <1>1, <1>2, <2>1, <2>2, <2>3, <2>5, <2>7 DEF Waits, ContsId
  <2> QED  BY <1>2, <1>4, <2>8 DEF Served
<1>5. CASE ~AtEnd(item) /\ CurrSym(item).t = "lit"
  BY <1>2, <1>5 DEF Served
<1>6. CASE ~AtEnd(item) /\ CurrSym(item).t # "cat" /\ CurrSym(item).t # "lit"
  <2>1. Expected(item)' = Expected(item)
    BY <1>2 DEF Expected
  <2>2. BeforeToken(item)
    BY <1>6, CurrSymFits DEF BeforeToken, SymbolFits
  <2>3. ASSUME NEW tok \in Expected(item)
        PROVE  tok \in Tokens
    BY <2>2, <2>3, ExpectedTokens
  <2>4. Filed(item)
    BY <1>6 DEF Served
  <2>5. \A tok \in Expected(item) : item \in parses'[p].transitions[tok]
    BY <1>1, <2>3, <2>4 DEF Filed, Progress, Advances
  <2>6. Filed(item)'
    BY <1>1, <2>1, <2>5 DEF Filed
  <2> QED  BY <1>2, <1>6, <2>6 DEF Served
<1> QED  BY <1>3, <1>4, <1>5, <1>6

\* What was there is still seen to; so the invariant is kept if what is new is.
LEMMA ClosedKept ==
  ASSUME ChartInv, ClosedInv, Progress,
         \A cid \in DOMAIN conts' :
           cid \in DOMAIN conts \/ cid = <<cid[1], cid[2], cid[3]>>,
         \A cid \in DOMAIN conts' : cid[1] = parsing.parse /\ HasProds(cid[2]) =>
           \A i \in 1..Len(Prods(cid[2])') :
             \/ cid \in DOMAIN conts /\ i \in 1..Len(Prods(cid[2]))
             \/ Tried(cid, i)',
         \A cid \in DOMAIN parsing'.generated : \A cont \in conts'[cid] :
           \/ cid \in DOMAIN parsing.generated /\ cont \in conts[cid]
           \/ Met(cid, cont)',
         \A item \in parsing'.seen : item \in parsing.seen \/ Served(item)'
  PROVE  ClosedInv'
<1>1. \A cat : HasProds(cat)' = HasProds(cat)
  BY DEF HasProds, Progress, Grows
<1>2. parsing'.parse = parsing.parse
  BY DEF Progress, Advances
<1>3. AllTried'
  <2>1. \A cid \in DOMAIN conts' : cid = <<cid[1], cid[2], cid[3]>>
    BY DEF ClosedInv, AllTried
  <2>2. ASSUME NEW cid \in DOMAIN conts', cid[1] = parsing.parse, HasProds(cid[2]),
               NEW i \in 1..Len(Prods(cid[2])')
        PROVE  Tried(cid, i)'
    <3>1. ASSUME cid \in DOMAIN conts, i \in 1..Len(Prods(cid[2]))
          PROVE  Tried(cid, i)'
      <4>1. Tried(cid, i)
        BY <2>2, <3>1 DEF ClosedInv, AllTried
      <4> QED  BY <2>1, <2>2, <3>1, <4>1, TriedKept
    <3> QED  BY <2>2, <3>1
  <2> QED  BY <1>1, <1>2, <2>1, <2>2 DEF AllTried
<1>4. AllMet'
  <2>1. ASSUME NEW cid \in DOMAIN parsing'.generated, NEW cont \in conts'[cid]
        PROVE  Met(cid, cont)'
    <3>1. ASSUME cid \in DOMAIN parsing.generated, cont \in conts[cid]
          PROVE  Met(cid, cont)'
      <4>1. Met(cid, cont)
        BY <3>1 DEF ClosedInv, AllMet
      <4> QED  BY <3>1, <4>1, MetKept
    <3> QED  BY <2>1, <3>1
  <2> QED  BY <2>1 DEF AllMet
<1>5. AllServed'
  <2>1. ASSUME NEW item \in parsing'.seen
        PROVE  Served(item)'
    <3>1. ASSUME item \in parsing.seen
          PROVE  Served(item)'
      <4>1. Served(item) /\ ItemOK(item)
        BY <3>1 DEF ClosedInv, AllServed, ChartInv, ParsingOK
      <4> QED  BY <4>1, ServedKept
    <3> QED  BY <2>1, <3>1
  <2> QED  BY <2>1 DEF AllServed
<1> QED  BY <1>3, <1>4, <1>5 DEF ClosedInv

\* The frames that are pending after a step.
LEMMA PopPending ==
  ASSUME StackOK, ~Idle, Pop
  PROVE  \A f \in Pending : f \in Pending' \/ f = Top
<1>1. PICK n, s, t : n = Len(stack) /\ s = stack /\ t = Tail(stack)
  OBVIOUS
<1>2. n \in Nat \ {0} /\ Len(t) = n - 1 /\ \A i \in 1..(n - 1) : t[i] = s[i + 1]
  BY <1>1, TailSeq DEF StackOK, Idle
<1>3. ASSUME NEW i \in 1..n
      PROVE  i = 1 \/ (i - 1 \in 1..Len(t) /\ t[i - 1] = s[i])
  BY <1>2
<1>4. ASSUME NEW f \in Members(s)
      PROVE  f \in Members(t) \/ f = s[1]
  <2>1. PICK i \in 1..n : f = s[i]
    BY <1>1 DEF Members
  <2>2. PICK j : j = i - 1
    OBVIOUS
  <2>3. i = 1 \/ (j \in 1..Len(t) /\ t[j] = f)
    BY <1>3, <2>1, <2>2
  <2> QED  BY <2>1, <2>3 DEF Members
<1>5. Pending = Members(s) /\ Pending' = Members(t)
  BY <1>1 DEF Pending, Pop, Members
<1> QED  BY <1>1, <1>4, <1>5 DEF Top

LEMMA BecomePending ==
  ASSUME StackOK, ~Idle, NEW new, Become(new)
  PROVE  new \in Pending' /\ \A f \in Pending : f \in Pending' \/ f = Top
<1>1. PICK n, s, t : n = Len(stack) /\ s = stack /\ t = <<new>> \o Tail(stack)
  OBVIOUS
<1>2. n \in Nat \ {0} /\ Len(t) = n /\ t[1] = new /\ \A i \in 2..n : t[i] = s[i]
  BY <1>1, TailSeq, BecomeSeq DEF StackOK, Idle
<1>3. ASSUME NEW i \in 1..n
      PROVE  i = 1 \/ (i \in 1..Len(t) /\ t[i] = s[i])
  BY <1>2
<1>4. \A f \in Members(s) : f \in Members(t) \/ f = s[1]
  BY <1>1, <1>3 DEF Members
<1>5. Pending = Members(s) /\ Pending' = Members(t)
  BY <1>1 DEF Pending, Become, Members
<1>6. new \in Members(t)
  BY <1>2 DEF Members
<1> QED  BY <1>1, <1>4, <1>5, <1>6 DEF Top

LEMMA CallPending ==
  ASSUME StackOK, ~Idle, NEW new, NEW top, Call(new, top)
  PROVE  new \in Pending' /\ top \in Pending' /\ \A f \in Pending : f \in Pending' \/ f = Top
<1>1. PICK n, s, t : n = Len(stack) /\ s = stack /\ t = <<new, top>> \o Tail(stack)
  OBVIOUS
<1>2. /\ n \in Nat \ {0} /\ Len(t) = n + 1 /\ t[1] = new /\ t[2] = top
      /\ \A i \in 3..(n + 1) : t[i] = s[i - 1]
  BY <1>1, TailSeq, CallSeq DEF StackOK, Idle
<1>3. ASSUME NEW i \in 1..n
      PROVE  i = 1 \/ (i + 1 \in 1..Len(t) /\ t[i + 1] = s[i])
  <2>1. i # 1 => i + 1 \in 3..(n + 1) /\ (i + 1) - 1 = i
    BY <1>2
  <2> QED  BY <1>2, <2>1
<1>4. ASSUME NEW f \in Members(s)
      PROVE  f \in Members(t) \/ f = s[1]
  <2>1. PICK i \in 1..n : f = s[i]
    BY <1>1 DEF Members
  <2>2. PICK j : j = i + 1
    OBVIOUS
  <2>3. i = 1 \/ (j \in 1..Len(t) /\ t[j] = f)
    BY <1>3, <2>1, <2>2
  <2> QED  BY <2>1, <2>3 DEF Members
<1>5. Pending = Members(s) /\ Pending' = Members(t)
  BY <1>1 DEF Pending, Call, Members
<1>6. new \in Members(t) /\ top \in Members(t)
  <2>1. 1 \in 1..Len(t) /\ 2 \in 1..Len(t)
    BY <1>2
  <2> QED  BY <1>2, <2>1 DEF Members
<1> QED  BY <1>1, <1>4, <1>5, <1>6 DEF Top

\* A step that changes the stack only.
LEMMA QuietClosed ==
  ASSUME ChartInv, ClosedInv, ~Idle, TopDone,
         UNCHANGED <<concr, next_fid, parses, ccats, conts, parsing>>,
         \A f \in Pending : f \in Pending' \/ f = Top
  PROVE  ClosedInv'
<1>1. Grows
  BY QuietGrows DEF ChartInv
<1>2. Advances
  BY DEF Advances
<1>3. Progress
  BY <1>1, <1>2 DEF Progress
<1>4. \A cid : Prods(cid[2])' = Prods(cid[2])
  BY DEF Prods
<1> QED  BY <1>3, <1>4, ClosedKept

LEMMA StartClosed ==
  ASSUME ChartInv, ClosedInv, Start
  PROVE  ClosedInv'
<1>1. /\ ~Idle /\ Top.k = "start" /\ StackOK
      /\ UNCHANGED <<concr, next_fid, parses, ccats, conts, parsing>>
  BY DEF Start, ChartInv
<1>2. TopDone
  BY <1>1 DEF TopDone
<1>3. \A f \in Pending : f \in Pending' \/ f = Top
  BY <1>1, PopPending, CallPending DEF Start
<1> QED  BY <1>1, <1>2, <1>3, QuietClosed

LEMMA ScanClosed ==
  ASSUME ChartInv, ClosedInv, Scan
  PROVE  ClosedInv'
<1>1. /\ ~Idle /\ Top.k = "scan" /\ StackOK
      /\ UNCHANGED <<concr, next_fid, parses, ccats, conts, parsing>>
  BY DEF Scan, ChartInv
<1>2. TopDone
  BY <1>1 DEF TopDone
<1>3. \A f \in Pending : f \in Pending' \/ f = Top
  BY <1>1, PopPending, CallPending DEF Scan
<1> QED  BY <1>1, <1>2, <1>3, QuietClosed

LEMMA ScanFormsClosed ==
  ASSUME ChartInv, ClosedInv, ScanForms
  PROVE  ClosedInv'
<1>1. /\ ~Idle /\ Top.k = "forms" /\ StackOK
      /\ UNCHANGED <<concr, next_fid, parses, ccats, conts, parsing>>
  BY DEF ScanForms, ChartInv
<1>2. TopDone
  BY <1>1 DEF TopDone
<1>3. \A f \in Pending : f \in Pending' \/ f = Top
  BY <1>1, PopPending, CallPending DEF ScanForms
<1> QED  BY <1>1, <1>2, <1>3, QuietClosed

LEMMA ItemSeenClosed ==
  ASSUME ChartInv, ClosedInv, ItemSeen
  PROVE  ClosedInv'
<1>1. /\ ~Idle /\ Top.k = "item" /\ StackOK /\ Pop /\ Top.item \in parsing'.seen
      /\ UNCHANGED <<concr, next_fid, parses, ccats, conts, parsing>>
  BY DEF ItemSeen, ChartInv
<1>2. TopDone
  BY <1>1 DEF TopDone
<1> QED  BY <1>1, <1>2, PopPending, QuietClosed

LEMMA ProdsLoopClosed ==
  ASSUME ChartInv, ClosedInv, ProdsLoop
  PROVE  ClosedInv'
<1>1. /\ ~Idle /\ Top.k = "prods" /\ StackOK
      /\ UNCHANGED <<concr, next_fid, parses, ccats, conts, parsing>>
  BY DEF ProdsLoop, ChartInv
<1>2. PICK top : top = Top
  OBVIOUS
<1>3. /\ DOMAIN top = {"k", "item", "conts", "i", "n"} /\ top.k = "prods"
      /\ top.i \in Nat \ {0} /\ top.n \in Nat
  BY <1>1, <1>2, TopOK DEF FrameOK
<1>4. CASE top.i <= top.n
  <2>1. PICK f, g : /\ f = ItemFrame(pgf_new_item(top.conts, Prods(top.conts[2])[top.i]))
                    /\ g = [top EXCEPT !.i = @ + 1]
    OBVIOUS
  <2>2. Call(f, g)
    BY <1>2, <1>4, <2>1 DEF ProdsLoop
  <2>3. f \in Pending' /\ g \in Pending' /\ \A h \in Pending : h \in Pending' \/ h = Top
    BY <1>1, <2>2, CallPending
  <2>4. g.k = "prods" /\ g.conts = top.conts /\ g.item = top.item /\ g.n = top.n /\ g.i = top.i + 1
    BY <1>3, <2>1
  <2>5. \A i \in Nat : top.i <= i /\ i <= top.n => i = top.i \/ (g.i <= i /\ i <= g.n)
    BY <1>3, <2>4
  <2>6. \A i \in Nat : top.i <= i /\ i <= top.n =>
          \/ ItemFrame(pgf_new_item(top.conts, Prods(top.conts[2])[i])) \in Pending'
          \/ \E h \in Pending' : h.k = "prods" /\ h.conts = top.conts /\ h.i <= i /\ i <= h.n
    BY <2>1, <2>3, <2>4, <2>5
  <2>7. TopDone
    BY <1>2, <1>3, <2>3, <2>4, <2>6 DEF TopDone
  <2> QED  BY <1>1, <2>3, <2>7, QuietClosed
<1>5. CASE ~(top.i <= top.n)
  <2>1. \A i \in Nat : ~(top.i <= i /\ i <= top.n)
    BY <1>3, <1>5
  <2>2. /\ \/ Top.conts \notin DOMAIN parsing'.generated
           \/ CombineFrame(Top.item, parsing'.generated[Top.conts]) \in Pending'
        /\ \A h \in Pending : h \in Pending' \/ h = Top
    BY <1>1, <1>2, <1>5, PopPending, BecomePending DEF ProdsLoop, CombineFrame
  <2>3. TopDone
    BY <1>2, <1>3, <2>1, <2>2 DEF TopDone
  <2> QED  BY <1>1, <2>2, <2>3, QuietClosed
<1> QED  BY <1>4, <1>5

LEMMA ContssLoopClosed ==
  ASSUME ChartInv, ClosedInv, ContssLoop
  PROVE  ClosedInv'
<1>1. /\ ~Idle /\ Top.k = "contss" /\ StackOK
      /\ UNCHANGED <<concr, next_fid, parses, ccats, conts, parsing>>
  BY DEF ContssLoop, ChartInv
<1>2. PICK top, n : top = Top /\ n = NCtnts(top.cat)
  OBVIOUS
<1>3. /\ DOMAIN top = {"k", "cat", "prod", "i"} /\ top.k = "contss"
      /\ top.i \in Nat \ {0} /\ top.cat \in Fids
  BY <1>1, <1>2, TopOK DEF FrameOK, Fids
<1>4. n \in Nat
  BY <1>2, <1>3, FidFacts DEF ChartInv
<1>5. CASE top.i > n
  <2>1. \A r \in 1..n : ~(top.i <= r)
    BY <1>3, <1>4, <1>5
  <2>2. TopDone
    BY <1>2, <1>3, <2>1 DEF TopDone
  <2>3. Pop
    BY <1>2, <1>5 DEF ContssLoop
  <2> QED  BY <1>1, <2>2, <2>3, PopPending, QuietClosed
<1>6. CASE ~(top.i > n)
  <2>1. PICK cid, g : cid = ContsId(top.cat, top.i) /\ g = [top EXCEPT !.i = @ + 1]
    OBVIOUS
  <2>2. IF cid \in DOMAIN conts THEN Call(ItemFrame(pgf_new_item(cid, top.prod)), g) ELSE Become(g)
    BY <1>2, <1>6, <2>1 DEF ContssLoop
  <2>3. /\ cid \in DOMAIN conts => ItemFrame(pgf_new_item(cid, top.prod)) \in Pending'
        /\ g \in Pending' /\ \A h \in Pending : h \in Pending' \/ h = Top
    BY <1>1, <2>2, CallPending, BecomePending
  <2>4. g.k = "contss" /\ g.cat = top.cat /\ g.prod = top.prod /\ g.i = top.i + 1
    BY <1>3, <2>1
  <2>5. \A r \in 1..n : top.i <= r => r = top.i \/ g.i <= r
    BY <1>3, <1>4, <2>4
  <2>6. \A r \in 1..n : top.i <= r /\ ContsId(top.cat, r) \in DOMAIN conts =>
          \/ ItemFrame(pgf_new_item(ContsId(top.cat, r), top.prod)) \in Pending'
          \/ \E h \in Pending' : h.k = "contss" /\ h.cat = top.cat /\ h.prod = top.prod /\ h.i <= r
    BY <2>1, <2>3, <2>4, <2>5
  <2>7. TopDone
    BY <1>2, <1>3, <2>6 DEF TopDone
  <2> QED  BY <1>1, <2>3, <2>7, QuietClosed
<1> QED  BY <1>5, <1>6

LEMMA ContsLoopClosed ==
  ASSUME ChartInv, ClosedInv, ContsLoop
  PROVE  ClosedInv'
<1>1. /\ ~Idle /\ Top.k = "conts" /\ StackOK
      /\ UNCHANGED <<concr, next_fid, parses, ccats, conts, parsing>>
  BY DEF ContsLoop, ChartInv
<1>2. PICK top : top = Top
  OBVIOUS
<1>3. DOMAIN top = {"k", "conts", "cat", "todo"} /\ top.k = "conts"
  BY <1>1, <1>2, TopOK DEF FrameOK
<1>4. CASE top.todo = {} /\ Pop
  <2>1. TopDone
    BY <1>2, <1>3, <1>4 DEF TopDone
  <2> QED  BY <1>1, <1>4, <2>1, PopPending, QuietClosed
<1>5. ASSUME NEW cont \in top.todo, NEW f, NEW g, Call(f, g),
             f = CombineFrame(cont, top.cat), g = [top EXCEPT !.todo = @ \ {cont}]
      PROVE  ClosedInv'
  <2>1. f \in Pending' /\ g \in Pending' /\ \A h \in Pending : h \in Pending' \/ h = Top
    BY <1>1, <1>5, CallPending
  <2>2. g.k = "conts" /\ g.conts = top.conts /\ g.cat = top.cat /\ g.todo = top.todo \ {cont}
    BY <1>3, <1>5
  <2>3. \A other \in top.todo : other = cont \/ other \in g.todo
    BY <2>2
  <2>4. TopDone
    BY <1>2, <1>3, <1>5, <2>1, <2>2, <2>3 DEF TopDone
  <2> QED  BY <1>1, <2>1, <2>4, QuietClosed
<1> QED  BY <1>2, <1>4, <1>5 DEF ContsLoop, CombineFrame

LEMMA ItemNewClosed ==
  ASSUME ChartInv, ClosedInv, ItemNew
  PROVE  ClosedInv'
<1>1. /\ ~Idle /\ Top.k = "item" /\ StackOK /\ UNCHANGED <<concr, next_fid, ccats, conts>>
      /\ parsing' = [parsing EXCEPT !.seen = @ \cup {Top.item}]
  BY DEF ItemNew, ChartInv
<1>2. PICK item, sym, p : item = Top.item /\ sym = CurrSym(item) /\ p = parsing.parse
  OBVIOUS
<1>3. Grows /\ ItemOK(item) /\ p \in DOMAIN parses
  <2>1. Grows /\ FrameOK(Top) /\ parsing.parse > 0
    BY <1>1, QuietGrows, TopOK DEF ChartInv
  <2> QED  BY <1>1, <1>2, <2>1, IsSeqFacts DEF ChartInv, ParsingOK, ParsesOK, FrameOK
<1>4. /\ parsing'.parse = p /\ parsing'.generated = parsing.generated
      /\ parsing'.seen = parsing.seen \cup {item}
  BY <1>1, <1>2 DEF ChartInv, ParsingOK
<1>5. /\ AtEnd(item)' = AtEnd(item) /\ CurrSym(item)' = sym
      /\ OpenForms(item)' = OpenForms(item)
  BY <1>2, <1>3, LinKept
<1>6. TopDone
  BY <1>1, <1>2, <1>4 DEF TopDone
<1>7. ASSUME \A f \in Pending : f \in Pending' \/ f = Top,
             \/ parses' = parses
             \/ /\ parses'[p].completed = parses[p].completed
                /\ \A tok \in Tokens : parses[p].transitions[tok] \subseteq parses'[p].transitions[tok],
             Served(item)'
      PROVE  ClosedInv'
  <2>1. Advances
    BY <1>1, <1>2, <1>4, <1>7 DEF Advances
  <2>2. Progress
    BY <1>1, <1>3, <1>6, <2>1 DEF Progress
  <2>3. \A cid : Prods(cid[2])' = Prods(cid[2])
    BY <1>1 DEF Prods
  <2>4. \A other \in parsing'.seen : other \in parsing.seen \/ other = item
    BY <1>4
  <2>5. \A other \in parsing'.seen : other \in parsing.seen \/ Served(other)'
    BY <1>7, <2>4
  <2> QED  BY <1>1, <1>4, <2>2, <2>3, <2>5, ClosedKept
<1>8. CASE AtEnd(item)
  <2>1. PICK f : f = [k |-> "complete", item |-> item]
    OBVIOUS
  <2>2. Become(f) /\ parses' = parses
    BY <1>2, <1>8, <2>1 DEF ItemNew
  <2>3. f \in Pending' /\ \A h \in Pending : h \in Pending' \/ h = Top
    BY <1>1, <2>2, BecomePending
  <2>4. Served(item)'
    BY <1>5, <1>8, <2>1, <2>3 DEF Served, Completes
  <2> QED  BY <1>7, <2>2, <2>3, <2>4
<1>9. CASE ~AtEnd(item) /\ sym.t = "cat"
  <2>1. PICK cat, f : /\ cat = PredictedCat(item)
                      /\ f = [k |-> "predict", item |-> item, cat |-> cat, r |-> sym.r]
    OBVIOUS
  <2>2. Become(f) /\ parses' = parses
    BY <1>2, <1>9, <2>1 DEF ItemNew
  <2>3. f \in Pending' /\ \A h \in Pending : h \in Pending' \/ h = Top
    BY <1>1, <2>2, BecomePending
  <2>4. PredictedCat(item)' = cat
    BY <1>2, <1>5, <2>1 DEF PredictedCat
  <2>5. Waits(item)'
    BY <1>5, <2>1, <2>3, <2>4 DEF Waits
  <2>6. Served(item)'
    BY <1>5, <1>9, <2>5 DEF Served
  <2> QED  BY <1>7, <2>2, <2>3, <2>6
<1>10. CASE ~AtEnd(item) /\ sym.t = "lit"
  <2>1. Pop /\ parses' = parses
    BY <1>2, <1>10 DEF ItemNew
  <2>2. Served(item)'
    BY <1>5, <1>10 DEF Served
  <2> QED  BY <1>1, <1>7, <2>1, <2>2, PopPending
<1>11. CASE ~AtEnd(item) /\ sym.t # "cat" /\ sym.t # "lit"
  <2>1. PICK old, filed : /\ old = parses[p]
                          /\ filed = [tok \in Tokens |-> IF tok \in Expected(item)
                                                         THEN old.transitions[tok] \cup {item}
                                                         ELSE old.transitions[tok]]
    OBVIOUS
  <2>2. Pop /\ parses' = [parses EXCEPT ![p].transitions = filed]
    BY <1>2, <1>11, <2>1 DEF ItemNew
  <2>3. parses'[p].transitions = filed /\ parses'[p].completed = old.completed
    BY <1>3, <2>1, <2>2 DEF ChartInv, ParsesOK
  <2>4. \A tok \in Tokens : old.transitions[tok] \subseteq filed[tok]
    BY <2>1
  <2>5. BeforeToken(item)
    BY <1>2, <1>3, <1>11, CurrSymFits DEF BeforeToken, SymbolFits
  <2>6. \A tok \in Expected(item) : tok \in Tokens /\ item \in filed[tok]
    BY <2>1, <2>5, ExpectedTokens
  <2>7. Expected(item)' = Expected(item)
    BY <1>2, <1>5 DEF Expected
  <2>8. Filed(item)'
    BY <1>4, <2>3, <2>6, <2>7 DEF Filed
  <2>9. Served(item)'
    BY <1>5, <1>11, <2>8 DEF Served
  <2> QED  BY <1>1, <1>7, <2>1, <2>2, <2>3, <2>4, <2>9, PopPending
<1> QED  BY <1>8, <1>9, <1>10, <1>11

LEMMA CombineClosed ==
  ASSUME ChartInv, ClosedInv, pgf_parsing_combine
  PROVE  ClosedInv'
<1>1. /\ ~Idle /\ Top.k = "combine" /\ StackOK
      /\ UNCHANGED <<concr, next_fid, ccats, conts, parsing>>
  BY DEF pgf_parsing_combine, ChartInv
<1>2. PICK top, p : top = Top /\ p = parsing.parse
  OBVIOUS
<1>3. Grows /\ p \in DOMAIN parses
  <2>1. Grows /\ parsing.parse > 0
    BY <1>1, QuietGrows, TopOK DEF ChartInv
  <2> QED  BY <1>2, <2>1, IsSeqFacts DEF ChartInv, ParsingOK, ParsesOK
<1>4. CASE top.cont # NULL
  <2>1. Become(ItemFrame(Combined(top.cont, top.cat))) /\ parses' = parses
    BY <1>2, <1>4 DEF pgf_parsing_combine
  <2>2. /\ ItemFrame(Combined(top.cont, top.cat)) \in Pending'
        /\ \A f \in Pending : f \in Pending' \/ f = Top
    BY <1>1, <2>1, BecomePending
  <2>3. TopDone
    BY <1>1, <1>2, <1>4, <2>2 DEF TopDone
  <2> QED  BY <1>1, <2>1, <2>2, <2>3, QuietClosed
<1>5. CASE top.cont = NULL
  <2>1. PICK old, new : old = parses[p].completed /\ new = Append(old, top.cat)
    OBVIOUS
  <2>2. Pop /\ parses' = [parses EXCEPT ![p].completed = new]
    BY <1>2, <1>5, <2>1 DEF pgf_parsing_combine
  <2>3. parses'[p].transitions = parses[p].transitions /\ parses'[p].completed = new
    BY <1>3, <2>2 DEF ChartInv, ParsesOK
  <2>4. Members(old) \subseteq Members(new) /\ top.cat \in Members(new)
    BY <1>3, <2>1, AppendMembers DEF ChartInv, ParsesOK
  <2>5. \A f \in Pending : f \in Pending' \/ f = Top
    BY <1>1, <2>2, PopPending
  <2>6. TopDone
    BY <1>1, <1>2, <1>5, <2>3, <2>4 DEF TopDone
  <2>7. Advances
    BY <1>1, <1>2, <2>1, <2>3, <2>4, <2>5 DEF Advances
  <2>8. Progress
    BY <1>1, <1>3, <2>6, <2>7 DEF Progress
  <2>9. \A cid : Prods(cid[2])' = Prods(cid[2])
    BY <1>1 DEF Prods
  <2> QED  BY <1>1, <2>8, <2>9, ClosedKept
<1> QED  BY <1>4, <1>5

\* No set of continuations that is being enumerated is at a size at which the next
\* insertion resizes its table.
NoVisitedResize ==
  \A f \in Pending : f.k = "conts" => Cardinality(conts[f.conts]) \notin ResizeAt

LEMMA InsertContPending ==
  ASSUME ChartInv, NoVisitedResize, ~Idle, NEW cid, NEW item, NEW loop,
         NEW n \in 2..Len(stack), Enumerating(stack[n], cid),
         NEW todo \in StillToVisit(stack[n].todo, cid, item),
         stack' = [stack EXCEPT ![1] = loop, ![n].todo = todo]
  PROVE  /\ loop \in Pending'
         /\ \A f \in Pending :
              \/ f \in Pending' \/ f = Top
              \/ f.k = "conts" /\ \E g \in Pending' :
                   g.k = "conts" /\ g.conts = f.conts /\ g.cat = f.cat /\ f.todo \subseteq g.todo
<1>1. IsSeq(stack) /\ Len(stack) \in Nat \ {0} /\ DOMAIN stack = 1..Len(stack)
  BY TopOK, IsSeqFacts DEF ChartInv
<1>2. PICK f, g, s, t : /\ f = stack[n] /\ g = [f EXCEPT !.todo = todo] /\ t = stack'
                        /\ s = [stack EXCEPT ![1] = loop]
  OBVIOUS
<1>3. f \in Pending /\ f.k = "conts" /\ f.conts = cid
  BY <1>1, <1>2 DEF Pending, Members, Enumerating
<1>4. DOMAIN f = {"k", "conts", "cat", "todo"}
  BY <1>3 DEF ChartInv, StackOK, FrameOK, Pending
<1>5. /\ g.k = "conts" /\ g.conts = f.conts /\ g.cat = f.cat /\ f.todo \subseteq g.todo
  <2>1. Cardinality(conts[cid]) \notin ResizeAt
    BY <1>3 DEF NoVisitedResize
  <2>2. f.todo \subseteq todo
    BY <1>2, <2>1 DEF StillToVisit
  <2> QED  BY <1>2, <1>3, <1>4, <2>2
<1>6. /\ DOMAIN s = DOMAIN stack /\ n \in DOMAIN s /\ n # 1 /\ 1 \in DOMAIN s
      /\ \A i \in 1..Len(stack) : s[i] = (IF i = 1 THEN loop ELSE stack[i])
  BY <1>1, <1>2
<1>7. s[n] = f /\ t = [s EXCEPT ![n].todo = todo]
  BY <1>1, <1>2, <1>6
<1>8. t = [s EXCEPT ![n] = g]
  BY <1>2, <1>7
<1>9. /\ DOMAIN t = DOMAIN stack /\ t = [i \in DOMAIN t |-> t[i]]
      /\ t[1] = loop /\ t[n] = g
      /\ \A i \in 1..Len(stack) : i # 1 /\ i # n => t[i] = stack[i]
  BY <1>1, <1>6, <1>8
<1>10. Len(t) = Len(stack)
  BY <1>1, <1>9, ExceptIsSeq
<1>11. Pending' = Members(t)
  BY <1>2 DEF Pending, Members
<1>12. loop \in Members(t) /\ g \in Members(t)
  BY <1>1, <1>6, <1>9, <1>10 DEF Members
<1>13. ASSUME NEW h \in Pending
       PROVE  h \in Members(t) \/ h = Top \/ h = f
  <2>1. PICK i \in 1..Len(stack) : h = stack[i]
    BY DEF Pending, Members
  <2> QED  BY <1>2, <1>9, <1>10, <2>1 DEF Members, Top
<1> QED  BY <1>3, <1>5, <1>11, <1>12, <1>13

LEMMA PredictClosed ==
  ASSUME ChartInv, ClosedInv, NoVisitedResize, Predict
  PROVE  ClosedInv'
<1>1. /\ ~Idle /\ Top.k = "predict" /\ StackOK
      /\ UNCHANGED <<concr, next_fid, parses, ccats, parsing>>
  BY DEF Predict, ChartInv
<1>2. PICK item, cat, r, cid : item = Top.item /\ cat = Top.cat /\ r = Top.r /\ cid = ContsId(cat, r)
  OBVIOUS
<1>3. cid = <<parsing.parse, cat, r>> /\ cid = ContsId(Top.cat, Top.r)
  BY <1>2 DEF ContsId
<1>4. CASE ~HasProds(cat)
  <2>1. Pop /\ conts' = conts
    BY <1>2, <1>4 DEF Predict
  <2>2. TopDone
    BY <1>1, <1>2, <1>4 DEF TopDone
  <2> QED  BY <1>1, <2>1, <2>2, PopPending, QuietClosed
<1>5. CASE HasProds(cat)
  <2>1. PICK old, n, loop :
          /\ old = (IF cid \in DOMAIN conts THEN conts[cid] ELSE {}) /\ n = Len(Prods(cat))
          /\ loop = [k |-> "prods", item |-> item, conts |-> cid, i |-> 1, n |-> n]
    OBVIOUS
  <2>2. IF item \in old THEN Become([loop EXCEPT !.i = n + 1]) /\ UNCHANGED conts
                        ELSE InsertCont(cid, old, item, loop)
    BY <1>2, <1>5, <2>1 DEF Predict
  <2>3. CASE item \in old
    <3>1. cid \in DOMAIN conts' /\ item \in conts'[cid]
      BY <2>1, <2>2, <2>3
    <3>2. TopDone
      BY <1>1, <1>2, <1>3, <3>1 DEF TopDone
    <3> QED  BY <1>1, <2>2, <2>3, <3>2, BecomePending, QuietClosed
  <2>4. CASE item \notin old
    <3>1. InsertCont(cid, old, item, loop)
      BY <2>2, <2>4
    <3>2. /\ DOMAIN conts' = DOMAIN conts \cup {cid} /\ conts'[cid] = old \cup {item}
          /\ \A c \in DOMAIN conts : c # cid => conts'[c] = conts[c]
      BY <3>1 DEF InsertCont
    <3>3. Grows
      <4>1. \A fid \in DOMAIN ccats : Len(ccats[fid].prods) \in Nat
        BY IsSeqFacts DEF ChartInv, CatsOK
      <4>2. \A c \in DOMAIN conts : conts[c] \subseteq conts'[c]
        BY <2>1, <3>2
      <4> QED  BY <1>1, <3>2, <4>1, <4>2 DEF Grows
    <3>4. /\ loop \in Pending'
          /\ \A f \in Pending :
               \/ f \in Pending' \/ f = Top
               \/ f.k = "conts" /\ \E g \in Pending' :
                    g.k = "conts" /\ g.conts = f.conts /\ g.cat = f.cat /\ f.todo \subseteq g.todo
      <4>1. CASE Become(loop)
        BY <1>1, <4>1, BecomePending
      <4>2. ASSUME NEW m \in 2..Len(stack), Enumerating(stack[m], cid),
                   NEW todo \in StillToVisit(stack[m].todo, cid, item),
                   stack' = [stack EXCEPT ![1] = loop, ![m].todo = todo]
            PROVE  /\ loop \in Pending'
                   /\ \A f \in Pending :
                        \/ f \in Pending' \/ f = Top
                        \/ f.k = "conts" /\ \E g \in Pending' :
                             g.k = "conts" /\ g.conts = f.conts /\ g.cat = f.cat /\ f.todo \subseteq g.todo
        BY <1>1, <4>2, InsertContPending
      <4> QED  BY <3>1, <4>1, <4>2 DEF InsertCont
    <3>5. Advances
      BY <1>1, <3>4 DEF Advances
    <3>6. TopDone
      BY <1>1, <1>2, <1>3, <3>2 DEF TopDone
    <3>7. Progress
      BY <1>1, <3>3, <3>5, <3>6 DEF Progress
    <3>8. /\ loop.k = "prods" /\ loop.item = item /\ loop.conts = cid /\ loop.i = 1 /\ loop.n = n
      BY <2>1
    <3>9. \A c : Prods(c[2])' = Prods(c[2])
      BY <1>1 DEF Prods
    <3>10. \A c \in DOMAIN conts' : c \in DOMAIN conts \/ c = <<c[1], c[2], c[3]>>
      BY <1>3, <3>2
    <3>11. \A c \in DOMAIN conts' : c[1] = parsing.parse /\ HasProds(c[2]) =>
             \A i \in 1..Len(Prods(c[2])') :
               \/ c \in DOMAIN conts /\ i \in 1..Len(Prods(c[2]))
               \/ Tried(c, i)'
      <4>1. n \in Nat
        BY <1>1, <1>2, <1>5, <2>1, TopOK, ProdsFacts DEF FrameOK, ChartInv
      <4>2. ASSUME NEW i \in 1..n
            PROVE  Tried(cid, i)'
        <5>1. InProds(cid, i)'
          BY <3>4, <3>8, <4>1 DEF InProds
        <5> QED  BY <5>1 DEF Tried
      <4>3. Prods(cid[2])' = Prods(cat)
        BY <1>3, <3>9
      <4>4. \A c \in DOMAIN conts' : c = cid \/ c \in DOMAIN conts
        BY <3>2
      <4> QED  BY <2>1, <3>9, <4>2, <4>3, <4>4
    <3>12. \A c \in DOMAIN parsing'.generated : \A cont \in conts'[c] :
             \/ c \in DOMAIN parsing.generated /\ cont \in conts[c]
             \/ Met(c, cont)'
      <4>1. EndsWith(cid, item)'
        BY <3>4, <3>8 DEF EndsWith
      <4>2. Met(cid, item)'
        BY <4>1 DEF Met
      <4>3. ASSUME NEW c \in DOMAIN parsing'.generated, NEW cont \in conts'[c]
            PROVE  cont \in conts[c] \/ (c = cid /\ cont = item)
        <5>1. c \in DOMAIN conts
          BY <1>1, <4>3 DEF ChartInv, ParsingOK
        <5> QED  BY <2>1, <3>2, <4>3, <5>1
      <4> QED  BY <1>1, <4>2, <4>3
    <3> QED  BY <1>1, <3>7, <3>10, <3>11, <3>12, ClosedKept
  <2> QED  BY <2>3, <2>4
<1> QED  BY <1>4, <1>5

\* A production is added to a category.
LEMMA ProdAdded ==
  ASSUME CatsOK, UNCHANGED <<concr, conts>>, NEW fid \in DOMAIN ccats, NEW prod,
         ccats' = [ccats EXCEPT ![fid].prods = Append(@, prod)]
  PROVE  Grows
<1>1. PICK old, new : old = ccats[fid].prods /\ new = Append(old, prod)
  OBVIOUS
<1>2. IsSeq(old) /\ DOMAIN ccats[fid] = {"cat", "prods"}
  BY <1>1 DEF CatsOK
<1>3. Len(new) = Len(old) + 1 /\ Len(old) \in Nat
  BY <1>1, <1>2, AppendSeq, IsSeqFacts
<1>4. /\ DOMAIN ccats' = DOMAIN ccats
      /\ \A c \in DOMAIN ccats : c # fid => ccats'[c] = ccats[c]
      /\ ccats'[fid].cat = ccats[fid].cat /\ ccats'[fid].prods = new
  BY <1>1, <1>2
<1>5. \A c \in DOMAIN ccats : Len(ccats[c].prods) \in Nat
  BY IsSeqFacts DEF CatsOK
<1> QED  BY <1>1, <1>3, <1>4, <1>5 DEF Grows

LEMMA CompleteOldClosed ==
  ASSUME ChartInv, ClosedInv, CompleteOld
  PROVE  ClosedInv'
<1>1. /\ ~Idle /\ Top.k = "complete" /\ Top.item.conts \in DOMAIN parsing.generated /\ StackOK
      /\ UNCHANGED <<concr, next_fid, parses, conts, parsing>>
  BY DEF CompleteOld, ChartInv
<1>2. PICK item, done : item = Top.item /\ done = item.conts
  OBVIOUS
<1>3. PICK prod, fid, f : /\ prod = DoneProd(item) /\ fid = parsing.generated[done]
                          /\ f = [k |-> "contss", cat |-> fid, prod |-> prod, i |-> 1]
  OBVIOUS
<1>4. ccats' = [ccats EXCEPT ![fid].prods = Append(@, prod)] /\ Become(f)
  BY <1>2, <1>3 DEF CompleteOld
<1>5. fid \in DOMAIN ccats /\ Synthetic(fid)
  BY <1>1, <1>2, <1>3, GrammarFacts DEF ChartInv, ParsingOK
<1>6. PICK old, new : old = ccats[fid].prods /\ new = Append(old, prod)
  OBVIOUS
<1>7. /\ Grows /\ IsSeq(old) /\ ccats'[fid].prods = new
      /\ \A c \in DOMAIN ccats : c # fid => ccats'[c] = ccats[c]
  <2>1. Grows /\ IsSeq(old)
    BY <1>1, <1>4, <1>5, <1>6, ProdAdded DEF ChartInv, CatsOK
  <2> QED  BY <1>4, <1>5, <1>6, <2>1 DEF ChartInv, CatsOK
<1>8. PICK n : n = Len(old)
  OBVIOUS
<1>9. /\ n \in Nat /\ Len(new) = n + 1 /\ (\A i \in 1..n : new[i] = old[i]) /\ new[n + 1] = prod
      /\ prod \in Members(new)
  BY <1>6, <1>7, <1>8, AppendSeq, AppendMembers, IsSeqFacts
<1>10. f \in Pending' /\ \A h \in Pending : h \in Pending' \/ h = Top
  BY <1>1, <1>4, BecomePending
<1>11. TopDone
  BY <1>1, <1>2, <1>3, <1>7, <1>9 DEF TopDone
<1>12. Advances
  <2>1. \A c \in DOMAIN ccats : \A i \in 1..Len(ccats[c].prods) : ccats'[c].prods[i] = ccats[c].prods[i]
    BY <1>6, <1>7, <1>8, <1>9
  <2> QED  BY <1>1, <1>10, <2>1 DEF Advances
<1>13. Progress
  BY <1>1, <1>7, <1>11, <1>12 DEF Progress
<1>14. \A cid \in DOMAIN conts' : cid[1] = parsing.parse /\ HasProds(cid[2]) =>
         \A i \in 1..Len(Prods(cid[2])') :
           \/ cid \in DOMAIN conts /\ i \in 1..Len(Prods(cid[2]))
           \/ Tried(cid, i)'
  <2> SUFFICES ASSUME NEW cid \in DOMAIN conts, HasProds(cid[2]), NEW i \in 1..Len(Prods(cid[2])')
               PROVE  i \in 1..Len(Prods(cid[2])) \/ Tried(cid, i)'
    BY <1>1
  <2>1. PICK cat, r : cat = cid[2] /\ r = cid[3]
    OBVIOUS
  <2>2. cat \in Fids /\ r \in 1..NCtnts(cat) /\ NCtnts(cat) \in Nat
    BY <2>1, FidFacts DEF ChartInv, ContsOK
  <2>3. CASE cat # fid
    <3>1. Prods(cat)' = Prods(cat)
      <4>1. CASE cat \in DOMAIN ccats
        BY <1>7, <2>3, <4>1, GrammarFacts DEF Prods, ChartInv
      <4>2. CASE cat \in DOMAIN concr.cat
        BY <1>1, <4>2, GrammarFacts DEF Prods, ChartInv
      <4> QED  BY <2>2, <4>1, <4>2 DEF Fids
    <3> QED  BY <2>1, <3>1
  <2>4. CASE cat = fid
    <3>1. Prods(cat)' = new /\ Prods(cat) = old
      BY <1>5, <1>6, <1>7, <2>4 DEF Prods, Synthetic
    <3>2. i \in 1..n \/ i = n + 1
      BY <1>9, <2>1, <3>1
    <3>3. ASSUME i = n + 1
          PROVE  Tried(cid, i)'
      <4>1. f.k = "contss" /\ f.cat = cat /\ f.prod = prod /\ f.i <= r
        BY <1>3, <2>2, <2>4
      <4>2. InContss(cat, prod, r)'
        BY <1>10, <4>1 DEF InContss
      <4>3. Prods(cid[2])'[i] = prod
        BY <1>9, <2>1, <3>1, <3>3
      <4>4. InContss(cid[2], Prods(cid[2])[i], cid[3])'
        BY <2>1, <4>2, <4>3 DEF InContss
      <4> QED  BY <4>4 DEF Tried
    <3> QED  BY <1>8, <2>1, <3>1, <3>2, <3>3
  <2> QED  BY <2>3, <2>4
<1> QED  BY <1>1, <1>13, <1>14, ClosedKept

LEMMA CompleteNewClosed ==
  ASSUME ChartInv, ClosedInv, CompleteNew
  PROVE  ClosedInv'
<1>1. /\ ~Idle /\ Top.k = "complete" /\ Top.item.conts \notin DOMAIN parsing.generated /\ StackOK
      /\ UNCHANGED <<concr, parses, conts>>
  BY DEF CompleteNew, ChartInv
<1>2. PICK item, done, fid : item = Top.item /\ done = item.conts /\ fid = next_fid - 1
  OBVIOUS
<1>3. PICK cat, f : /\ cat = [cat |-> CncCat(done[2]), prods |-> <<DoneProd(item)>>]
                    /\ f = [k |-> "conts", conts |-> done, cat |-> fid, todo |-> conts[done]]
  OBVIOUS
<1>4. /\ Become(f)
      /\ ccats' = [c \in DOMAIN ccats \cup {fid} |-> IF c = fid THEN cat ELSE ccats[c]]
      /\ parsing' = [parsing EXCEPT !.generated =
                       [c \in DOMAIN @ \cup {done} |-> IF c = done THEN fid ELSE @[c]]]
  BY <1>2, <1>3 DEF CompleteNew, FreshFid
<1>5. fid \notin Fids
  <2>1. fid \notin DOMAIN ccats /\ Synthetic(fid)
    BY <1>2 DEF ChartInv, CatsOK, Synthetic, PGF_FID_SYNTHETIC
  <2> QED  BY <2>1, GrammarFacts DEF Fids, ChartInv
<1>6. /\ DOMAIN ccats' = DOMAIN ccats \cup {fid} /\ ccats'[fid] = cat
      /\ \A c \in DOMAIN ccats : ccats'[c] = ccats[c]
  BY <1>4, <1>5 DEF Fids
<1>7. /\ parsing'.parse = parsing.parse /\ parsing'.seen = parsing.seen
      /\ DOMAIN parsing'.generated = DOMAIN parsing.generated \cup {done}
      /\ parsing'.generated[done] = fid
      /\ \A c \in DOMAIN parsing.generated : parsing'.generated[c] = parsing.generated[c]
  BY <1>1, <1>2, <1>4 DEF ChartInv, ParsingOK
<1>8. Grows
  <2>1. \A c \in DOMAIN ccats : Len(ccats[c].prods) \in Nat
    BY IsSeqFacts DEF ChartInv, CatsOK
  <2> QED  BY <1>1, <1>6, <2>1 DEF Grows
<1>9. f \in Pending' /\ \A h \in Pending : h \in Pending' \/ h = Top
  BY <1>1, <1>4, BecomePending
<1>10. TopDone
  <2>1. cat.prods = <<DoneProd(item)>> /\ DoneProd(item) \in Members(cat.prods)
    BY <1>3, NewSeqs
  <2> QED  BY <1>1, <1>2, <1>6, <1>7, <2>1 DEF TopDone
<1>11. Advances
  BY <1>1, <1>6, <1>7, <1>9 DEF Advances
<1>12. Progress
  BY <1>1, <1>8, <1>10, <1>11 DEF Progress
<1>13. ASSUME NEW cid \in DOMAIN conts
       PROVE  Prods(cid[2])' = Prods(cid[2])
  <2>1. PICK c : c = cid[2]
    OBVIOUS
  <2>2. c \in Fids
    BY <1>13, <2>1 DEF ChartInv, ContsOK
  <2>3. CASE c \in DOMAIN ccats
    BY <1>6, <2>1, <2>3, GrammarFacts DEF Prods, ChartInv
  <2>4. CASE c \in DOMAIN concr.cat
    BY <1>1, <2>1, <2>4, GrammarFacts DEF Prods, ChartInv
  <2> QED  BY <2>2, <2>3, <2>4 DEF Fids
<1>14. \A cid \in DOMAIN parsing'.generated : \A cont \in conts'[cid] :
         \/ cid \in DOMAIN parsing.generated /\ cont \in conts[cid]
         \/ Met(cid, cont)'
  <2>1. ASSUME NEW cont \in conts[done]
        PROVE  Met(done, cont)'
    <3>1. f.k = "conts" /\ f.conts = done /\ f.cat = fid /\ cont \in f.todo
      BY <1>3
    <3>2. InConts(done, fid, cont)'
      BY <1>9, <3>1 DEF InConts
    <3>3. InConts(done, parsing.generated[done], cont)'
      BY <1>7, <3>2 DEF InConts
    <3> QED  BY <3>3 DEF Met
  <2> QED  BY <1>1, <1>7, <2>1
<1> QED  BY <1>1, <1>7, <1>12, <1>13, <1>14, ClosedKept

LEMMA BeginClosed ==
  ASSUME ChartInv, ClosedInv, NEW start, NEW toks, NEW calls, Begin(start, toks, calls)
  PROVE  ClosedInv'
<1>1. conts' = conts /\ parsing' = NewParsing(Len(parses) + 1)
  BY DEF Begin
<1>2. Len(parses) \in Nat /\ DOMAIN parses = 1..Len(parses)
  BY IsSeqFacts DEF ChartInv, ParsesOK
<1>3. parsing'.parse = Len(parses) + 1 /\ parsing'.seen = {} /\ DOMAIN parsing'.generated = {}
  BY <1>1 DEF NewParsing
<1>4. \A cid \in DOMAIN conts : cid = <<cid[1], cid[2], cid[3]>> /\ cid[1] # parsing'.parse
  <2>1. \A cid \in DOMAIN conts : cid[1] \in 1..Len(parses)
    BY <1>2 DEF ChartInv, ContsOK
  <2> QED  BY <1>2, <1>3, <2>1 DEF ClosedInv, AllTried
<1>5. AllTried' /\ AllMet' /\ AllServed'
  BY <1>1, <1>3, <1>4 DEF AllTried, AllMet, AllServed
<1> QED  BY <1>5 DEF ClosedInv

LEMMA ClosedStutter ==
  ASSUME ClosedInv, UNCHANGED vars
  PROVE  ClosedInv'
<1>1. UNCHANGED <<concr, next_fid, parses, ccats, conts, parsing, stack>>
  BY DEF vars
<1>2. \A item : Handled(item)' = Handled(item)
  BY <1>1 DEF Handled, Pending, Members, ItemFrame
<1>3. \A cont, cat : Awaited(cont, cat)' = Awaited(cont, cat)
  BY <1>1, <1>2 DEF Awaited, Pending, Members, CombineFrame, Combined, CurrSym, Lin
<1>4. AllTried'
  BY <1>1, <1>2 DEF ClosedInv, AllTried, Tried, InProds, InContss, Pending, Members, Prods, HasProds,
                    pgf_new_item
<1>5. AllMet'
  BY <1>1, <1>3 DEF ClosedInv, AllMet, Met, InConts, EndsWith, Pending, Members
<1>6. \A item : Served(item)' = Served(item)
  BY <1>1 DEF Served, Completes, Waits, Filed, Expected, OpenForms, PredictedCat, ContsId, AtEnd,
              CurrSym, Lin, Pending, Members, HasProds, DoneProd
<1>7. AllServed'
  BY <1>1, <1>6 DEF ClosedInv, AllServed
<1> QED  BY <1>4, <1>5, <1>7 DEF ClosedInv

LEMMA ClosedNext ==
  ASSUME ChartInv, ClosedInv, NoVisitedResize, [Next]_vars
  PROVE  ClosedInv'
<1>1. ASSUME NEW cat \in concr.abscats, NEW r \in CtntIds(cat), pgf_parser_parse(cat, r)
      PROVE  ClosedInv'
  BY <1>1, BeginClosed DEF pgf_parser_parse
<1>2. ASSUME NEW p \in DOMAIN parses, NEW tok \in Tokens, pgf_parse_token(p, tok)
      PROVE  ClosedInv'
  BY <1>2, BeginClosed DEF pgf_parse_token
<1>3. CASE Step
  BY <1>3, StartClosed, ScanClosed, ScanFormsClosed, ItemNewClosed, ItemSeenClosed, PredictClosed,
     ProdsLoopClosed, CombineClosed, CompleteOldClosed, ContssLoopClosed, CompleteNewClosed,
     ContsLoopClosed DEF Step
<1>4. CASE UNCHANGED vars
  BY <1>4, ClosedStutter
<1> QED  BY <1>1, <1>2, <1>3, <1>4 DEF Next

\* The null pointer is not an item.
NullIsNoItem == DOMAIN NULL # {"conts", "prod", "args", "seq_idx", "tok_idx", "alt"}

\* With nothing on the stack, what is seen to is done.
LEMMA ClosedIsClosed ==
  ASSUME NullIsNoItem, ChartInv, ClosedInv
  PROVE  ChartClosed
<1> SUFFICES ASSUME Idle, NEW item \in parsing.seen
             PROVE  IF AtEnd(item) THEN CompletedFully(item)
                    ELSE CASE CurrSym(item).t = "cat" -> PredictedFully(item)
                           [] CurrSym(item).t = "lit" -> TRUE
                           [] OTHER -> \A tok \in Expected(item) :
                                         item \in parses[parsing.parse].transitions[tok]
  BY DEF ChartClosed
<1>1. Pending = {}
  BY NewSeqs DEF Idle, Pending
<1>2. Served(item) /\ ItemOK(item) /\ item # NULL
  BY DEF ClosedInv, AllServed, ChartInv, ParsingOK, ItemOK, NullIsNoItem
<1>3. \A other : Handled(other) => other \in parsing.seen
  BY <1>1 DEF Handled
<1>4. ASSUME NEW cid \in DOMAIN parsing.generated, NEW cont \in conts[cid]
      PROVE  IF cont = NULL
             THEN parsing.generated[cid] \in Members(parses[parsing.parse].completed)
             ELSE Combined(cont, parsing.generated[cid]) \in parsing.seen
  <2>1. Met(cid, cont)
    BY <1>4 DEF ClosedInv, AllMet
  <2>2. Awaited(cont, parsing.generated[cid])
    BY <1>1, <2>1 DEF Met, InConts, EndsWith
  <2> QED  BY <1>1, <1>3, <2>2 DEF Awaited
<1>5. CASE AtEnd(item)
  <2>1. PICK cid, cat : cid = item.conts /\ cat = parsing.generated[cid]
    OBVIOUS
  <2>2. cid \in DOMAIN parsing.generated /\ DoneProd(item) \in Members(ccats[cat].prods)
    BY <1>1, <1>2, <1>5, <2>1 DEF Served, Completes
  <2>3. IsSeq(ccats[cat].prods)
    BY <2>1, <2>2 DEF ChartInv, ParsingOK, CatsOK
  <2>4. \E i \in DOMAIN ccats[cat].prods : ccats[cat].prods[i] = DoneProd(item)
    BY <2>2, <2>3, IsSeqFacts DEF Members
  <2>5. parsing.parse \in DOMAIN parses
    <3>1. parsing.parse # 0
      BY <2>2 DEF ChartInv, ParsingOK, ContsOK
    <3> QED  BY <3>1, IsSeqFacts DEF ChartInv, ParsingOK, ParsesOK
  <2>6. PICK done : done = parses[parsing.parse].completed
    OBVIOUS
  <2>7. IsSeq(done) /\ DOMAIN done = 1..Len(done)
    BY <2>5, <2>6, IsSeqFacts DEF ChartInv, ParsesOK
  <2>8. ASSUME NEW cont \in conts[cid]
        PROVE  IF cont = NULL THEN \E i \in DOMAIN done : done[i] = cat
               ELSE Combined(cont, cat) \in parsing.seen
    BY <1>4, <2>1, <2>2, <2>6, <2>7 DEF Members
  <2> QED  BY <1>5, <2>1, <2>2, <2>4, <2>6, <2>8 DEF CompletedFully
<1>6. CASE ~AtEnd(item) /\ CurrSym(item).t = "cat"
  <2>1. PICK sym, cat, cid : /\ sym = CurrSym(item) /\ cat = item.args[sym.d]
                             /\ cid = ContsId(cat, sym.r)
    OBVIOUS
  <2>2. ASSUME HasProds(cat)
        PROVE  /\ cid \in DOMAIN conts /\ item \in conts[cid]
               /\ \A i \in DOMAIN Prods(cat) : pgf_new_item(cid, Prods(cat)[i]) \in parsing.seen
               /\ cid \in DOMAIN parsing.generated =>
                    Combined(item, parsing.generated[cid]) \in parsing.seen
    <3>1. cid \in DOMAIN conts /\ item \in conts[cid]
      BY <1>1, <1>2, <1>6, <2>1, <2>2 DEF Served, Waits, PredictedCat
    <3>2. cid[1] = parsing.parse /\ cid[2] = cat
      BY <2>1 DEF ContsId
    <3>3. cat \in Fids
      BY <3>1, <3>2 DEF ChartInv, ContsOK
    <3>4. DOMAIN Prods(cat) = 1..Len(Prods(cat))
      BY <2>2, <3>3, ProdsFacts, IsSeqFacts DEF ChartInv
    <3>5. ASSUME NEW i \in 1..Len(Prods(cat))
          PROVE  pgf_new_item(cid, Prods(cat)[i]) \in parsing.seen
      <4>1. Tried(cid, i)
        BY <2>2, <3>1, <3>2, <3>5 DEF ClosedInv, AllTried
      <4>2. Handled(pgf_new_item(cid, Prods(cat)[i]))
        BY <1>1, <3>2, <4>1 DEF Tried, InProds, InContss
      <4> QED  BY <1>3, <4>2
    <3> QED  BY <1>2, <1>4, <3>1, <3>4, <3>5
  <2>3. PredictedFully(item)
    BY <2>1, <2>2 DEF PredictedFully
  <2> QED  BY <1>6, <2>3
<1>7. CASE ~AtEnd(item) /\ CurrSym(item).t = "lit"
  BY <1>7
<1>8. CASE ~AtEnd(item) /\ CurrSym(item).t # "cat" /\ CurrSym(item).t # "lit"
  BY <1>2, <1>8 DEF Served, Filed
<1> QED  BY <1>5, <1>6, <1>7, <1>8

\* The order of the recursive calls never loses anything: when a call returns, no item,
\* production or completed category that a rule of the parser yields is missing,
\* provided that no insertion resizes a set of continuations while it is enumerated.
THEOREM ClosedUnlessResized ==
  ASSUME NullIsNoItem
  PROVE  Spec /\ []NoVisitedResize => []ChartClosed
<1>1. Init => ClosedInv
  BY DEF Init, NewParsing, ClosedInv, AllTried, AllMet, AllServed
<1>2. ChartInv /\ ClosedInv /\ NoVisitedResize /\ [Next]_vars => ClosedInv'
  BY ClosedNext
<1>3. ChartInv /\ ClosedInv => ChartClosed
  BY ClosedIsClosed
<1> QED  BY <1>1, <1>2, <1>3, ChartInvHolds, PTL DEF Spec
=============================================================================
