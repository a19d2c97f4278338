----------------------------- MODULE GuBufProofs -----------------------------
(***************************************************************************)
(* The objects of a pool are disjoint and inside its blocks, for every     *)
(* size of a header, a block and a request, and any number of objects; and *)
(* the pool stays sound with buffers, sequences, strings and variants as   *)
(* its clients, the elements of a buffer have a block of their own,        *)
(* everything is released in the end, and what is hidden in the low bits   *)
(* of a word is found again.                                               *)
(*                                                                         *)
(* The argument for the pool: it is sound when no object reaches into the  *)
(* space between its edges (EdgesSound).  A new block makes a sound pool,  *)
(* since its number is fresh; and taking an object from either edge of a   *)
(* sound pool, as long as it fits, leaves a sound pool and adds an object  *)
(* that is disjoint from all others.                                       *)
(*                                                                         *)
(* The argument for its clients: a block is either owned by the pool or is *)
(* the data of a buffer whose finalizer is still to run.  Numbers of       *)
(* blocks are fresh, so the two never meet, and the list of finalizers     *)
(* decides what is left.                                                   *)
(***************************************************************************)
EXTENDS Tagged, ArithmeticLemmas, SequenceTheorems, TLAPS

-----------------------------------------------------------------------------
(* The pool by itself: gu_malloc_prefixed, finalizers and gu_pool_free *)

\* The inductive invariant.
IndInv == TypeOK /\ EdgesInBlock /\ ObjectsInBlocks /\ ObjectsDisjoint

\* The arguments of an allocation, after gu_malloc_prefixed has replaced zeros.
NormalRequests ==
  {q \in [pre_align : Alignments, pre_size : Nat, align : Alignments, size : Nat] :
     q.pre_size % q.pre_align = 0}

\* Alignments are numbers.
LEMMA AlignmentsPositive == Alignments \subseteq Nat \ {0}
  BY DEF Alignments

\* What such a request holds.
LEMMA NormalTyped ==
  ASSUME NEW q \in NormalRequests
  PROVE  /\ q.pre_align \in Nat \ {0} /\ q.align \in Nat \ {0}
         /\ q.pre_size \in Nat /\ q.size \in Nat
  BY AlignmentsPositive DEF NormalRequests

-----------------------------------------------------------------------------
(* Arithmetic *)

\* gu_align_forward never moves back.
LEMMA AlignForward ==
  ASSUME NEW a \in Nat, NEW n \in Nat \ {0}
  PROVE  gu_align_forward(a, n) \in Nat /\ gu_align_forward(a, n) >= a
<1> DEFINE x == a + (n - 1)
<1>1. x \in Nat /\ x % n \in 0..(n - 1)
  OBVIOUS
<1> QED  BY <1>1 DEF gu_align_forward

\* An object and its prefix lie behind the position they are allocated from.
LEMMA ObjectBehind ==
  ASSUME NEW pos \in Nat, NEW q \in NormalRequests
  PROVE  /\ ObjectAt(pos, q) \in Nat
         /\ pos + q.pre_size <= ObjectAt(pos, q)
         /\ gu_mem_advance(pos, q) = ObjectAt(pos, q) + q.size
<1>1. q.pre_align \in Nat \ {0} /\ q.align \in Nat \ {0} /\ q.pre_size \in Nat
  BY NormalTyped
<1> DEFINE f == gu_align_forward(pos, q.pre_align)
<1>2. f \in Nat /\ f >= pos
  BY <1>1, AlignForward
<1>3. f + q.pre_size \in Nat
  BY <1>1, <1>2
<1>4. gu_align_forward(f + q.pre_size, q.align) \in Nat
      /\ gu_align_forward(f + q.pre_size, q.align) >= f + q.pre_size
  BY <1>1, <1>3, AlignForward
<1> HIDE DEF f
<1>5. pos + q.pre_size <= gu_align_forward(f + q.pre_size, q.align)
  BY <1>1, <1>2, <1>4
<1> QED  BY <1>4, <1>5 DEF ObjectAt, gu_mem_advance, f

\* gu_align_forward gives a multiple of the alignment, and leaves one alone.
LEMMA AlignForwardAligns ==
  ASSUME NEW a \in Nat, NEW n \in Nat \ {0}
  PROVE  /\ gu_align_forward(a, n) % n = 0
         /\ a % n = 0 => gu_align_forward(a, n) = a
<1> DEFINE x == a + (n - 1)
<1>1. x \in Int /\ a \in Int /\ n - 1 \in 0..(n - 1)
  OBVIOUS
<1>2. gu_align_forward(a, n) = x - (x % n)
  BY DEF gu_align_forward
<1>3. gu_align_forward(a, n) % n = 0
  <2> HIDE DEF x
  <2>1. PICK k \in Int : x = n * k + (x % n)
    BY <1>1, Remainder
  <2>2. x % n \in Int
    BY <1>1
  <2>3. x - (x % n) = n * k
    BY <1>1, <2>1, <2>2
  <2> QED  BY <1>2, <2>3, ProductIsMultiple
<1>4. ASSUME a % n = 0
      PROVE  gu_align_forward(a, n) = a
  <2>1. PICK k \in Int : a = n * k
    BY <1>1, <1>4, MultipleHasFactor
  <2>2. (n * k + (n - 1)) % n = n - 1
    BY <1>1, RemainderIs
  <2>3. x % n = n - 1
    BY <2>1, <2>2
  <2>4. (a + (n - 1)) - (n - 1) = a
    OBVIOUS
  <2> QED  BY <1>2, <2>3, <2>4
<1> QED  BY <1>3, <1>4

\* Requests are normal once gu_malloc_prefixed has replaced zeros.
LEMMA NormalIsNormal ==
  ASSUME NEW q, IsRequest(q)
  PROVE  /\ Normal(q) \in NormalRequests
         /\ Normal(q).pre_size = q.pre_size /\ Normal(q).size = q.size
         /\ Normal(q).align = IF q.align = 0 THEN MAX_ALIGN ELSE q.align
         /\ Normal(q).pre_align = IF q.pre_align = 0 THEN MAX_ALIGN ELSE q.pre_align
<1>1. MAX_ALIGN \in Alignments
  <2>1. MAX_ALIGN \in Nat \ {0} /\ 1 \in Int
    BY AlignmentAssumption
  <2>2. (MAX_ALIGN * 1) % MAX_ALIGN = 0
    BY <2>1, ProductIsMultiple
  <2>3. MAX_ALIGN * 1 = MAX_ALIGN /\ MAX_ALIGN \in 1..MAX_ALIGN
    BY <2>1
  <2> QED  BY <2>2, <2>3 DEF Alignments
<1>2. Alignments \subseteq Nat \ {0}
  BY DEF Alignments
<1>3. q \in [pre_align : Alignments \cup {0}, pre_size : Nat, align : Alignments \cup {0}, size : Nat]
      /\ q.pre_size % (IF q.pre_align = 0 THEN MAX_ALIGN ELSE q.pre_align) = 0
  BY DEF IsRequest
<1>4. 0 \notin Alignments
  BY <1>2
<1> HIDE DEF Alignments
<1>5. Normal(q) \in [pre_align : Alignments, pre_size : Nat, align : Alignments, size : Nat]
      /\ Normal(q).pre_size = q.pre_size /\ Normal(q).size = q.size
      /\ Normal(q).align = (IF q.align = 0 THEN MAX_ALIGN ELSE q.align)
      /\ Normal(q).pre_align = (IF q.pre_align = 0 THEN MAX_ALIGN ELSE q.pre_align)
  BY <1>1, <1>3, <1>4 DEF Normal
<1>6. Normal(q).pre_size % Normal(q).pre_align = 0
  BY <1>3, <1>5
<1> QED  BY <1>5, <1>6 DEF NormalRequests

\* Where the object and its prefix are, they are aligned.
LEMMA ObjectAtAligned ==
  ASSUME NEW pos \in Nat, NEW q \in NormalRequests
  PROVE  /\ ObjectAt(pos, q) % q.align = 0
         /\ (ObjectAt(pos, q) - q.pre_size) % q.pre_align = 0
<1>1. PICK pa, al, k :
        /\ pa = q.pre_align /\ al = q.align /\ k = q.pre_size
        /\ pa \in Alignments /\ al \in Alignments /\ k \in Nat /\ k % pa = 0
  BY DEF NormalRequests
<1>2. pa \in Nat \ {0} /\ al \in Nat \ {0}
  BY <1>1 DEF Alignments
<1>3. PICK f : f = gu_align_forward(pos, pa)
  OBVIOUS
<1>4. f \in Nat /\ f % pa = 0
  BY <1>2, <1>3, AlignForward, AlignForwardAligns
<1>5. f + k \in Nat /\ f + k \in Int /\ f \in Int /\ k \in Int
  BY <1>1, <1>4
<1>6. PICK at : at = gu_align_forward(f + k, al)
  OBVIOUS
<1>7. at \in Int /\ at % al = 0
  BY <1>2, <1>5, <1>6, AlignForward, AlignForwardAligns
<1>8. at = ObjectAt(pos, q)
  BY <1>1, <1>3, <1>6 DEF ObjectAt
<1>9. (at - k) % pa = 0
  <2>1. CASE al % pa = 0
    <3>1. at % pa = 0
      BY <1>2, <1>7, <2>1, MultipleOfMultiple
    <3> QED  BY <1>1, <1>2, <1>5, <1>7, <3>1, SumIsMultiple
  <2>2. CASE pa % al = 0
    <3>1. (f + k) % pa = 0
      BY <1>1, <1>2, <1>4, <1>5, SumIsMultiple
    <3>2. (f + k) % al = 0
      BY <1>2, <1>5, <2>2, <3>1, MultipleOfMultiple
    <3>3. at = f + k
      BY <1>2, <1>5, <1>6, <3>2, AlignForwardAligns
    <3>4. at - k = f
      BY <1>5, <3>3
    <3> QED  BY <1>4, <3>4
  <2> QED  BY <1>1, <2>1, <2>2, AlignmentAssumption
<1> QED  BY <1>1, <1>7, <1>8, <1>9

\* An object of bytes is not padded.
LEMMA UnalignedSize ==
  ASSUME NEW q \in NormalRequests, Unaligned(q)
  PROVE  FullSize(q) = ChunkHeader + q.pre_size + q.size
<1>1. ChunkHeader \in Nat /\ q.pre_size \in Nat /\ q.size \in Nat
  BY PoolAssumption DEF NormalRequests
<1>2. \A a \in Nat : gu_align_forward(a, 1) = a
  BY DEF gu_align_forward
<1>3. ChunkHeader + q.pre_size \in Nat
  BY <1>1
<1>4. ObjectAt(ChunkHeader, q) = ChunkHeader + q.pre_size
  BY <1>1, <1>2, <1>3 DEF Unaligned, ObjectAt
<1> QED  BY <1>1, <1>4 DEF FullSize, gu_mem_advance

\* An object of k + m bytes at the right end of a free space from l to r.
LEMMA RightEnd ==
  ASSUME NEW l \in Nat, NEW r \in Nat, NEW k \in Nat, NEW m \in Nat, k + m <= r - l
  PROVE  LET lo == r - (k + m)
             at == lo + k
         IN /\ lo \in Nat /\ at \in Nat /\ r = at + m /\ lo = at - k
            /\ l <= lo /\ lo <= at /\ at <= r
  OBVIOUS

-----------------------------------------------------------------------------
(* Blocks *)

\* A block that malloc gives: its number is new, and the others stay.
LEMMA NewBlock ==
  ASSUME TypeOK, NEW sz \in Nat, AddBlock(sz)
  PROVE  /\ nblocks' \in Nat
         /\ DOMAIN heap' = DOMAIN heap \cup {nblocks}
         /\ DOMAIN heap' \subseteq 0..(nblocks' - 1)
         /\ heap'[nblocks] = sz /\ nblocks \notin DOMAIN heap
         /\ \A b \in DOMAIN heap : heap'[b] = heap[b]
         /\ \A b \in DOMAIN heap' : heap'[b] \in Nat
<1>1. /\ heap' = [b \in DOMAIN heap \cup {nblocks} |-> IF b = nblocks THEN sz ELSE heap[b]]
      /\ nblocks' = nblocks + 1
  BY DEF AddBlock
<1>2. nblocks \in Nat /\ DOMAIN heap \subseteq 0..(nblocks - 1)
      /\ \A b \in DOMAIN heap : heap[b] \in Nat
  BY DEF TypeOK
<1>3. nblocks \notin DOMAIN heap
  BY <1>2
<1>4. DOMAIN heap' = DOMAIN heap \cup {nblocks}
  BY <1>1
<1>5. DOMAIN heap' \subseteq 0..(nblocks' - 1) /\ nblocks' \in Nat
  BY <1>1, <1>2, <1>4
<1>6. heap'[nblocks] = sz /\ \A b \in DOMAIN heap : heap'[b] = heap[b]
  BY <1>1, <1>3
<1> QED  BY <1>2, <1>3, <1>4, <1>5, <1>6

\* gu_pool_expand makes a sound pool with room for what was asked, and the size
\* of its block fits a uint16_t.
LEMMA ExpandSound ==
  ASSUME IndInv, phase = "live",
         NEW req \in ChunkHeader..MaxShared, NEW sz, sz = ExpandSize(pool, req), AddBlock(sz),
         NEW p, p = Expanded(pool, sz)
  PROVE  /\ p \in Pools /\ EdgesSound(p, heap')
         /\ sz \in Nat /\ p.curr = nblocks /\ p.left = ChunkHeader /\ p.right >= req
<1>1. /\ pool \in Pools /\ pool.size \in Nat /\ nblocks \in Nat
      /\ ChunkHeader \in Nat /\ UINT16_MAX \in Nat /\ gu_mem_chunk_max_size \in Nat
      /\ gu_mem_max_shared_alloc \in Nat
  BY PoolAssumption DEF IndInv, TypeOK, Pools
<1> DEFINE real == Largest(req, Smallest(pool.size + 1, gu_mem_chunk_max_size))
<1>2. real \in 0..MaxShared /\ real >= req
  BY <1>1 DEF Largest, Smallest, MaxShared
<1>3. sz = BufSize(real)
  BY DEF ExpandSize
<1> HIDE DEF real
<1>4. sz \in 0..UINT16_MAX /\ sz >= req
  <2>1. real \in Nat /\ req \in Nat
    BY <1>1, <1>2 DEF MaxShared, Largest
  <2>2. BufSize(real) \in real..UINT16_MAX
    BY <1>2, BufSizeAssumption
  <2> QED  BY <1>1, <1>2, <1>3, <2>1, <2>2
<1>5. Narrow(sz) = sz
  BY <1>4 DEF Narrow
<1>6. p = [pool EXCEPT !.curr = nblocks, !.left = ChunkHeader, !.right = sz, !.size = sz,
                       !.chunks = <<nblocks>> \o @]
  BY <1>5 DEF Expanded
<1>7. <<nblocks>> \o pool.chunks \in Seq(Nat)
  BY <1>1, ConcatProperties DEF Pools
<1>8. /\ p.curr = nblocks /\ p.left = ChunkHeader /\ p.right = sz /\ p.size = sz
      /\ p.chunks = <<nblocks>> \o pool.chunks
      /\ p.finalizers = pool.finalizers /\ p.local = pool.local
  BY <1>1, <1>6 DEF Pools
<1>9. ChunkHeader \in 0..UINT16_MAX
  BY <1>1, <1>4
<1>10. p \in Pools
  BY <1>1, <1>4, <1>6, <1>7, <1>9 DEF Pools
<1>11. /\ nblocks \in DOMAIN heap' /\ heap'[nblocks] = sz /\ nblocks # 0
       /\ \A i \in 1..Len(allocs) : allocs[i].block # nblocks
  <2>1. sz \in Nat /\ TypeOK
    BY <1>1, <1>4 DEF IndInv
  <2>2. /\ nblocks \in DOMAIN heap' /\ heap'[nblocks] = sz /\ nblocks \notin DOMAIN heap
    BY <2>1, NewBlock
  <2>3. pool.curr \in DOMAIN heap /\ DOMAIN heap \subseteq 0..(nblocks - 1)
    BY DEF IndInv, EdgesInBlock, EdgesSound, TypeOK
  <2>4. nblocks # 0
    BY <1>1, <2>3
  <2>5. \A i \in 1..Len(allocs) : allocs[i].block \in DOMAIN heap
    BY DEF IndInv, ObjectsInBlocks
  <2> QED  BY <2>2, <2>4, <2>5
<1>12. EdgesSound(p, heap')
  BY <1>1, <1>4, <1>8, <1>9, <1>11 DEF EdgesSound, Header
<1> QED  BY <1>1, <1>4, <1>8, <1>10, <1>12

-----------------------------------------------------------------------------
(* Objects *)

\* Adding an object that lies in a block and is disjoint from the others.
LEMMA AddObject ==
  ASSUME IndInv, phase = "live", NEW o \in Objects, allocs' = Append(allocs, o),
         DOMAIN heap \subseteq DOMAIN heap', \A b \in DOMAIN heap : heap'[b] = heap[b],
         o.block \in DOMAIN heap', Header(o.block) <= o.lo, o.lo <= o.addr, o.addr <= o.hi,
         o.hi <= heap'[o.block],
         \A i \in 1..Len(allocs) :
           allocs[i].block = o.block => allocs[i].hi <= o.lo \/ o.hi <= allocs[i].lo
  PROVE  allocs' \in Seq(Objects) /\ ObjectsInBlocks' /\ ObjectsDisjoint'
<1>1. allocs \in Seq(Objects)
  BY DEF IndInv, TypeOK
<1>2. /\ allocs' \in Seq(Objects) /\ Len(allocs') = Len(allocs) + 1 /\ Len(allocs) \in Nat
      /\ \A i \in 1..Len(allocs) : allocs'[i] = allocs[i]
      /\ allocs'[Len(allocs) + 1] = o
  BY <1>1, AppendProperties, LenProperties
<1>3. \A i \in 1..Len(allocs') : i \in 1..Len(allocs) \/ i = Len(allocs) + 1
  BY <1>2
<1>4. ObjectsInBlocks'
  <2> SUFFICES ASSUME NEW i \in 1..Len(allocs')
               PROVE  LET a == allocs'[i] IN
                      /\ a.block \in DOMAIN heap' /\ Header(a.block) <= a.lo
                      /\ a.lo <= a.addr /\ a.addr <= a.hi /\ a.hi <= heap'[a.block]
    BY DEF ObjectsInBlocks, Header
  <2>1. CASE i \in 1..Len(allocs)
    BY <1>2, <2>1 DEF IndInv, ObjectsInBlocks
  <2>2. CASE i = Len(allocs) + 1
    BY <1>2, <2>2
  <2> QED  BY <1>3, <2>1, <2>2
<1>5. ObjectsDisjoint'
  <2> SUFFICES ASSUME NEW i \in 1..Len(allocs'), NEW j \in 1..Len(allocs'), i # j,
                      allocs'[i].block = allocs'[j].block
               PROVE  allocs'[i].hi <= allocs'[j].lo \/ allocs'[j].hi <= allocs'[i].lo
    BY DEF ObjectsDisjoint
  <2>1. CASE i \in 1..Len(allocs) /\ j \in 1..Len(allocs)
    BY <1>2, <2>1 DEF IndInv, ObjectsDisjoint
  <2>2. CASE i \in 1..Len(allocs) /\ j = Len(allocs) + 1
    BY <1>2, <2>2
  <2>3. CASE i = Len(allocs) + 1 /\ j \in 1..Len(allocs)
    BY <1>2, <2>3
  <2> QED  BY <1>3, <2>1, <2>2, <2>3
<1> QED  BY <1>2, <1>4, <1>5

\* An object from the left edge of a sound pool, as long as it fits.
LEMMA TakeLeftSound ==
  ASSUME IndInv, phase = "live", phase' = "live",
         NEW p \in Pools, EdgesSound(p, heap'),
         DOMAIN heap \subseteq DOMAIN heap', \A b \in DOMAIN heap : heap'[b] = heap[b],
         NEW q \in NormalRequests,
         NEW pos, pos = gu_mem_advance(p.left, q), pos <= p.right,
         NEW fs \in Seq(Nat), TakeLeft(p, pos, q, fs)
  PROVE  pool' \in Pools /\ allocs' \in Seq(Objects)
         /\ EdgesInBlock' /\ ObjectsInBlocks' /\ ObjectsDisjoint'
<1>1. /\ p.left \in Nat /\ p.right \in Nat /\ p.right <= UINT16_MAX /\ UINT16_MAX \in Nat
      /\ p.size \in Nat /\ p.curr \in Nat /\ Header(p.curr) \in Nat
      /\ q.size \in Nat /\ q.pre_size \in Nat
      /\ q.align \in Nat \ {0} /\ q.pre_align \in Nat \ {0}
  BY PoolAssumption, NormalTyped DEF Pools, Header
<1>2. PICK l \in Nat, r \in Nat, k \in Nat, m \in Nat, s \in Nat, hd \in Nat :
        /\ l = p.left /\ r = p.right /\ k = q.pre_size /\ m = q.size
        /\ s = p.size /\ hd = Header(p.curr)
  BY <1>1
<1>3. /\ p.curr \in DOMAIN heap' /\ s = heap'[p.curr] /\ hd <= l /\ r <= s
      /\ \A i \in 1..Len(allocs) :
           allocs[i].block = p.curr => allocs[i].hi <= l \/ r <= allocs[i].lo
  BY <1>2 DEF EdgesSound
\* The object is between lo and hi, and the free space then begins at hi.
<1>4. PICK lo \in Nat, at \in Nat, hi \in Nat :
        /\ at = ObjectAt(p.left, q) /\ lo = at - k /\ hi = pos /\ hi = at + m
        /\ l <= lo /\ lo <= at /\ at <= hi /\ hi <= r
  <2>1. PICK at : at = ObjectAt(p.left, q)
    OBVIOUS
  <2>2. at \in Nat /\ l + k <= at /\ pos = at + m
    BY <1>1, <1>2, <2>1, ObjectBehind
  <2>3. at - k \in Nat /\ at + m \in Nat /\ l <= at - k /\ at - k <= at /\ at <= at + m
    BY <2>2
  <2> QED  BY <1>2, <2>1, <2>2, <2>3
<1>5. PICK o : /\ o \in Objects /\ o.block = p.curr /\ o.lo = lo /\ o.addr = at /\ o.hi = hi
               /\ allocs' = Append(allocs, o)
  <2>1. PICK o : o = [block |-> p.curr, lo |-> lo, addr |-> at, hi |-> hi,
                      pre_align |-> q.pre_align, align |-> q.align]
    OBVIOUS
  <2>2. pos - q.size = at
    BY <1>2, <1>4
  <2>3. o = Object(p.curr, at, q)
    BY <1>2, <1>4, <2>1 DEF Object
  <2>4. allocs' = Append(allocs, o)
    BY <2>2, <2>3 DEF TakeLeft
  <2>5. o \in Objects /\ o.block = p.curr /\ o.lo = lo /\ o.addr = at /\ o.hi = hi
    BY <1>1, <2>1 DEF Objects
  <2> QED  BY <2>4, <2>5
<1>6. pool' = [p EXCEPT !.left = hi, !.finalizers = fs]
  <2>1. hi <= UINT16_MAX
    <3>1. r <= UINT16_MAX /\ UINT16_MAX \in Nat
      BY <1>1, <1>2
    <3>2. hi <= r
      BY <1>4
    <3> QED  BY <3>1, <3>2
  <2>2. Narrow(pos) = hi
    BY <1>4, <2>1 DEF Narrow
  <2> QED  BY <2>2 DEF TakeLeft
<1>7. /\ pool'.curr = p.curr /\ pool'.left = hi /\ pool'.right = r /\ pool'.size = s
      /\ pool' \in Pools
  <2>1. hi \in 0..UINT16_MAX
    <3>1. r <= UINT16_MAX /\ UINT16_MAX \in Nat
      BY <1>1, <1>2
    <3>2. lo <= at /\ at <= hi /\ hi <= r
      BY <1>4
    <3> QED  BY <3>1, <3>2
  <2> QED  BY <1>2, <1>6, <2>1 DEF Pools
<1>8. /\ allocs \in Seq(Objects) /\ Len(allocs) \in Nat
      /\ \A i \in 1..Len(allocs) : allocs[i].lo \in Nat /\ allocs[i].hi \in Nat
  <2>1. allocs \in Seq(Objects)
    BY DEF IndInv, TypeOK
  <2>2. \A i \in 1..Len(allocs) : allocs[i] \in Objects
    BY <2>1, ElementOfSeq
  <2> QED  BY <2>1, <2>2, LenProperties DEF Objects
\* The others are on either side of it, and of the free space that is left.
<1>9. ASSUME NEW i \in 1..Len(allocs), allocs[i].block = p.curr
      PROVE  /\ allocs[i].hi <= lo \/ hi <= allocs[i].lo
             /\ allocs[i].hi <= hi \/ r <= allocs[i].lo
  <2>1. PICK h \in Nat, g \in Nat : h = allocs[i].hi /\ g = allocs[i].lo
    BY <1>8
  <2>2. h <= l \/ r <= g
    BY <1>3, <1>9, <2>1
  <2>3. (h <= lo \/ hi <= g) /\ (h <= hi \/ r <= g)
    BY <1>4, <2>2
  <2> QED  BY <2>1, <2>3
<1>10. hd <= lo /\ hi <= s
  <2>1. l <= lo /\ lo <= at /\ at <= hi /\ hi <= r
    BY <1>4
  <2>2. hd <= l /\ r <= s
    BY <1>3
  <2> QED  BY <2>1, <2>2
<1>11. allocs' \in Seq(Objects) /\ ObjectsInBlocks' /\ ObjectsDisjoint'
  BY <1>2, <1>3, <1>4, <1>5, <1>9, <1>10, AddObject
<1>12. /\ Len(allocs') = Len(allocs) + 1
       /\ \A i \in 1..Len(allocs) : allocs'[i] = allocs[i]
       /\ allocs'[Len(allocs) + 1] = o
  BY <1>5, <1>8, AppendProperties
<1>13. ASSUME NEW i \in 1..Len(allocs'), allocs'[i].block = p.curr
       PROVE  allocs'[i].hi <= hi \/ r <= allocs'[i].lo
  <2>1. i \in 1..Len(allocs) \/ i = Len(allocs) + 1
    BY <1>8, <1>12
  <2>2. CASE i \in 1..Len(allocs)
    BY <1>9, <1>12, <1>13, <2>2
  <2>3. CASE i = Len(allocs) + 1
    BY <1>4, <1>5, <1>12, <2>3
  <2> QED  BY <2>1, <2>2, <2>3
<1>14. hd <= hi /\ hi <= r /\ r <= s
  <2>1. l <= lo /\ lo <= at /\ at <= hi /\ hi <= r
    BY <1>4
  <2>2. hd <= l /\ r <= s
    BY <1>3
  <2> QED  BY <2>1, <2>2
<1>15. EdgesSound(pool, heap)'
  BY <1>2, <1>3, <1>7, <1>13, <1>14 DEF EdgesSound, Header
<1> QED  BY <1>7, <1>11, <1>15 DEF EdgesInBlock

\* An object from the right edge.
LEMMA TakeRightSound ==
  ASSUME IndInv, phase = "live", phase' = "live",
         NEW p \in Pools, EdgesSound(p, heap'),
         DOMAIN heap \subseteq DOMAIN heap', \A b \in DOMAIN heap : heap'[b] = heap[b],
         NEW q \in NormalRequests,
         NEW n, n = q.pre_size + q.size, n <= p.right - p.left,
         NEW fs \in Seq(Nat), TakeRight(p, n, q, fs)
  PROVE  pool' \in Pools /\ allocs' \in Seq(Objects)
         /\ EdgesInBlock' /\ ObjectsInBlocks' /\ ObjectsDisjoint'
<1>1. /\ p.left \in Nat /\ p.right \in Nat /\ p.right <= UINT16_MAX /\ UINT16_MAX \in Nat
      /\ p.size \in Nat /\ p.curr \in Nat /\ Header(p.curr) \in Nat
      /\ q.size \in Nat /\ q.pre_size \in Nat
      /\ q.align \in Nat \ {0} /\ q.pre_align \in Nat \ {0}
  BY PoolAssumption, NormalTyped DEF Pools, Header
<1>2. PICK l \in Nat, r \in Nat, k \in Nat, m \in Nat, s \in Nat, hd \in Nat :
        /\ l = p.left /\ r = p.right /\ k = q.pre_size /\ m = q.size
        /\ s = p.size /\ hd = Header(p.curr)
  BY <1>1
<1>3. /\ p.curr \in DOMAIN heap' /\ s = heap'[p.curr] /\ hd <= l /\ r <= s
      /\ \A i \in 1..Len(allocs) :
           allocs[i].block = p.curr => allocs[i].hi <= l \/ r <= allocs[i].lo
  BY <1>2 DEF EdgesSound
\* The object is between lo and hi, and the free space then ends at lo.
<1>4. PICK lo \in Nat, at \in Nat, hi \in Nat :
        /\ lo = r - n /\ at = lo + k /\ hi = r /\ hi = at + m /\ lo = at - k
        /\ l <= lo /\ lo <= at /\ at <= hi /\ hi <= r
  <2>1. n = k + m /\ k + m <= r - l
    BY <1>2
  <2>2. PICK lo, at : lo = r - (k + m) /\ at = lo + k
    OBVIOUS
  <2>3. /\ lo \in Nat /\ at \in Nat /\ r = at + m /\ lo = at - k
        /\ l <= lo /\ lo <= at /\ at <= r
    BY <2>1, <2>2, RightEnd
  <2>4. r <= r
    OBVIOUS
  <2> QED  BY <2>1, <2>2, <2>3, <2>4
<1>5. PICK o : /\ o \in Objects /\ o.block = p.curr /\ o.lo = lo /\ o.addr = at /\ o.hi = hi
               /\ allocs' = Append(allocs, o)
  <2>1. PICK o : o = [block |-> p.curr, lo |-> lo, addr |-> at, hi |-> hi,
                      pre_align |-> q.pre_align, align |-> q.align]
    OBVIOUS
  <2>2. (p.right - n) + q.pre_size = at
    BY <1>2, <1>4
  <2>3. o = Object(p.curr, at, q)
    BY <1>2, <1>4, <2>1 DEF Object
  <2>4. allocs' = Append(allocs, o)
    BY <2>2, <2>3 DEF TakeRight
  <2>5. o \in Objects /\ o.block = p.curr /\ o.lo = lo /\ o.addr = at /\ o.hi = hi
    BY <1>1, <2>1 DEF Objects
  <2> QED  BY <2>4, <2>5
<1>6. pool' = [p EXCEPT !.right = lo, !.finalizers = fs]
  BY <1>2, <1>4 DEF TakeRight
<1>7. /\ pool'.curr = p.curr /\ pool'.left = l /\ pool'.right = lo /\ pool'.size = s
      /\ pool' \in Pools
  <2>1. lo \in 0..UINT16_MAX
    <3>1. r <= UINT16_MAX /\ UINT16_MAX \in Nat
      BY <1>1, <1>2
    <3>2. lo <= at /\ at <= hi /\ hi <= r
      BY <1>4
    <3> QED  BY <3>1, <3>2
  <2> QED  BY <1>2, <1>6, <2>1 DEF Pools
<1>8. /\ allocs \in Seq(Objects) /\ Len(allocs) \in Nat
      /\ \A i \in 1..Len(allocs) : allocs[i].lo \in Nat /\ allocs[i].hi \in Nat
  <2>1. allocs \in Seq(Objects)
    BY DEF IndInv, TypeOK
  <2>2. \A i \in 1..Len(allocs) : allocs[i] \in Objects
    BY <2>1, ElementOfSeq
  <2> QED  BY <2>1, <2>2, LenProperties DEF Objects
\* The others are on either side of it, and of the free space that is left.
<1>9. ASSUME NEW i \in 1..Len(allocs), allocs[i].block = p.curr
      PROVE  /\ allocs[i].hi <= lo \/ hi <= allocs[i].lo
             /\ allocs[i].hi <= l \/ lo <= allocs[i].lo
  <2>1. PICK h \in Nat, g \in Nat : h = allocs[i].hi /\ g = allocs[i].lo
    BY <1>8
  <2>2. h <= l \/ r <= g
    BY <1>3, <1>9, <2>1
  <2>3. l <= lo /\ lo <= hi /\ hi <= r
    <3>1. l <= lo /\ lo <= at /\ at <= hi /\ hi <= r
      BY <1>4
    <3> QED  BY <3>1
  <2>4. (h <= lo \/ hi <= g) /\ (h <= l \/ lo <= g)
    BY <2>2, <2>3
  <2> QED  BY <2>1, <2>4
<1>10. hd <= lo /\ hi <= s
  <2>1. l <= lo /\ lo <= at /\ at <= hi /\ hi <= r
    BY <1>4
  <2>2. hd <= l /\ r <= s
    BY <1>3
  <2> QED  BY <2>1, <2>2
<1>11. allocs' \in Seq(Objects) /\ ObjectsInBlocks' /\ ObjectsDisjoint'
  BY <1>2, <1>3, <1>4, <1>5, <1>9, <1>10, AddObject
<1>12. /\ Len(allocs') = Len(allocs) + 1
       /\ \A i \in 1..Len(allocs) : allocs'[i] = allocs[i]
       /\ allocs'[Len(allocs) + 1] = o
  BY <1>5, <1>8, AppendProperties
<1>13. ASSUME NEW i \in 1..Len(allocs'), allocs'[i].block = p.curr
       PROVE  allocs'[i].hi <= l \/ lo <= allocs'[i].lo
  <2>1. i \in 1..Len(allocs) \/ i = Len(allocs) + 1
    BY <1>8, <1>12
  <2>2. CASE i \in 1..Len(allocs)
    BY <1>9, <1>12, <1>13, <2>2
  <2>3. CASE i = Len(allocs) + 1
    <3>1. allocs'[i].lo = lo
      BY <1>5, <1>12, <2>3
    <3>2. lo <= lo
      OBVIOUS
    <3> QED  BY <3>1, <3>2
  <2> QED  BY <2>1, <2>2, <2>3
<1>14. hd <= l /\ l <= lo /\ lo <= s
  <2>1. l <= lo /\ lo <= at /\ at <= hi /\ hi <= r
    BY <1>4
  <2>2. hd <= l /\ r <= s
    BY <1>3
  <2> QED  BY <2>1, <2>2
<1>15. EdgesSound(pool, heap)'
  BY <1>2, <1>3, <1>7, <1>13, <1>14 DEF EdgesSound, Header
<1> QED  BY <1>7, <1>11, <1>15 DEF EdgesInBlock

-----------------------------------------------------------------------------
(* gu_malloc_prefixed *)

\* In a live pool the numbers of the blocks with objects, and of the current
\* one, are below that of the next block.
LEMMA FreshBlock ==
  ASSUME IndInv, phase = "live"
  PROVE  /\ nblocks \notin DOMAIN heap /\ nblocks # 0 /\ pool.curr # nblocks
         /\ \A i \in 1..Len(allocs) : allocs[i].block # nblocks
<1>1. nblocks \in Nat /\ DOMAIN heap \subseteq 0..(nblocks - 1)
  BY DEF IndInv, TypeOK
<1>2. nblocks \notin DOMAIN heap
  BY <1>1
<1>3. pool.curr \in DOMAIN heap
  BY DEF IndInv, EdgesInBlock, EdgesSound
<1>4. \A i \in 1..Len(allocs) : allocs[i].block \in DOMAIN heap
  BY DEF IndInv, ObjectsInBlocks
<1>5. nblocks # 0
  BY <1>1, <1>3
<1> QED  BY <1>2, <1>3, <1>4, <1>5

\* An object with a block of its own leaves the free space alone.
LEMMA LargeSound ==
  ASSUME IndInv, phase = "live", phase' = "live",
         NEW q \in NormalRequests, NEW fs \in Seq(Nat), AllocLarge(q, fs)
  PROVE  IndInv'
<1>1. /\ ChunkHeader \in Nat /\ q.size \in Nat /\ q.pre_size \in Nat /\ nblocks \in Nat
      /\ q.align \in Nat \ {0} /\ q.pre_align \in Nat \ {0}
      /\ pool \in Pools /\ pool.chunks \in Seq(Nat)
  BY PoolAssumption, NormalTyped DEF IndInv, TypeOK, Pools
<1>2. PICK at \in Nat, k \in Nat, m \in Nat :
        /\ k = q.pre_size /\ m = q.size /\ FullSize(q) = at + m /\ ChunkHeader + k <= at
  BY <1>1, ObjectBehind DEF FullSize
<1>3. PICK lo \in Nat, hi \in Nat :
        /\ lo = at - k /\ hi = at + m /\ FullSize(q) = hi /\ FullSize(q) - q.size = at
        /\ ChunkHeader <= lo /\ lo <= at /\ at <= hi
  <2>1. /\ at - k \in Nat /\ at + m \in Nat /\ (at + m) - m = at
        /\ ChunkHeader <= at - k /\ at - k <= at /\ at <= at + m
    <3>1. PICK c \in Nat : c = ChunkHeader
      BY <1>1
    <3>2. c + k <= at
      BY <1>2, <3>1
    <3>3. /\ at - k \in Nat /\ at + m \in Nat /\ (at + m) - m = at
          /\ c <= at - k /\ at - k <= at /\ at <= at + m
      BY <3>2
    <3> QED  BY <3>1, <3>3
  <2> QED  BY <1>2, <2>1
<1>4. AddBlock(hi)
  BY <1>3 DEF AllocLarge
<1>5. /\ nblocks' \in Nat /\ DOMAIN heap' = DOMAIN heap \cup {nblocks}
      /\ DOMAIN heap' \subseteq 0..(nblocks' - 1)
      /\ heap'[nblocks] = hi
      /\ \A b \in DOMAIN heap : heap'[b] = heap[b]
      /\ \A b \in DOMAIN heap' : heap'[b] \in Nat
  BY <1>4, NewBlock DEF IndInv
<1>6. /\ nblocks # 0 /\ pool.curr # nblocks
      /\ \A i \in 1..Len(allocs) : allocs[i].block # nblocks
  BY FreshBlock
<1>7. PICK o : /\ o \in Objects /\ o.block = nblocks /\ o.lo = lo /\ o.addr = at /\ o.hi = hi
               /\ allocs' = Append(allocs, o)
  <2>1. PICK o : o = [block |-> nblocks, lo |-> lo, addr |-> at, hi |-> hi,
                      pre_align |-> q.pre_align, align |-> q.align]
    OBVIOUS
  <2>2. o = Object(nblocks, at, q)
    BY <1>2, <1>3, <2>1 DEF Object
  <2>3. allocs' = Append(allocs, o)
    BY <1>3, <2>2 DEF AllocLarge
  <2>4. o \in Objects /\ o.block = nblocks /\ o.lo = lo /\ o.addr = at /\ o.hi = hi
    BY <1>1, <2>1 DEF Objects
  <2> QED  BY <2>3, <2>4
<1>8. Header(nblocks) <= lo /\ hi <= heap'[nblocks]
  <2>1. hi <= hi
    OBVIOUS
  <2> QED  BY <1>3, <1>5, <1>6, <2>1 DEF Header
<1>9. allocs' \in Seq(Objects) /\ ObjectsInBlocks' /\ ObjectsDisjoint'
  BY <1>3, <1>5, <1>6, <1>7, <1>8, AddObject
<1>10. pool' = [pool EXCEPT !.chunks = <<nblocks>> \o @, !.finalizers = fs]
  BY DEF AllocLarge
<1>11. /\ pool' \in Pools /\ pool'.curr = pool.curr /\ pool'.left = pool.left
       /\ pool'.right = pool.right /\ pool'.size = pool.size
  <2>1. <<nblocks>> \o pool.chunks \in Seq(Nat)
    BY <1>1, ConcatProperties
  <2> QED  BY <1>1, <1>10, <2>1 DEF Pools
<1>12. \A i \in 1..Len(allocs') : allocs'[i].block = pool.curr =>
         allocs'[i].hi <= pool.left \/ pool.right <= allocs'[i].lo
  <2>1. /\ Len(allocs) \in Nat /\ Len(allocs') = Len(allocs) + 1
        /\ \A i \in 1..Len(allocs) : allocs'[i] = allocs[i]
        /\ allocs'[Len(allocs) + 1] = o
    BY <1>7, AppendProperties, LenProperties DEF IndInv, TypeOK
  <2>2. \A i \in 1..Len(allocs') : i \in 1..Len(allocs) \/ i = Len(allocs) + 1
    BY <2>1
  <2>3. \A i \in 1..Len(allocs) : allocs[i].block = pool.curr =>
          allocs[i].hi <= pool.left \/ pool.right <= allocs[i].lo
    BY DEF IndInv, EdgesInBlock, EdgesSound
  <2> QED  BY <1>6, <1>7, <2>1, <2>2, <2>3
<1>13. EdgesInBlock'
  <2>1. /\ pool.curr \in DOMAIN heap /\ pool.size = heap[pool.curr]
        /\ Header(pool.curr) <= pool.left /\ pool.left <= pool.right
        /\ pool.right <= pool.size
    BY DEF IndInv, EdgesInBlock, EdgesSound
  <2> QED  BY <1>5, <1>11, <1>12, <2>1 DEF EdgesInBlock, EdgesSound, Header
<1> QED  BY <1>5, <1>9, <1>11, <1>13 DEF IndInv, TypeOK

\* A request that is not large fits a shared block.
LEMMA SharedFits ==
  ASSUME NEW q \in NormalRequests, ~Large(q)
  PROVE  FullSize(q) \in ChunkHeader..MaxShared
<1>1. /\ ChunkHeader \in Nat /\ q.size \in Nat /\ q.pre_size \in Nat
      /\ gu_mem_max_shared_alloc \in Nat /\ gu_mem_chunk_max_size \in Nat
  BY PoolAssumption DEF NormalRequests
<1>2. PICK at \in Nat, k \in Nat, m \in Nat :
        k = q.pre_size /\ m = q.size /\ FullSize(q) = at + m /\ ChunkHeader + k <= at
  BY <1>1, ObjectBehind DEF FullSize
<1>3. at + m <= gu_mem_max_shared_alloc
  BY <1>1, <1>2 DEF Large
<1>4. MaxShared \in Nat /\ gu_mem_max_shared_alloc <= MaxShared
  BY <1>1 DEF MaxShared, Largest
<1>5. at + m \in ChunkHeader..MaxShared
  BY <1>1, <1>2, <1>3, <1>4
<1> QED  BY <1>2, <1>5

\* An object of bytes, from the current block or from a new one.
LEMMA UnalignedSound ==
  ASSUME IndInv, phase = "live", phase' = "live",
         NEW q \in NormalRequests, NEW fs \in Seq(Nat), AllocUnaligned(q, fs)
  PROVE  IndInv'
<1> DEFINE n == q.pre_size + q.size
<1> DEFINE sz == ExpandSize(pool, ChunkHeader + n)
<1>1. ~Large(q) /\ Unaligned(q)
  BY DEF AllocUnaligned
<1>2. /\ n \in Nat /\ ChunkHeader \in Nat /\ q.pre_size \in Nat /\ q.size \in Nat
      /\ pool \in Pools /\ pool.right \in Nat /\ pool.left \in Nat
  <2>1. q.pre_size \in Nat /\ q.size \in Nat
    BY DEF NormalRequests
  <2>2. n \in Nat
    BY <2>1
  <2>3. ChunkHeader \in Nat /\ pool \in Pools /\ pool.right \in Nat /\ pool.left \in Nat
    BY PoolAssumption DEF IndInv, TypeOK, Pools
  <2> QED  BY <2>1, <2>2, <2>3
<1>3. CASE n > pool.right - pool.left
  <2>1. AddBlock(sz) /\ TakeRight(Expanded(pool, sz), n, q, fs)
    BY <1>3 DEF AllocUnaligned
  <2>2. ChunkHeader + n \in ChunkHeader..MaxShared
    <3>1. FullSize(q) = ChunkHeader + n
      BY <1>1, <1>2, UnalignedSize
    <3> QED  BY <1>1, <3>1, SharedFits
  <2>3. PICK p : p = Expanded(pool, sz)
    OBVIOUS
  <2>4. /\ p \in Pools /\ EdgesSound(p, heap') /\ sz \in Nat
        /\ p.left = ChunkHeader /\ p.right >= ChunkHeader + n
    <3>1. PICK req : req = ChunkHeader + n
      OBVIOUS
    <3>2. PICK z : z = ExpandSize(pool, req) /\ z = sz
      BY <3>1
    <3> HIDE DEF sz, n
    <3> QED  BY <2>1, <2>2, <2>3, <3>1, <3>2, ExpandSound
  <2>5. n <= p.right - p.left
    <3>1. p.right \in Nat
      BY <2>4 DEF Pools
    <3>2. PICK r \in Nat : r = p.right
      BY <3>1
    <3>3. r >= ChunkHeader + n
      BY <2>4, <3>2
    <3> HIDE DEF n, sz
    <3>4. n <= r - ChunkHeader
      BY <1>2, <3>3
    <3> QED  BY <2>4, <3>2, <3>4
  <2> HIDE DEF sz
  <2>6. /\ nblocks' \in Nat /\ DOMAIN heap' = DOMAIN heap \cup {nblocks}
        /\ DOMAIN heap' \subseteq 0..(nblocks' - 1)
        /\ \A b \in DOMAIN heap : heap'[b] = heap[b]
        /\ \A b \in DOMAIN heap' : heap'[b] \in Nat
    BY <2>1, <2>4, NewBlock DEF IndInv
  <2>7. pool' \in Pools /\ allocs' \in Seq(Objects)
        /\ EdgesInBlock' /\ ObjectsInBlocks' /\ ObjectsDisjoint'
    BY <2>1, <2>3, <2>4, <2>5, <2>6, TakeRightSound
  <2> QED  BY <2>6, <2>7 DEF IndInv, TypeOK
<1>4. CASE ~(n > pool.right - pool.left)
  <2>1. TakeRight(pool, n, q, fs) /\ UNCHANGED <<heap, nblocks>>
    BY <1>4 DEF AllocUnaligned
  <2>2. n <= pool.right - pool.left
    BY <1>2, <1>4
  <2>3. EdgesSound(pool, heap')
    BY <2>1 DEF IndInv, EdgesInBlock
  <2>4. pool' \in Pools /\ allocs' \in Seq(Objects)
        /\ EdgesInBlock' /\ ObjectsInBlocks' /\ ObjectsDisjoint'
    BY <1>2, <2>1, <2>2, <2>3, TakeRightSound
  <2> QED  BY <2>1, <2>4 DEF IndInv, TypeOK
<1> QED  BY <1>3, <1>4

\* An aligned object, from the current block or from a new one.
LEMMA AlignedSound ==
  ASSUME IndInv, phase = "live", phase' = "live",
         NEW q \in NormalRequests, NEW fs \in Seq(Nat), AllocAligned(q, fs)
  PROVE  IndInv'
<1> DEFINE pos == gu_mem_advance(pool.left, q)
<1> DEFINE sz == ExpandSize(pool, FullSize(q))
<1>1. pool \in Pools /\ pool.right \in Nat /\ pool.left \in Nat /\ q.size \in Nat
  BY DEF IndInv, TypeOK, Pools, NormalRequests
<1>2. pos \in Nat
  <2>1. PICK at : at = ObjectAt(pool.left, q)
    OBVIOUS
  <2>2. at \in Nat /\ pos = at + q.size
    BY <1>1, <2>1, ObjectBehind
  <2> HIDE DEF pos
  <2> QED  BY <1>1, <2>2
<1>3. CASE pos > pool.right
  <2>1. AddBlock(sz) /\ TakeLeft(Expanded(pool, sz), FullSize(q), q, fs)
    BY <1>3 DEF AllocAligned
  <2>2. FullSize(q) \in ChunkHeader..MaxShared
    BY SharedFits DEF AllocAligned
  <2>3. PICK p : p = Expanded(pool, sz)
    OBVIOUS
  <2>4. /\ p \in Pools /\ EdgesSound(p, heap') /\ sz \in Nat
        /\ p.left = ChunkHeader /\ p.right >= FullSize(q)
    BY <2>1, <2>2, <2>3, ExpandSound
  <2>5. FullSize(q) = gu_mem_advance(p.left, q) /\ FullSize(q) <= p.right
    <3>1. p.right \in Nat /\ FullSize(q) \in Int
      BY <2>2, <2>4 DEF Pools
    <3>2. FullSize(q) <= p.right
      BY <2>4, <3>1
    <3> QED  BY <2>4, <3>2 DEF FullSize
  <2> HIDE DEF sz
  <2>6. /\ nblocks' \in Nat /\ DOMAIN heap' = DOMAIN heap \cup {nblocks}
        /\ DOMAIN heap' \subseteq 0..(nblocks' - 1)
        /\ \A b \in DOMAIN heap : heap'[b] = heap[b]
        /\ \A b \in DOMAIN heap' : heap'[b] \in Nat
    BY <2>1, <2>4, NewBlock DEF IndInv
  <2>7. pool' \in Pools /\ allocs' \in Seq(Objects)
        /\ EdgesInBlock' /\ ObjectsInBlocks' /\ ObjectsDisjoint'
    BY <2>1, <2>3, <2>4, <2>5, <2>6, TakeLeftSound
  <2> QED  BY <2>6, <2>7 DEF IndInv, TypeOK
<1>4. CASE ~(pos > pool.right)
  <2>1. TakeLeft(pool, pos, q, fs) /\ UNCHANGED <<heap, nblocks>>
    BY <1>4 DEF AllocAligned
  <2>2. pos <= pool.right
    BY <1>1, <1>2, <1>4
  <2>3. EdgesSound(pool, heap')
    BY <2>1 DEF IndInv, EdgesInBlock
  <2>4. pool' \in Pools /\ allocs' \in Seq(Objects)
        /\ EdgesInBlock' /\ ObjectsInBlocks' /\ ObjectsDisjoint'
    BY <1>1, <2>1, <2>2, <2>3, TakeLeftSound
  <2> QED  BY <2>1, <2>4 DEF IndInv, TypeOK
<1> QED  BY <1>3, <1>4

-----------------------------------------------------------------------------
(* What an allocation does, for the parts of the invariant that follow *)

\* Object o is aligned, and spaced, as request r asks.
Meets(o, r) ==
  /\ o \in Objects
  /\ o.align = r.align /\ o.pre_align = r.pre_align
  /\ o.addr % r.align = 0 /\ o.lo % r.pre_align = 0
  /\ o.addr = o.lo + r.pre_size /\ o.hi = o.addr + r.size

\* The object of request r at offset at of a block.
LEMMA ObjectMeets ==
  ASSUME NEW b \in Nat, NEW at \in Nat, NEW r \in NormalRequests,
         r.pre_size <= at, at % r.align = 0, (at - r.pre_size) % r.pre_align = 0
  PROVE  Meets(Object(b, at, r), r) /\ Object(b, at, r).block = b
<1>1. PICK k, m, lo, hi : k \in Nat /\ m \in Nat /\ k = r.pre_size /\ m = r.size /\ lo = at - k /\ hi = at + m
  BY NormalTyped
<1>2. lo \in Nat /\ hi \in Nat /\ at = lo + k
  BY <1>1
<1>3. PICK o : o = [block |-> b, lo |-> lo, addr |-> at, hi |-> hi,
                    pre_align |-> r.pre_align, align |-> r.align]
  OBVIOUS
<1>4. o = Object(b, at, r)
  BY <1>1, <1>3 DEF Object
<1>5. /\ o \in Objects /\ o.align = r.align /\ o.pre_align = r.pre_align
      /\ o.addr = at /\ o.lo = lo /\ o.hi = hi /\ o.block = b
  BY <1>2, <1>3, NormalTyped DEF Objects
<1> QED  BY <1>1, <1>2, <1>4, <1>5 DEF Meets

\* The object from an edge of p, whose other fields stay.
TakenFrom(p, o, fs) ==
  /\ allocs' = Append(allocs, o) /\ o.block = p.curr
  /\ pool'.finalizers = fs /\ pool'.local = p.local
  /\ pool'.chunks = p.chunks /\ pool'.curr = p.curr

\* What taking an object from the left edge changes.
LEMMA TakeLeftEffect ==
  ASSUME NEW p \in Pools, NEW r \in NormalRequests, NEW fs \in Seq(Nat),
         TakeLeft(p, gu_mem_advance(p.left, r), r, fs)
  PROVE  \E o : Meets(o, r) /\ TakenFrom(p, o, fs)
<1>1. p.left \in Nat /\ p.curr \in Nat /\ r.size \in Nat /\ r.pre_size \in Nat
  BY NormalTyped DEF Pools
<1>2. PICK at, k, m, pos :
        /\ at = ObjectAt(p.left, r) /\ k = r.pre_size /\ m = r.size
        /\ pos = gu_mem_advance(p.left, r)
  OBVIOUS
<1>3. /\ at \in Nat /\ p.left + k <= at /\ pos = at + m
      /\ at % r.align = 0 /\ (at - k) % r.pre_align = 0
  BY <1>1, <1>2, ObjectBehind, ObjectAtAligned
<1>4. pos - m = at /\ k <= at
  BY <1>1, <1>2, <1>3
<1>5. PICK o : o = Object(p.curr, at, r)
  OBVIOUS
<1>6. Meets(o, r) /\ o.block = p.curr
  BY <1>1, <1>2, <1>3, <1>4, <1>5, ObjectMeets
<1>7. allocs' = Append(allocs, o) /\ pool' = [p EXCEPT !.left = Narrow(pos), !.finalizers = fs]
  BY <1>2, <1>4, <1>5 DEF TakeLeft
<1>8. /\ pool'.finalizers = fs /\ pool'.local = p.local
      /\ pool'.chunks = p.chunks /\ pool'.curr = p.curr
  BY <1>7 DEF Pools
<1> QED  BY <1>6, <1>7, <1>8 DEF TakenFrom

\* What taking an object from the right edge changes.
LEMMA TakeRightEffect ==
  ASSUME NEW p \in Pools, NEW r \in NormalRequests, Unaligned(r), NEW fs \in Seq(Nat),
         r.pre_size + r.size <= p.right - p.left, TakeRight(p, r.pre_size + r.size, r, fs)
  PROVE  \E o : Meets(o, r) /\ TakenFrom(p, o, fs)
<1>1. p.left \in Nat /\ p.right \in Nat /\ p.curr \in Nat /\ r.size \in Nat /\ r.pre_size \in Nat
  BY NormalTyped DEF Pools
<1>2. PICK ri \in Nat, le \in Nat, k \in Nat, m \in Nat :
        ri = p.right /\ le = p.left /\ k = r.pre_size /\ m = r.size
  BY <1>1
<1>3. PICK at : at = (ri - (k + m)) + k
  OBVIOUS
<1>4. k + m <= ri - le
  BY <1>2
<1>5. at \in Nat /\ k <= at /\ at - k \in Int /\ at \in Int
  BY <1>3, <1>4
<1>6. at % 1 = 0 /\ (at - k) % 1 = 0
  BY <1>5
<1>7. PICK o : o = Object(p.curr, at, r)
  OBVIOUS
<1>8. Meets(o, r) /\ o.block = p.curr
  <2>1. r.align = 1 /\ r.pre_align = 1
    BY DEF Unaligned
  <2>2. at % r.align = 0 /\ (at - r.pre_size) % r.pre_align = 0
    BY <1>2, <1>6, <2>1
  <2> QED  BY <1>1, <1>2, <1>5, <1>7, <2>2, ObjectMeets
<1>9. /\ allocs' = Append(allocs, o)
      /\ pool' = [p EXCEPT !.right = p.right - (r.pre_size + r.size), !.finalizers = fs]
  BY <1>2, <1>3, <1>7 DEF TakeRight
<1>10. /\ pool'.finalizers = fs /\ pool'.local = p.local
       /\ pool'.chunks = p.chunks /\ pool'.curr = p.curr
  BY <1>9 DEF Pools
<1> QED  BY <1>8, <1>9, <1>10 DEF TakenFrom

\* No new block, and a new block that the pool owns.
SameBlocks(o) ==
  /\ UNCHANGED <<heap, nblocks>>
  /\ pool'.chunks = pool.chunks /\ pool'.curr = pool.curr /\ o.block = pool.curr

OneMoreBlock(o) ==
  /\ nblocks' = nblocks + 1
  /\ DOMAIN heap' = DOMAIN heap \cup {nblocks} /\ \A b \in DOMAIN heap : heap'[b] = heap[b]
  /\ pool'.chunks = <<nblocks>> \o pool.chunks
  /\ pool'.curr \in {pool.curr, nblocks} /\ o.block = nblocks

\* Every way an object is allocated.
LEMMA AllocEffect ==
  ASSUME IndInv, NEW r \in NormalRequests, NEW fs \in Seq(Nat), Alloc(r, fs)
  PROVE  \E o : /\ Meets(o, r) /\ allocs' = Append(allocs, o)
                /\ pool'.finalizers = fs /\ pool'.local = pool.local
                /\ SameBlocks(o) \/ OneMoreBlock(o)
<1>1. /\ pool \in Pools /\ nblocks \in Nat /\ ChunkHeader \in Nat /\ phase = "live"
      /\ pool.left \in Nat /\ pool.right \in Nat /\ r.size \in Nat /\ r.pre_size \in Nat
  BY PoolAssumption, NormalTyped DEF IndInv, TypeOK, Alloc, Pools
<1>2. CASE AllocLarge(r, fs)
  <2>1. PICK at : at = ObjectAt(ChunkHeader, r)
    OBVIOUS
  <2>2. /\ at \in Nat /\ ChunkHeader + r.pre_size <= at /\ FullSize(r) = at + r.size
        /\ at % r.align = 0 /\ (at - r.pre_size) % r.pre_align = 0
    BY <1>1, <2>1, ObjectBehind, ObjectAtAligned DEF FullSize
  <2>3. FullSize(r) - r.size = at /\ r.pre_size <= at /\ FullSize(r) \in Nat
    BY <1>1, <2>2
  <2>4. PICK o : o = Object(nblocks, at, r)
    OBVIOUS
  <2>5. Meets(o, r) /\ o.block = nblocks
    BY <1>1, <2>2, <2>3, <2>4, ObjectMeets
  <2>6. /\ AddBlock(FullSize(r)) /\ allocs' = Append(allocs, o)
        /\ pool' = [pool EXCEPT !.chunks = <<nblocks>> \o @, !.finalizers = fs]
    BY <1>2, <2>3, <2>4 DEF AllocLarge
  <2>7. /\ pool'.finalizers = fs /\ pool'.local = pool.local
        /\ pool'.chunks = <<nblocks>> \o pool.chunks /\ pool'.curr = pool.curr
    BY <1>1, <2>6 DEF Pools
  <2>8. OneMoreBlock(o)
    BY <2>3, <2>5, <2>6, <2>7, NewBlock DEF OneMoreBlock, AddBlock, IndInv
  <2> QED  BY <2>5, <2>6, <2>7, <2>8
<1>3. CASE AllocUnaligned(r, fs)
  <2> DEFINE n == r.pre_size + r.size
             sz == ExpandSize(pool, ChunkHeader + n)
  <2>0. Unaligned(r) /\ ~Large(r) /\ n \in Nat
    BY <1>1, <1>3 DEF AllocUnaligned
  <2>1. CASE n > pool.right - pool.left
    <3>1. AddBlock(sz) /\ TakeRight(Expanded(pool, sz), n, r, fs)
      BY <1>3, <2>1 DEF AllocUnaligned
    <3>2. PICK req, z, p : req = ChunkHeader + n /\ z = sz /\ p = Expanded(pool, z)
      OBVIOUS
    <3>3. req \in ChunkHeader..MaxShared
      <4>1. FullSize(r) = req
        BY <1>1, <2>0, <3>2, UnalignedSize
      <4> QED  BY <2>0, <4>1, SharedFits
    <3>4. z = ExpandSize(pool, req) /\ AddBlock(z)
      BY <3>1, <3>2
    <3> HIDE DEF sz
    <3>5. p \in Pools /\ z \in Nat /\ p.curr = nblocks /\ p.left = ChunkHeader /\ p.right >= req
      BY <1>1, <3>2, <3>3, <3>4, ExpandSound
    <3>6. p.chunks = <<nblocks>> \o pool.chunks /\ p.local = pool.local
      BY <1>1, <3>2 DEF Expanded, Pools
    <3>7. n <= p.right - p.left
      <4>1. PICK ri \in Nat : ri = p.right
        BY <3>5 DEF Pools
      <4>2. ri >= ChunkHeader + n
        BY <3>2, <3>5, <4>1
      <4> HIDE DEF n
      <4>3. n <= ri - ChunkHeader
        BY <1>1, <2>0, <4>2
      <4> QED  BY <3>5, <4>1, <4>3
    <3>8. PICK o : Meets(o, r) /\ TakenFrom(p, o, fs)
      BY <2>0, <3>1, <3>2, <3>5, <3>7, TakeRightEffect
    <3>9. OneMoreBlock(o)
      BY <3>4, <3>5, <3>6, <3>8, NewBlock DEF OneMoreBlock, TakenFrom, AddBlock, IndInv
    <3> QED  BY <3>6, <3>8, <3>9 DEF TakenFrom
  <2>2. CASE ~(n > pool.right - pool.left)
    <3>1. TakeRight(pool, n, r, fs) /\ UNCHANGED <<heap, nblocks>>
      BY <1>3, <2>2 DEF AllocUnaligned
    <3>2. n <= pool.right - pool.left
      BY <1>1, <2>0, <2>2
    <3>3. PICK o : Meets(o, r) /\ TakenFrom(pool, o, fs)
      BY <1>1, <2>0, <3>1, <3>2, TakeRightEffect
    <3> QED  BY <3>1, <3>3 DEF TakenFrom, SameBlocks
  <2> QED  BY <2>1, <2>2
<1>4. CASE AllocAligned(r, fs)
  <2> DEFINE pos == gu_mem_advance(pool.left, r)
             sz == ExpandSize(pool, FullSize(r))
  <2>1. CASE pos > pool.right
    <3>1. AddBlock(sz) /\ TakeLeft(Expanded(pool, sz), FullSize(r), r, fs)
      BY <1>4, <2>1 DEF AllocAligned
    <3>2. PICK z, p : z = sz /\ p = Expanded(pool, z)
      OBVIOUS
    <3>3. FullSize(r) \in ChunkHeader..MaxShared
      BY <1>4, SharedFits DEF AllocAligned
    <3>4. p \in Pools /\ z \in Nat /\ p.curr = nblocks /\ p.left = ChunkHeader
      BY <1>1, <3>1, <3>2, <3>3, ExpandSound
    <3>5. p.chunks = <<nblocks>> \o pool.chunks /\ p.local = pool.local
      BY <1>1, <3>2 DEF Expanded, Pools
    <3>6. FullSize(r) = gu_mem_advance(p.left, r)
      BY <3>4 DEF FullSize
    <3>7. PICK o : Meets(o, r) /\ TakenFrom(p, o, fs)
      BY <3>1, <3>2, <3>4, <3>6, TakeLeftEffect
    <3>8. OneMoreBlock(o)
      BY <3>1, <3>2, <3>4, <3>5, <3>7, NewBlock DEF OneMoreBlock, TakenFrom, AddBlock, IndInv
    <3> QED  BY <3>5, <3>7, <3>8 DEF TakenFrom
  <2>2. CASE ~(pos > pool.right)
    <3>1. TakeLeft(pool, pos, r, fs) /\ UNCHANGED <<heap, nblocks>>
      BY <1>4, <2>2 DEF AllocAligned
    <3>2. PICK o : Meets(o, r) /\ TakenFrom(pool, o, fs)
      BY <1>1, <3>1, TakeLeftEffect
    <3> QED  BY <3>1, <3>2 DEF TakenFrom, SameBlocks
  <2> QED  BY <2>1, <2>2
<1> QED  BY <1>2, <1>3, <1>4 DEF Alloc

-----------------------------------------------------------------------------
(* The specification *)

\* Every allocation preserves the invariant.
LEMMA AllocSound ==
  ASSUME IndInv, NEW q, IsRequest(q), NEW fs \in Seq(Nat), Alloc(Normal(q), fs)
  PROVE  IndInv'
<1>1. PICK r \in NormalRequests : r = Normal(q)
  BY NormalIsNormal
<1>2. phase = "live" /\ phase' = "live"
  BY DEF Alloc
<1>3. AllocLarge(r, fs) \/ AllocUnaligned(r, fs) \/ AllocAligned(r, fs)
  BY <1>1 DEF Alloc
<1> QED  BY <1>2, <1>3, LargeSound, UnalignedSound, AlignedSound

\* The steps of gu_pool_free: the pool is no longer live, the objects stay as
\* they are, and blocks only go away.
LEMMA FreeSound ==
  ASSUME IndInv, phase' \in {"finalizing", "freed"}, pool' \in Pools,
         UNCHANGED <<nblocks, allocs>>,
         NEW bs, heap' = Without(bs)
  PROVE  IndInv'
<1>1. DOMAIN heap' = DOMAIN heap \ bs /\ \A b \in DOMAIN heap' : heap'[b] = heap[b]
  BY DEF Without
<1>2. TypeOK'
  BY <1>1 DEF IndInv, TypeOK
<1>3. EdgesInBlock' /\ ObjectsInBlocks'
  BY DEF EdgesInBlock, ObjectsInBlocks
<1>4. ObjectsDisjoint'
  BY DEF IndInv, ObjectsDisjoint
<1> QED  BY <1>2, <1>3, <1>4 DEF IndInv

\* The pool of gu_new_pool or gu_local_pool has its first block to itself.
LEMMA InitSound == Init => IndInv
<1> SUFFICES ASSUME Init
             PROVE  IndInv
  OBVIOUS
<1>1. PICK local, sz :
        /\ local \in BOOLEAN
        /\ sz = IF local THEN LocalSize ELSE BufSize(PoolHeader + gu_mem_pool_initial_size)
        /\ heap = [b \in {0} |-> sz] /\ pool = InitPool(sz, local)
  BY DEF Init
<1>2. nblocks = 1 /\ allocs = <<>> /\ phase = "live"
  BY DEF Init
<1>3. PoolHeader \in Nat /\ UINT16_MAX \in Nat /\ sz \in PoolHeader..UINT16_MAX
  <2>1. /\ PoolHeader \in Nat /\ UINT16_MAX \in Nat /\ gu_mem_pool_initial_size \in Nat
        /\ LocalSize \in PoolHeader..UINT16_MAX
        /\ PoolHeader + gu_mem_pool_initial_size <= MaxShared
        /\ gu_mem_chunk_max_size \in Nat /\ gu_mem_max_shared_alloc \in Nat
        /\ ChunkHeader \in Nat
    BY PoolAssumption
  <2>2. PICK n \in Nat : n = PoolHeader + gu_mem_pool_initial_size /\ PoolHeader <= n
    BY <2>1
  <2>3. MaxShared \in Nat
    BY <2>1 DEF MaxShared, Largest
  <2>4. n \in 0..MaxShared
    BY <2>1, <2>2, <2>3
  <2>5. BufSize(n) \in n..UINT16_MAX
    BY <2>4, BufSizeAssumption
  <2>6. BufSize(n) \in PoolHeader..UINT16_MAX
    BY <2>1, <2>2, <2>5
  <2> QED  BY <1>1, <2>1, <2>2, <2>6
<1>4. sz \in 0..UINT16_MAX /\ PoolHeader \in 0..UINT16_MAX /\ PoolHeader <= sz /\ sz <= sz
  BY <1>3
<1>5. Narrow(sz) = sz
  BY <1>4 DEF Narrow
<1>6. /\ pool \in Pools /\ pool.curr = 0 /\ pool.left = PoolHeader
      /\ pool.right = sz /\ pool.size = sz
  BY <1>1, <1>4, <1>5 DEF InitPool, Pools
<1>7. allocs \in Seq(Objects) /\ 1..Len(allocs) = {}
  BY <1>2
<1>8. DOMAIN heap = {0} /\ heap[0] = sz
  BY <1>1
<1>9. TypeOK
  BY <1>2, <1>4, <1>6, <1>7, <1>8 DEF TypeOK
<1>10. EdgesInBlock
  BY <1>4, <1>6, <1>7, <1>8 DEF EdgesInBlock, EdgesSound, Header
<1> QED  BY <1>7, <1>9, <1>10 DEF IndInv, ObjectsInBlocks, ObjectsDisjoint

\* The invariant is inductive.
LEMMA IndInvStep == IndInv /\ [Next]_vars => IndInv'
<1> SUFFICES ASSUME IndInv, [Next]_vars
             PROVE  IndInv'
  OBVIOUS
<1>1. /\ pool \in Pools /\ pool.finalizers \in Seq(Nat) /\ pool.chunks \in Seq(Nat)
      /\ Len(allocs) \in Nat /\ IsRequest(NodeRequest) /\ \A q \in Requests : IsRequest(q)
      /\ allocs \in Seq(Objects)
  BY PoolAssumption, LenProperties DEF IndInv, TypeOK, Pools
<1>2. CASE gu_malloc_prefixed
  BY <1>1, <1>2, AllocSound DEF gu_malloc_prefixed
<1>3. CASE gu_pool_finally
  <2>1. PICK fs : fs = <<Len(allocs) + 1>> \o pool.finalizers
    OBVIOUS
  <2>2. <<Len(allocs) + 1>> \in Seq(Nat)
    BY <1>1
  <2>3. fs \in Seq(Nat)
    BY <1>1, <2>1, <2>2, ConcatProperties
  <2> QED  BY <1>1, <1>3, <2>1, <2>3, AllocSound DEF gu_pool_finally
<1>4. CASE gu_pool_free
  <2>1. /\ UNCHANGED <<heap, nblocks, pool, allocs>> /\ phase' = "finalizing"
    BY <1>4 DEF gu_pool_free
  <2>2. TypeOK' /\ ObjectsDisjoint'
    BY <2>1 DEF IndInv, TypeOK, ObjectsDisjoint
  <2> QED  BY <2>1, <2>2 DEF IndInv, EdgesInBlock, ObjectsInBlocks
<1>5. CASE RunFinalizer({})
  <2>1. /\ heap' = Without({}) /\ UNCHANGED <<nblocks, allocs>> /\ phase' = "finalizing"
        /\ pool.finalizers # <<>> /\ pool' = [pool EXCEPT !.finalizers = Tail(@)]
    BY <1>5 DEF RunFinalizer
  <2>2. Tail(pool.finalizers) \in Seq(Nat)
    BY <1>1, <2>1, HeadTailProperties
  <2>3. pool' \in Pools
    BY <1>1, <2>1, <2>2 DEF Pools
  <2> QED  BY <2>1, <2>3, FreeSound
<1>6. CASE FreeChunk
  <2>1. /\ heap' = Without({Head(pool.chunks)}) /\ UNCHANGED <<nblocks, allocs>>
        /\ phase' = "finalizing"
        /\ pool.chunks # <<>> /\ pool' = [pool EXCEPT !.chunks = Tail(@)]
    BY <1>6 DEF FreeChunk
  <2>2. Tail(pool.chunks) \in Seq(Nat)
    BY <1>1, <2>1, HeadTailProperties
  <2>3. pool' \in Pools
    BY <1>1, <2>1, <2>2 DEF Pools
  <2> QED  BY <2>1, <2>3, FreeSound
<1>7. CASE FreePool
  <2>1. /\ UNCHANGED <<nblocks, pool, allocs>> /\ phase' = "freed"
        /\ heap' = IF pool.local THEN heap ELSE Without({0})
    BY <1>7 DEF FreePool
  <2>2. CASE pool.local
    <3>1. TypeOK' /\ ObjectsDisjoint'
      BY <2>1, <2>2 DEF IndInv, TypeOK, ObjectsDisjoint
    <3> QED  BY <2>1, <3>1 DEF IndInv, EdgesInBlock, ObjectsInBlocks
  <2>3. CASE ~pool.local
    BY <1>1, <2>1, <2>3, FreeSound
  <2> QED  BY <2>2, <2>3
<1>8. CASE UNCHANGED vars
  <2>1. UNCHANGED <<heap, nblocks, pool, allocs, phase>>
    BY <1>8 DEF vars
  <2> QED
    BY <2>1 DEF IndInv, TypeOK, EdgesInBlock, EdgesSound, Header, ObjectsInBlocks, ObjectsDisjoint
<1> QED  BY <1>2, <1>3, <1>4, <1>5, <1>6, <1>7, <1>8 DEF Next

\* The inductive invariant holds throughout.
LEMMA IndInvHolds == Spec => []IndInv
  BY InitSound, IndInvStep, PTL DEF Spec

-----------------------------------------------------------------------------
(* The blocks of the pool, and its finalizers *)

\* Putting an element in front, and taking it away.
LEMMA InFront ==
  ASSUME NEW S, NEW s \in Seq(S), NEW x \in S, NEW t, t = <<x>> \o s
  PROVE  /\ t \in Seq(S) /\ Len(t) = Len(s) + 1 /\ t[1] = x /\ Len(s) \in Nat
         /\ \A i \in 1..Len(t) : i = 1 \/ (i - 1 \in 1..Len(s) /\ t[i] = s[i - 1])
<1>1. <<x>> \in Seq(S) /\ Len(<<x>>) = 1 /\ <<x>>[1] = x
  OBVIOUS
<1>2. Len(s) \in Nat
  BY LenProperties
<1>3. /\ t \in Seq(S) /\ Len(t) = Len(<<x>>) + Len(s)
      /\ \A i \in 1..(Len(<<x>>) + Len(s)) :
           t[i] = IF i <= Len(<<x>>) THEN <<x>>[i] ELSE s[i - Len(<<x>>)]
  BY <1>1, ConcatProperties
<1>4. Len(t) = Len(s) + 1
  BY <1>1, <1>2, <1>3
<1>5. \A i \in 1..(Len(s) + 1) : t[i] = IF i <= 1 THEN x ELSE s[i - 1]
  <2> SUFFICES ASSUME NEW i \in 1..(Len(s) + 1)
               PROVE  t[i] = IF i <= 1 THEN x ELSE s[i - 1]
    OBVIOUS
  <2>1. i \in 1..(Len(<<x>>) + Len(s))
    BY <1>1, <1>2
  <2>2. t[i] = IF i <= 1 THEN <<x>>[i] ELSE s[i - 1]
    BY <1>1, <1>3, <2>1
  <2>3. i <= 1 => i = 1
    BY <1>2
  <2> QED  BY <1>1, <2>2, <2>3
<1>6. 1 \in 1..(Len(s) + 1)
  BY <1>2
<1>7. t[1] = x
  BY <1>5, <1>6
<1>8. \A i \in 1..Len(t) : i = 1 \/ (i - 1 \in 1..Len(s) /\ t[i] = s[i - 1])
  BY <1>2, <1>4, <1>5
<1> QED  BY <1>2, <1>3, <1>4, <1>7, <1>8

\* The elements of a sequence without its head.
LEMMA WithoutHead ==
  ASSUME NEW S, NEW s \in Seq(S), s # <<>>
  PROVE  /\ Tail(s) \in Seq(S) /\ Len(s) \in Nat /\ Len(s) >= 1 /\ Len(Tail(s)) = Len(s) - 1
         /\ Head(s) = s[1] /\ Head(s) \in S
         /\ \A i \in 1..Len(Tail(s)) : i + 1 \in 1..Len(s) /\ Tail(s)[i] = s[i + 1]
<1>1. Len(s) \in Nat /\ Len(s) # 0
  BY LenProperties, EmptySeq
<1>2. /\ Head(s) \in S /\ Tail(s) \in Seq(S) /\ Len(Tail(s)) = Len(s) - 1
      /\ \A i \in 1..Len(Tail(s)) : Tail(s)[i] = s[i + 1]
  BY HeadTailProperties
<1>3. Head(s) = s[1]
  OBVIOUS
<1> QED  BY <1>1, <1>2, <1>3

\* The elements of a sequence, with one more in front, and with the first apart.
Elements(s) == {s[i] : i \in 1..Len(s)}

\* The elements of a sequence with one more in front.
LEMMA InFrontElements ==
  ASSUME NEW s \in Seq(Nat), NEW x \in Nat, NEW t, t = <<x>> \o s
  PROVE  Elements(t) = Elements(s) \cup {x}
<1>1. /\ Len(t) = Len(s) + 1 /\ t[1] = x /\ Len(s) \in Nat
      /\ \A i \in 1..Len(t) : i = 1 \/ (i - 1 \in 1..Len(s) /\ t[i] = s[i - 1])
  BY InFront
<1>2. ASSUME NEW y \in Elements(t)
      PROVE  y \in Elements(s) \cup {x}
  <2>1. PICK i \in 1..Len(t) : y = t[i]
    BY DEF Elements
  <2> QED  BY <1>1, <2>1 DEF Elements
<1>3. x \in Elements(t)
  <2>1. 1 \in 1..Len(t)
    BY <1>1
  <2> QED  BY <1>1, <2>1 DEF Elements
<1>4. ASSUME NEW i \in 1..Len(s)
      PROVE  s[i] \in Elements(t)
  <2>1. i + 1 \in 1..Len(t) /\ i + 1 # 1 /\ (i + 1) - 1 = i
    BY <1>1
  <2>2. t[i + 1] = s[i]
    BY <1>1, <2>1
  <2> QED  BY <2>1, <2>2 DEF Elements
<1> QED  BY <1>2, <1>3, <1>4 DEF Elements

\* The head of a sequence and the elements of its tail.
LEMMA HeadElements ==
  ASSUME NEW s \in Seq(Nat), s # <<>>
  PROVE  Elements(s) = Elements(Tail(s)) \cup {Head(s)}
<1>1. /\ Len(s) \in Nat /\ Len(s) >= 1 /\ Len(Tail(s)) = Len(s) - 1 /\ Head(s) = s[1]
      /\ \A i \in 1..Len(Tail(s)) : i + 1 \in 1..Len(s) /\ Tail(s)[i] = s[i + 1]
  BY WithoutHead
<1>2. ASSUME NEW y \in Elements(s)
      PROVE  y \in Elements(Tail(s)) \cup {Head(s)}
  <2>1. PICK i \in 1..Len(s) : y = s[i]
    BY DEF Elements
  <2>2. CASE i = 1
    BY <1>1, <2>1, <2>2
  <2>3. CASE i # 1
    <3>1. i - 1 \in 1..Len(Tail(s)) /\ (i - 1) + 1 = i
      BY <1>1, <2>3
    <3>2. Tail(s)[i - 1] = y
      BY <1>1, <2>1, <3>1
    <3> QED  BY <3>1, <3>2 DEF Elements
  <2> QED  BY <2>2, <2>3
<1>3. Head(s) \in Elements(s)
  <2>1. 1 \in 1..Len(s)
    BY <1>1
  <2> QED  BY <1>1, <2>1 DEF Elements
<1>4. \A i \in 1..Len(Tail(s)) : Tail(s)[i] \in Elements(s)
  BY <1>1 DEF Elements
<1> QED  BY <1>2, <1>3, <1>4 DEF Elements

\* The blocks that gu_pool_free gives back.
Owned == {0} \cup Chunks

\* They are there, each of them once in the list, and all objects are in them.
ChunksOwned ==
  /\ \A i \in 1..Len(pool.chunks) : pool.chunks[i] # 0
  /\ \A i, j \in 1..Len(pool.chunks) : i # j => pool.chunks[i] # pool.chunks[j]
  /\ phase # "freed" => Owned \subseteq DOMAIN heap
  /\ phase = "live" => pool.curr \in Owned
  /\ phase = "live" \/ pool.finalizers # <<>> =>
       \A i \in 1..Len(allocs) : allocs[i].block \in Owned

\* The nodes of the list are objects, the later ones in front; and those that
\* have run were before the ones that are left.
FinalizersOrdered ==
  /\ \A i, j \in 1..Len(pool.finalizers) : i < j => pool.finalizers[i] > pool.finalizers[j]
  /\ \A i \in 1..Len(pool.finalizers) : pool.finalizers[i] \in 1..Len(allocs)
  /\ ran \in Seq(Nat)
  /\ \A i, j \in 1..Len(ran) : i < j => ran[i] > ran[j]
  /\ \A i \in 1..Len(ran), j \in 1..Len(pool.finalizers) : ran[i] > pool.finalizers[j]
  /\ phase = "live" => ran = <<>>
  /\ phase = "freed" => pool.finalizers = <<>>

\* The inductive invariant for alignment and finalizers as well.
PoolInv == IndInv /\ ObjectsAligned /\ ChunksOwned /\ FinalizersOrdered

\* FinalizersReversed follows.
LEMMA OrderedThenReversed == PoolInv => FinalizersReversed
<1> SUFFICES ASSUME PoolInv
             PROVE  FinalizersReversed
  OBVIOUS
<1>1. ASSUME pool.finalizers # <<>>
      PROVE  \A i \in 1..Len(allocs) : allocs[i].block \in DOMAIN heap
  <2>1. phase # "freed"
    BY <1>1 DEF PoolInv, FinalizersOrdered
  <2> QED  BY <1>1, <2>1 DEF PoolInv, ChunksOwned
<1> QED  BY <1>1 DEF PoolInv, FinalizersOrdered, FinalizersReversed

\* The first pool has no objects and no finalizers.
LEMMA PoolInvInit == Init => PoolInv
<1> SUFFICES ASSUME Init
             PROVE  PoolInv
  OBVIOUS
<1>1. /\ allocs = <<>> /\ ran = <<>> /\ phase = "live" /\ pool.chunks = <<>>
      /\ pool.finalizers = <<>> /\ pool.curr = 0 /\ DOMAIN heap = {0}
  BY DEF Init, InitPool
<1>2. IndInv
  BY InitSound
<1>3. Chunks = {} /\ Len(allocs) = 0 /\ Len(ran) = 0 /\ Len(pool.finalizers) = 0
      /\ Len(pool.chunks) = 0 /\ ran \in Seq(Nat)
  BY <1>1 DEF Chunks
<1>4. 1..0 = {}
  OBVIOUS
<1>5. ObjectsAligned /\ ChunksOwned
  BY <1>1, <1>3, <1>4 DEF ObjectsAligned, ChunksOwned, Owned
<1>6. FinalizersOrdered
  BY <1>1, <1>3, <1>4 DEF FinalizersOrdered
<1> QED  BY <1>2, <1>5, <1>6 DEF PoolInv

\* gu_malloc_prefixed and gu_pool_finally: whether or not the new object is the node
\* of a finalizer.
LEMMA PoolInvAlloc ==
  ASSUME PoolInv, NEW q, IsRequest(q),
         NEW fs, fs = pool.finalizers \/ fs = <<Len(allocs) + 1>> \o pool.finalizers,
         Alloc(Normal(q), fs)
  PROVE  PoolInv'
<1>1. /\ phase = "live" /\ phase' = "live" /\ ran' = ran /\ ran = <<>>
      /\ pool \in Pools /\ pool.finalizers \in Seq(Nat) /\ pool.chunks \in Seq(Nat)
      /\ allocs \in Seq(Objects) /\ nblocks \in Nat /\ IndInv
  BY DEF Alloc, PoolInv, IndInv, TypeOK, Pools, FinalizersOrdered
<1>2. Len(allocs) \in Nat
  BY <1>1, LenProperties
<1>3. fs \in Seq(Nat)
  <2>1. <<Len(allocs) + 1>> \in Seq(Nat)
    BY <1>2
  <2> QED  BY <1>1, <2>1, ConcatProperties
<1>4. PICK r \in NormalRequests : r = Normal(q)
  BY NormalIsNormal
<1>5. PICK o : /\ Meets(o, r) /\ allocs' = Append(allocs, o)
               /\ pool'.finalizers = fs /\ pool'.local = pool.local
               /\ SameBlocks(o) \/ OneMoreBlock(o)
  BY <1>1, <1>3, <1>4, AllocEffect
<1>6. /\ Len(allocs') = Len(allocs) + 1
      /\ \A i \in 1..Len(allocs) : allocs'[i] = allocs[i]
      /\ allocs'[Len(allocs) + 1] = o
      /\ \A i \in 1..Len(allocs') : i \in 1..Len(allocs) \/ i = Len(allocs) + 1
  <2>1. o \in Objects
    BY <1>5 DEF Meets
  <2>2. /\ Len(allocs') = Len(allocs) + 1
        /\ \A i \in 1..Len(allocs) : allocs'[i] = allocs[i]
        /\ allocs'[Len(allocs) + 1] = o
    BY <1>1, <1>5, <2>1, AppendProperties
  <2>3. \A i \in 1..Len(allocs') : i \in 1..Len(allocs) \/ i = Len(allocs) + 1
    BY <1>2, <2>2
  <2> QED  BY <2>2, <2>3
<1>7. IndInv'
  BY <1>1, <1>3, AllocSound
<1>8. ObjectsAligned'
  <2> SUFFICES ASSUME NEW i \in 1..Len(allocs')
               PROVE  allocs'[i].addr % allocs'[i].align = 0 /\ allocs'[i].lo % allocs'[i].pre_align = 0
    BY DEF ObjectsAligned
  <2>1. CASE i \in 1..Len(allocs)
    BY <1>6, <2>1 DEF PoolInv, ObjectsAligned
  <2>2. CASE i = Len(allocs) + 1
    BY <1>5, <1>6, <2>2 DEF Meets
  <2> QED  BY <1>6, <2>1, <2>2
<1>9. ChunksOwned'
  <2>1. /\ \A i \in 1..Len(pool.chunks) : pool.chunks[i] # 0
        /\ \A i, j \in 1..Len(pool.chunks) : i # j => pool.chunks[i] # pool.chunks[j]
        /\ Owned \subseteq DOMAIN heap /\ pool.curr \in Owned
        /\ \A i \in 1..Len(allocs) : allocs[i].block \in Owned
    BY <1>1 DEF PoolInv, ChunksOwned
  <2>2. CASE SameBlocks(o)
    <3>1. pool'.chunks = pool.chunks /\ pool'.curr = pool.curr /\ heap' = heap /\ o.block = pool.curr
      BY <2>2 DEF SameBlocks
    <3>2. Owned' = Owned
      BY <3>1 DEF Owned, Chunks
    <3>3. \A i \in 1..Len(allocs') : allocs'[i].block \in Owned'
      BY <1>6, <2>1, <3>1, <3>2
    <3> QED  BY <1>1, <2>1, <3>1, <3>2, <3>3 DEF ChunksOwned
  <2>3. CASE OneMoreBlock(o)
    <3>1. /\ pool'.chunks = <<nblocks>> \o pool.chunks /\ DOMAIN heap' = DOMAIN heap \cup {nblocks}
          /\ pool'.curr \in {pool.curr, nblocks} /\ o.block = nblocks
      BY <2>3 DEF OneMoreBlock
    <3>2. nblocks \notin DOMAIN heap /\ nblocks # 0
      BY <1>1, FreshBlock
    <3>3. PICK cs : cs = pool'.chunks
      OBVIOUS
    <3>4. /\ cs \in Seq(Nat) /\ Len(cs) = Len(pool.chunks) + 1 /\ cs[1] = nblocks
          /\ Len(pool.chunks) \in Nat
          /\ \A i \in 1..Len(cs) : i = 1 \/ (i - 1 \in 1..Len(pool.chunks) /\ cs[i] = pool.chunks[i - 1])
      BY <1>1, <3>1, <3>3, InFront
    <3>5. \A i \in 1..Len(pool.chunks) : pool.chunks[i] \in Owned
      BY DEF Owned, Chunks
    <3>6. Owned' = Owned \cup {nblocks}
      <4>1. Elements(cs) = Elements(pool.chunks) \cup {nblocks}
        <5>1. pool.chunks \in Seq(Nat) /\ nblocks \in Nat /\ cs = <<nblocks>> \o pool.chunks
          BY <1>1, <3>1, <3>3
        <5> QED  BY <5>1, InFrontElements
      <4> QED  BY <3>3, <4>1, ZenonT(40) DEF Owned, Chunks, Elements
    <3>7. \A i \in 1..Len(cs) : cs[i] # 0
      BY <2>1, <3>2, <3>4
    <3>8. ASSUME NEW i \in 1..Len(cs), NEW j \in 1..Len(cs), i # j
          PROVE  cs[i] # cs[j]
      <4>1. \A k \in 1..Len(pool.chunks) : pool.chunks[k] # nblocks
        BY <2>1, <3>2, <3>5
      <4>2. CASE i = 1
        BY <3>4, <3>8, <4>1, <4>2
      <4>3. CASE j = 1
        BY <3>4, <3>8, <4>1, <4>3
      <4>4. CASE i # 1 /\ j # 1
        <5>1. /\ i - 1 \in 1..Len(pool.chunks) /\ cs[i] = pool.chunks[i - 1]
              /\ j - 1 \in 1..Len(pool.chunks) /\ cs[j] = pool.chunks[j - 1]
          BY <3>4, <4>4
        <5>2. i - 1 # j - 1
          BY <3>8
        <5> QED  BY <2>1, <5>1, <5>2
      <4> QED  BY <4>2, <4>3, <4>4
    <3>9. \A i \in 1..Len(allocs') : allocs'[i].block \in Owned'
      BY <1>6, <2>1, <3>1, <3>6
    <3>10. Owned' \subseteq DOMAIN heap' /\ pool'.curr \in Owned'
      BY <2>1, <3>1, <3>6
    <3> QED  BY <1>1, <3>3, <3>7, <3>8, <3>9, <3>10 DEF ChunksOwned
  <2> QED  BY <1>5, <2>2, <2>3
<1>10. FinalizersOrdered'
  <2>1. /\ \A i, j \in 1..Len(pool.finalizers) : i < j => pool.finalizers[i] > pool.finalizers[j]
        /\ \A i \in 1..Len(pool.finalizers) : pool.finalizers[i] \in 1..Len(allocs)
    BY DEF PoolInv, FinalizersOrdered
  <2>2. /\ \A i, j \in 1..Len(fs) : i < j => fs[i] > fs[j]
        /\ \A i \in 1..Len(fs) : fs[i] \in 1..Len(allocs')
    <3>1. CASE fs = pool.finalizers
      BY <1>2, <1>6, <2>1, <3>1
    <3>2. CASE fs = <<Len(allocs) + 1>> \o pool.finalizers
      <4>1. Len(allocs) + 1 \in Nat
        BY <1>2
      <4>2. /\ Len(fs) = Len(pool.finalizers) + 1 /\ fs[1] = Len(allocs) + 1
            /\ Len(pool.finalizers) \in Nat
            /\ \A i \in 1..Len(fs) : i = 1 \/ (i - 1 \in 1..Len(pool.finalizers)
                                               /\ fs[i] = pool.finalizers[i - 1])
        BY <1>1, <3>2, <4>1, InFront
      <4>3. \A i \in 1..Len(fs) : fs[i] \in 1..Len(allocs')
        <5> SUFFICES ASSUME NEW i \in 1..Len(fs)
                     PROVE  fs[i] \in 1..Len(allocs')
          OBVIOUS
        <5>1. CASE i = 1
          BY <1>2, <1>6, <4>2, <5>1
        <5>2. CASE i # 1
          <6>1. fs[i] \in 1..Len(allocs)
            BY <2>1, <4>2, <5>2
          <6> QED  BY <1>2, <1>6, <6>1
        <5> QED  BY <5>1, <5>2
      <4>4. ASSUME NEW i \in 1..Len(fs), NEW j \in 1..Len(fs), i < j
            PROVE  fs[i] > fs[j]
        <5>1. j - 1 \in 1..Len(pool.finalizers) /\ fs[j] = pool.finalizers[j - 1]
          BY <4>2, <4>4
        <5>2. CASE i = 1
          <6>1. PICK x \in 1..Len(allocs) : x = pool.finalizers[j - 1]
            BY <2>1, <5>1
          <6>2. Len(allocs) + 1 > x
            BY <1>2
          <6> QED  BY <4>2, <5>1, <5>2, <6>1, <6>2
        <5>3. CASE i # 1
          <6>1. i - 1 \in 1..Len(pool.finalizers) /\ fs[i] = pool.finalizers[i - 1] /\ i - 1 < j - 1
            BY <4>2, <4>4, <5>3
          <6> QED  BY <2>1, <5>1, <6>1
        <5> QED  BY <5>2, <5>3
      <4> QED  BY <4>3, <4>4
    <3> QED  BY <3>1, <3>2
  <2>3. ran' = <<>> /\ ran' \in Seq(Nat) /\ Len(ran') = 0 /\ 1..0 = {}
    BY <1>1
  <2> QED  BY <1>1, <1>5, <2>2, <2>3 DEF FinalizersOrdered
<1> QED  BY <1>7, <1>8, <1>9, <1>10 DEF PoolInv

\* gu_pool_free begins.
LEMMA PoolInvFreeing ==
  ASSUME PoolInv, gu_pool_free
  PROVE  PoolInv'
<1>1. /\ UNCHANGED <<heap, nblocks, pool, allocs, ran>>
      /\ phase = "live" /\ phase' = "finalizing"
  BY DEF gu_pool_free
<1>2. IndInv'
  BY IndInvStep DEF PoolInv, Next
<1>3. ObjectsAligned' /\ ChunksOwned'
  BY <1>1 DEF PoolInv, ObjectsAligned, ChunksOwned, Owned, Chunks
<1>4. FinalizersOrdered'
  BY <1>1 DEF PoolInv, FinalizersOrdered
<1> QED  BY <1>2, <1>3, <1>4 DEF PoolInv

\* A finalizer that leaves the blocks of the pool alone.
LEMMA PoolInvFinalizer ==
  ASSUME PoolInv, NEW bs, bs \cap Owned = {}, RunFinalizer(bs)
  PROVE  PoolInv'
<1>1. /\ phase = "finalizing" /\ pool.finalizers # <<>>
      /\ ran' = Append(ran, Head(pool.finalizers))
      /\ pool' = [pool EXCEPT !.finalizers = Tail(@)]
      /\ heap' = Without(bs) /\ UNCHANGED <<nblocks, allocs, phase>>
  BY DEF RunFinalizer
<1>2. /\ pool \in Pools /\ pool.finalizers \in Seq(Nat) /\ IndInv /\ ran \in Seq(Nat)
  BY DEF PoolInv, IndInv, TypeOK, Pools, FinalizersOrdered
<1>3. PICK fs, tl : fs = pool.finalizers /\ tl = Tail(fs)
  OBVIOUS
<1>4. /\ tl \in Seq(Nat) /\ Len(fs) \in Nat /\ Len(fs) >= 1 /\ Len(tl) = Len(fs) - 1
      /\ Head(fs) = fs[1] /\ Head(fs) \in Nat
      /\ \A i \in 1..Len(tl) : i + 1 \in 1..Len(fs) /\ tl[i] = fs[i + 1]
  BY <1>1, <1>2, <1>3, WithoutHead
<1>5. /\ pool' \in Pools /\ pool'.finalizers = tl /\ pool'.chunks = pool.chunks
      /\ pool'.curr = pool.curr
  BY <1>1, <1>2, <1>3, <1>4 DEF Pools
<1>6. IndInv'
  BY <1>1, <1>2, <1>5, FreeSound
<1>7. Owned' = Owned /\ DOMAIN heap' = DOMAIN heap \ bs
  BY <1>1, <1>5 DEF Owned, Chunks, Without
<1>8. ObjectsAligned'
  BY <1>1 DEF PoolInv, ObjectsAligned
<1>9. ChunksOwned'
  <2>1. Owned \subseteq DOMAIN heap /\ \A i \in 1..Len(allocs) : allocs[i].block \in Owned
    BY <1>1 DEF PoolInv, ChunksOwned
  <2>2. Owned' \subseteq DOMAIN heap'
    BY <1>7, <2>1
  <2>3. /\ \A i \in 1..Len(pool.chunks) : pool.chunks[i] # 0
        /\ \A i, j \in 1..Len(pool.chunks) : i # j => pool.chunks[i] # pool.chunks[j]
    BY DEF PoolInv, ChunksOwned
  <2> QED  BY <1>1, <1>5, <1>7, <2>1, <2>2, <2>3 DEF ChunksOwned
<1>10. FinalizersOrdered'
  <2>1. /\ \A i, j \in 1..Len(fs) : i < j => fs[i] > fs[j]
        /\ \A i \in 1..Len(fs) : fs[i] \in 1..Len(allocs)
        /\ \A i, j \in 1..Len(ran) : i < j => ran[i] > ran[j]
        /\ \A i \in 1..Len(ran), j \in 1..Len(fs) : ran[i] > fs[j]
    BY <1>3 DEF PoolInv, FinalizersOrdered
  <2>2. /\ ran' \in Seq(Nat) /\ Len(ran') = Len(ran) + 1 /\ Len(ran) \in Nat
        /\ \A i \in 1..Len(ran) : ran'[i] = ran[i]
        /\ ran'[Len(ran) + 1] = fs[1]
    BY <1>1, <1>2, <1>3, <1>4, AppendProperties, LenProperties
  <2>3. \A i \in 1..Len(ran') : i \in 1..Len(ran) \/ i = Len(ran) + 1
    BY <2>2
  <2>4. 1 \in 1..Len(fs)
    BY <1>4
  <2>5. ASSUME NEW i \in 1..Len(tl), NEW j \in 1..Len(tl), i < j
        PROVE  tl[i] > tl[j]
    <3>1. i + 1 \in 1..Len(fs) /\ tl[i] = fs[i + 1] /\ j + 1 \in 1..Len(fs) /\ tl[j] = fs[j + 1]
      BY <1>4
    <3>2. i + 1 < j + 1
      BY <2>5
    <3> QED  BY <2>1, <3>1, <3>2
  <2>6. \A i \in 1..Len(tl) : tl[i] \in 1..Len(allocs')
    BY <1>1, <1>4, <2>1
  <2>7. ASSUME NEW i \in 1..Len(ran'), NEW j \in 1..Len(ran'), i < j
        PROVE  ran'[i] > ran'[j]
    <3>1. i \in 1..Len(ran)
      BY <2>2, <2>3, <2>7
    <3>2. CASE j \in 1..Len(ran)
      BY <2>1, <2>2, <2>7, <3>1, <3>2
    <3>3. CASE j = Len(ran) + 1
      BY <2>1, <2>2, <2>4, <3>1, <3>3
    <3> QED  BY <2>3, <3>2, <3>3
  <2>8. ASSUME NEW i \in 1..Len(ran'), NEW j \in 1..Len(tl)
        PROVE  ran'[i] > tl[j]
    <3>1. j + 1 \in 1..Len(fs) /\ tl[j] = fs[j + 1] /\ 1 < j + 1
      BY <1>4
    <3>2. CASE i \in 1..Len(ran)
      BY <2>1, <2>2, <3>1, <3>2
    <3>3. CASE i = Len(ran) + 1
      BY <2>1, <2>2, <2>4, <3>1, <3>3
    <3> QED  BY <2>3, <3>2, <3>3
  <2> QED  BY <1>1, <1>5, <2>2, <2>5, <2>6, <2>7, <2>8 DEF FinalizersOrdered
<1> QED  BY <1>6, <1>8, <1>9, <1>10 DEF PoolInv

\* Which blocks the pool owns once the first chunk of the list is freed.
LEMMA OwnedWithoutHead ==
  ASSUME PoolInv, FreeChunk
  PROVE  Owned' = Owned \ {Head(pool.chunks)} /\ Head(pool.chunks) \in Owned
<1>1. /\ pool.chunks # <<>> /\ pool' = [pool EXCEPT !.chunks = Tail(@)]
      /\ pool \in Pools /\ pool.chunks \in Seq(Nat)
  BY DEF FreeChunk, PoolInv, IndInv, TypeOK, Pools
<1>2. PICK cs, tl : cs = pool.chunks /\ tl = Tail(cs)
  OBVIOUS
<1>3. /\ Len(cs) \in Nat /\ Len(cs) >= 1 /\ Head(cs) = cs[1]
      /\ \A i \in 1..Len(tl) : i + 1 \in 1..Len(cs) /\ tl[i] = cs[i + 1]
      /\ Len(tl) = Len(cs) - 1
  BY <1>1, <1>2, WithoutHead
<1>4. pool'.chunks = tl
  BY <1>1, <1>2 DEF Pools
<1>5. /\ \A i \in 1..Len(cs) : cs[i] # 0
      /\ \A i, j \in 1..Len(cs) : i # j => cs[i] # cs[j]
  BY <1>2 DEF PoolInv, ChunksOwned
<1>6. Elements(cs) = Elements(tl) \cup {Head(cs)}
  BY <1>1, <1>2, HeadElements
<1>7. Owned = {0} \cup Elements(cs) /\ Owned' = {0} \cup Elements(tl)
  BY <1>2, <1>4 DEF Owned, Chunks, Elements
<1>8. Head(cs) # 0 /\ Head(cs) \notin Elements(tl)
  <2>1. 1 \in 1..Len(cs)
    BY <1>3
  <2>2. ASSUME NEW i \in 1..Len(tl)
        PROVE  tl[i] # Head(cs)
    <3>1. i + 1 \in 1..Len(cs) /\ tl[i] = cs[i + 1] /\ i + 1 # 1
      BY <1>3
    <3> QED  BY <1>3, <1>5, <2>1, <3>1
  <2> QED  BY <1>3, <1>5, <2>1, <2>2 DEF Elements
<1> QED  BY <1>2, <1>6, <1>7, <1>8

\* A chunk is freed: the others stay.
LEMMA PoolInvChunk ==
  ASSUME PoolInv, FreeChunk
  PROVE  PoolInv'
<1>1. /\ phase = "finalizing" /\ pool.finalizers = <<>> /\ pool.chunks # <<>>
      /\ heap' = Without({Head(pool.chunks)}) /\ pool' = [pool EXCEPT !.chunks = Tail(@)]
      /\ UNCHANGED <<nblocks, allocs, phase, ran>> /\ pool \in Pools /\ pool.chunks \in Seq(Nat)
  BY DEF FreeChunk, PoolInv, IndInv, TypeOK, Pools
<1>2. IndInv'
  BY IndInvStep DEF PoolInv, Next
<1>3. pool'.finalizers = pool.finalizers /\ pool'.chunks = Tail(pool.chunks) /\ pool'.curr = pool.curr
  BY <1>1 DEF Pools
<1>4. PICK cs, tl : cs = pool.chunks /\ tl = Tail(cs)
  OBVIOUS
<1>5. /\ Len(tl) = Len(cs) - 1 /\ Len(cs) \in Nat
      /\ \A i \in 1..Len(tl) : i + 1 \in 1..Len(cs) /\ tl[i] = cs[i + 1]
  BY <1>1, <1>4, WithoutHead
<1>6. /\ \A i \in 1..Len(cs) : cs[i] # 0
      /\ \A i, j \in 1..Len(cs) : i # j => cs[i] # cs[j]
      /\ Owned \subseteq DOMAIN heap
  BY <1>1, <1>4 DEF PoolInv, ChunksOwned
<1>7. ASSUME NEW i \in 1..Len(tl), NEW j \in 1..Len(tl), i # j
      PROVE  tl[i] # tl[j]
  <2>1. i + 1 \in 1..Len(cs) /\ tl[i] = cs[i + 1] /\ j + 1 \in 1..Len(cs) /\ tl[j] = cs[j + 1]
    BY <1>5
  <2>2. i + 1 # j + 1
    BY <1>7
  <2> QED  BY <1>6, <2>1, <2>2
<1>8. \A i \in 1..Len(tl) : tl[i] # 0
  BY <1>5, <1>6
<1>9. Owned' \subseteq DOMAIN heap'
  <2>1. DOMAIN heap' = DOMAIN heap \ {Head(pool.chunks)}
    BY <1>1 DEF Without
  <2> QED  BY <1>6, <2>1, OwnedWithoutHead
<1>10. ChunksOwned'
  <2>1. pool'.chunks = tl /\ pool'.finalizers = <<>> /\ phase' = "finalizing"
    BY <1>1, <1>3, <1>4
  <2>2. /\ \A i \in 1..Len(pool'.chunks) : pool'.chunks[i] # 0
        /\ \A i, j \in 1..Len(pool'.chunks) : i # j => pool'.chunks[i] # pool'.chunks[j]
    BY <1>7, <1>8, <2>1
  <2> QED  BY <1>9, <2>1, <2>2 DEF ChunksOwned
<1>11. ObjectsAligned' /\ FinalizersOrdered'
  BY <1>1, <1>3 DEF PoolInv, ObjectsAligned, FinalizersOrdered
<1> QED  BY <1>2, <1>10, <1>11 DEF PoolInv

\* The pool itself is freed.
LEMMA PoolInvFreed ==
  ASSUME PoolInv, FreePool
  PROVE  PoolInv'
<1>1. /\ phase = "finalizing" /\ phase' = "freed" /\ pool.finalizers = <<>>
      /\ UNCHANGED <<nblocks, pool, allocs, ran>>
  BY DEF FreePool
<1>2. IndInv'
  BY IndInvStep DEF PoolInv, Next
<1>3. ObjectsAligned' /\ FinalizersOrdered'
  BY <1>1 DEF PoolInv, ObjectsAligned, FinalizersOrdered
<1>4. ChunksOwned'
  BY <1>1 DEF PoolInv, ChunksOwned
<1> QED  BY <1>2, <1>3, <1>4 DEF PoolInv

\* Nothing happens.
LEMMA PoolInvStutter ==
  ASSUME PoolInv, UNCHANGED vars
  PROVE  PoolInv'
<1>1. UNCHANGED <<heap, nblocks, pool, allocs, phase, ran>>
  BY DEF vars
<1>2. IndInv'
  BY IndInvStep DEF PoolInv
<1>3. ObjectsAligned' /\ ChunksOwned'
  BY <1>1 DEF PoolInv, ObjectsAligned, ChunksOwned, Owned, Chunks
<1>4. FinalizersOrdered'
  BY <1>1 DEF PoolInv, FinalizersOrdered
<1> QED  BY <1>2, <1>3, <1>4 DEF PoolInv

\* The invariant is inductive.
LEMMA PoolInvStep == PoolInv /\ [Next]_vars => PoolInv'
<1> SUFFICES ASSUME PoolInv, [Next]_vars
             PROVE  PoolInv'
  OBVIOUS
<1>1. IsRequest(NodeRequest) /\ \A q \in Requests : IsRequest(q)
  BY PoolAssumption
<1>2. CASE gu_malloc_prefixed
  BY <1>1, <1>2, PoolInvAlloc DEF gu_malloc_prefixed
<1>3. CASE gu_pool_finally
  BY <1>1, <1>3, PoolInvAlloc DEF gu_pool_finally
<1>4. CASE RunFinalizer({})
  BY <1>4, PoolInvFinalizer
<1> QED
  BY <1>2, <1>3, <1>4, PoolInvFreeing, PoolInvChunk, PoolInvFreed, PoolInvStutter DEF Next

\* The invariant of the pool with its clients holds.
LEMMA PoolInvHolds == Spec => []PoolInv
  BY PoolInvInit, PoolInvStep, PTL DEF Spec

\* Every object and every prefix is aligned as the caller of gu_malloc_prefixed
\* asked, for any requests whose alignments are powers of two.
THEOREM PoolObjectsAligned == Spec => []ObjectsAligned
<1>1. PoolInv => ObjectsAligned
  BY DEF PoolInv
<1> QED  BY <1>1, PoolInvHolds, PTL

\* gu_pool_free runs every finalizer once, the last one registered first, and before
\* any block of the pool is freed.
THEOREM PoolFinalizersReversed == Spec => []FinalizersReversed
  BY OrderedThenReversed, PoolInvHolds, PTL

\* Type correctness: above all, the edges stay in a uint16_t and no object has a
\* negative offset.
THEOREM PoolTypeCorrect == Spec => []TypeOK
<1>1. IndInv => TypeOK
  BY DEF IndInv
<1> QED  BY <1>1, IndInvHolds, PTL

\* gu_malloc_prefixed never hands out a byte twice.
THEOREM PoolObjectsDisjoint == Spec => []ObjectsDisjoint
<1>1. IndInv => ObjectsDisjoint
  BY DEF IndInv
<1> QED  BY <1>1, IndInvHolds, PTL

\* Every object of a live pool lies in a block that is still there, behind the
\* header of the block.
THEOREM PoolObjectsInBlocks == Spec => []ObjectsInBlocks
<1>1. IndInv => ObjectsInBlocks
  BY DEF IndInv
<1> QED  BY <1>1, IndInvHolds, PTL

\* The assertions of gu_pool_expand, gu_pool_malloc_aligned and
\* gu_pool_malloc_unaligned hold: the edges bound a free space inside the current
\* block.
THEOREM PoolEdgesInBlock == Spec => []EdgesInBlock
<1>1. IndInv => EdgesInBlock
  BY DEF IndInv
<1> QED  BY <1>1, IndInvHolds, PTL

-----------------------------------------------------------------------------
(* Buffers, sequences, strings and variants in a pool *)

\* The finalizers that are still to run.
Fins == Elements(pool.finalizers)

Bufs ==
  [elem_size : ElemSizes, len : Nat, avail_len : Nat, data : Nat \cup {NULL}, fin : Nat]

\* The buffers by themselves: no two have a block or a finalizer in common.
BufsApart(bs) ==
  /\ bs \in Seq(Bufs)
  /\ \A i \in 1..Len(bs) :
       /\ bs[i].len <= bs[i].avail_len
       /\ bs[i].data = NULL => bs[i].avail_len = 0
       /\ \A j \in 1..Len(bs) :
            i # j => /\ bs[i].fin # bs[j].fin
                     /\ bs[i].data # NULL => bs[i].data # bs[j].data

\* A buffer in its pool: it has a finalizer, which runs when the pool is freed, and
\* until then its elements fit a block that the pool does not own.
BufInPool(b) ==
  /\ b.fin \in 1..Len(allocs)
  /\ phase = "live" => b.fin \in Fins
  /\ b.data # NULL =>
       /\ b.data \in 0..(nblocks - 1) /\ b.data \notin Owned
       /\ b.fin \in Fins => b.data \in DOMAIN heap /\ b.avail_len * b.elem_size <= heap[b.data]

\* The blocks of the buffers whose finalizers are still to run.
DataBlocks(bs) == {bs[i].data : i \in {j \in 1..Len(bs) : bs[j].fin \in Fins}}

\* Every block is the pool's or a buffer's, until nothing is left.
HeapExact(bs) ==
  /\ phase # "freed" => DOMAIN heap \subseteq Owned \cup DataBlocks(bs)
  /\ phase = "freed" => DOMAIN heap = (IF pool.local THEN {0} ELSE {})

BufsSound(bs) == (\A i \in 1..Len(bs) : BufInPool(bs[i])) /\ HeapExact(bs)

\* The buffer that gu_make_buf has not registered yet is empty.
MakingSound ==
  making # NULL =>
    /\ making \in Bufs /\ making.len = 0 /\ making.avail_len = 0 /\ making.data = NULL
    /\ phase = "live"

\* The inductive invariant of the pool and its buffers.
BufInv == PoolInv /\ BufsApart(bufs) /\ BufsSound(bufs) /\ MakingSound

-----------------------------------------------------------------------------
(* What follows from it *)

\* The elements of a buffer fit its block.
LEMMA BufInvFits == BufInv => BuffersFit
<1> SUFFICES ASSUME BufInv, phase = "live", NEW i \in DOMAIN bufs
             PROVE  LET b == bufs[i] IN
                    /\ b.len <= b.avail_len
                    /\ b.data = NULL => b.avail_len = 0
                    /\ b.data # NULL =>
                         /\ b.data \in DOMAIN heap \ ({0} \cup Chunks)
                         /\ b.avail_len * b.elem_size <= heap[b.data]
                         /\ \A j \in DOMAIN bufs : i # j => b.data # bufs[j].data
  BY DEF BuffersFit
<1>1. bufs \in Seq(Bufs)
  BY DEF BufInv, BufsApart
<1>2. DOMAIN bufs = 1..Len(bufs)
  BY <1>1, LenProperties
<1>3. BufInPool(bufs[i])
  BY <1>2 DEF BufInv, BufsSound
<1>4. /\ bufs[i].len <= bufs[i].avail_len
      /\ bufs[i].data = NULL => bufs[i].avail_len = 0
      /\ \A j \in DOMAIN bufs : i # j /\ bufs[i].data # NULL => bufs[i].data # bufs[j].data
  BY <1>2 DEF BufInv, BufsApart
<1> QED  BY <1>3, <1>4 DEF BufInPool, Owned

\* Nothing is left when the pool has been freed.
LEMMA BufInvReleases == BufInv => AllReleased
  BY DEF BufInv, BufsSound, HeapExact, AllReleased

-----------------------------------------------------------------------------
(* Steps that leave the buffers as they are *)

\* A buffer stays sound as long as the objects and the finalizers only become more,
\* and its block, if it has one, stays outside the pool.
LEMMA BufInPoolKept ==
  ASSUME NEW b, BufInPool(b), Len(allocs) \in Nat, Len(allocs') \in Nat, Len(allocs) <= Len(allocs'),
         nblocks \in Nat, nblocks' \in Nat, nblocks <= nblocks',
         phase' = "live" => phase = "live", phase' = "live" => Fins \subseteq Fins',
         Fins' \cap (1..Len(allocs)) \subseteq Fins,
         b.data # NULL => b.data \notin Owned',
         b.data # NULL /\ b.fin \in Fins' /\ b.data \in DOMAIN heap =>
           b.data \in DOMAIN heap' /\ heap'[b.data] = heap[b.data]
  PROVE  BufInPool(b)'
<1>1. b.fin \in 1..Len(allocs')
  BY DEF BufInPool
<1>2. phase' = "live" => b.fin \in Fins'
  BY DEF BufInPool
<1>3. ASSUME b.data # NULL
      PROVE  b.data \in 0..(nblocks' - 1) /\ b.data \notin Owned'
  <2>1. b.data \in 0..(nblocks - 1)
    BY <1>3 DEF BufInPool
  <2> QED  BY <1>3, <2>1
<1>4. ASSUME b.data # NULL, b.fin \in Fins'
      PROVE  b.data \in DOMAIN heap' /\ b.avail_len * b.elem_size <= heap'[b.data]
  <2>1. b.fin \in Fins
    BY <1>4 DEF BufInPool
  <2>2. b.data \in DOMAIN heap /\ b.avail_len * b.elem_size <= heap[b.data]
    BY <1>4, <2>1 DEF BufInPool
  <2> QED  BY <1>4, <2>2
<1> QED  BY <1>1, <1>2, <1>3, <1>4 DEF BufInPool
\* What an allocation does to the pool, as the buffers, the sequences and the words
\* see it: the objects and the finalizers become more, and so do the blocks.
LEMMA AllocGrows ==
  ASSUME PoolInv, NEW q, IsRequest(q),
         NEW fs, fs = pool.finalizers \/ fs = <<Len(allocs) + 1>> \o pool.finalizers,
         Alloc(Normal(q), fs)
  PROVE  /\ phase = "live" /\ phase' = "live" /\ ran' = ran
         /\ Len(allocs) \in Nat /\ Len(allocs') = Len(allocs) + 1
         /\ \A i \in 1..Len(allocs) : allocs'[i] = allocs[i]
         /\ \A i \in 1..Len(allocs') : i \in 1..Len(allocs) \/ i = Len(allocs) + 1
         /\ Meets(allocs'[Len(allocs) + 1], Normal(q))
         /\ Fins' = IF fs = pool.finalizers THEN Fins ELSE Fins \cup {Len(allocs) + 1}
         /\ nblocks \in Nat /\ nblocks' \in Nat /\ nblocks <= nblocks'
         /\ Owned \subseteq Owned' /\ Owned' \subseteq Owned \cup {nblocks}
         /\ DOMAIN heap' \ DOMAIN heap = Owned' \ Owned /\ DOMAIN heap \subseteq DOMAIN heap'
         /\ \A b \in DOMAIN heap : heap'[b] = heap[b]
<1>1. /\ phase = "live" /\ phase' = "live" /\ ran' = ran
      /\ pool \in Pools /\ pool.finalizers \in Seq(Nat) /\ pool.chunks \in Seq(Nat)
      /\ allocs \in Seq(Objects) /\ nblocks \in Nat /\ IndInv
      /\ Owned \subseteq DOMAIN heap
  BY DEF Alloc, PoolInv, IndInv, TypeOK, Pools, ChunksOwned
<1>2. Len(allocs) \in Nat
  BY <1>1, LenProperties
<1>3. fs \in Seq(Nat)
  <2>1. <<Len(allocs) + 1>> \in Seq(Nat)
    BY <1>2
  <2> QED  BY <1>1, <2>1, ConcatProperties
<1>4. PICK r \in NormalRequests : r = Normal(q)
  BY NormalIsNormal
<1>5. PICK o : /\ Meets(o, r) /\ allocs' = Append(allocs, o)
               /\ pool'.finalizers = fs /\ pool'.local = pool.local
               /\ SameBlocks(o) \/ OneMoreBlock(o)
  BY <1>1, <1>3, <1>4, AllocEffect
<1>6. /\ Len(allocs') = Len(allocs) + 1
      /\ \A i \in 1..Len(allocs) : allocs'[i] = allocs[i]
      /\ allocs'[Len(allocs) + 1] = o
      /\ \A i \in 1..Len(allocs') : i \in 1..Len(allocs) \/ i = Len(allocs) + 1
  <2>1. o \in Objects
    BY <1>5 DEF Meets
  <2>2. /\ Len(allocs') = Len(allocs) + 1
        /\ \A i \in 1..Len(allocs) : allocs'[i] = allocs[i]
        /\ allocs'[Len(allocs) + 1] = o
    BY <1>1, <1>5, <2>1, AppendProperties
  <2>3. \A i \in 1..Len(allocs') : i \in 1..Len(allocs) \/ i = Len(allocs) + 1
    BY <1>2, <2>2
  <2> QED  BY <2>2, <2>3
<1>7. Meets(allocs'[Len(allocs) + 1], Normal(q))
  BY <1>4, <1>5, <1>6
<1>8. Fins' = IF fs = pool.finalizers THEN Fins ELSE Fins \cup {Len(allocs) + 1}
  <2>1. CASE fs = pool.finalizers
    BY <1>5, <2>1 DEF Fins, Elements
  <2>2. CASE fs # pool.finalizers
    <3>1. fs = <<Len(allocs) + 1>> \o pool.finalizers /\ Len(allocs) + 1 \in Nat
      BY <1>2, <2>2
    <3>2. Elements(fs) = Elements(pool.finalizers) \cup {Len(allocs) + 1}
      BY <1>1, <3>1, InFrontElements
    <3> QED  BY <1>5, <2>2, <3>2 DEF Fins, Elements
  <2> QED  BY <2>1, <2>2
<1>9. CASE SameBlocks(o)
  <2>1. pool'.chunks = pool.chunks /\ heap' = heap /\ nblocks' = nblocks
    BY <1>9 DEF SameBlocks
  <2>2. Owned' = Owned
    BY <2>1 DEF Owned, Chunks
  <2>3. nblocks <= nblocks'
    BY <1>1, <2>1
  <2> QED  BY <1>1, <1>2, <1>6, <1>7, <1>8, <2>1, <2>2, <2>3
<1>10. CASE OneMoreBlock(o)
  <2>1. /\ pool'.chunks = <<nblocks>> \o pool.chunks /\ DOMAIN heap' = DOMAIN heap \cup {nblocks}
        /\ nblocks' = nblocks + 1 /\ \A b \in DOMAIN heap : heap'[b] = heap[b]
    BY <1>10 DEF OneMoreBlock
  <2>2. nblocks \notin DOMAIN heap
    BY <1>1, FreshBlock
  <2>3. PICK cs : cs = pool'.chunks
    OBVIOUS
  <2>4. Elements(cs) = Elements(pool.chunks) \cup {nblocks}
    <3>1. pool.chunks \in Seq(Nat) /\ nblocks \in Nat /\ cs = <<nblocks>> \o pool.chunks
      BY <1>1, <2>1, <2>3
    <3> QED  BY <3>1, InFrontElements
  <2>5. Owned' = Owned \cup {nblocks}
    BY <2>3, <2>4, ZenonT(40) DEF Owned, Chunks, Elements
  <2>6. DOMAIN heap' \ DOMAIN heap = {nblocks} /\ Owned' \ Owned = {nblocks}
    BY <1>1, <2>1, <2>2, <2>5
  <2>7. nblocks' \in Nat /\ nblocks <= nblocks'
    BY <1>1, <2>1
  <2>8. DOMAIN heap' \ DOMAIN heap = Owned' \ Owned /\ DOMAIN heap \subseteq DOMAIN heap'
        /\ Owned \subseteq Owned' /\ Owned' \subseteq Owned \cup {nblocks}
    BY <2>1, <2>5, <2>6
  <2> QED  BY <1>1, <1>2, <1>6, <1>7, <1>8, <2>1, <2>7, <2>8
<1> QED  BY <1>5, <1>9, <1>10

\* Allocating an object leaves the buffers alone.
LEMMA BufsSoundAlloc ==
  ASSUME PoolInv, NEW q, IsRequest(q),
         NEW fs, fs = pool.finalizers \/ fs = <<Len(allocs) + 1>> \o pool.finalizers,
         Alloc(Normal(q), fs), NEW bs, BufsSound(bs)
  PROVE  BufsSound(bs)'
<1>1. /\ phase = "live" /\ phase' = "live"
      /\ Len(allocs) \in Nat /\ Len(allocs') = Len(allocs) + 1
      /\ Fins' = (IF fs = pool.finalizers THEN Fins ELSE Fins \cup {Len(allocs) + 1})
      /\ nblocks \in Nat /\ nblocks' \in Nat /\ nblocks <= nblocks'
      /\ Owned \subseteq Owned' /\ Owned' \subseteq Owned \cup {nblocks}
      /\ DOMAIN heap' \ DOMAIN heap = Owned' \ Owned /\ DOMAIN heap \subseteq DOMAIN heap'
      /\ \A b \in DOMAIN heap : heap'[b] = heap[b]
  BY AllocGrows
<1>2. Fins \subseteq Fins' /\ Fins' \cap (1..Len(allocs)) \subseteq Fins
  BY <1>1
<1>3. ASSUME NEW i \in 1..Len(bs)
      PROVE  BufInPool(bs[i])'
  <2>1. PICK b : b = bs[i]
    OBVIOUS
  <2>2. BufInPool(b)
    BY <2>1 DEF BufsSound
  <2>3. b.data # NULL => b.data \notin Owned'
    <3>1. b.data # NULL => b.data \in 0..(nblocks - 1) /\ b.data \notin Owned
      BY <2>2 DEF BufInPool
    <3>2. b.data # NULL => b.data # nblocks
      BY <1>1, <3>1
    <3> QED  BY <1>1, <3>1, <3>2
  <2>4. Len(allocs') \in Nat /\ Len(allocs) <= Len(allocs')
    BY <1>1
  <2>5. BufInPool(b)'
    BY <1>1, <1>2, <2>2, <2>3, <2>4, BufInPoolKept
  <2> QED  BY <2>1, <2>5 DEF BufInPool
<1>4. HeapExact(bs)'
  <2>1. DOMAIN heap \subseteq Owned \cup DataBlocks(bs)
    BY <1>1 DEF BufsSound, HeapExact
  <2>2. DataBlocks(bs) \subseteq DataBlocks(bs)'
    BY <1>2 DEF DataBlocks
  <2>3. DOMAIN heap' \subseteq Owned' \cup DataBlocks(bs)'
    BY <1>1, <2>1, <2>2
  <2> QED  BY <1>1, <2>3 DEF HeapExact
<1> QED  BY <1>3, <1>4 DEF BufsSound
-----------------------------------------------------------------------------
(* gu_pool_free *)

\* The types that the steps need.
LEMMA PoolTyped ==
  ASSUME PoolInv
  PROVE  /\ pool \in Pools /\ pool.finalizers \in Seq(Nat) /\ pool.chunks \in Seq(Nat)
         /\ allocs \in Seq(Objects) /\ Len(allocs) \in Nat /\ nblocks \in Nat
         /\ DOMAIN heap \subseteq 0..(nblocks - 1) /\ \A b \in DOMAIN heap : heap[b] \in Nat
         /\ Owned \subseteq Nat
<1>1. /\ pool \in Pools /\ pool.finalizers \in Seq(Nat) /\ pool.chunks \in Seq(Nat)
      /\ allocs \in Seq(Objects) /\ nblocks \in Nat
      /\ DOMAIN heap \subseteq 0..(nblocks - 1) /\ \A b \in DOMAIN heap : heap[b] \in Nat
  BY DEF PoolInv, IndInv, TypeOK, Pools
<1>2. \A i \in 1..Len(pool.chunks) : pool.chunks[i] \in Nat
  BY <1>1, ElementOfSeq
<1> QED  BY <1>1, <1>2, LenProperties DEF Owned, Chunks

\* Freeing begins: nothing moves.
LEMMA BufsSoundFreeing ==
  ASSUME PoolInv, gu_pool_free, NEW bs, BufsSound(bs)
  PROVE  BufsSound(bs)'
<1>1. /\ UNCHANGED <<heap, nblocks, pool, allocs, ran>>
      /\ phase = "live" /\ phase' = "finalizing"
  BY DEF gu_pool_free
<1>2. Fins' = Fins /\ Owned' = Owned
  BY <1>1 DEF Fins, Elements, Owned, Chunks
<1>3. \A i \in 1..Len(bs) : BufInPool(bs[i])'
  BY <1>1, <1>2 DEF BufsSound, BufInPool
<1>4. HeapExact(bs)'
  BY <1>1, <1>2 DEF BufsSound, HeapExact, DataBlocks
<1> QED  BY <1>3, <1>4 DEF BufsSound

\* The head of the list of finalizers is not in the rest.
LEMMA FinsWithoutHead ==
  ASSUME PoolInv, pool.finalizers # <<>>
  PROVE  Fins = Elements(Tail(pool.finalizers)) \cup {Head(pool.finalizers)}
         /\ Head(pool.finalizers) \notin Elements(Tail(pool.finalizers))
<1>1. pool.finalizers \in Seq(Nat)
  BY PoolTyped
<1>2. PICK fs, tl : fs = pool.finalizers /\ tl = Tail(fs)
  OBVIOUS
<1>3. /\ Len(fs) \in Nat /\ Len(fs) >= 1 /\ Head(fs) = fs[1] /\ Len(tl) = Len(fs) - 1
      /\ \A i \in 1..Len(tl) : i + 1 \in 1..Len(fs) /\ tl[i] = fs[i + 1]
  BY <1>1, <1>2, WithoutHead
<1>4. Elements(fs) = Elements(tl) \cup {Head(fs)}
  BY <1>1, <1>2, HeadElements
<1>5. ASSUME NEW i \in 1..Len(tl)
      PROVE  tl[i] # Head(fs)
  <2>1. 1 \in 1..Len(fs) /\ i + 1 \in 1..Len(fs) /\ tl[i] = fs[i + 1] /\ 1 < i + 1
    BY <1>3
  <2>2. fs[1] > fs[i + 1]
    BY <1>2, <2>1 DEF PoolInv, FinalizersOrdered
  <2>3. fs[1] \in Nat /\ fs[i + 1] \in Nat
    BY <1>1, <1>2, <2>1, ElementOfSeq
  <2> QED  BY <1>3, <2>1, <2>2, <2>3
<1> QED  BY <1>2, <1>4, <1>5 DEF Fins, Elements

\* A finalizer frees the block of its buffer, and no other.
LEMMA BufsSoundFinalizer ==
  ASSUME PoolInv, NEW bs, BufsApart(bs), BufsSound(bs), pool.finalizers # <<>>,
         NEW gone, gone = {bs[i].data : i \in {j \in 1..Len(bs) : bs[j].fin = Head(pool.finalizers)}},
         RunFinalizer(gone)
  PROVE  BufsSound(bs)' /\ gone \cap Owned = {}
<1>1. /\ phase = "finalizing" /\ pool' = [pool EXCEPT !.finalizers = Tail(@)]
      /\ heap' = Without(gone) /\ UNCHANGED <<nblocks, allocs, phase>>
  BY DEF RunFinalizer
<1>2. /\ pool \in Pools /\ pool.finalizers \in Seq(Nat) /\ nblocks \in Nat /\ Len(allocs) \in Nat
      /\ Owned \subseteq Nat
  BY PoolTyped
<1>3. pool'.finalizers = Tail(pool.finalizers) /\ pool'.chunks = pool.chunks
  BY <1>1, <1>2 DEF Pools
<1>4. PICK hd : hd = Head(pool.finalizers)
  OBVIOUS
<1>5. Fins = Fins' \cup {hd} /\ hd \notin Fins'
  <2>1. Fins' = Elements(Tail(pool.finalizers))
    BY <1>3 DEF Fins, Elements
  <2> QED  BY <1>4, <2>1, FinsWithoutHead
<1>6. Owned' = Owned /\ DOMAIN heap' = DOMAIN heap \ gone /\ \A b \in DOMAIN heap' : heap'[b] = heap[b]
  BY <1>1, <1>3 DEF Owned, Chunks, Without
<1>7. gone \cap Owned = {}
  <2>1. ASSUME NEW i \in 1..Len(bs)
        PROVE  bs[i].data \notin Owned
    <3>1. CASE bs[i].data = NULL
      BY <1>2, <3>1, GuBufAssumption
    <3>2. CASE bs[i].data # NULL
      BY <3>2 DEF BufsSound, BufInPool
    <3> QED  BY <3>1, <3>2
  <2> QED  BY <2>1
<1>8. ASSUME NEW i \in 1..Len(bs)
      PROVE  BufInPool(bs[i])'
  <2>1. PICK b : b = bs[i]
    OBVIOUS
  <2>2. BufInPool(b)
    BY <2>1 DEF BufsSound
  <2>3. b.data # NULL => b.data \notin Owned'
    BY <1>6, <2>2 DEF BufInPool
  <2>4. ASSUME b.data # NULL, b.fin \in Fins', b.data \in DOMAIN heap
        PROVE  b.data \in DOMAIN heap' /\ heap'[b.data] = heap[b.data]
    <3>1. ASSUME NEW j \in 1..Len(bs), bs[j].fin = hd
          PROVE  bs[j].data # b.data
      <4>1. i # j
        BY <1>5, <2>1, <2>4, <3>1
      <4> QED  BY <2>1, <2>4, <4>1 DEF BufsApart
    <3>2. b.data \notin gone
      BY <1>4, <3>1
    <3> QED  BY <1>6, <2>4, <3>2
  <2>5. Len(allocs') \in Nat /\ Len(allocs) <= Len(allocs') /\ nblocks' \in Nat /\ nblocks <= nblocks'
    BY <1>1, <1>2
  <2>6. phase' # "live" /\ Fins' \cap (1..Len(allocs)) \subseteq Fins
    BY <1>1, <1>5
  <2>7. BufInPool(b)'
    BY <1>2, <2>2, <2>3, <2>4, <2>5, <2>6, BufInPoolKept
  <2> QED  BY <2>1, <2>7 DEF BufInPool
<1>9. HeapExact(bs)'
  <2>1. DOMAIN heap \subseteq Owned \cup DataBlocks(bs)
    BY <1>1 DEF BufsSound, HeapExact
  <2>2. ASSUME NEW x \in DataBlocks(bs), x \notin gone
        PROVE  x \in DataBlocks(bs)'
    <3>1. PICK i \in 1..Len(bs) : bs[i].fin \in Fins /\ x = bs[i].data
      BY DEF DataBlocks
    <3>2. bs[i].fin # hd
      BY <1>4, <2>2, <3>1
    <3> QED  BY <1>5, <3>1, <3>2 DEF DataBlocks
  <2>3. DOMAIN heap' \subseteq Owned' \cup DataBlocks(bs)'
    BY <1>6, <2>1, <2>2
  <2> QED  BY <1>1, <2>3 DEF HeapExact
<1> QED  BY <1>7, <1>8, <1>9 DEF BufsSound

\* After the finalizers the pool owns all the blocks there are.
LEMMA OnlyOwned ==
  ASSUME PoolInv, NEW bs, BufsSound(bs), phase = "finalizing", pool.finalizers = <<>>
  PROVE  Fins = {} /\ DOMAIN heap = Owned
<1>1. Fins = {}
  BY DEF Fins, Elements
<1>2. DataBlocks(bs) = {}
  BY <1>1 DEF DataBlocks
<1>3. Owned \subseteq DOMAIN heap
  BY DEF PoolInv, ChunksOwned
<1> QED  BY <1>1, <1>2, <1>3 DEF BufsSound, HeapExact

\* Buffers stay sound when the pool adds or frees a chunk.
LEMMA BufsSoundChunk ==
  ASSUME PoolInv, NEW bs, BufsSound(bs), FreeChunk
  PROVE  BufsSound(bs)'
<1>1. /\ phase = "finalizing" /\ pool.finalizers = <<>> /\ heap' = Without({Head(pool.chunks)})
      /\ pool' = [pool EXCEPT !.chunks = Tail(@)] /\ UNCHANGED <<nblocks, allocs, phase>>
  BY DEF FreeChunk
<1>2. /\ pool \in Pools /\ nblocks \in Nat /\ Len(allocs) \in Nat
  BY PoolTyped
<1>3. Fins = {} /\ DOMAIN heap = Owned
  BY <1>1, OnlyOwned
<1>4. Owned' = Owned \ {Head(pool.chunks)} /\ DOMAIN heap' = DOMAIN heap \ {Head(pool.chunks)}
  BY <1>1, OwnedWithoutHead DEF Without
<1>5. Fins' = {}
  <2>1. pool'.finalizers = pool.finalizers
    BY <1>1, <1>2 DEF Pools
  <2> QED  BY <1>3, <2>1 DEF Fins, Elements
<1>6. ASSUME NEW i \in 1..Len(bs)
      PROVE  BufInPool(bs[i])'
  <2>1. BufInPool(bs[i])
    BY DEF BufsSound
  <2> QED  BY <1>1, <1>4, <1>5, <2>1 DEF BufInPool
<1>7. HeapExact(bs)'
  <2>1. DOMAIN heap' \subseteq Owned'
    BY <1>3, <1>4
  <2> QED  BY <1>1, <2>1 DEF HeapExact
<1> QED  BY <1>6, <1>7 DEF BufsSound

\* The last step: nothing is left.
LEMMA BufsSoundFreed ==
  ASSUME PoolInv, NEW bs, BufsSound(bs), FreePool
  PROVE  BufsSound(bs)'
<1>1. /\ phase = "finalizing" /\ pool.finalizers = <<>> /\ pool.chunks = <<>>
      /\ heap' = (IF pool.local THEN heap ELSE Without({0})) /\ phase' = "freed"
      /\ UNCHANGED <<nblocks, pool, allocs>>
  BY DEF FreePool
<1>2. Fins = {} /\ DOMAIN heap = Owned
  BY <1>1, OnlyOwned
<1>3. Owned = {0}
  BY <1>1 DEF Owned, Chunks
<1>4. Fins' = {} /\ Owned' = Owned
  BY <1>1, <1>2 DEF Fins, Elements, Owned, Chunks
<1>5. DOMAIN heap' = IF pool.local THEN {0} ELSE {}
  <2>1. CASE pool.local
    BY <1>1, <1>2, <1>3, <2>1
  <2>2. CASE ~pool.local
    BY <1>1, <1>2, <1>3, <2>2 DEF Without
  <2> QED  BY <2>1, <2>2
<1>6. ASSUME NEW i \in 1..Len(bs)
      PROVE  BufInPool(bs[i])'
  <2>1. BufInPool(bs[i])
    BY DEF BufsSound
  <2> QED  BY <1>1, <1>4, <2>1 DEF BufInPool
<1>7. HeapExact(bs)'
  BY <1>1, <1>5 DEF HeapExact
<1> QED  BY <1>6, <1>7 DEF BufsSound
-----------------------------------------------------------------------------
(* Growing and shrinking a buffer *)

\* gu_mem_buf_realloc of a block that is not the pool's.
Realloc(old, sz) ==
  /\ heap' = [b \in (DOMAIN heap \cup {nblocks}) \ {old} |-> IF b = nblocks THEN sz ELSE heap[b]]
  /\ nblocks' = nblocks + 1

\* What gu_mem_buf_realloc does to the blocks.
LEMMA ReallocHeap ==
  ASSUME PoolInv, phase = "live", NEW sz \in Nat, NEW old, old \notin Owned, old # nblocks, Realloc(old, sz)
  PROVE  /\ DOMAIN heap' = (DOMAIN heap \cup {nblocks}) \ {old}
         /\ nblocks \notin DOMAIN heap /\ heap'[nblocks] = sz
         /\ \A b \in DOMAIN heap' : b # nblocks => b \in DOMAIN heap /\ heap'[b] = heap[b]
         /\ Owned \subseteq DOMAIN heap /\ Owned \subseteq DOMAIN heap'
         /\ \A b \in Owned : heap'[b] = heap[b]
<1>1. DOMAIN heap \subseteq 0..(nblocks - 1) /\ nblocks \in Nat
  BY PoolTyped
<1>2. nblocks \notin DOMAIN heap
  BY <1>1
<1>3. Owned \subseteq DOMAIN heap
  BY DEF PoolInv, ChunksOwned
<1>4. /\ DOMAIN heap' = (DOMAIN heap \cup {nblocks}) \ {old}
      /\ \A b \in DOMAIN heap' : heap'[b] = IF b = nblocks THEN sz ELSE heap[b]
  BY DEF Realloc
<1> QED  BY <1>2, <1>3, <1>4

\* The pool stays sound when the block of a buffer is reallocated.
LEMMA PoolInvRealloc ==
  ASSUME PoolInv, phase = "live", NEW sz \in Nat, NEW old, old \notin Owned, old # nblocks, Realloc(old, sz),
         UNCHANGED <<pool, allocs, phase, ran>>
  PROVE  PoolInv'
<1>1. /\ DOMAIN heap' = (DOMAIN heap \cup {nblocks}) \ {old}
      /\ nblocks \notin DOMAIN heap /\ heap'[nblocks] = sz
      /\ \A b \in DOMAIN heap' : b # nblocks => b \in DOMAIN heap /\ heap'[b] = heap[b]
      /\ Owned \subseteq DOMAIN heap /\ Owned \subseteq DOMAIN heap'
      /\ \A b \in Owned : heap'[b] = heap[b]
  BY ReallocHeap
<1>2. /\ nblocks \in Nat /\ nblocks' = nblocks + 1 /\ DOMAIN heap \subseteq 0..(nblocks - 1)
      /\ \A b \in DOMAIN heap : heap[b] \in Nat
  BY PoolTyped DEF Realloc
<1>3. pool.curr \in Owned /\ \A i \in 1..Len(allocs) : allocs[i].block \in Owned
  BY DEF PoolInv, ChunksOwned
<1>4. TypeOK'
  <2>1. DOMAIN heap' \subseteq 0..(nblocks' - 1) /\ nblocks' \in Nat
    BY <1>1, <1>2
  <2>2. \A b \in DOMAIN heap' : heap'[b] \in Nat
    BY <1>1, <1>2
  <2> QED  BY <2>1, <2>2 DEF PoolInv, IndInv, TypeOK
<1>5. EdgesInBlock'
  <2>1. EdgesSound(pool, heap)
    BY DEF PoolInv, IndInv, EdgesInBlock
  <2>2. EdgesSound(pool, heap)'
    BY <1>1, <1>3, <2>1 DEF EdgesSound, Header
  <2> QED  BY <2>2 DEF EdgesInBlock
<1>6. ObjectsInBlocks'
  <2>1. \A i \in 1..Len(allocs) :
          /\ allocs[i].block \in DOMAIN heap
          /\ Header(allocs[i].block) <= allocs[i].lo
          /\ allocs[i].lo <= allocs[i].addr /\ allocs[i].addr <= allocs[i].hi
          /\ allocs[i].hi <= heap[allocs[i].block]
    BY DEF PoolInv, IndInv, ObjectsInBlocks
  <2> QED  BY <1>1, <1>3, <2>1 DEF ObjectsInBlocks, Header
<1>7. ObjectsDisjoint' /\ ObjectsAligned'
  BY DEF PoolInv, IndInv, ObjectsDisjoint, ObjectsAligned
<1>8. ChunksOwned'
  <2>1. Owned' = Owned
    BY DEF Owned, Chunks
  <2> QED  BY <1>1, <2>1 DEF PoolInv, ChunksOwned
<1>9. FinalizersOrdered'
  BY DEF PoolInv, FinalizersOrdered
<1> QED  BY <1>4, <1>5, <1>6, <1>7, <1>8, <1>9 DEF PoolInv, IndInv

\* Buffer b may replace buffer i: it has the same finalizer, and the same block or
\* one that no buffer has.
MayReplace(b, bs, i) ==
  /\ b \in Bufs /\ b.len <= b.avail_len /\ (b.data = NULL => b.avail_len = 0) /\ b.fin = bs[i].fin
  /\ b.data = bs[i].data \/ (b.data # NULL /\ \A j \in 1..Len(bs) : b.data # bs[j].data)

\* cs is bs with buffer i replaced by b.
Replaced(cs, bs, i, b) ==
  /\ cs \in Seq(Bufs) /\ Len(cs) = Len(bs) /\ cs[i] = b
  /\ \A j \in 1..Len(bs) : j # i => cs[j] = bs[j]

\* Buffers stay sound when one of them is replaced.
LEMMA ReplaceBuf ==
  ASSUME NEW bs, BufsApart(bs), NEW i \in 1..Len(bs), NEW b, MayReplace(b, bs, i),
         NEW cs, Replaced(cs, bs, i, b)
  PROVE  BufsApart(cs)
<1> USE DEF MayReplace
<1>2. /\ cs \in Seq(Bufs) /\ Len(cs) = Len(bs) /\ cs[i] = b
      /\ \A j \in 1..Len(bs) : j # i => cs[j] = bs[j]
  BY DEF Replaced
<1>3. ASSUME NEW k \in 1..Len(cs)
      PROVE  /\ cs[k].len <= cs[k].avail_len
             /\ cs[k].data = NULL => cs[k].avail_len = 0
             /\ \A j \in 1..Len(cs) :
                  k # j => /\ cs[k].fin # cs[j].fin
                           /\ cs[k].data # NULL => cs[k].data # cs[j].data
  <2>1. \A m, j \in 1..Len(bs) :
          m # j => /\ bs[m].fin # bs[j].fin
                   /\ bs[m].data # NULL => bs[m].data # bs[j].data
    BY DEF BufsApart
  <2>2. CASE k = i
    BY <1>2, <2>1, <2>2
  <2>3. CASE k # i
    <3>1. cs[k] = bs[k] /\ k \in 1..Len(bs)
      BY <1>2, <2>3
    <3>2. bs[k].len <= bs[k].avail_len /\ (bs[k].data = NULL => bs[k].avail_len = 0)
      BY <3>1 DEF BufsApart
    <3>3. ASSUME NEW j \in 1..Len(cs), k # j
          PROVE  cs[k].fin # cs[j].fin /\ (cs[k].data # NULL => cs[k].data # cs[j].data)
      <4>1. CASE j = i
        BY <1>2, <2>1, <2>3, <3>1, <4>1
      <4>2. CASE j # i
        BY <1>2, <2>1, <3>1, <3>3, <4>2
      <4> QED  BY <4>1, <4>2
    <3> QED  BY <3>1, <3>2, <3>3
  <2> QED  BY <2>2, <2>3
<1> QED  BY <1>2, <1>3 DEF BufsApart

\* A change of length is nothing to the pool.
LEMMA LengthChanged ==
  ASSUME PoolInv, NEW bs, BufsApart(bs), BufsSound(bs), NEW i \in 1..Len(bs),
         NEW l \in Nat, l <= bs[i].avail_len, NEW cs, cs = [bs EXCEPT ![i].len = l],
         UNCHANGED <<heap, nblocks, pool, allocs, phase, ran>>
  PROVE  BufsApart(cs) /\ BufsSound(cs)'
<1>1. bs \in Seq(Bufs)
  BY DEF BufsApart
<1>2. bs[i] \in Bufs
  BY <1>1, ElementOfSeq
<1>3. PICK b : b = [bs[i] EXCEPT !.len = l]
  OBVIOUS
<1>4. /\ b \in Bufs /\ b.len = l /\ b.avail_len = bs[i].avail_len /\ b.data = bs[i].data
      /\ b.fin = bs[i].fin /\ b.elem_size = bs[i].elem_size
  BY <1>2, <1>3 DEF Bufs
<1>5. cs = [bs EXCEPT ![i] = b]
  BY <1>3
<1>6. b.len <= b.avail_len /\ (b.data = NULL => b.avail_len = 0)
  <2>1. bs[i].data = NULL => bs[i].avail_len = 0
    BY DEF BufsApart
  <2> QED  BY <1>4, <2>1
<1>7. /\ BufsApart(cs) /\ Len(cs) = Len(bs) /\ cs[i] = b
      /\ \A j \in 1..Len(bs) : j # i => cs[j] = bs[j]
  <2>1. MayReplace(b, bs, i)
    BY <1>4, <1>6 DEF MayReplace
  <2>2. Replaced(cs, bs, i, b)
    BY <1>1, <1>4, <1>5, ExceptSeq DEF Replaced
  <2>3. BufsApart(cs)
    BY <2>1, <2>2, ReplaceBuf
  <2> QED  BY <2>2, <2>3 DEF Replaced
<1>8. Fins' = Fins /\ Owned' = Owned
  BY DEF Fins, Elements, Owned, Chunks
<1>9. ASSUME NEW j \in 1..Len(cs)
      PROVE  BufInPool(cs[j])'
  <2>1. BufInPool(bs[j])
    BY <1>7 DEF BufsSound
  <2>2. /\ cs[j].data = bs[j].data /\ cs[j].fin = bs[j].fin /\ cs[j].avail_len = bs[j].avail_len
        /\ cs[j].elem_size = bs[j].elem_size
    BY <1>4, <1>7
  <2> QED  BY <1>8, <2>1, <2>2 DEF BufInPool
<1>10. HeapExact(cs)'
  <2>1. ASSUME NEW j \in 1..Len(bs)
        PROVE  cs[j].data = bs[j].data /\ cs[j].fin = bs[j].fin
    BY <1>4, <1>7
  <2>2. DataBlocks(cs)' = DataBlocks(bs)
    BY <1>7, <1>8, <2>1 DEF DataBlocks
  <2> QED  BY <1>8, <2>2 DEF BufsSound, HeapExact
<1> QED  BY <1>7, <1>9, <1>10 DEF BufsSound
\* The whole elements that fit a block.
LEMMA WholeElements ==
  ASSUME NEW sz \in Nat, NEW es \in Nat \ {0}
  PROVE  sz \div es \in Nat /\ (sz \div es) * es <= sz
         /\ \A n \in Nat : es * n <= sz => n <= sz \div es
<1>1. PICK k, r : k = sz \div es /\ r = sz % es
  OBVIOUS
<1>2. k \in Int /\ r \in 0..(es - 1) /\ sz = es * k + r
  BY <1>1
<1>3. k >= 0
  <2>1. SUFFICES ASSUME k <= -1 PROVE FALSE
    BY <1>2
  <2>2. es * k <= -es
    BY <1>2, <2>1
  <2> QED  BY <1>2, <2>2
<1>4. k * es <= sz
  BY <1>2
<1>5. ASSUME NEW n \in Nat, es * n <= sz
      PROVE  n <= k
  <2>1. SUFFICES ASSUME n >= k + 1 PROVE FALSE
    BY <1>2
  <2>2. es * n >= es * (k + 1)
    BY <1>2, <2>1
  <2>3. es * (k + 1) = es * k + es
    BY <1>2
  <2> QED  BY <1>2, <1>5, <2>2, <2>3
<1> QED  BY <1>1, <1>2, <1>3, <1>4, <1>5

\* A buffer that has been moved to a new and larger block.
LEMMA BufMoved ==
  ASSUME PoolInv, phase = "live", NEW bs, BufsApart(bs), BufsSound(bs), NEW i \in 1..Len(bs),
         NEW sz \in Nat, NEW l \in Nat, bs[i].elem_size * l <= sz,
         NEW b \in Bufs, b.elem_size = bs[i].elem_size, b.len = l, b.avail_len = sz \div bs[i].elem_size,
         b.data = nblocks, b.fin = bs[i].fin,
         NEW cs, Replaced(cs, bs, i, b), Realloc(bs[i].data, sz),
         UNCHANGED <<pool, allocs, phase, ran>>
  PROVE  PoolInv' /\ BufsApart(cs) /\ BufsSound(cs)'
<1>1. bs \in Seq(Bufs) /\ bs[i] \in Bufs
  BY ElementOfSeq DEF BufsApart
<1>2. PICK es, old : es = bs[i].elem_size /\ old = bs[i].data
  OBVIOUS
<1>3. es \in ElemSizes /\ es \in Nat \ {0} /\ bs[i].fin \in Nat
  BY <1>1, <1>2, GuBufAssumption DEF Bufs
<1>4. /\ nblocks \in Nat /\ DOMAIN heap \subseteq 0..(nblocks - 1) /\ Owned \subseteq Nat
      /\ Len(allocs) \in Nat
  BY PoolTyped
<1>5. \A j \in 1..Len(bs) : /\ BufInPool(bs[j]) /\ bs[j].fin \in Fins
                            /\ bs[j].data # nblocks /\ bs[j].data \notin Owned
  <2> SUFFICES ASSUME NEW j \in 1..Len(bs)
               PROVE  /\ BufInPool(bs[j]) /\ bs[j].fin \in Fins
                      /\ bs[j].data # nblocks /\ bs[j].data \notin Owned
    OBVIOUS
  <2>1. BufInPool(bs[j])
    BY DEF BufsSound
  <2>2. bs[j].fin \in Fins
    BY <2>1 DEF BufInPool
  <2>3. CASE bs[j].data = NULL
    BY <1>4, <2>1, <2>2, <2>3, GuBufAssumption
  <2>4. CASE bs[j].data # NULL
    <3>1. bs[j].data \in 0..(nblocks - 1) /\ bs[j].data \notin Owned
      BY <2>1, <2>4 DEF BufInPool
    <3>2. bs[j].data # nblocks
      BY <1>4, <3>1
    <3> QED  BY <2>1, <2>2, <3>1, <3>2
  <2> QED  BY <2>3, <2>4
<1>6. old \notin Owned /\ old # nblocks /\ Realloc(old, sz)
  BY <1>2, <1>5
<1>7. PoolInv'
  BY <1>6, PoolInvRealloc
<1>8. /\ DOMAIN heap' = (DOMAIN heap \cup {nblocks}) \ {old}
      /\ nblocks \notin DOMAIN heap /\ heap'[nblocks] = sz
      /\ \A x \in DOMAIN heap' : x # nblocks => x \in DOMAIN heap /\ heap'[x] = heap[x]
      /\ Owned \subseteq DOMAIN heap
  BY <1>6, ReallocHeap
<1>9. PICK av : av = sz \div es
  OBVIOUS
<1>10. av \in Nat /\ av * es <= sz /\ l <= av
  BY <1>2, <1>3, <1>9, WholeElements
<1>11. /\ b \in Bufs /\ b.len = l /\ b.avail_len = av /\ b.data = nblocks /\ b.fin = bs[i].fin
       /\ b.elem_size = es
  BY <1>2, <1>9
<1>12. nblocks # NULL
  BY <1>4, GuBufAssumption
<1>13. MayReplace(b, bs, i)
  BY <1>5, <1>10, <1>11, <1>12 DEF MayReplace
<1>14. BufsApart(cs)
  BY <1>13, ReplaceBuf
<1>15. /\ Len(cs) = Len(bs) /\ cs[i] = b /\ \A j \in 1..Len(bs) : j # i => cs[j] = bs[j]
  BY DEF Replaced
<1>16. Fins' = Fins /\ Owned' = Owned /\ nblocks' = nblocks + 1
  BY DEF Fins, Elements, Owned, Chunks, Realloc
<1>17. nblocks \in DOMAIN heap' /\ nblocks \notin Owned
  BY <1>6, <1>8
<1>18. BufInPool(b)'
  <2>1. b.fin \in 1..Len(allocs) /\ b.fin \in Fins
    BY <1>5, <1>11 DEF BufInPool
  <2>2. nblocks \in 0..(nblocks' - 1)
    BY <1>4, <1>16
  <2>3. b.avail_len * b.elem_size <= heap'[b.data]
    BY <1>8, <1>10, <1>11
  <2> QED  BY <1>11, <1>16, <1>17, <2>1, <2>2, <2>3 DEF BufInPool
<1>19. ASSUME NEW j \in 1..Len(bs), j # i
       PROVE  BufInPool(bs[j])'
  <2>1. PICK d : d = bs[j]
    OBVIOUS
  <2>2. BufInPool(d) /\ d.data \notin Owned' /\ d.data # nblocks
    BY <1>5, <1>16, <2>1
  <2>3. ASSUME d.data # NULL, d.data \in DOMAIN heap
        PROVE  d.data \in DOMAIN heap' /\ heap'[d.data] = heap[d.data]
    <3>1. d.data # old
      BY <1>2, <1>19, <2>1, <2>3 DEF BufsApart
    <3> QED  BY <1>8, <2>2, <2>3, <3>1
  <2>4. nblocks' \in Nat /\ nblocks <= nblocks' /\ Len(allocs') \in Nat /\ Len(allocs) <= Len(allocs')
    BY <1>4, <1>16
  <2>5. BufInPool(d)'
    BY <1>4, <1>16, <2>2, <2>3, <2>4, BufInPoolKept
  <2> QED  BY <2>1, <2>5 DEF BufInPool
<1>20. \A j \in 1..Len(cs) : BufInPool(cs[j])'
  <2> SUFFICES ASSUME NEW j \in 1..Len(cs)
               PROVE  BufInPool(cs[j])'
    OBVIOUS
  <2>1. CASE j = i
    <3>1. cs[j] = b
      BY <1>15, <2>1
    <3> QED  BY <1>18, <3>1 DEF BufInPool
  <2>2. CASE j # i
    <3>1. cs[j] = bs[j] /\ j \in 1..Len(bs)
      BY <1>15, <2>2
    <3> QED  BY <1>19, <2>2, <3>1 DEF BufInPool
  <2> QED  BY <2>1, <2>2
<1>21. HeapExact(cs)'
  <2>1. DOMAIN heap \subseteq Owned \cup DataBlocks(bs)
    BY DEF BufsSound, HeapExact
  <2>2. ASSUME NEW x \in DOMAIN heap', x \notin Owned
        PROVE  x \in DataBlocks(cs)'
    <3>1. CASE x = nblocks
      <4>1. i \in 1..Len(cs) /\ cs[i].fin \in Fins' /\ cs[i].data = x
        BY <1>5, <1>11, <1>15, <1>16, <3>1
      <4> QED  BY <4>1 DEF DataBlocks
    <3>2. CASE x # nblocks
      <4>1. x \in DOMAIN heap /\ x # old
        BY <1>8, <3>2
      <4>2. PICK j \in 1..Len(bs) : bs[j].fin \in Fins /\ x = bs[j].data
        BY <2>1, <2>2, <4>1 DEF DataBlocks
      <4>3. j # i
        BY <1>2, <4>1, <4>2
      <4>4. j \in 1..Len(cs) /\ cs[j].fin \in Fins' /\ cs[j].data = x
        BY <1>15, <1>16, <4>2, <4>3
      <4> QED  BY <4>4 DEF DataBlocks
    <3> QED  BY <3>1, <3>2
  <2>3. DOMAIN heap' \subseteq Owned' \cup DataBlocks(cs)'
    BY <1>16, <2>2
  <2> QED  BY <2>3 DEF HeapExact
<1> QED  BY <1>7, <1>14, <1>20, <1>21 DEF BufsSound
-----------------------------------------------------------------------------
(* The steps of the specification *)

\* gu_buf_extend_n and gu_buf_push_n
LEMMA BufInvExtend ==
  ASSUME BufInv, NEW i \in DOMAIN bufs, NEW n \in Counts, gu_buf_extend_n(i, n)
  PROVE  BufInv'
<1> DEFINE new_len == bufs[i].len + n
           size == BufSize(bufs[i].elem_size * new_len)
<1>1. /\ Idle /\ new_len <= MaxLen /\ UNCHANGED <<pool, allocs, phase, ran, making, seqs>>
      /\ IF new_len <= bufs[i].avail_len
         THEN bufs' = [bufs EXCEPT ![i].len = new_len] /\ UNCHANGED <<heap, nblocks>>
         ELSE /\ heap' = [b \in (DOMAIN heap \cup {nblocks}) \ {bufs[i].data} |->
                            IF b = nblocks THEN size ELSE heap[b]]
              /\ nblocks' = nblocks + 1
              /\ bufs' = [bufs EXCEPT ![i] = [Realloced(@, size) EXCEPT !.len = new_len]]
  BY DEF gu_buf_extend_n
<1>2. /\ PoolInv /\ BufsApart(bufs) /\ BufsSound(bufs) /\ MakingSound /\ phase = "live"
  BY <1>1 DEF BufInv, Idle
<1>3. bufs \in Seq(Bufs) /\ i \in 1..Len(bufs)
  BY <1>2, LenProperties DEF BufsApart
<1>4. bufs[i] \in Bufs
  BY <1>3, ElementOfSeq
<1>5. new_len \in Nat /\ bufs[i].elem_size \in ElemSizes /\ n \in Nat /\ bufs[i].len \in Nat
  BY <1>4, GuBufAssumption DEF Bufs
<1>6. PICK bs, cs, l, es : bs = bufs /\ cs = bufs' /\ l = new_len /\ es = bufs[i].elem_size
  OBVIOUS
<1>7. MakingSound'
  BY <1>1, <1>2 DEF MakingSound
<1>8. CASE l <= bufs[i].avail_len
  <2>1. cs = [bs EXCEPT ![i].len = l] /\ UNCHANGED <<heap, nblocks, pool, allocs, phase, ran>>
    BY <1>1, <1>6, <1>8
  <2>2. BufsApart(cs) /\ BufsSound(cs)'
    <3>1. BufsApart(bs) /\ BufsSound(bs) /\ i \in 1..Len(bs) /\ l \in Nat /\ l <= bs[i].avail_len
      BY <1>2, <1>3, <1>5, <1>6, <1>8
    <3> HIDE DEF new_len, size
    <3> QED  BY <1>2, <2>1, <3>1, LengthChanged
  <2>3. PoolInv'
    BY <1>2, <2>1, PoolInvStutter DEF vars
  <2>4. BufsApart(bufs)' /\ BufsSound(bufs)'
    BY <1>6, <2>2 DEF BufsApart, BufsSound, BufInPool, HeapExact, DataBlocks
  <2> QED  BY <1>7, <2>3, <2>4 DEF BufInv
<1>9. CASE ~(l <= bufs[i].avail_len)
  <2>1. PICK sz : sz = size
    OBVIOUS
  <2>2. /\ Realloc(bs[i].data, sz)
        /\ cs = [bs EXCEPT ![i] = [Realloced(bs[i], sz) EXCEPT !.len = l]]
    BY <1>1, <1>6, <1>9, <2>1 DEF Realloc
  <2>3. sz \in Nat /\ es * l <= sz
    <3>1. l \in 0..MaxLen
      BY <1>1, <1>5, <1>6, GuBufAssumption
    <3>2. BufSize(es * l) \in Nat /\ BufSize(es * l) >= es * l
      BY <1>5, <1>6, <3>1, BufDataAssumption
    <3>3. es \in Nat /\ l \in Nat
      BY <1>5, <1>6, GuBufAssumption
    <3>4. sz = BufSize(es * l)
      BY <1>6, <2>1
    <3> QED  BY <3>2, <3>3, <3>4
  <2>4. PICK b : b = [Realloced(bs[i], sz) EXCEPT !.len = l]
    OBVIOUS
  <2>6. /\ b \in Bufs /\ b.elem_size = es /\ b.len = l /\ b.avail_len = sz \div es
        /\ b.data = nblocks /\ b.fin = bs[i].fin
    <3>1. nblocks \in Nat
      BY <1>2, PoolTyped
    <3>2. es \in Nat \ {0}
      BY <1>5, <1>6, GuBufAssumption
    <3>3. sz \div es \in Nat
      BY <2>3, <3>2, WholeElements
    <3>4. bs[i] \in Bufs /\ l \in Nat /\ es = bs[i].elem_size
      BY <1>4, <1>5, <1>6
    <3>5. b = [bs[i] EXCEPT !.data = nblocks, !.avail_len = sz \div es, !.len = l]
      BY <2>4, <3>4 DEF Realloced
    <3> QED  BY <3>1, <3>3, <3>4, <3>5 DEF Bufs
  <2>7. Replaced(cs, bs, i, b)
    <3>1. cs = [bs EXCEPT ![i] = b]
      BY <2>2, <2>4
    <3> QED  BY <1>3, <1>6, <2>6, <3>1, ExceptSeq DEF Replaced
  <2>8. PoolInv' /\ BufsApart(cs) /\ BufsSound(cs)'
    <3>1. BufsApart(bs) /\ BufsSound(bs) /\ i \in 1..Len(bs) /\ l \in Nat /\ bs[i].elem_size * l <= sz
      BY <1>2, <1>3, <1>5, <1>6, <2>3
    <3>2. UNCHANGED <<pool, allocs, phase, ran>>
      BY <1>1
    <3>3. b.elem_size = bs[i].elem_size /\ b.avail_len = sz \div bs[i].elem_size
      BY <1>6, <2>6
    <3> QED  BY <1>2, <2>2, <2>3, <2>6, <2>7, <3>1, <3>2, <3>3, BufMoved
  <2>9. BufsApart(bufs)' /\ BufsSound(bufs)'
    BY <1>6, <2>8 DEF BufsApart, BufsSound, BufInPool, HeapExact, DataBlocks
  <2> QED  BY <1>7, <2>8, <2>9 DEF BufInv
<1> QED  BY <1>8, <1>9

\* gu_buf_trim_n and gu_buf_pop_n
LEMMA BufInvTrim ==
  ASSUME BufInv, NEW i \in DOMAIN bufs, NEW n \in Counts, gu_buf_trim_n(i, n)
  PROVE  BufInv'
<1>1. /\ n <= bufs[i].len /\ bufs' = [bufs EXCEPT ![i].len = bufs[i].len - n]
      /\ UNCHANGED <<heap, nblocks, pool, allocs, phase, ran, making>>
  BY DEF gu_buf_trim_n
<1>2. PoolInv /\ BufsApart(bufs) /\ BufsSound(bufs) /\ MakingSound
  BY DEF BufInv
<1>3. bufs \in Seq(Bufs) /\ i \in 1..Len(bufs)
  BY <1>2, LenProperties DEF BufsApart
<1>4. bufs[i] \in Bufs
  BY <1>3, ElementOfSeq
<1>5. bufs[i].len \in Nat /\ n \in Nat /\ bufs[i].avail_len \in Nat /\ bufs[i].len <= bufs[i].avail_len
  BY <1>2, <1>3, <1>4, GuBufAssumption DEF Bufs, BufsApart
<1>6. PICK bs, cs, l : bs = bufs /\ cs = bufs' /\ l = bufs[i].len - n
  OBVIOUS
<1>7. l \in Nat /\ l <= bufs[i].avail_len
  BY <1>1, <1>5, <1>6
<1>8. BufsApart(cs) /\ BufsSound(cs)'
  BY <1>1, <1>2, <1>3, <1>6, <1>7, LengthChanged
<1>9. BufsApart(bufs)' /\ BufsSound(bufs)'
  BY <1>6, <1>8 DEF BufsApart, BufsSound, BufInPool, HeapExact, DataBlocks
<1>10. PoolInv' /\ MakingSound'
  BY <1>1, <1>2, PoolInvStutter DEF vars, MakingSound
<1> QED  BY <1>9, <1>10 DEF BufInv

\* Any allocation that leaves the buffers as they are, and the one that is being made
\* or begins one.
LEMMA BufInvAlloc ==
  ASSUME BufInv, NEW q, IsRequest(q),
         NEW fs, fs = pool.finalizers \/ fs = <<Len(allocs) + 1>> \o pool.finalizers,
         Alloc(Normal(q), fs), bufs' = bufs
  PROVE  PoolInv' /\ BufsApart(bufs)' /\ BufsSound(bufs)' /\ phase' = "live"
<1>1. PoolInv /\ BufsApart(bufs) /\ BufsSound(bufs)
  BY DEF BufInv
<1>2. PoolInv'
  BY <1>1, PoolInvAlloc
<1>3. PICK bs : bs = bufs
  OBVIOUS
<1>4. BufsSound(bs)'
  BY <1>1, <1>3, BufsSoundAlloc
<1>5. BufsApart(bufs)' /\ BufsSound(bufs)'
  BY <1>1, <1>3, <1>4 DEF BufsApart, BufsSound, BufInPool, HeapExact, DataBlocks
<1>6. phase' = "live"
  BY DEF Alloc
<1> QED  BY <1>2, <1>5, <1>6

\* A new buffer keeps the invariant.
LEMMA BufInvMake ==
  ASSUME BufInv, gu_make_buf
  PROVE  BufInv'
<1>1. Alloc(Normal(BufRequest), pool.finalizers) /\ bufs' = bufs
  BY DEF gu_make_buf
<1>2. IsRequest(BufRequest)
  BY GuBufAssumption
<1>3. PoolInv' /\ BufsApart(bufs)' /\ BufsSound(bufs)' /\ phase' = "live"
  BY <1>1, <1>2, BufInvAlloc
<1>4. PICK es \in ElemSizes :
        making' = [elem_size |-> es, len |-> 0, avail_len |-> 0, data |-> NULL, fin |-> 0]
  BY DEF gu_make_buf
<1>5. MakingSound'
  BY <1>3, <1>4 DEF MakingSound, Bufs
<1> QED  BY <1>3, <1>5 DEF BufInv
\* gu_make_buf registers the finalizer: the new buffer has one that no other has.
LEMMA BufInvRegister ==
  ASSUME BufInv, RegisterBuf
  PROVE  BufInv'
<1>1. /\ making # NULL /\ making' = NULL
      /\ Alloc(Normal(NodeRequest), <<Len(allocs) + 1>> \o pool.finalizers)
      /\ bufs' = Append(bufs, [making EXCEPT !.fin = Len(allocs) + 1])
  BY DEF RegisterBuf, gu_pool_finally
<1>2. /\ PoolInv /\ BufsApart(bufs) /\ BufsSound(bufs) /\ IsRequest(NodeRequest)
      /\ making \in Bufs /\ making.len = 0 /\ making.avail_len = 0 /\ making.data = NULL
  BY <1>1, PoolAssumption DEF BufInv, MakingSound
<1>3. PICK bs, cs, fs, b : /\ bs = bufs /\ cs = bufs' /\ fs = <<Len(allocs) + 1>> \o pool.finalizers
                           /\ b = [making EXCEPT !.fin = Len(allocs) + 1]
  OBVIOUS
<1>4. Len(allocs) \in Nat /\ pool.finalizers \in Seq(Nat) /\ Len(allocs) + 1 \in Nat
  BY <1>2, PoolTyped
<1>5. fs # pool.finalizers
  <2>1. Len(fs) = Len(pool.finalizers) + 1 /\ Len(pool.finalizers) \in Nat
    BY <1>3, <1>4, InFront
  <2> QED  BY <2>1
<1>6. /\ b \in Bufs /\ b.len = 0 /\ b.avail_len = 0 /\ b.data = NULL /\ b.fin = Len(allocs) + 1
  BY <1>2, <1>3, <1>4 DEF Bufs
<1>7. PoolInv' /\ BufsSound(bs)'
  BY <1>1, <1>2, <1>3, PoolInvAlloc, BufsSoundAlloc
<1>8. /\ phase' = "live" /\ Len(allocs') = Len(allocs) + 1
      /\ Fins' = Fins \cup {Len(allocs) + 1}
  BY <1>1, <1>2, <1>3, <1>5, AllocGrows
<1>9. /\ bs \in Seq(Bufs) /\ cs = Append(bs, b) /\ Len(bs) \in Nat
  BY <1>1, <1>2, <1>3, LenProperties DEF BufsApart
<1>10. /\ cs \in Seq(Bufs) /\ Len(cs) = Len(bs) + 1 /\ cs[Len(bs) + 1] = b
       /\ \A j \in 1..Len(bs) : cs[j] = bs[j]
  BY <1>6, <1>9, AppendProperties
<1>11. \A j \in 1..Len(cs) : j \in 1..Len(bs) \/ j = Len(bs) + 1
  BY <1>9, <1>10
<1>12. \A j \in 1..Len(bs) : bs[j].fin # Len(allocs) + 1
  <2> SUFFICES ASSUME NEW j \in 1..Len(bs)
               PROVE  bs[j].fin # Len(allocs) + 1
    OBVIOUS
  <2>1. bs[j].fin \in 1..Len(allocs)
    BY <1>2, <1>3 DEF BufsSound, BufInPool
  <2> QED  BY <1>4, <2>1
<1>13. BufsApart(cs)
  <2> SUFFICES ASSUME NEW k \in 1..Len(cs)
               PROVE  /\ cs[k].len <= cs[k].avail_len
                      /\ cs[k].data = NULL => cs[k].avail_len = 0
                      /\ \A j \in 1..Len(cs) :
                           k # j => /\ cs[k].fin # cs[j].fin
                                    /\ cs[k].data # NULL => cs[k].data # cs[j].data
    BY <1>10 DEF BufsApart
  <2>1. CASE k \in 1..Len(bs)
    <3>1. /\ bs[k].len <= bs[k].avail_len /\ (bs[k].data = NULL => bs[k].avail_len = 0)
          /\ \A j \in 1..Len(bs) : k # j => /\ bs[k].fin # bs[j].fin
                                            /\ bs[k].data # NULL => bs[k].data # bs[j].data
      BY <1>2, <1>3, <2>1 DEF BufsApart
    <3> QED  BY <1>6, <1>10, <1>11, <1>12, <2>1, <3>1
  <2>2. CASE k = Len(bs) + 1
    <3>1. 0 <= 0
      OBVIOUS
    <3> QED  BY <1>6, <1>10, <1>11, <1>12, <2>2, <3>1
  <2> QED  BY <1>11, <2>1, <2>2
<1>14. BufInPool(b)'
  <2>1. b.fin \in 1..Len(allocs')
    BY <1>4, <1>6, <1>8
  <2> QED  BY <1>6, <1>8, <2>1 DEF BufInPool
<1>15. \A j \in 1..Len(cs) : BufInPool(cs[j])'
  <2> SUFFICES ASSUME NEW j \in 1..Len(cs)
               PROVE  BufInPool(cs[j])'
    OBVIOUS
  <2>1. CASE j \in 1..Len(bs)
    <3>1. cs[j] = bs[j] /\ BufInPool(bs[j])'
      BY <1>7, <1>10, <2>1 DEF BufsSound
    <3> QED  BY <3>1 DEF BufInPool
  <2>2. CASE j = Len(bs) + 1
    <3>1. cs[j] = b
      BY <1>10, <2>2
    <3> QED  BY <1>14, <3>1 DEF BufInPool
  <2> QED  BY <1>11, <2>1, <2>2
<1>16. HeapExact(cs)'
  <2>1. DataBlocks(bs)' \subseteq DataBlocks(cs)'
    <3> SUFFICES ASSUME NEW j \in 1..Len(bs), bs[j].fin \in Fins'
                 PROVE  bs[j].data \in DataBlocks(cs)'
      BY DEF DataBlocks
    <3>1. j \in 1..Len(cs) /\ cs[j] = bs[j]
      BY <1>9, <1>10
    <3> QED  BY <3>1 DEF DataBlocks
  <2> QED  BY <1>7, <2>1 DEF BufsSound, HeapExact
<1>17. BufsApart(bufs)' /\ BufsSound(bufs)'
  BY <1>3, <1>13, <1>15, <1>16 DEF BufsApart, BufsSound, BufInPool, HeapExact, DataBlocks
<1>18. MakingSound'
  BY <1>1 DEF MakingSound
<1> QED  BY <1>7, <1>17, <1>18 DEF BufInv

\* gu_buf_fini
LEMMA BufInvFini ==
  ASSUME BufInv, BufFinalizer
  PROVE  BufInv'
<1>1. PICK bs : bs = bufs
  OBVIOUS
<1>2. /\ PoolInv /\ BufsApart(bs) /\ BufsSound(bs) /\ bs \in Seq(Bufs)
  BY <1>1 DEF BufInv, BufsApart
<1>3. DOMAIN bs = 1..Len(bs)
  BY <1>2, LenProperties
<1>4. PICK gone : gone = {bs[i].data : i \in {j \in 1..Len(bs) : bs[j].fin = Head(pool.finalizers)}}
  OBVIOUS
<1>5. /\ pool.finalizers # <<>> /\ UNCHANGED <<bufs, making>>
      /\ RunFinalizer({bufs[i].data : i \in {j \in DOMAIN bufs : bufs[j].fin = Head(pool.finalizers)}})
  BY DEF BufFinalizer
<1>6. RunFinalizer(gone)
  BY <1>1, <1>3, <1>4, <1>5
<1>7. BufsSound(bs)' /\ gone \cap Owned = {}
  BY <1>2, <1>4, <1>5, <1>6, BufsSoundFinalizer
<1>8. PoolInv'
  BY <1>2, <1>6, <1>7, PoolInvFinalizer
<1>9. BufsApart(bufs)' /\ BufsSound(bufs)'
  BY <1>1, <1>2, <1>5, <1>7 DEF BufsApart, BufsSound, BufInPool, HeapExact, DataBlocks
<1>10. MakingSound'
  <2>1. phase = "finalizing"
    BY <1>6 DEF RunFinalizer
  <2>2. making = NULL
    BY <2>1 DEF BufInv, MakingSound
  <2> QED  BY <1>5, <2>2 DEF MakingSound
<1> QED  BY <1>8, <1>9, <1>10 DEF BufInv

\* The pool's own operations.
LEMMA BufInvPool ==
  ASSUME BufInv, PoolStep
  PROVE  BufInv'
<1>1. making = NULL /\ UNCHANGED <<bufs, making>>
  BY DEF PoolStep
<1>2. MakingSound'
  BY <1>1 DEF MakingSound
<1>3. PICK bs : bs = bufs
  OBVIOUS
<1>4. PoolInv /\ BufsApart(bufs) /\ BufsSound(bs)
  BY <1>3 DEF BufInv
<1>5. CASE gu_malloc_prefixed
  <2>1. PICK q \in Requests : Alloc(Normal(q), pool.finalizers)
    BY <1>5 DEF gu_malloc_prefixed
  <2>2. IsRequest(q)
    BY PoolAssumption
  <2>3. PoolInv' /\ BufsApart(bufs)' /\ BufsSound(bufs)'
    BY <1>1, <2>1, <2>2, BufInvAlloc
  <2> QED  BY <1>2, <2>3 DEF BufInv
<1>6. CASE gu_pool_finally
  <2>1. Alloc(Normal(NodeRequest), <<Len(allocs) + 1>> \o pool.finalizers) /\ IsRequest(NodeRequest)
    BY <1>6, PoolAssumption DEF gu_pool_finally
  <2>2. PoolInv' /\ BufsApart(bufs)' /\ BufsSound(bufs)'
    BY <1>1, <2>1, BufInvAlloc
  <2> QED  BY <1>2, <2>2 DEF BufInv
<1>7. CASE gu_pool_free \/ FreeChunk \/ FreePool
  <2>1. PoolInv'
    BY <1>4, <1>7, PoolInvFreeing, PoolInvChunk, PoolInvFreed
  <2>2. BufsSound(bs)'
    BY <1>4, <1>7, BufsSoundFreeing, BufsSoundChunk, BufsSoundFreed
  <2>3. BufsApart(bufs)' /\ BufsSound(bufs)'
    BY <1>1, <1>3, <1>4, <2>2 DEF BufsApart, BufsSound, BufInPool, HeapExact, DataBlocks
  <2> QED  BY <1>2, <2>1, <2>3 DEF BufInv
<1> QED  BY <1>5, <1>6, <1>7 DEF PoolStep
-----------------------------------------------------------------------------
(* The requests of sequences, strings and variants *)

\* The alignments of words and lengths.
LEMMA AlignmentFacts ==
  /\ 1 \in Alignments /\ WordSize \in Alignments /\ MAX_ALIGN \in Alignments
  /\ WordSize \in Nat \ {0} /\ MAX_ALIGN \in Nat \ {0}
  /\ \A a \in Alignments : a \in Nat \ {0} /\ a <= MAX_ALIGN /\ MAX_ALIGN % a = 0 /\ a % a = 0
<1>1. MAX_ALIGN \in Nat \ {0} /\ WordSize \in Alignments
  BY AlignmentAssumption, GuBufAssumption
<1>2. \A a \in Nat \ {0} : a % a = 0
  <2> SUFFICES ASSUME NEW a \in Nat \ {0}
               PROVE  a % a = 0
    OBVIOUS
  <2>1. (a * 1) % a = 0
    BY ProductIsMultiple
  <2>2. a * 1 = a
    OBVIOUS
  <2> QED  BY <2>1, <2>2
<1>3. MAX_ALIGN % 1 = 0 /\ 1 \in 1..MAX_ALIGN /\ MAX_ALIGN \in 1..MAX_ALIGN
  BY <1>1
<1> QED  BY <1>1, <1>2, <1>3 DEF Alignments

\* Of two alignments the larger is a multiple of the smaller.
LEMMA LargerIsMultiple ==
  ASSUME NEW a \in Alignments, NEW b \in Alignments, b <= a
  PROVE  a % b = 0
<1>1. a \in Nat \ {0} /\ b \in Nat \ {0} /\ a % a = 0
  BY AlignmentFacts
<1>2. CASE b % a = 0
  <2>1. PICK k \in Int : b = a * k
    BY <1>1, <1>2, MultipleHasFactor
  <2>2. k >= 1
    <3>1. SUFFICES ASSUME k <= 0 PROVE FALSE
      BY <2>1
    <3>2. a * k <= 0
      BY <1>1, <3>1
    <3> QED  BY <1>1, <2>1, <3>2
  <2>3. a * k >= a
    BY <1>1, <2>2
  <2>4. b = a
    BY <1>1, <2>1, <2>3
  <2> QED  BY <1>1, <2>4
<1> QED  BY <1>2, AlignmentAssumption

\* The alignment that gu_malloc derives from a size is one, divides the size, and is
\* no less than any other that does.
LEMMA MallocAlignIs ==
  ASSUME NEW size \in Nat
  PROVE  /\ MallocAlign(size) \in Alignments /\ size % MallocAlign(size) = 0
         /\ \A a \in Alignments : size % a = 0 => a <= MallocAlign(size)
<1> DEFINE T == {a \in 1..MAX_ALIGN : MAX_ALIGN % a = 0 /\ size % a = 0}
           D == {MAX_ALIGN - a : a \in T}
<1>1. MAX_ALIGN \in Nat \ {0} /\ 1 \in T
  <2>1. MAX_ALIGN \in Nat \ {0}
    BY AlignmentFacts
  <2>2. MAX_ALIGN % 1 = 0 /\ size % 1 = 0 /\ 1 \in 1..MAX_ALIGN
    BY <2>1
  <2> QED  BY <2>1, <2>2
<1>2. D \in SUBSET Nat /\ D # {}
  <2>1. \A a \in T : MAX_ALIGN - a \in Nat
    BY <1>1
  <2> HIDE DEF T
  <2> QED  BY <1>1, <2>1
<1>3. PICK d \in D : \A e \in D : d <= e
  <2> HIDE DEF D
  <2> QED  BY <1>2, LeastElement
<1>4. PICK m \in T : d = MAX_ALIGN - m
  BY <1>3
<1>5. \A a \in T : a <= m
  <2> SUFFICES ASSUME NEW a \in T
               PROVE  a <= m
    OBVIOUS
  <2>1. MAX_ALIGN - m <= MAX_ALIGN - a
    BY <1>3, <1>4
  <2>2. a \in Int /\ m \in Int
    OBVIOUS
  <2> HIDE DEF T
  <2> QED  BY <1>1, <2>1, <2>2
<1>6. \E a \in 1..MAX_ALIGN :
        /\ MAX_ALIGN % a = 0 /\ size % a = 0
        /\ \A b \in (a + 1)..MAX_ALIGN : ~(MAX_ALIGN % b = 0 /\ size % b = 0)
  <2>1. ASSUME NEW b \in (m + 1)..MAX_ALIGN, MAX_ALIGN % b = 0, size % b = 0
        PROVE  FALSE
    <3>1. m \in Nat /\ b \in 1..MAX_ALIGN /\ b > m
      BY <1>1
    <3>2. b \in T
      BY <2>1, <3>1
    <3> QED  BY <1>5, <3>1, <3>2
  <2> QED  BY <2>1
<1> DEFINE a == MallocAlign(size)
<1>7. /\ a \in 1..MAX_ALIGN /\ MAX_ALIGN % a = 0 /\ size % a = 0
      /\ \A b \in (a + 1)..MAX_ALIGN : ~(MAX_ALIGN % b = 0 /\ size % b = 0)
  BY <1>6 DEF MallocAlign
<1> HIDE DEF a
<1>8. a \in Alignments
  BY <1>7 DEF Alignments
<1>9. ASSUME NEW b \in Alignments, size % b = 0
      PROVE  b <= a
  <2>1. SUFFICES ASSUME b > a PROVE FALSE
    BY <1>7, AlignmentFacts
  <2>2. b \in (a + 1)..MAX_ALIGN /\ MAX_ALIGN % b = 0
    BY <1>1, <1>7, <2>1 DEF Alignments
  <2> QED  BY <1>7, <1>9, <2>2
<1> QED  BY <1>7, <1>8, <1>9 DEF a

\* A request without a prefix, and one with a word before the object.
LEMMA PlainRequest ==
  ASSUME NEW a \in Alignments \cup {0}, NEW s \in Nat, NEW q,
         q = [pre_align |-> 1, pre_size |-> 0, align |-> a, size |-> s]
  PROVE  /\ IsRequest(q) /\ q.pre_size = 0 /\ q.size = s /\ q.align = a
<1>1. 1 \in Alignments
  BY AlignmentFacts
<1>2. 0 % 1 = 0
  OBVIOUS
<1>3. /\ q \in [pre_align : Alignments \cup {0}, pre_size : Nat, align : Alignments \cup {0}, size : Nat]
      /\ q.pre_align = 1 /\ q.pre_size = 0 /\ q.size = s /\ q.align = a
  BY <1>1
<1> QED  BY <1>2, <1>3 DEF IsRequest

\* The request for a length or a tag before the data.
LEMMA WordRequest ==
  ASSUME NEW a \in Alignments \cup {0}, NEW s \in Nat, NEW q,
         q = [pre_align |-> WordSize, pre_size |-> WordSize, align |-> a, size |-> s]
  PROVE  /\ IsRequest(q) /\ q.pre_size = WordSize /\ q.size = s /\ q.align = a
<1>1. WordSize \in Alignments /\ WordSize \in Nat \ {0} /\ WordSize % WordSize = 0
  BY AlignmentFacts
<1>2. /\ q \in [pre_align : Alignments \cup {0}, pre_size : Nat, align : Alignments \cup {0}, size : Nat]
      /\ q.pre_align = WordSize /\ q.pre_size = WordSize /\ q.size = s /\ q.align = a
  BY <1>1
<1> QED  BY <1>1, <1>2 DEF IsRequest

\* What gu_make_seq asks for.
LEMMA SeqRequestIs ==
  ASSUME NEW size \in Nat, NEW len \in Nat
  PROVE  /\ IsRequest(SeqRequest(size, len)) /\ SeqRequest(size, len).size = size
         /\ len >= WordSize => SeqRequest(size, len).pre_size = WordSize
                               /\ SeqRequest(size, len).align = 0
         /\ len < WordSize => SeqRequest(size, len).align = MallocAlign(size)
<1>1. WordSize \in Nat \ {0}
  BY AlignmentFacts
<1>2. PICK q : q = SeqRequest(size, len)
  OBVIOUS
<1>3. CASE len < WordSize
  <2>1. MallocAlign(size) \in Alignments \cup {0}
    BY MallocAlignIs
  <2>2. q = [pre_align |-> 1, pre_size |-> 0, align |-> MallocAlign(size), size |-> size]
    BY <1>2, <1>3 DEF SeqRequest
  <2>3. IsRequest(q) /\ q.size = size /\ q.align = MallocAlign(size)
    BY <2>1, <2>2, PlainRequest
  <2>4. ~(len >= WordSize)
    BY <1>1, <1>3
  <2> QED  BY <1>2, <2>3, <2>4
<1>4. CASE ~(len < WordSize)
  <2>1. q = [pre_align |-> WordSize, pre_size |-> WordSize, align |-> 0, size |-> size]
    BY <1>2, <1>4 DEF SeqRequest
  <2>2. IsRequest(q) /\ q.size = size /\ q.align = 0 /\ q.pre_size = WordSize
    BY <2>1, WordRequest
  <2> QED  BY <1>2, <1>4, <2>2
<1> QED  BY <1>3, <1>4
-----------------------------------------------------------------------------
(* Sequences, strings and variants as clients of the pool *)

Words ==
  [k : {"string", "variant"}, of : Nat \cup Variants, w : Nat \cup {NULL}, obj : Nat,
   byte : Nat, prefix : Nat]

\* The inductive invariant of the whole, without what the words say.
TagInv ==
  /\ BufInv
  /\ seqs \in Seq([len : Nat, obj : Nat])
  /\ words \in Seq(Words)

\* Objects stay where they are.
AllocsGrow ==
  /\ Len(allocs) \in Nat /\ Len(allocs') \in Nat /\ Len(allocs) <= Len(allocs')
  /\ \A i \in 1..Len(allocs) : allocs'[i] = allocs[i]

\* If no object is allocated, all that there were are there.
LEMMA AllocsUnchanged ==
  ASSUME BufInv, allocs' = allocs
  PROVE  AllocsGrow
  BY PoolTyped DEF BufInv, AllocsGrow

\* A client that asks the pool for one object.
LEMMA ClientStep ==
  ASSUME BufInv, NEW q, IsRequest(q), Alloc(Normal(q), pool.finalizers), UNCHANGED <<bufs, making>>
  PROVE  /\ BufInv' /\ AllocsGrow /\ Len(allocs') = Len(allocs) + 1
         /\ Meets(allocs'[Len(allocs')], Normal(q))
<1>1. PoolInv' /\ BufsApart(bufs)' /\ BufsSound(bufs)' /\ phase' = "live"
  BY BufInvAlloc
<1>2. MakingSound'
  BY <1>1 DEF BufInv, MakingSound
<1>3. /\ Len(allocs) \in Nat /\ Len(allocs') = Len(allocs) + 1
      /\ \A i \in 1..Len(allocs) : allocs'[i] = allocs[i]
      /\ Meets(allocs'[Len(allocs) + 1], Normal(q))
  BY AllocGrows DEF BufInv
<1>4. Len(allocs') \in Nat /\ Len(allocs) <= Len(allocs')
  BY <1>3
<1>5. Meets(allocs'[Len(allocs')], Normal(q))
  BY <1>3
<1> QED  BY <1>1, <1>2, <1>3, <1>4, <1>5 DEF BufInv, AllocsGrow

\* A step that concerns neither the pool nor the buffers.
LEMMA QuietStep ==
  ASSUME BufInv, UNCHANGED vars, UNCHANGED <<bufs, making>>
  PROVE  BufInv' /\ AllocsGrow
<1>1. UNCHANGED <<heap, nblocks, pool, allocs, phase, ran>>
  BY DEF vars
<1>2. PoolInv'
  BY PoolInvStutter DEF BufInv
<1>3. Fins' = Fins /\ Owned' = Owned
  BY <1>1 DEF Fins, Elements, Owned, Chunks
<1>4. BufsApart(bufs)' /\ MakingSound'
  BY <1>1 DEF BufInv, BufsApart, MakingSound
<1>5. BufsSound(bufs)'
  BY <1>1, <1>3 DEF BufInv, BufsSound, BufInPool, HeapExact, DataBlocks
<1>6. AllocsGrow
  BY <1>1, AllocsUnchanged
<1> QED  BY <1>2, <1>4, <1>5, <1>6 DEF BufInv

\* gu_buf_freeze: what is allocated meets the request of gu_make_seq.
LEMMA FreezeStep ==
  ASSUME BufInv, seqs \in Seq([len : Nat, obj : Nat]), NEW i \in DOMAIN bufs, gu_buf_freeze(i)
  PROVE  /\ BufInv' /\ AllocsGrow
         /\ \E s \in [len : Nat, obj : Nat] :
              /\ seqs' = Append(seqs, s)
              /\ s.len > 0 =>
                   /\ s.obj \in 1..Len(allocs')
                   /\ \E size \in Nat : size % WordSize = 0
                                        /\ Meets(allocs'[s.obj], Normal(SeqRequest(size, s.len)))
<1>1. bufs \in Seq(Bufs) /\ i \in 1..Len(bufs)
  BY LenProperties DEF BufInv, BufsApart
<1>2. bufs[i] \in Bufs
  BY <1>1, ElementOfSeq
<1>3. PICK len \in Nat, es \in Nat \ {0} : len = bufs[i].len /\ es = bufs[i].elem_size
  BY <1>2, GuBufAssumption DEF Bufs
<1>4. /\ es % WordSize = 0 /\ UNCHANGED <<bufs, making>>
      /\ IF len = 0 THEN seqs' = Append(seqs, [len |-> 0, obj |-> 0]) /\ UNCHANGED vars
         ELSE /\ Alloc(Normal(SeqRequest(es * len, len)), pool.finalizers)
              /\ seqs' = Append(seqs, [len |-> len, obj |-> Len(allocs) + 1])
  BY <1>3 DEF gu_buf_freeze
<1>5. CASE len = 0
  <2>1. BufInv' /\ AllocsGrow
    BY <1>4, <1>5, QuietStep
  <2>2. PICK s : s = [len |-> 0, obj |-> 0]
    OBVIOUS
  <2>3. s \in [len : Nat, obj : Nat] /\ seqs' = Append(seqs, s) /\ ~(s.len > 0)
    BY <1>4, <1>5, <2>2
  <2> QED  BY <2>1, <2>3
<1>6. CASE len # 0
  <2>1. PICK size : size = es * len
    OBVIOUS
  <2>2. WordSize \in Nat \ {0}
    BY AlignmentFacts
  <2>3. size \in Nat /\ size % WordSize = 0
    <3>0. es \in Int
      OBVIOUS
    <3>1. PICK k \in Int : es = WordSize * k
      BY <1>4, <2>2, <3>0, MultipleHasFactor
    <3>2. size = WordSize * (k * len) /\ k * len \in Int
      BY <2>1, <2>2, <3>1
    <3>3. (WordSize * (k * len)) % WordSize = 0
      BY <2>2, <3>2, ProductIsMultiple
    <3>4. size \in Nat
      BY <2>1
    <3> QED  BY <3>2, <3>3, <3>4
  <2>4. IsRequest(SeqRequest(size, len))
    BY <2>3, SeqRequestIs
  <2>5. Alloc(Normal(SeqRequest(size, len)), pool.finalizers)
    BY <1>4, <1>6, <2>1
  <2>6. /\ BufInv' /\ AllocsGrow /\ Len(allocs') = Len(allocs) + 1
        /\ Meets(allocs'[Len(allocs')], Normal(SeqRequest(size, len)))
    BY <1>4, <2>4, <2>5, ClientStep
  <2>7. PICK s : s = [len |-> len, obj |-> Len(allocs')]
    OBVIOUS
  <2>8. Len(allocs') \in 1..Len(allocs') /\ Len(allocs') \in Nat
    BY <2>6 DEF AllocsGrow
  <2>9. seqs' = Append(seqs, s) /\ s \in [len : Nat, obj : Nat] /\ s.len = len /\ s.obj = Len(allocs')
    BY <1>4, <1>6, <2>6, <2>7, <2>8
  <2> QED  BY <2>3, <2>6, <2>8, <2>9
<1> QED  BY <1>5, <1>6

\* Every step of the buffers.
LEMMA BufNextStep ==
  ASSUME BufInv, seqs \in Seq([len : Nat, obj : Nat]), BufNext
  PROVE  BufInv' /\ AllocsGrow /\ seqs' \in Seq([len : Nat, obj : Nat])
<1>1. CASE gu_make_buf
  <2>1. BufInv'
    BY <1>1, BufInvMake
  <2>2. AllocsGrow
    <3>1. /\ Len(allocs) \in Nat /\ Len(allocs') = Len(allocs) + 1
          /\ \A i \in 1..Len(allocs) : allocs'[i] = allocs[i]
      BY <1>1, AllocGrows, GuBufAssumption DEF BufInv, gu_make_buf
    <3> QED  BY <3>1 DEF AllocsGrow
  <2> QED  BY <1>1, <2>1, <2>2 DEF gu_make_buf
<1>2. CASE RegisterBuf
  <2>1. BufInv'
    BY <1>2, BufInvRegister
  <2>2. AllocsGrow
    <3>1. /\ Len(allocs) \in Nat /\ Len(allocs') = Len(allocs) + 1
          /\ \A i \in 1..Len(allocs) : allocs'[i] = allocs[i]
      BY <1>2, AllocGrows, PoolAssumption DEF BufInv, RegisterBuf, gu_pool_finally
    <3> QED  BY <3>1 DEF AllocsGrow
  <2> QED  BY <1>2, <2>1, <2>2 DEF RegisterBuf
<1>3. CASE BufStep
  <2>1. PICK i \in DOMAIN bufs :
          (\E n \in Counts : gu_buf_extend_n(i, n) \/ gu_buf_trim_n(i, n)) \/ gu_buf_freeze(i)
    BY <1>3 DEF BufStep
  <2>2. ASSUME NEW n \in Counts, gu_buf_extend_n(i, n) \/ gu_buf_trim_n(i, n)
        PROVE  BufInv' /\ AllocsGrow /\ seqs' = seqs
    <3>1. BufInv'
      BY <2>2, BufInvExtend, BufInvTrim
    <3>2. allocs' = allocs /\ seqs' = seqs
      BY <2>2 DEF gu_buf_extend_n, gu_buf_trim_n
    <3> QED  BY <3>1, <3>2, AllocsUnchanged
  <2>3. ASSUME gu_buf_freeze(i)
        PROVE  BufInv' /\ AllocsGrow /\ seqs' \in Seq([len : Nat, obj : Nat])
    <3>1. /\ BufInv' /\ AllocsGrow
          /\ \E s \in [len : Nat, obj : Nat] : seqs' = Append(seqs, s)
      BY <2>3, FreezeStep
    <3>2. PICK s \in [len : Nat, obj : Nat] : seqs' = Append(seqs, s)
      BY <3>1
    <3> QED  BY <3>1, <3>2, AppendProperties
  <2> QED  BY <2>1, <2>2, <2>3
<1>4. CASE BufFinalizer
  <2>1. BufInv'
    BY <1>4, BufInvFini
  <2>2. allocs' = allocs /\ seqs' = seqs
    BY <1>4 DEF BufFinalizer, RunFinalizer
  <2> QED  BY <2>1, <2>2, AllocsUnchanged
<1>5. CASE PoolStep
  <2>1. BufInv' /\ seqs' = seqs
    BY <1>5, BufInvPool DEF PoolStep
  <2>2. AllocsGrow
    <3>1. CASE gu_malloc_prefixed \/ gu_pool_finally
      <4>1. /\ Len(allocs) \in Nat /\ Len(allocs') = Len(allocs) + 1
            /\ \A i \in 1..Len(allocs) : allocs'[i] = allocs[i]
        BY <3>1, AllocGrows, PoolAssumption DEF BufInv, gu_malloc_prefixed, gu_pool_finally
      <4> QED  BY <4>1 DEF AllocsGrow
    <3>2. CASE gu_pool_free \/ FreeChunk \/ FreePool
      <4>1. allocs' = allocs
        BY <3>2 DEF gu_pool_free, FreeChunk, FreePool
      <4> QED  BY <4>1, AllocsUnchanged
    <3> QED  BY <1>5, <3>1, <3>2 DEF PoolStep
  <2> QED  BY <2>1, <2>2
<1> QED  BY <1>1, <1>2, <1>3, <1>4, <1>5 DEF BufNext
\* An object that meets a request without a prefix.
LEMMA PlainMeets ==
  ASSUME NEW a \in Alignments, NEW s \in Nat, NEW q,
         q = [pre_align |-> 1, pre_size |-> 0, align |-> a, size |-> s],
         NEW o, Meets(o, Normal(q))
  PROVE  o.addr \in Nat /\ o.addr % a = 0 /\ o.lo = o.addr /\ o.hi = o.addr + s
<1>1. IsRequest(q) /\ q.pre_size = 0 /\ q.size = s /\ q.align = a
  BY PlainRequest
<1>2. a # 0
  BY AlignmentFacts
<1>3. /\ Normal(q).pre_size = 0 /\ Normal(q).size = s /\ Normal(q).align = a
  BY <1>1, <1>2, NormalIsNormal
<1>4. /\ o.addr \in Nat /\ o.lo \in Nat /\ o.addr % a = 0
      /\ o.addr = o.lo + 0 /\ o.hi = o.addr + s
  BY <1>3 DEF Meets, Objects
<1>5. o.lo = o.addr
  BY <1>4
<1> QED  BY <1>4, <1>5

\* gu_utf8_string
LEMMA StringStep ==
  ASSUME BufInv, UNCHANGED <<bufs, making>>, NEW of \in Nat \cup Variants, NEW len \in Nat,
         gu_utf8_string(of, len)
  PROVE  /\ BufInv' /\ AllocsGrow
         /\ \E x \in Words :
              /\ words' = Append(words, x) /\ x.k = "string" /\ x.of = of
              /\ \/ len < WordSize /\ x.w = 2 * len + 1 /\ x.obj = 0 /\ x.byte = 0
                 \/ /\ len \in WordSize..255 /\ x.w \in Nat /\ x.w % 2 = 0 /\ x.byte = len
                    /\ x.obj = Len(allocs') /\ Len(allocs') = Len(allocs) + 1
                    /\ allocs'[x.obj].addr = x.w
                 \/ len >= 256
<1>1. WordSize \in Nat \ {0} /\ 1 \in Alignments /\ 2 \in Alignments
  BY AlignmentFacts, TaggedAssumption
<1>2. CASE len < WordSize
  <2>1. words' = Append(words, String(of, 2 * len + 1, 0, 0, 0)) /\ UNCHANGED vars
    BY <1>2 DEF gu_utf8_string
  <2>2. BufInv' /\ AllocsGrow
    BY <2>1, QuietStep
  <2>3. PICK x : x = String(of, 2 * len + 1, 0, 0, 0)
    OBVIOUS
  <2>4. PICK w \in Nat : w = 2 * len + 1
    OBVIOUS
  <2>5. x \in Words /\ x.k = "string" /\ x.of = of /\ x.w = 2 * len + 1 /\ x.obj = 0 /\ x.byte = 0
    BY <2>3, <2>4 DEF String, Words
  <2> QED  BY <1>2, <2>1, <2>2, <2>3, <2>5
<1>3. CASE ~(len < WordSize) /\ len < 256
  <2>1. PICK q : q = [pre_align |-> 1, pre_size |-> 0, align |-> 2, size |-> 1 + len]
    OBVIOUS
  <2>2. /\ Alloc(Normal(q), pool.finalizers)
        /\ words' = Append(words, String(of, NewAddr, Len(allocs'), len, 0))
    BY <1>3, <2>1 DEF gu_utf8_string
  <2>3. 1 + len \in Nat /\ 2 \in Alignments \cup {0}
    BY <1>1
  <2>4. IsRequest(q)
    BY <2>1, <2>3, PlainRequest
  <2>5. /\ BufInv' /\ AllocsGrow /\ Len(allocs') = Len(allocs) + 1
        /\ Meets(allocs'[Len(allocs')], Normal(q))
    BY <2>2, <2>4, ClientStep
  <2>6. PICK n, o : n = Len(allocs') /\ o = allocs'[Len(allocs')]
    OBVIOUS
  <2>7. o.addr \in Nat /\ o.addr % 2 = 0
    BY <1>1, <2>1, <2>3, <2>5, <2>6, PlainMeets
  <2>8. n \in Nat
    BY <2>5, <2>6 DEF AllocsGrow
  <2>9. PICK x : x = String(of, o.addr, n, len, 0)
    OBVIOUS
  <2>10. words' = Append(words, x)
    BY <2>2, <2>6, <2>9 DEF NewAddr
  <2>11. /\ x \in Words /\ x.k = "string" /\ x.of = of /\ x.w = o.addr /\ x.obj = n /\ x.byte = len
    BY <2>7, <2>8, <2>9 DEF String, Words
  <2>12. len \in WordSize..255
    BY <1>1, <1>3
  <2> QED  BY <2>5, <2>6, <2>7, <2>10, <2>11, <2>12
<1>4. CASE ~(len < WordSize) /\ ~(len < 256)
  <2>1. PICK q : q = [pre_align |-> WordSize, pre_size |-> WordSize, align |-> 1, size |-> 1 + len]
    OBVIOUS
  <2>2. /\ Alloc(Normal(q), pool.finalizers)
        /\ words' = Append(words, String(of, NULL, Len(allocs'), 0, len))
    BY <1>4, <2>1 DEF gu_utf8_string
  <2>3. 1 + len \in Nat /\ 1 \in Alignments \cup {0}
    BY <1>1
  <2>4. IsRequest(q)
    BY <2>1, <2>3, WordRequest
  <2>5. BufInv' /\ AllocsGrow
    BY <2>2, <2>4, ClientStep
  <2>6. PICK n \in Nat : n = Len(allocs')
    BY <2>5 DEF AllocsGrow
  <2>7. PICK x : x = String(of, NULL, n, 0, len)
    OBVIOUS
  <2>8. x \in Words /\ x.k = "string" /\ x.of = of
    BY <2>7 DEF String, Words
  <2>9. len >= 256
    BY <1>4
  <2> QED  BY <2>2, <2>5, <2>6, <2>7, <2>8, <2>9
<1> QED  BY <1>2, <1>3, <1>4

\* What gu_alloc_variant promises of the word x that it makes of v, in object o.
VariantIn(x, o) ==
  /\ gu_variant_tag(x) = x.of.tag
  /\ gu_variant_data(x) % x.of.align = 0
  /\ gu_variant_data(x) + x.of.size = o.hi
  /\ x.byte # 0 => gu_variant_data(x) > o.lo

\* gu_alloc_variant
LEMMA VariantStep ==
  ASSUME BufInv, UNCHANGED <<bufs, making>>, NEW v \in Variants, gu_alloc_variant(v)
  PROVE  /\ BufInv' /\ AllocsGrow /\ Len(allocs') = Len(allocs) + 1
         /\ \E x \in Words :
              /\ words' = Append(words, x) /\ x.k = "variant" /\ x.of = v
              /\ x.obj = Len(allocs') /\ VariantIn(x, allocs'[x.obj])
<1>1. WordSize \in Nat \ {0} /\ WordSize \in Alignments
  BY AlignmentFacts
<1>2. PICK tag \in 0..255, size \in Nat, va \in Alignments : tag = v.tag /\ size = v.size /\ va = v.align
  BY TaggedAssumption
<1>3. va \in Nat \ {0} /\ tag \in Nat
  BY <1>2, AlignmentFacts
<1>4. PICK al : al = VariantAlign(v.align)
  OBVIOUS
\* The alignment is that of a word, and that of the type.
<1>5. al \in Alignments /\ al % WordSize = 0 /\ al % va = 0
  <2>1. CASE va < WordSize
    <3>1. al = WordSize
      BY <1>2, <1>4, <2>1 DEF VariantAlign
    <3>2. va <= WordSize /\ WordSize <= WordSize
      BY <1>1, <1>3, <2>1
    <3> QED  BY <1>1, <1>2, <3>1, <3>2, LargerIsMultiple
  <2>2. CASE ~(va < WordSize)
    <3>1. al = va
      BY <1>2, <1>4, <2>2 DEF VariantAlign
    <3>2. WordSize <= va /\ va <= va
      BY <1>1, <1>3, <2>2
    <3> QED  BY <1>1, <1>2, <3>1, <3>2, LargerIsMultiple
  <2> QED  BY <2>1, <2>2
<1>6. al \in Nat \ {0}
  BY <1>5, AlignmentFacts
<1>7. CASE tag > WordSize - 2
  <2>1. PICK q : q = [pre_align |-> 1, pre_size |-> 0, align |-> al, size |-> al + size]
    OBVIOUS
  <2>2. /\ Alloc(Normal(q), pool.finalizers)
        /\ words' = Append(words, [k |-> "variant", of |-> v, w |-> NewAddr + al, obj |-> Len(allocs'),
                                   byte |-> tag, prefix |-> 0])
    BY <1>2, <1>4, <1>7, <2>1 DEF gu_alloc_variant
  <2>3. al + size \in Nat /\ al \in Alignments \cup {0}
    BY <1>5, <1>6
  <2>4. IsRequest(q)
    BY <2>1, <2>3, PlainRequest
  <2>5. /\ BufInv' /\ AllocsGrow /\ Len(allocs') = Len(allocs) + 1
        /\ Meets(allocs'[Len(allocs')], Normal(q))
    BY <2>2, <2>4, ClientStep
  <2>6. PICK n, o : n = Len(allocs') /\ o = allocs'[Len(allocs')]
    OBVIOUS
  <2>7. o.addr \in Nat /\ o.addr % al = 0 /\ o.lo = o.addr /\ o.hi = o.addr + (al + size)
    BY <1>5, <2>1, <2>3, <2>5, <2>6, PlainMeets
  <2>8. PICK w : w = o.addr + al
    OBVIOUS
  <2>9. w \in Nat /\ w \in Int /\ w > o.lo /\ w + size = o.hi
    BY <1>6, <2>7, <2>8
  <2>10. w % al = 0
    <3>1. al % al = 0 /\ al \in Int /\ o.addr \in Int
      BY <1>5, <1>6, <2>7, AlignmentFacts
    <3> QED  BY <1>6, <2>7, <2>8, <3>1, SumIsMultiple
  <2>11. w % WordSize = 0 /\ w % va = 0
    BY <1>1, <1>3, <1>5, <1>6, <2>9, <2>10, MultipleOfMultiple
  <2>12. PICK x : x = [k |-> "variant", of |-> v, w |-> w, obj |-> n, byte |-> tag, prefix |-> 0]
    OBVIOUS
  <2>13. words' = Append(words, x)
    BY <2>2, <2>6, <2>8, <2>12 DEF NewAddr
  <2>14. n \in Nat
    BY <2>5, <2>6 DEF AllocsGrow
  <2>15. /\ x \in Words /\ x.k = "variant" /\ x.of = v /\ x.w = w /\ x.obj = n /\ x.byte = tag
    BY <1>3, <2>9, <2>12, <2>14 DEF Words
  <2>16. gu_variant_tag(x) = tag /\ gu_variant_data(x) = w
    BY <2>9, <2>11, <2>15 DEF gu_variant_tag, gu_variant_data
  <2>17. VariantIn(x, o)
    BY <1>2, <2>9, <2>11, <2>15, <2>16 DEF VariantIn
  <2> QED  BY <2>5, <2>6, <2>13, <2>15, <2>17
<1>8. CASE ~(tag > WordSize - 2)
  <2>1. PICK q : q = [pre_align |-> 1, pre_size |-> 0, align |-> al, size |-> size]
    OBVIOUS
  <2>2. /\ Alloc(Normal(q), pool.finalizers)
        /\ words' = Append(words, [k |-> "variant", of |-> v, w |-> NewAddr + tag + 1, obj |-> Len(allocs'),
                                   byte |-> 0, prefix |-> 0])
    BY <1>2, <1>4, <1>8, <2>1 DEF gu_alloc_variant
  <2>3. al \in Alignments \cup {0}
    BY <1>5
  <2>4. IsRequest(q)
    BY <2>1, <2>3, PlainRequest
  <2>5. /\ BufInv' /\ AllocsGrow /\ Len(allocs') = Len(allocs) + 1
        /\ Meets(allocs'[Len(allocs')], Normal(q))
    BY <2>2, <2>4, ClientStep
  <2>6. PICK n, o : n = Len(allocs') /\ o = allocs'[Len(allocs')]
    OBVIOUS
  <2>7. o.addr \in Nat /\ o.addr % al = 0 /\ o.hi = o.addr + size
    BY <1>5, <2>1, <2>5, <2>6, PlainMeets
  <2>8. PICK a, w : a \in Nat /\ a = o.addr /\ w = a + tag + 1
    BY <2>7
  <2>9. tag + 1 \in 0..(WordSize - 1) /\ tag + 1 # 0 /\ w \in Nat
    BY <1>1, <1>3, <1>8, <2>8
  <2>10. a % WordSize = 0 /\ a % va = 0
    <3>1. a \in Int /\ a % al = 0
      BY <2>7, <2>8
    <3> QED  BY <1>1, <1>3, <1>5, <1>6, <3>1, MultipleOfMultiple
  <2>11. w % WordSize = tag + 1
    <3>1. PICK k \in Int : a = WordSize * k
      <4>1. a \in Int /\ WordSize \in Nat \ {0} /\ a % WordSize = 0
        BY <1>1, <2>8, <2>10
      <4> QED  BY <4>1, MultipleHasFactor
    <3>2. (WordSize * k + (tag + 1)) % WordSize = tag + 1
      BY <1>1, <2>9, RemainderIs
    <3>3. w = WordSize * k + (tag + 1)
      BY <1>1, <1>3, <2>8, <3>1
    <3> QED  BY <3>2, <3>3
  <2>12. PICK x : x = [k |-> "variant", of |-> v, w |-> w, obj |-> n, byte |-> 0, prefix |-> 0]
    OBVIOUS
  <2>13. words' = Append(words, x)
    BY <2>2, <2>6, <2>8, <2>12 DEF NewAddr
  <2>14. n \in Nat
    BY <2>5, <2>6 DEF AllocsGrow
  <2>15. /\ x \in Words /\ x.k = "variant" /\ x.of = v /\ x.w = w /\ x.obj = n /\ x.byte = 0
    BY <2>9, <2>12, <2>14 DEF Words
  <2>16. gu_variant_tag(x) = tag /\ gu_variant_data(x) = a
    <3>1. gu_variant_tag(x) = (tag + 1) - 1
      BY <2>9, <2>11, <2>15 DEF gu_variant_tag
    <3>2. gu_variant_data(x) = w - (tag + 1)
      BY <2>11, <2>15 DEF gu_variant_data
    <3>3. (tag + 1) - 1 = tag /\ w - (tag + 1) = a
      BY <1>3, <2>8
    <3> QED  BY <3>1, <3>2, <3>3
  <2>17. VariantIn(x, o)
    BY <1>2, <2>7, <2>8, <2>10, <2>15, <2>16 DEF VariantIn
  <2> QED  BY <2>5, <2>6, <2>13, <2>15, <2>17
<1> QED  BY <1>7, <1>8
-----------------------------------------------------------------------------
(* The whole *)

\* gu_string_copy: the same word, or a new string.
LEMMA CopyStep ==
  ASSUME BufInv, UNCHANGED <<bufs, making>>, words \in Seq(Words), NEW i \in 1..Len(words),
         gu_string_copy(i)
  PROVE  \/ gu_string_is_stable(words[i]) /\ words' = Append(words, words[i]) /\ UNCHANGED vars
         \/ /\ ~gu_string_is_stable(words[i]) /\ gu_string_open(words[i]) \in Nat
            /\ gu_utf8_string(words[i].of, gu_string_open(words[i]))
<1>1. words[i] \in Words
  BY ElementOfSeq
<1>2. CASE gu_string_is_stable(words[i])
  BY <1>2 DEF gu_string_copy
<1>3. CASE ~gu_string_is_stable(words[i])
  BY <1>1, <1>3 DEF gu_string_copy, gu_string_open, Words
<1> QED  BY <1>2, <1>3

\* Every step of the specification keeps the invariant.
LEMMA TagInvStep ==
  ASSUME TagInv, TagNext
  PROVE  TagInv' /\ AllocsGrow
<1>1. BufInv /\ seqs \in Seq([len : Nat, obj : Nat]) /\ words \in Seq(Words)
  BY DEF TagInv
<1>2. CASE BufNext /\ UNCHANGED words
  BY <1>1, <1>2, BufNextStep DEF TagInv
<1>3. CASE NewWord
  <2>1. UNCHANGED <<bufs, making, seqs>>
    BY <1>3 DEF NewWord
  <2>2. ASSUME NEW x \in Words, words' = Append(words, x)
        PROVE  words' \in Seq(Words)
    BY <1>1, <2>2, AppendProperties
  <2>3. ASSUME NEW of \in Nat \cup Variants, NEW len \in Nat, gu_utf8_string(of, len)
        PROVE  BufInv' /\ AllocsGrow /\ words' \in Seq(Words)
    BY <1>1, <2>1, <2>2, <2>3, StringStep
  <2>4. CASE \E len \in StrLens : gu_utf8_string(len, len)
    <3>1. PICK len \in StrLens : gu_utf8_string(len, len)
      BY <2>4
    <3>2. len \in Nat /\ len \in Nat \cup Variants
      BY TaggedAssumption
    <3>3. BufInv' /\ AllocsGrow /\ words' \in Seq(Words)
      BY <2>3, <3>1, <3>2
    <3> QED  BY <1>1, <2>1, <3>3 DEF TagInv
  <2>5. CASE \E i \in DOMAIN words : gu_string_copy(i)
    <3>1. PICK i \in 1..Len(words) : gu_string_copy(i)
      BY <1>1, <2>5, LenProperties
    <3>2. words[i] \in Words
      BY <1>1, ElementOfSeq
    <3>4. words[i].of \in Nat \cup Variants
      BY <3>2 DEF Words
    <3>3. BufInv' /\ AllocsGrow /\ words' \in Seq(Words)
      BY <1>1, <2>1, <2>2, <2>3, <3>1, <3>2, <3>4, CopyStep, QuietStep
    <3> QED  BY <1>1, <2>1, <3>3 DEF TagInv
  <2>6. CASE \E v \in Variants : gu_alloc_variant(v)
    <3>1. PICK v \in Variants : gu_alloc_variant(v)
      BY <2>6
    <3>2. BufInv' /\ AllocsGrow /\ words' \in Seq(Words)
      BY <1>1, <2>1, <2>2, <3>1, VariantStep
    <3> QED  BY <1>1, <2>1, <3>2 DEF TagInv
  <2> QED  BY <1>3, <2>4, <2>5, <2>6 DEF NewWord
<1> QED  BY <1>2, <1>3 DEF TagNext

\* When nothing happens the invariant stays.
LEMMA TagInvStutter ==
  ASSUME TagInv, UNCHANGED tagVars
  PROVE  TagInv' /\ AllocsGrow
<1>1. UNCHANGED vars /\ UNCHANGED <<bufs, making, seqs, words>>
  BY DEF tagVars, bufVars, vars
<1>2. BufInv' /\ AllocsGrow
  BY <1>1, QuietStep DEF TagInv
<1> QED  BY <1>1, <1>2 DEF TagInv

\* The invariant holds at first.
LEMMA TagInvInit == TagInit => TagInv
<1> SUFFICES ASSUME TagInit
             PROVE  TagInv
  OBVIOUS
<1>1. Init /\ bufs = <<>> /\ making = NULL /\ seqs = <<>> /\ words = <<>>
  BY DEF TagInit, BufInit
<1>2. PoolInv
  BY <1>1, PoolInvInit
<1>3. bufs \in Seq(Bufs) /\ Len(bufs) = 0 /\ 1..0 = {}
  BY <1>1
<1>4. BufsApart(bufs) /\ MakingSound
  BY <1>1, <1>3 DEF BufsApart, MakingSound
<1>5. DOMAIN heap = {0} /\ phase = "live"
  BY <1>1 DEF Init
<1>6. BufsSound(bufs)
  BY <1>3, <1>5 DEF BufsSound, HeapExact, Owned
<1> QED  BY <1>1, <1>2, <1>4, <1>6 DEF TagInv, BufInv

\* The invariant of a pool with sequences and words holds.
LEMMA TagInvHolds == TagSpec => []TagInv
<1>1. TagInv /\ [TagNext]_tagVars => TagInv'
  BY TagInvStep, TagInvStutter
<1> QED  BY <1>1, TagInvInit, PTL DEF TagSpec

\* With buffers, sequences, strings and variants as its clients, and a new block for
\* every realloc of a buffer, the pool keeps its promises: no object overlaps another
\* one, lies outside its block or is misaligned, the assertions of mem.c hold, and the
\* finalizers run once and in reverse order.
THEOREM PoolServesClients ==
  TagSpec => [](/\ ObjectsDisjoint /\ ObjectsInBlocks /\ ObjectsAligned
                /\ EdgesInBlock /\ FinalizersReversed)
<1>1. TagInv => /\ ObjectsDisjoint /\ ObjectsInBlocks /\ ObjectsAligned
                /\ EdgesInBlock /\ FinalizersReversed
  BY OrderedThenReversed DEF TagInv, BufInv, PoolInv, IndInv
<1> QED  BY <1>1, TagInvHolds, PTL

\* However a buffer is grown, trimmed and grown again, its elements fit a block that
\* is there, and that neither the pool nor another buffer has.
THEOREM BuffersAlwaysFit == TagSpec => []BuffersFit
<1>1. TagInv => BuffersFit
  BY BufInvFits DEF TagInv
<1> QED  BY <1>1, TagInvHolds, PTL

\* gu_pool_free leaves no block behind, of the pool or of a buffer.
THEOREM EverythingReleased == TagSpec => []AllReleased
<1>1. TagInv => AllReleased
  BY BufInvReleases DEF TagInv
<1> QED  BY <1>1, TagInvHolds, PTL
-----------------------------------------------------------------------------
(* What is hidden in the words *)

\* The object of a sequence is one that meets the request of gu_make_seq.
SeqSound(s) ==
  s.len > 0 =>
    /\ s.obj \in 1..Len(allocs)
    /\ \E size \in Nat : size % WordSize = 0
                         /\ Meets(allocs[s.obj], Normal(SeqRequest(size, s.len)))

SeqsSound == \A i \in 1..Len(seqs) : SeqSound(seqs[i])

\* A sequence stays sound while its object stays.
LEMMA SeqSoundKept ==
  ASSUME AllocsGrow, NEW s, SeqSound(s)
  PROVE  SeqSound(s)'
<1> SUFFICES ASSUME s.len > 0
             PROVE  /\ s.obj \in 1..Len(allocs')
                    /\ \E size \in Nat : size % WordSize = 0
                                         /\ Meets(allocs'[s.obj], Normal(SeqRequest(size, s.len)))
  BY DEF SeqSound
<1>1. s.obj \in 1..Len(allocs) /\ s.obj \in 1..Len(allocs') /\ allocs'[s.obj] = allocs[s.obj]
  BY DEF SeqSound, AllocsGrow
<1> QED  BY <1>1 DEF SeqSound

\* No step of the buffers changes a sequence, and a new one is sound.
LEMMA SeqsStep ==
  ASSUME TagInv, BufNext
  PROVE  \/ seqs' = seqs
         \/ \E s \in [len : Nat, obj : Nat] : seqs' = Append(seqs, s) /\ SeqSound(s)'
<1>1. CASE BufStep
  <2>1. PICK i \in DOMAIN bufs :
          (\E n \in Counts : gu_buf_extend_n(i, n) \/ gu_buf_trim_n(i, n)) \/ gu_buf_freeze(i)
    BY <1>1 DEF BufStep
  <2>2. ASSUME gu_buf_freeze(i)
        PROVE  \E s \in [len : Nat, obj : Nat] : seqs' = Append(seqs, s) /\ SeqSound(s)'
    BY <2>2, FreezeStep DEF TagInv, SeqSound
  <2>3. ASSUME NEW n \in Counts, gu_buf_extend_n(i, n) \/ gu_buf_trim_n(i, n)
        PROVE  seqs' = seqs
    BY <2>3 DEF gu_buf_extend_n, gu_buf_trim_n
  <2> QED  BY <2>1, <2>2, <2>3
<1>2. CASE gu_make_buf \/ RegisterBuf \/ BufFinalizer \/ PoolStep
  BY <1>2 DEF gu_make_buf, RegisterBuf, BufFinalizer, PoolStep
<1> QED  BY <1>1, <1>2 DEF BufNext

\* A step keeps sequences sound.
LEMMA SeqsSoundStep ==
  ASSUME TagInv, SeqsSound, [TagNext]_tagVars
  PROVE  SeqsSound'
<1>1. AllocsGrow /\ seqs \in Seq([len : Nat, obj : Nat])
  BY TagInvStep, TagInvStutter DEF TagInv
<1>2. CASE seqs' = seqs
  <2>1. ASSUME NEW i \in 1..Len(seqs)
        PROVE  SeqSound(seqs[i])'
    <3>1. PICK t : t = seqs[i]
      OBVIOUS
    <3>2. SeqSound(t)
      BY <2>1, <3>1 DEF SeqsSound
    <3>3. SeqSound(t)'
      BY <1>1, <3>2, SeqSoundKept
    <3> QED  BY <1>2, <3>1, <3>3 DEF SeqSound
  <2> QED  BY <1>2, <2>1 DEF SeqsSound
<1>3. ASSUME NEW s \in [len : Nat, obj : Nat], seqs' = Append(seqs, s), SeqSound(s)'
      PROVE  SeqsSound'
  <2>1. PICK n \in Nat : n = Len(seqs)
    BY <1>1, LenProperties
  <2>2. /\ Len(seqs') = n + 1 /\ seqs'[n + 1] = s
        /\ \A i \in 1..n : seqs'[i] = seqs[i]
    BY <1>1, <1>3, <2>1, AppendProperties
  <2>3. ASSUME NEW i \in 1..Len(seqs')
        PROVE  SeqSound(seqs[i])'
    <3>1. CASE i \in 1..n
      <4>1. PICK t : t = seqs[i]
        OBVIOUS
      <4>2. SeqSound(t)
        BY <2>1, <3>1, <4>1 DEF SeqsSound
      <4>3. SeqSound(t)'
        BY <1>1, <4>2, SeqSoundKept
      <4> QED  BY <2>2, <3>1, <4>1, <4>3 DEF SeqSound
    <3>2. CASE i = n + 1
      BY <1>3, <2>2, <3>2 DEF SeqSound
    <3> QED  BY <2>1, <2>2, <2>3, <3>1, <3>2
  <2> QED  BY <2>3 DEF SeqsSound
<1>4. CASE BufNext
  BY <1>2, <1>3, <1>4, SeqsStep
<1>5. CASE NewWord \/ UNCHANGED tagVars
  BY <1>2, <1>5 DEF NewWord, tagVars, bufVars
<1> QED  BY <1>4, <1>5 DEF TagNext

\* The address of a sequence is that of a word, and a long one has its length in the
\* word before it.
LEMMA SeqSoundTaggable ==
  ASSUME NEW s \in [len : Nat, obj : Nat], SeqSound(s), s.len > 0
  PROVE  /\ allocs[s.obj].addr % WordSize = 0
         /\ s.len >= WordSize => allocs[s.obj].addr - allocs[s.obj].lo = WordSize
<1>1. WordSize \in Nat \ {0} /\ WordSize \in Alignments /\ MAX_ALIGN \in Alignments
      /\ MAX_ALIGN \in Nat \ {0} /\ WordSize <= MAX_ALIGN
  BY AlignmentFacts
<1>2. PICK size \in Nat : size % WordSize = 0
                          /\ Meets(allocs[s.obj], Normal(SeqRequest(size, s.len)))
  BY DEF SeqSound
<1>3. PICK len, o, q : len \in Nat /\ len = s.len /\ o = allocs[s.obj] /\ q = SeqRequest(size, len)
  OBVIOUS
<1>4. /\ IsRequest(q)
      /\ len >= WordSize => q.pre_size = WordSize /\ q.align = 0
      /\ len < WordSize => q.align = MallocAlign(size)
  BY <1>3, SeqRequestIs
<1>5. Normal(q).pre_size = q.pre_size /\ Normal(q).align = IF q.align = 0 THEN MAX_ALIGN ELSE q.align
  BY <1>4, NormalIsNormal
<1>6. o.addr \in Nat /\ o.lo \in Nat /\ o.addr % Normal(q).align = 0 /\ o.addr = o.lo + Normal(q).pre_size
  BY <1>2, <1>3 DEF Meets, Objects
<1>7. PICK al : al = Normal(q).align
  OBVIOUS
\* The size is a multiple of a word, so that the alignment derived from it is no less.
<1>8. al \in Alignments /\ WordSize <= al
  <2>1. CASE len >= WordSize
    BY <1>1, <1>4, <1>5, <1>7, <2>1
  <2>2. CASE len < WordSize
    <3>1. MallocAlign(size) \in Alignments /\ WordSize <= MallocAlign(size)
      BY <1>1, <1>2, MallocAlignIs
    <3>2. MallocAlign(size) # 0
      BY <3>1, AlignmentFacts
    <3> QED  BY <1>4, <1>5, <1>7, <2>2, <3>1, <3>2
  <2> QED  BY <1>1, <1>3, <2>1, <2>2
<1>9. al \in Nat \ {0} /\ al % WordSize = 0
  BY <1>1, <1>8, LargerIsMultiple, AlignmentFacts
<1>10. o.addr % WordSize = 0
  <2>1. PICK a \in Int : a = o.addr
    BY <1>6
  <2>2. a % al = 0
    BY <1>6, <1>7, <2>1
  <2>3. a % WordSize = 0
    BY <1>1, <1>9, <2>2, MultipleOfMultiple
  <2> QED  BY <2>1, <2>3
<1>11. ASSUME len >= WordSize
       PROVE  o.addr - o.lo = WordSize
  BY <1>1, <1>4, <1>5, <1>6, <1>11
<1> QED  BY <1>3, <1>10, <1>11

\* gu_buf_freeze hands out sequences whose pointer can be tagged: the alignment that
\* gu_malloc derives from the size of a short one is enough, and a long one has the
\* word before it to itself.
THEOREM SeqsAlwaysTaggable == TagSpec => []SeqsTaggable
<1>1. TagInit => SeqsSound
  BY DEF TagInit, BufInit, SeqsSound
<1>2. TagInv /\ SeqsSound => SeqsTaggable
  <2> SUFFICES ASSUME TagInv, SeqsSound, NEW i \in DOMAIN seqs, seqs[i].len > 0
               PROVE  /\ allocs[seqs[i].obj].addr % WordSize = 0
                      /\ seqs[i].len >= WordSize =>
                           allocs[seqs[i].obj].addr - allocs[seqs[i].obj].lo = WordSize
    BY DEF SeqsTaggable
  <2>1. seqs \in Seq([len : Nat, obj : Nat]) /\ i \in 1..Len(seqs)
    BY LenProperties DEF TagInv
  <2>2. seqs[i] \in [len : Nat, obj : Nat] /\ SeqSound(seqs[i])
    BY <2>1, ElementOfSeq DEF SeqsSound
  <2> QED  BY <2>2, SeqSoundTaggable
<1> QED  BY <1>1, <1>2, SeqsSoundStep, TagInvHolds, PTL DEF TagSpec

\* What a word says: a string shorter than a word is in the word, and a longer one in
\* an object at the address that the word is; a variant is in its object.
WordSound(x) ==
  /\ x.k = "string" =>
       \/ x.of \in 0..(WordSize - 1) /\ x.w = 2 * x.of + 1 /\ x.obj = 0 /\ x.byte = 0
       \/ /\ x.of \in WordSize..255 /\ x.w \in Nat /\ x.w % 2 = 0 /\ x.byte = x.of
          /\ x.obj \in 1..Len(allocs) /\ allocs[x.obj].addr = x.w
  /\ x.k = "variant" => x.of \in Variants /\ x.obj \in 1..Len(allocs) /\ VariantIn(x, allocs[x.obj])

\* No two words have an object in common.
WordsSound ==
  \A i \in 1..Len(words) :
    /\ WordSound(words[i])
    /\ \A j \in 1..Len(words) : i # j /\ words[i].obj # 0 => words[j].obj # words[i].obj

\* A word stays sound while its object stays.
LEMMA WordSoundKept ==
  ASSUME AllocsGrow, NEW x, WordSound(x)
  PROVE  WordSound(x)'
<1>1. x.obj \in 1..Len(allocs) => x.obj \in 1..Len(allocs') /\ allocs'[x.obj] = allocs[x.obj]
  BY DEF AllocsGrow
<1>2. CASE x.k = "string"
  <2>1. CASE x.of \in 0..(WordSize - 1) /\ x.w = 2 * x.of + 1 /\ x.obj = 0 /\ x.byte = 0
    BY <1>2, <2>1 DEF WordSound
  <2>2. CASE /\ x.of \in WordSize..255 /\ x.w \in Nat /\ x.w % 2 = 0 /\ x.byte = x.of
             /\ x.obj \in 1..Len(allocs) /\ allocs[x.obj].addr = x.w
    BY <1>1, <1>2, <2>2 DEF WordSound
  <2> QED  BY <1>2, <2>1, <2>2 DEF WordSound
<1>3. CASE x.k # "string"
  BY <1>1, <1>3 DEF WordSound
<1> QED  BY <1>2, <1>3

\* A sound word has no object, or one that has been allocated.
LEMMA WordObject ==
  ASSUME NEW x \in Words, WordSound(x)
  PROVE  x.obj = 0 \/ x.obj \in 1..Len(allocs)
<1>1. x.k \in {"string", "variant"}
  BY DEF Words
<1> QED  BY <1>1 DEF WordSound

\* Of a sound string gu_string_open gives the length.
LEMMA StringOpens ==
  ASSUME NEW s \in Words, WordSound(s), s.k = "string"
  PROVE  /\ s.of \in 0..255 /\ gu_string_open(s) = s.of /\ s.w # NULL
         /\ gu_string_is_stable(s) <=> s.of < WordSize
         /\ gu_string_is_stable(s) => s.w = 2 * s.of + 1
<1>1. WordSize \in Nat \ {0} /\ WordSize <= 128 /\ NULL \notin Nat
  BY AlignmentFacts, TaggedAssumption, GuBufAssumption
<1>2. CASE s.of \in 0..(WordSize - 1) /\ s.w = 2 * s.of + 1 /\ s.obj = 0 /\ s.byte = 0
  <2>1. PICK n \in 0..127 : n = s.of /\ s.w = 2 * n + 1
    BY <1>1, <1>2
  <2>2. PICK w \in 1..255 : w = 2 * n + 1
    OBVIOUS
  <2>3. w % 2 = 1 /\ (w % 256) \div 2 = n
    <3>1. w % 256 = w
      BY SMT
    <3>2. w \div 2 = n /\ w % 2 = 1
      BY <2>2
    <3> QED  BY <3>1, <3>2
  <2>4. s.w = w /\ w # NULL
    BY <1>1, <2>1, <2>2
  <2>5. gu_string_is_stable(s)
    BY <2>3, <2>4 DEF gu_string_is_stable
  <2>6. gu_string_open(s) = (s.w % 256) \div 2
    BY <1>2, <2>5 DEF gu_string_open
  <2>7. gu_string_open(s) = n
    BY <2>3, <2>4, <2>6
  <2> QED  BY <1>1, <1>2, <2>1, <2>4, <2>5, <2>7
<1>3. CASE s.of \in WordSize..255 /\ s.w \in Nat /\ s.w % 2 = 0 /\ s.byte = s.of
  <2>1. ~gu_string_is_stable(s) /\ s.byte # 0
    BY <1>1, <1>3 DEF gu_string_is_stable
  <2>2. gu_string_open(s) = s.byte
    BY <2>1 DEF gu_string_open
  <2>3. s.of \in 0..255 /\ ~(s.of < WordSize) /\ s.w # NULL
    BY <1>1, <1>3
  <2> QED  BY <1>3, <2>1, <2>2, <2>3
<1> QED  BY <1>2, <1>3 DEF WordSound

\* What a step appends to the words: one without an object, or with the newest one.
LEMMA WordsStep ==
  ASSUME StrLens \subseteq 0..255, TagInv, WordsSound, NewWord
  PROVE  \E x \in Words :
           /\ words' = Append(words, x) /\ WordSound(x)'
           /\ x.obj = 0 \/ (x.obj = Len(allocs') /\ Len(allocs') = Len(allocs) + 1)
<1>1. BufInv /\ words \in Seq(Words) /\ UNCHANGED <<bufs, making>>
  BY DEF TagInv, NewWord
<1>2. WordSize \in Nat \ {0}
  BY AlignmentFacts
<1>3. ASSUME NEW len \in 0..255, gu_utf8_string(len, len)
      PROVE  \E x \in Words :
               /\ words' = Append(words, x) /\ WordSound(x)'
               /\ x.obj = 0 \/ (x.obj = Len(allocs') /\ Len(allocs') = Len(allocs) + 1)
  <2>0. len \in Nat /\ len \in Nat \cup Variants
    OBVIOUS
  <2>1. /\ AllocsGrow
        /\ \E x \in Words :
             /\ words' = Append(words, x) /\ x.k = "string" /\ x.of = len
             /\ \/ len < WordSize /\ x.w = 2 * len + 1 /\ x.obj = 0 /\ x.byte = 0
                \/ /\ len \in WordSize..255 /\ x.w \in Nat /\ x.w % 2 = 0 /\ x.byte = len
                   /\ x.obj = Len(allocs') /\ Len(allocs') = Len(allocs) + 1
                   /\ allocs'[x.obj].addr = x.w
                \/ len >= 256
    BY <1>1, <1>3, <2>0, StringStep
  <2>2. PICK x \in Words :
             /\ words' = Append(words, x) /\ x.k = "string" /\ x.of = len
             /\ \/ len < WordSize /\ x.w = 2 * len + 1 /\ x.obj = 0 /\ x.byte = 0
                \/ /\ len \in WordSize..255 /\ x.w \in Nat /\ x.w % 2 = 0 /\ x.byte = len
                   /\ x.obj = Len(allocs') /\ Len(allocs') = Len(allocs) + 1
                   /\ allocs'[x.obj].addr = x.w
                \/ len >= 256
    BY <2>1
  <2>3. CASE len < WordSize /\ x.w = 2 * len + 1 /\ x.obj = 0 /\ x.byte = 0
    <3>1. x.of \in 0..(WordSize - 1)
      BY <1>2, <2>2, <2>3
    <3>2. WordSound(x)'
      BY <2>2, <2>3, <3>1 DEF WordSound
    <3> QED  BY <2>2, <2>3, <3>2
  <2>4. CASE /\ len \in WordSize..255 /\ x.w \in Nat /\ x.w % 2 = 0 /\ x.byte = len
             /\ x.obj = Len(allocs') /\ Len(allocs') = Len(allocs) + 1
             /\ allocs'[x.obj].addr = x.w
    <3>1. x.obj \in 1..Len(allocs')
      BY <2>1, <2>4 DEF AllocsGrow
    <3>2. WordSound(x)'
      BY <2>2, <2>4, <3>1 DEF WordSound
    <3> QED  BY <2>2, <2>4, <3>2
  <2>5. ~(len >= 256)
    OBVIOUS
  <2> QED  BY <2>2, <2>3, <2>4, <2>5
<1>4. CASE \E len \in StrLens : gu_utf8_string(len, len)
  BY <1>3, <1>4
<1>5. CASE \E i \in {j \in DOMAIN words : IsString(words[j]) /\ words[j].w # NULL} : gu_string_copy(i)
  <2>1. PICK i \in 1..Len(words) : words[i].k = "string" /\ gu_string_copy(i)
    BY <1>1, <1>5, LenProperties DEF IsString
  <2>2. PICK s : s = words[i]
    OBVIOUS
  <2>3. s \in Words /\ WordSound(s) /\ s.k = "string"
    BY <1>1, <2>1, <2>2, ElementOfSeq DEF WordsSound
  <2>4. s.of \in 0..255 /\ gu_string_open(s) = s.of /\ (gu_string_is_stable(s) <=> s.of < WordSize)
    BY <2>3, StringOpens
  <2>5. CASE gu_string_is_stable(s)
    <3>1. words' = Append(words, s) /\ UNCHANGED vars
      BY <2>1, <2>2, <2>5 DEF gu_string_copy
    <3>2. allocs' = allocs
      BY <3>1 DEF vars
    <3>3. WordSound(s)'
      BY <2>3, <3>2 DEF WordSound
    <3>4. s.obj = 0
      <4>1. s.of < WordSize
        BY <2>4, <2>5
      <4> QED  BY <1>2, <2>3, <2>4, <4>1 DEF WordSound
    <3> QED  BY <2>3, <3>1, <3>3, <3>4
  <2>6. CASE ~gu_string_is_stable(s)
    <3>1. gu_utf8_string(s.of, s.of)
      BY <2>1, <2>2, <2>4, <2>6 DEF gu_string_copy
    <3> QED  BY <1>3, <2>4, <3>1
  <2> QED  BY <2>5, <2>6
<1>6. CASE \E v \in Variants : gu_alloc_variant(v)
  <2>1. PICK v \in Variants : gu_alloc_variant(v)
    BY <1>6
  <2>2. AllocsGrow /\ Len(allocs') = Len(allocs) + 1
    BY <1>1, <2>1, VariantStep
  <2>3. PICK x \in Words :
          /\ words' = Append(words, x) /\ x.k = "variant" /\ x.of = v
          /\ x.obj = Len(allocs') /\ VariantIn(x, allocs'[x.obj])
    BY <1>1, <2>1, VariantStep
  <2>4. x.obj \in 1..Len(allocs')
    BY <2>2, <2>3 DEF AllocsGrow
  <2>5. WordSound(x)'
    BY <2>3, <2>4 DEF WordSound
  <2> QED  BY <2>2, <2>3, <2>5
<1> QED  BY <1>4, <1>5, <1>6 DEF NewWord

\* A step keeps words sound.
LEMMA WordsSoundStep ==
  ASSUME StrLens \subseteq 0..255, TagInv, WordsSound, [TagNext]_tagVars
  PROVE  WordsSound'
<1>1. AllocsGrow /\ words \in Seq(Words)
  BY TagInvStep, TagInvStutter DEF TagInv
<1>2. CASE words' = words
  <2>1. ASSUME NEW i \in 1..Len(words)
        PROVE  WordSound(words[i])'
    <3>1. PICK t : t = words[i]
      OBVIOUS
    <3>2. WordSound(t)
      BY <2>1, <3>1 DEF WordsSound
    <3>3. WordSound(t)'
      BY <1>1, <3>2, WordSoundKept
    <3> QED  BY <1>2, <3>1, <3>3 DEF WordSound
  <2> QED  BY <1>2, <2>1 DEF WordsSound
<1>3. ASSUME NEW x \in Words, words' = Append(words, x), WordSound(x)',
             x.obj = 0 \/ (x.obj = Len(allocs') /\ Len(allocs') = Len(allocs) + 1)
      PROVE  WordsSound'
  <2>1. PICK n \in Nat : n = Len(words)
    BY <1>1, LenProperties
  <2>2. /\ Len(words') = n + 1 /\ words'[n + 1] = x
        /\ \A i \in 1..n : words'[i] = words[i]
    BY <1>1, <1>3, <2>1, AppendProperties
  <2>3. \A i \in 1..n : words[i].obj = 0 \/ words[i].obj \in 1..Len(allocs)
    BY <1>1, <2>1, ElementOfSeq, WordObject DEF WordsSound
  <2>4. \A i \in 1..n : x.obj # 0 => words[i].obj # x.obj
    BY <1>1, <1>3, <2>3 DEF AllocsGrow
  <2>5. ASSUME NEW i \in 1..Len(words')
        PROVE  WordSound(words[i])'
    <3>1. CASE i \in 1..n
      <4>1. PICK t : t = words[i]
        OBVIOUS
      <4>2. WordSound(t)
        BY <2>1, <3>1, <4>1 DEF WordsSound
      <4>3. WordSound(t)'
        BY <1>1, <4>2, WordSoundKept
      <4> QED  BY <2>2, <3>1, <4>1, <4>3 DEF WordSound
    <3>2. CASE i = n + 1
      BY <1>3, <2>2, <3>2 DEF WordSound
    <3> QED  BY <2>1, <2>2, <2>5, <3>1, <3>2
  <2>6. ASSUME NEW i \in 1..Len(words'), NEW j \in 1..Len(words'), i # j, words'[i].obj # 0
        PROVE  words'[j].obj # words'[i].obj
    <3>1. CASE i \in 1..n /\ j \in 1..n
      BY <2>1, <2>2, <2>6, <3>1 DEF WordsSound
    <3>2. CASE i = n + 1 /\ j \in 1..n
      BY <2>2, <2>4, <2>6, <3>2
    <3>3. CASE i \in 1..n /\ j = n + 1
      <4>1. x.obj # 0 => words[i].obj # x.obj
        BY <2>4, <3>3
      <4> QED  BY <2>2, <2>6, <3>3, <4>1
    <3> QED  BY <2>1, <2>2, <2>6, <3>1, <3>2, <3>3
  <2> QED  BY <2>5, <2>6 DEF WordsSound
<1>4. CASE NewWord
  BY <1>3, <1>4, WordsStep
<1>5. CASE BufNext /\ UNCHANGED words
  BY <1>2, <1>5
<1>6. CASE UNCHANGED tagVars
  BY <1>2, <1>6 DEF tagVars
<1> QED  BY <1>4, <1>5, <1>6 DEF TagNext

\* Of the long strings gu_string_open finds the length in the byte before them, and so
\* they are not stable.  Strings of one length hash alike.
LEMMA WordsSoundStrings ==
  ASSUME TagInv, WordsSound
  PROVE  StringsKept
<1>1. words \in Seq(Words) /\ DOMAIN words = 1..Len(words)
  BY LenProperties DEF TagInv
<1>2. \A i \in 1..Len(words) : words[i] \in Words /\ WordSound(words[i])
  BY <1>1, ElementOfSeq DEF WordsSound
<1>3. WordSize \in Nat \ {0}
  BY AlignmentFacts
<1> SUFFICES ASSUME NEW i \in 1..Len(words), words[i].k = "string"
             PROVE  LET s == words[i] IN
                    /\ s.w # NULL
                    /\ gu_string_open(s) = s.of
                    /\ s.obj # 0 => /\ allocs[s.obj].addr = s.w
                                    /\ s.byte = 0 => allocs[s.obj].addr - allocs[s.obj].lo >= WordSize
                    /\ \A j \in {k \in DOMAIN words : IsString(words[k])} :
                         /\ words[j].of = s.of => gu_string_hash(words[j]) = gu_string_hash(s)
                         /\ i # j /\ s.obj # 0 => words[j].obj # s.obj
  BY <1>1 DEF StringsKept, IsString
<1>4. PICK s : s = words[i]
  OBVIOUS
<1>5. s \in Words /\ WordSound(s) /\ s.k = "string"
  BY <1>2, <1>4
<1>6. /\ gu_string_open(s) = s.of /\ s.w # NULL
      /\ gu_string_is_stable(s) <=> s.of < WordSize
      /\ gu_string_is_stable(s) => s.w = 2 * s.of + 1
  BY <1>5, StringOpens
<1>7. ASSUME s.obj # 0
      PROVE  allocs[s.obj].addr = s.w /\ s.byte # 0
  <2>1. s.of \in WordSize..255 /\ s.byte = s.of /\ allocs[s.obj].addr = s.w
    BY <1>5, <1>7 DEF WordSound
  <2> QED  BY <1>3, <2>1
<1>8. ASSUME NEW j \in {k \in DOMAIN words : IsString(words[k])}, words[j].of = s.of
      PROVE  gu_string_hash(words[j]) = gu_string_hash(s)
  <2>1. PICK t : t = words[j]
    OBVIOUS
  <2>2. t \in Words /\ WordSound(t) /\ t.k = "string" /\ t.of = s.of
    BY <1>1, <1>2, <1>8, <2>1 DEF IsString
  <2>3. /\ gu_string_open(t) = t.of
        /\ gu_string_is_stable(t) <=> t.of < WordSize
        /\ gu_string_is_stable(t) => t.w = 2 * t.of + 1
    BY <2>2, StringOpens
  <2>4. CASE s.of < WordSize
    BY <1>6, <2>1, <2>2, <2>3, <2>4 DEF gu_string_hash
  <2>5. CASE ~(s.of < WordSize)
    BY <1>6, <2>1, <2>2, <2>3, <2>5 DEF gu_string_hash
  <2> QED  BY <2>4, <2>5
<1>9. ASSUME NEW j \in {k \in DOMAIN words : IsString(words[k])}, i # j, s.obj # 0
      PROVE  words[j].obj # s.obj
  BY <1>1, <1>4, <1>9 DEF WordsSound
<1> QED  BY <1>4, <1>6, <1>7, <1>8, <1>9

\* Sound words give their tag and the place of their data.
LEMMA WordsSoundVariants ==
  ASSUME TagInv, WordsSound
  PROVE  VariantsKept
<1>1. words \in Seq(Words) /\ DOMAIN words = 1..Len(words)
  BY LenProperties DEF TagInv
<1>2. \A i \in 1..Len(words) : ~IsString(words[i]) => VariantIn(words[i], allocs[words[i].obj])
  <2> SUFFICES ASSUME NEW i \in 1..Len(words), words[i].k # "string"
               PROVE  VariantIn(words[i], allocs[words[i].obj])
    BY DEF IsString
  <2>1. words[i] \in Words /\ WordSound(words[i])
    BY <1>1, ElementOfSeq DEF WordsSound
  <2>2. words[i].k = "variant"
    BY <2>1 DEF Words
  <2> QED  BY <2>1, <2>2 DEF WordSound
<1> QED  BY <1>1, <1>2 DEF VariantsKept, VariantIn

\* What a word hides comes back, wherever the pool puts the data: of sequences and
\* variants always, and of strings as long as none is longer than 255 bytes.  (What
\* becomes of longer ones is the counterexample of the run long_string.)
THEOREM TagsAlwaysKept ==
  ASSUME StrLens \subseteq 0..255
  PROVE  TagSpec => []TagsKept
<1>1. TagInit => WordsSound
  BY DEF TagInit, WordsSound
<1>2. TagInv /\ WordsSound /\ SeqsTaggable => TagsKept
  BY WordsSoundStrings, WordsSoundVariants DEF TagsKept
<1>3. TagInv /\ WordsSound /\ [TagNext]_tagVars => WordsSound'
  BY WordsSoundStep
<1> QED  BY <1>1, <1>2, <1>3, TagInvHolds, SeqsAlwaysTaggable, PTL DEF TagSpec
=============================================================================
