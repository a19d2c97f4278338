-------------------------------- MODULE Pool --------------------------------
(***************************************************************************)
(* gu/mem.c: a memory pool.  Objects are taken from both ends of a current *)
(* block, aligned ones from the left and unaligned ones from the right,    *)
(* until one does not fit; large objects get a block of their own.  A pool *)
(* that is freed runs its finalizers, frees its blocks, and then itself.   *)
(*                                                                         *)
(* Blocks have numbers, and an address is a block and an offset: malloc    *)
(* aligns blocks for every type, so the offset decides the alignment.      *)
(* Block 0 holds the GuPool itself and its first objects.                  *)
(***************************************************************************)
EXTENDS Naturals, Sequences

CONSTANTS
  BufSize(_),              \* the size gu_mem_buf_alloc gives for a request
  MAX_ALIGN,               \* gu_alignof(GuMaxAlign)
  UINT16_MAX,              \* the edges of a pool are uint16_t
  PoolHeader,              \* offsetof(GuPool, init_buf)
  ChunkHeader,             \* offsetof(GuMemChunk, data)
  LocalSize,               \* GU_LOCAL_POOL_INIT_SIZE_
  gu_mem_pool_initial_size,
  gu_mem_chunk_max_size,
  gu_mem_max_shared_alloc,
  Requests,                \* what clients ask for: see IsRequest
  NodeRequest,             \* the request of gu_new(GuFinalizerNode, pool)
  MaxAllocs                \* bound: the number of objects allocated

\* The alignments that a type can have.
Alignments == {a \in 1..MAX_ALIGN : MAX_ALIGN % a = 0}

\* They are powers of two: of any two, one divides the other.
ASSUME AlignmentAssumption ==
  /\ MAX_ALIGN \in Nat \ {0}
  /\ \A a, b \in Alignments : a % b = 0 \/ b % a = 0

\* The arguments of gu_malloc_prefixed: alignments, or 0 for that of any type, and
\* sizes.  A prefix is an object of its type, so its size is a multiple of its
\* alignment.
IsRequest(q) ==
  /\ q \in [pre_align : Alignments \cup {0}, pre_size : Nat, align : Alignments \cup {0}, size : Nat]
  /\ q.pre_size % (IF q.pre_align = 0 THEN MAX_ALIGN ELSE q.pre_align) = 0

Largest(m, n) == IF m > n THEN m ELSE n

Smallest(m, n) == IF m < n THEN m ELSE n

\* No request for a block that is shared is above this.
MaxShared ==
  Largest(gu_mem_chunk_max_size, ChunkHeader + gu_mem_max_shared_alloc)

ASSUME PoolAssumption ==
  /\ UINT16_MAX \in Nat
  /\ PoolHeader \in Nat /\ ChunkHeader \in Nat
  /\ gu_mem_pool_initial_size \in Nat
  /\ gu_mem_chunk_max_size \in Nat /\ gu_mem_max_shared_alloc \in Nat
  /\ LocalSize \in PoolHeader..UINT16_MAX
  /\ PoolHeader + gu_mem_pool_initial_size <= MaxShared
  /\ MaxAllocs \in Nat
  /\ IsRequest(NodeRequest) /\ \A q \in Requests : IsRequest(q)

\* gu_mem_buf_alloc gives at least what is asked for (mem.h: "This is never less
\* than `min_size`"), and never more than an edge can hold.
ASSUME BufSizeAssumption == \A n \in 0..MaxShared : BufSize(n) \in n..UINT16_MAX

VARIABLES
  heap,    \* the size of each block there is
  nblocks, \* blocks made so far
  pool,    \* the GuPool
  allocs,  \* the objects allocated, in order: see Object
  phase,   \* "live", or how far gu_pool_free is
  ran      \* the finalizers gu_pool_free has run

vars == <<heap, nblocks, pool, allocs, phase, ran>>

-----------------------------------------------------------------------------
\* x stored in a uint16_t.
Narrow(x) == IF x <= UINT16_MAX THEN x ELSE x % (UINT16_MAX + 1)

\* (addr + mask) & ~mask, for an alignment that is a power of two.
gu_align_forward(addr, alignment) ==
  LET a == addr + (alignment - 1) IN a - (a % alignment)

\* Mutations: no room is left for the prefix; only the prefix is aligned.
ObjectAtNoPrefix(old_pos, q) ==
  gu_align_forward(gu_align_forward(old_pos, q.pre_align), q.align)

ObjectAtUnaligned(old_pos, q) == gu_align_forward(old_pos, q.pre_align) + q.pre_size

\* Where the object itself begins, if the free space begins at old_pos.
ObjectAt(old_pos, q) ==
  gu_align_forward(gu_align_forward(old_pos, q.pre_align) + q.pre_size, q.align)

gu_mem_advance(old_pos, q) == ObjectAt(old_pos, q) + q.size

\* Alignment 0 stands for the alignment of any type.
Normal(q) ==
  [q EXCEPT !.pre_align = IF @ = 0 THEN MAX_ALIGN ELSE @,
            !.align = IF @ = 0 THEN MAX_ALIGN ELSE @]

\* An object at offset addr of a block, and its prefix before it.
Object(block, addr, q) ==
  [block |-> block, lo |-> addr - q.pre_size, addr |-> addr, hi |-> addr + q.size,
   pre_align |-> q.pre_align, align |-> q.align]

\* gu_init_pool, for a block 0 of size sz.
InitPool(sz, local) ==
  [curr |-> 0, left |-> PoolHeader, right |-> Narrow(sz), size |-> Narrow(sz),
   chunks |-> <<>>, finalizers |-> <<>>, local |-> local]

Init ==
  /\ \E local \in BOOLEAN :
       LET sz == IF local THEN LocalSize ELSE BufSize(PoolHeader + gu_mem_pool_initial_size)
       IN heap = [b \in {0} |-> sz] /\ pool = InitPool(sz, local)
  /\ nblocks = 1
  /\ allocs = <<>>
  /\ phase = "live"
  /\ ran = <<>>

-----------------------------------------------------------------------------
(* gu_malloc_prefixed; fs are the finalizers of the pool after it *)

AddBlock(sz) ==
  /\ heap' = [b \in DOMAIN heap \cup {nblocks} |-> IF b = nblocks THEN sz ELSE heap[b]]
  /\ nblocks' = nblocks + 1

\* Mutation: the next size, whatever is asked for.
ExpandSizeNext(p, req) == BufSize(Smallest(p.size + 1, gu_mem_chunk_max_size))

\* gu_pool_expand: the request, and the pool with a new block of size sz.
ExpandSize(p, req) ==
  BufSize(Largest(req, Smallest(p.size + 1, gu_mem_chunk_max_size)))

Expanded(p, sz) ==
  [p EXCEPT !.curr = nblocks, !.left = ChunkHeader, !.right = Narrow(sz), !.size = Narrow(sz),
            !.chunks = <<nblocks>> \o @]

FullSize(q) == gu_mem_advance(ChunkHeader, q)

Large(q) == FullSize(q) > gu_mem_max_shared_alloc

Unaligned(q) == q.pre_align = 1 /\ q.align = 1

\* A block for the object alone.
AllocLarge(q, fs) ==
  /\ Large(q)
  /\ AddBlock(FullSize(q))
  /\ pool' = [pool EXCEPT !.chunks = <<nblocks>> \o @, !.finalizers = fs]
  /\ allocs' = Append(allocs, Object(nblocks, FullSize(q) - q.size, q))

\* gu_pool_malloc_unaligned
TakeRight(p, n, q, fs) ==
  /\ pool' = [p EXCEPT !.right = p.right - n, !.finalizers = fs]
  /\ allocs' = Append(allocs, Object(p.curr, p.right - n + q.pre_size, q))

AllocUnaligned(q, fs) ==
  LET n == q.pre_size + q.size
      sz == ExpandSize(pool, ChunkHeader + n)
  IN
  /\ ~Large(q) /\ Unaligned(q)
  /\ IF n > pool.right - pool.left THEN AddBlock(sz) /\ TakeRight(Expanded(pool, sz), n, q, fs)
     ELSE TakeRight(pool, n, q, fs) /\ UNCHANGED <<heap, nblocks>>

\* gu_pool_malloc_aligned
TakeLeft(p, pos, q, fs) ==
  /\ pool' = [p EXCEPT !.left = Narrow(pos), !.finalizers = fs]
  /\ allocs' = Append(allocs, Object(p.curr, pos - q.size, q))

AllocAligned(q, fs) ==
  LET pos == gu_mem_advance(pool.left, q)
      sz == ExpandSize(pool, FullSize(q))
  IN
  /\ ~Large(q) /\ ~Unaligned(q)
  /\ IF pos > pool.right THEN AddBlock(sz) /\ TakeLeft(Expanded(pool, sz), FullSize(q), q, fs)
     ELSE TakeLeft(pool, pos, q, fs) /\ UNCHANGED <<heap, nblocks>>

Alloc(q, fs) ==
  /\ phase = "live" /\ Len(allocs) < MaxAllocs
  /\ AllocLarge(q, fs) \/ AllocUnaligned(q, fs) \/ AllocAligned(q, fs)
  /\ UNCHANGED <<phase, ran>>

gu_malloc_prefixed == \E q \in Requests : Alloc(Normal(q), pool.finalizers)

\* A node, which becomes the head of the list.  A finalizer has the number of
\* its node in allocs.
gu_pool_finally == Alloc(Normal(NodeRequest), <<Len(allocs) + 1>> \o pool.finalizers)

-----------------------------------------------------------------------------
(* gu_pool_free *)

gu_pool_free ==
  /\ phase = "live"
  /\ phase' = "finalizing"
  /\ UNCHANGED <<heap, nblocks, pool, allocs, ran>>

Without(blocks) == [b \in DOMAIN heap \ blocks |-> heap[b]]

\* A finalizer, which frees the given blocks.
RunFinalizer(blocks) ==
  /\ phase = "finalizing" /\ pool.finalizers # <<>>
  /\ ran' = Append(ran, Head(pool.finalizers))
  /\ pool' = [pool EXCEPT !.finalizers = Tail(@)]
  /\ heap' = Without(blocks)
  /\ UNCHANGED <<nblocks, allocs, phase>>

\* Mutation: before the finalizers.
FreeChunkEarly ==
  /\ phase = "finalizing" /\ pool.chunks # <<>>
  /\ heap' = Without({Head(pool.chunks)})
  /\ pool' = [pool EXCEPT !.chunks = Tail(@)]
  /\ UNCHANGED <<nblocks, allocs, phase, ran>>

FreeChunk ==
  /\ phase = "finalizing" /\ pool.finalizers = <<>> /\ pool.chunks # <<>>
  /\ heap' = Without({Head(pool.chunks)})
  /\ pool' = [pool EXCEPT !.chunks = Tail(@)]
  /\ UNCHANGED <<nblocks, allocs, phase, ran>>

\* The pool itself, unless it is on the stack.
FreePool ==
  /\ phase = "finalizing" /\ pool.finalizers = <<>> /\ pool.chunks = <<>>
  /\ heap' = IF pool.local THEN heap ELSE Without({0})
  /\ phase' = "freed"
  /\ UNCHANGED <<nblocks, pool, allocs, ran>>

Next ==
  gu_malloc_prefixed \/ gu_pool_finally \/ gu_pool_free \/ RunFinalizer({}) \/ FreeChunk \/ FreePool

Spec == Init /\ [][Next]_vars

-----------------------------------------------------------------------------
Header(b) == IF b = 0 THEN PoolHeader ELSE ChunkHeader

Chunks == {pool.chunks[i] : i \in 1..Len(pool.chunks)}

Pools ==
  [curr : Nat, left : 0..UINT16_MAX, right : 0..UINT16_MAX, size : 0..UINT16_MAX,
   chunks : Seq(Nat), finalizers : Seq(Nat), local : BOOLEAN]

Objects ==
  [block : Nat, lo : Nat, addr : Nat, hi : Nat, pre_align : Nat \ {0}, align : Nat \ {0}]

TypeOK ==
  /\ nblocks \in Nat
  /\ DOMAIN heap \subseteq 0..(nblocks - 1)
  /\ \A b \in DOMAIN heap : heap[b] \in Nat
  /\ pool \in Pools
  /\ allocs \in Seq(Objects)
  /\ phase \in {"live", "finalizing", "freed"}

\* No object, prefix included, overlaps another one, from whichever end of a
\* block and in whichever order they were taken.
ObjectsDisjoint ==
  \A i, j \in 1..Len(allocs) :
    i # j /\ allocs[i].block = allocs[j].block =>
      allocs[i].hi <= allocs[j].lo \/ allocs[j].hi <= allocs[i].lo

\* As long as the pool is in use every object lies in a block that is still
\* there, and leaves the header of the block alone: the links of the chunks, or
\* the GuPool itself.
ObjectsInBlocks ==
  phase = "live" =>
    \A i \in 1..Len(allocs) :
      /\ allocs[i].block \in DOMAIN heap
      /\ Header(allocs[i].block) <= allocs[i].lo
      /\ allocs[i].lo <= allocs[i].addr
      /\ allocs[i].addr <= allocs[i].hi
      /\ allocs[i].hi <= heap[allocs[i].block]

\* mem.h: "space for an object of size `size` and alignment of at least
\* `alignment`"; and a prefix is aligned as it was asked to be.
ObjectsAligned ==
  \A i \in 1..Len(allocs) :
    allocs[i].addr % allocs[i].align = 0 /\ allocs[i].lo % allocs[i].pre_align = 0

\* The free space of pool p lies in its current block, none of the edges was
\* narrowed, and no object reaches into it.
EdgesSound(p, blocks) ==
  /\ p.curr \in DOMAIN blocks
  /\ p.size = blocks[p.curr]
  /\ Header(p.curr) <= p.left
  /\ p.left <= p.right
  /\ p.right <= p.size
  /\ \A i \in 1..Len(allocs) :
       allocs[i].block = p.curr => allocs[i].hi <= p.left \/ p.right <= allocs[i].lo

\* The assertions of mem.c (mem.c:194, 219, 238): the size of the block fits the
\* edges, and a new block has room for the object it was made for; so the two
\* edges never meet, and what is between them is free.
EdgesInBlock == phase = "live" => EdgesSound(pool, heap)

\* mem.h: "all finalizers registered by #gu_pool_finally on `pool` are invoked in
\* reverse order of registration", each once, while the nodes of the list and all
\* objects are still there.
FinalizersReversed ==
  /\ \A i, j \in 1..Len(ran) : i < j => ran[i] > ran[j]
  /\ \A i \in 1..Len(ran), j \in 1..Len(pool.finalizers) : ran[i] > pool.finalizers[j]
  /\ pool.finalizers # <<>> => \A i \in 1..Len(allocs) : allocs[i].block \in DOMAIN heap
  /\ phase = "freed" => pool.finalizers = <<>>
=============================================================================
