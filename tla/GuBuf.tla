------------------------------- MODULE GuBuf -------------------------------
(***************************************************************************)
(* gu/seq.c: growing buffers, whose elements are kept outside the pool and *)
(* freed by a finalizer, and the sequences that they are frozen to.        *)
(***************************************************************************)
EXTENDS Pool

CONSTANTS
  ElemSizes,  \* elem_size of the buffers
  Counts,     \* how many elements are pushed or trimmed at a time
  WordSize,   \* sizeof(GuWord)
  BufRequest, \* the request of gu_new_prefixed(GuWord, GuBuf, pool)
  NULL,       \* the data of a new buffer
  MaxBufs,    \* bound: the number of buffers
  MaxLen,     \* bound: the length of a buffer
  MaxSeqs     \* bound: the number of sequences

ASSUME GuBufAssumption ==
  /\ ElemSizes \subseteq Nat \ {0} /\ Counts \subseteq Nat
  /\ WordSize \in Alignments /\ IsRequest(BufRequest)
  /\ NULL \notin Nat
  /\ MaxBufs \in Nat /\ MaxLen \in Nat /\ MaxSeqs \in Nat

\* gu_mem_buf_realloc gives at least what is asked for, for buffers as well.
ASSUME BufDataAssumption ==
  \A es \in ElemSizes, n \in 0..MaxLen : BufSize(es * n) \in Nat /\ BufSize(es * n) >= es * n

VARIABLES
  bufs,   \* the buffers, as [elem_size, len, avail_len, data, fin]
  making, \* the buffer that gu_make_buf has allocated and not registered yet
  seqs    \* the sequences, as [len, obj], obj in allocs, or 0: the empty sequence

bufVars == <<heap, nblocks, pool, allocs, phase, ran, bufs, making, seqs>>

BufInit == Init /\ bufs = <<>> /\ making = NULL /\ seqs = <<>>

\* gu_make_buf allocates the buffer and then the node of its finalizer.
gu_make_buf ==
  /\ making = NULL /\ Len(bufs) < MaxBufs
  /\ Alloc(Normal(BufRequest), pool.finalizers)
  /\ \E es \in ElemSizes :
       making' = [elem_size |-> es, len |-> 0, avail_len |-> 0, data |-> NULL, fin |-> 0]
  /\ UNCHANGED <<bufs, seqs>>

\* Mutation: the finalizer is not registered.
RegisterNothing ==
  /\ making # NULL
  /\ bufs' = Append(bufs, making)
  /\ making' = NULL
  /\ UNCHANGED <<vars, seqs>>

RegisterBuf ==
  /\ making # NULL
  /\ gu_pool_finally
  /\ bufs' = Append(bufs, [making EXCEPT !.fin = Len(allocs) + 1])
  /\ making' = NULL
  /\ UNCHANGED seqs

Idle == phase = "live" /\ making = NULL

\* Mutation: the elements of the block are counted in bytes.
ReallocedBytes(buf, size) == [buf EXCEPT !.data = nblocks, !.avail_len = size]

\* gu_buf_require once it has a new block of the given size.
Realloced(buf, size) == [buf EXCEPT !.data = nblocks, !.avail_len = size \div buf.elem_size]

\* gu_buf_extend_n and gu_buf_push_n
gu_buf_extend_n(i, n) ==
  LET new_len == bufs[i].len + n
      size == BufSize(bufs[i].elem_size * new_len)
  IN
  /\ Idle /\ new_len <= MaxLen
  /\ IF new_len <= bufs[i].avail_len
     THEN bufs' = [bufs EXCEPT ![i].len = new_len] /\ UNCHANGED <<heap, nblocks>>
     ELSE /\ heap' = [b \in (DOMAIN heap \cup {nblocks}) \ {bufs[i].data} |->
                        IF b = nblocks THEN size ELSE heap[b]]
          /\ nblocks' = nblocks + 1
          /\ bufs' = [bufs EXCEPT ![i] = [Realloced(@, size) EXCEPT !.len = new_len]]
  /\ UNCHANGED <<pool, allocs, phase, ran, making, seqs>>

\* gu_buf_trim_n and gu_buf_pop_n
gu_buf_trim_n(i, n) ==
  /\ Idle /\ n <= bufs[i].len
  /\ bufs' = [bufs EXCEPT ![i].len = @ - n]
  /\ UNCHANGED <<heap, nblocks, pool, allocs, phase, ran, making, seqs>>

\* The alignment that gu_malloc derives from the size: its lowest bit that is set,
\* or that of any type.  (Of size 0 it is 0, which stands for any type as well.)
MallocAlign(size) ==
  CHOOSE a \in 1..MAX_ALIGN :
    /\ MAX_ALIGN % a = 0 /\ size % a = 0
    /\ \A b \in (a + 1)..MAX_ALIGN : ~(MAX_ALIGN % b = 0 /\ size % b = 0)

\* What gu_make_seq asks the pool for: a sequence shorter than a word has its
\* length in the tag of the pointer, and others before the elements.
SeqRequest(size, len) ==
  IF len < WordSize THEN [pre_align |-> 1, pre_size |-> 0, align |-> MallocAlign(size), size |-> size]
  ELSE [pre_align |-> WordSize, pre_size |-> WordSize, align |-> 0, size |-> size]

\* gu_buf_freeze, of buffers of words: the clients under src freeze no others.
gu_buf_freeze(i) ==
  LET len == bufs[i].len IN
  /\ Idle /\ bufs[i].elem_size % WordSize = 0 /\ Len(seqs) < MaxSeqs
  /\ IF len = 0 THEN seqs' = Append(seqs, [len |-> 0, obj |-> 0]) /\ UNCHANGED vars
     ELSE /\ Alloc(Normal(SeqRequest(bufs[i].elem_size * len, len)), pool.finalizers)
          /\ seqs' = Append(seqs, [len |-> len, obj |-> Len(allocs) + 1])
  /\ UNCHANGED <<bufs, making>>

\* gu_buf_fini: frees the data of the buffer, if it has some.
BufFinalizer ==
  /\ pool.finalizers # <<>>
  /\ RunFinalizer({bufs[i].data : i \in {j \in DOMAIN bufs : bufs[j].fin = Head(pool.finalizers)}})
  /\ UNCHANGED <<bufs, making, seqs>>

PoolStep ==
  /\ making = NULL
  /\ gu_malloc_prefixed \/ gu_pool_finally \/ gu_pool_free \/ FreeChunk \/ FreePool
  /\ UNCHANGED <<bufs, making, seqs>>

BufStep ==
  \E i \in DOMAIN bufs :
    \/ \E n \in Counts : gu_buf_extend_n(i, n) \/ gu_buf_trim_n(i, n)
    \/ gu_buf_freeze(i)

BufNext == gu_make_buf \/ RegisterBuf \/ BufStep \/ BufFinalizer \/ PoolStep

BufSpec == BufInit /\ [][BufNext]_bufVars

-----------------------------------------------------------------------------
\* gu_tagged (bits.h:105) needs the low bits of the pointer for the length, and
\* gu_seq_length finds a length that is not there in the word before.
SeqsTaggable ==
  \A i \in DOMAIN seqs : seqs[i].len > 0 =>
    LET o == allocs[seqs[i].obj] IN
    /\ o.addr % WordSize = 0
    /\ seqs[i].len >= WordSize => o.addr - o.lo = WordSize

\* As long as the pool is in use, the elements of a buffer lie in a block of its
\* own, however it was grown, trimmed and grown again: not in one of the pool's,
\* nor in that of another buffer, nor in one that a realloc has given back.
BuffersFit ==
  phase = "live" =>
    \A i \in DOMAIN bufs :
      LET b == bufs[i] IN
      /\ b.len <= b.avail_len
      /\ b.data = NULL => b.avail_len = 0
      /\ b.data # NULL =>
           /\ b.data \in DOMAIN heap \ ({0} \cup Chunks)
           /\ b.avail_len * b.elem_size <= heap[b.data]
           /\ \A j \in DOMAIN bufs : i # j => b.data # bufs[j].data

\* Once gu_pool_free is through, nothing that the pool or its buffers got from
\* malloc is left, and the buffer of a local pool is the caller's.
AllReleased == phase = "freed" => DOMAIN heap = (IF pool.local THEN {0} ELSE {})
=============================================================================
