------------------------------ MODULE MCTagged ------------------------------
(* The sizes of a 64-bit machine, and requests on both sides of each limit.  *)
EXTENDS Tagged, MemBuf

Plain(align, size) == [pre_align |-> 1, pre_size |-> 0, align |-> align, size |-> size]

\* Bytes, the largest object that shares a block, one for any type that just does
\* not, and a prefixed string.
MCRequests ==
  {Plain(1, 45), Plain(8, 504), Plain(0, 497),
   [pre_align |-> 8, pre_size |-> 8, align |-> 1, size |-> 25]}

MCNodeRequest == Plain(8, 16)

MCBufRequest == [pre_align |-> 8, pre_size |-> 8, align |-> 8, size |-> 32]

\* The largest tag that fits the low bits of a word, and the first that does not
MCVariants == {[tag |-> 6, size |-> 24, align |-> 4], [tag |-> 7, size |-> 3, align |-> 16]}
=============================================================================
