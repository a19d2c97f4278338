------------------------------- MODULE MemBuf -------------------------------
(***************************************************************************)
(* gu/mem.c: the sizes of memory buffers, which grow along the Padovan     *)
(* numbers.  Sizes are in bytes, on a machine with 64-bit words.           *)
(***************************************************************************)
EXTENDS Naturals

gu_mem_unit_size == 16

gu_malloc_overhead == 8

\* The loop of gu_mem_padovan; its exit at an overflow is beyond any size that a
\* run asks for.
RECURSIVE PadovanFrom(_, _, _, _)
PadovanFrom(min, a, b, c) == IF min > a THEN PadovanFrom(min, b, c, a + b) ELSE a

gu_mem_padovan(min) == IF min <= 5 THEN min ELSE PadovanFrom(min, 7, 9, 12)

\* The size of the buffer that gu_mem_buf_realloc gives for min_size bytes.
gu_mem_buf_size(min_size) ==
  LET min_blocks == (min_size + gu_malloc_overhead - 1) \div gu_mem_unit_size + 1
  IN gu_mem_padovan(min_blocks) * gu_mem_unit_size - gu_malloc_overhead
=============================================================================
