------------------------------- MODULE Streams -------------------------------
(***************************************************************************)
(* Text written through layers of output, and what was written read back   *)
(* through layers of input: the clients of gu/write.h and gu/read.h, the   *)
(* string buffers of gu/string.c among them.  After an exception a client  *)
(* makes no more calls.                                                    *)
(***************************************************************************)
EXTENDS GuOut, GuIn

CONSTANTS
  OutStacks, \* the layers that are written to
  InStacks,  \* [kind of what was written -> the layers that read it]
  Texts,     \* what one call writes, in characters
  MaxBytes,  \* the bytes of UTF-8 that are written, at most (a bound)
  MaxRead    \* the bytes that one call asks for, at most (a bound)

VARIABLES
  phase,   \* "write", "closed" or "read"
  s,       \* the layers of output
  r,       \* the layers of input
  written, \* the UTF-8 that was written
  flushed, \* the last call was a flush
  file,    \* what there is to be read
  taken,   \* the UTF-8 that was read
  asked    \* the bytes that the call that failed had to get

vars == <<phase, s, r, written, flushed, file, taken, asked>>

Top(x) == Len(x.stack)

HasLocale(stack) == \E k \in DOMAIN stack : stack[k] = "locale"

Kind == IF s.stack[1] = "buf" THEN "buf" ELSE IF HasLocale(s.stack) THEN "locale" ELSE "file"

Init ==
  /\ phase = "write" /\ written = <<>> /\ flushed = FALSE
  /\ \E stack \in OutStacks, room \in {MaxBytes, MaxBytes \div 2}, late \in BOOLEAN :
       s = NewOuts(stack, room, late)
  /\ r = NewIns(<<>>, <<>>, FALSE)
  /\ file = <<>> /\ taken = <<>> /\ asked = 0

-----------------------------------------------------------------------------

Written(chars, after) ==
  /\ phase = "write" /\ ~s.err
  /\ Len(written \o Utf8(chars)) <= MaxBytes
  /\ written' = written \o Utf8(chars) /\ s' = after /\ flushed' = FALSE
  /\ UNCHANGED <<phase, r, file, taken, asked>>

\* gu_puts and gu_utf8_write
Puts(chars) == Written(chars, gu_out_bytes(s, Top(s), Utf8(chars)))

\* gu_utf32_write
Utf32Write(chars) == Written(chars, gu_utf32_out_utf8(s, Top(s), chars))

\* gu_ucs_write, and gu_putc for a character of one byte
UcsWrite(c) == Written(<<c>>, gu_out_utf8(s, Top(s), c))

\* gu_writer_flush, and gu_string_buf_freeze
Flush ==
  /\ phase = "write" /\ ~s.err /\ ~flushed
  /\ s' = gu_out_flush(s, Top(s)) /\ flushed' = TRUE
  /\ UNCHANGED <<phase, r, written, file, taken, asked>>

-----------------------------------------------------------------------------

\* What a file keeps once it is closed, and a buffer when its pool is freed.
Kept(x) == IF x.stack[1] = "file" THEN Take(x.sink, x.room) ELSE x.sink

\* gu_pool_free of the writer's pool
Close ==
  /\ phase = "write"
  /\ s' = Finalize(s, Top(s)) /\ phase' = "closed"
  /\ UNCHANGED <<r, written, flushed, file, taken, asked>>

\* A reader of what was written.  One byte of a file may have been spoilt, and it may
\* not be readable to the end.  Nothing of the writer is left.
Open ==
  /\ phase = "closed"
  /\ LET bytes == Kept(s)
         spoilt == {[bytes EXCEPT ![i] = Bad] : i \in DOMAIN bytes}
     IN \E f \in {bytes} \cup spoilt, stack \in InStacks[Kind], broken \in BOOLEAN :
          /\ Kind = "buf" => f = bytes /\ ~broken
          /\ file' = f /\ r' = NewIns(stack, f, broken)
  /\ phase' = "read" /\ s' = NewOuts(<<>>, 0, FALSE) /\ written' = <<>> /\ flushed' = FALSE
  /\ UNCHANGED <<taken, asked>>

ReadStep(after, bytes, must) ==
  /\ phase = "read" /\ r.err = "none"
  /\ r' = [Return(after, <<>>) EXCEPT !.char = Question]
  /\ IF after.err = "none" THEN taken' = taken \o bytes /\ asked' = 0
     ELSE taken' = taken /\ asked' = must
  /\ UNCHANGED <<phase, s, written, flushed, file>>

ReadU8 == LET a == gu_in_u8(r, Top(r)) IN ReadStep(a, a.got, 1)

ReadBytes(n) == LET a == gu_in_bytes(r, Top(r), n) IN ReadStep(a, a.got, n)

ReadSome(n, min) == LET a == gu_in_some(r, Top(r), n, min) IN ReadStep(a, a.got, min)

\* gu_in_begin_span and gu_in_end_span.  What is not the window must all be consumed.
ReadSpan(n) ==
  /\ phase = "read" /\ r.err = "none"
  /\ LET a == gu_in_begin_span(r, Top(r), n) IN
     \E m \in IF a.ins[Top(r)].on THEN 0..Len(a.got) ELSE {Len(a.got)} :
       ReadStep(gu_in_end_span(a, Top(r), m), Take(a.got, m), 1)

\* gu_read_ucs.  A garbled character may be one that gu_ucs_valid refuses.
ReadUcs ==
  /\ phase = "read" /\ r.err = "none"
  /\ LET a == gu_in_utf8(r, Top(r)) IN
     \/ ReadStep(a, a.got, 1)
     \/ a.char = "garbled" /\ a.err = "none" /\ ReadStep([a EXCEPT !.err = "ucs"], <<>>, 1)

-----------------------------------------------------------------------------

Next ==
  \/ \E chars \in Texts : Puts(chars)
  \/ \E chars \in Texts : Utf32Write(chars)
  \/ \E c \in Chars : UcsWrite(c)
  \/ Flush
  \/ Close
  \/ Open
  \/ ReadU8
  \/ \E n \in 1..MaxRead : ReadBytes(n)
  \/ \E n \in 1..MaxRead : \E min \in 0..n : ReadSome(n, min)
  \/ \E n \in 1..MaxRead : ReadSpan(n)
  \/ ReadUcs

Spec == Init /\ [][Next]_vars

-----------------------------------------------------------------------------

\* What the characters of some UTF-8 are in the file.
InFile(bytes) == IF HasLocale(s.stack) THEN Mb(Ucs(bytes)) ELSE bytes

\* What is in the windows and buffers, from the layer that goes first, as it will be
\* in the file.
OnTheWay ==
  FlattenSeq([k \in DOMAIN s.stack |->
    Mb(s.ucs[k]) \o (IF HasLocale(Take(s.stack, k)) THEN Mb(Ucs(s.outs[k].win)) ELSE s.outs[k].win)])

\* What is written is neither lost, nor doubled, nor put out of order by the windows
\* that the layers lend each other (gu/out.c, gu/write.c): it has arrived or is on its
\* way, a flush without an exception brings all of it to the device, and so do the
\* finalizers when the layer on top has one and the device has room.
WrittenArrives ==
  /\ IsPrefix(s.sink, InFile(written))
  /\ phase = "write" /\ ~s.err => s.sink \o OnTheWay = InFile(written)
  /\ phase = "write" /\ flushed /\ ~s.err =>
       InFile(written) = IF Kind = "buf" THEN s.sink ELSE Take(s.sink, s.onDisk)
  /\ phase = "closed" /\ ~s.err /\ s.stack[Top(s)] # "buffered" =>
       s.sink = InFile(written) \/ (Kind # "buf" /\ Len(InFile(written)) > s.room)

\* No gu_require and no gu_assert of the layers fails: those of the spans and of the
\* buffers, that gu_utf8_decode_unsafe gets whole characters (gu/utf8.c:79), and that
\* at most one character is left over by gu_locale_reader_input (gu/read.c:100).
LayersSound == s.sound /\ r.sound

\* What there is to be read, as UTF-8: of a file in the locale's encoding, the
\* characters before the first that is not whole.
Text == IF HasLocale(r.stack) THEN Utf8(Ucs(Take(file, WholeLen("locale", file)))) ELSE file

\* Whatever calls are mixed, they give the bytes in order, none twice and none left out,
\* and gu_in_tell counts them.
ReadInOrder ==
  phase = "read" =>
    /\ IsPrefix(taken, Text)
    /\ r.err = "none" => gu_in_tell(r, Top(r)) = Len(taken)

\* A reader raises GuEOF only when less is left than the call must have, and not for
\* what could not be read or decoded; GuUCSExn only when it comes to bytes that are no
\* character; and the error of a file only if there was one.
EndIsTheEnd ==
  LET left == Drop(Text, Len(taken)) IN
  /\ r.err = "eof" =>
       Len(left) < asked /\ ~r.broken /\ (HasLocale(r.stack) => Bad \notin Range(file))
  /\ r.err = "ucs" =>
       \/ left # <<>> /\ WholeLen("utf8", left) = 0
       \/ HasLocale(r.stack) /\ Len(left) < asked /\ Bad \in Range(file)
  /\ r.err = "errno" => r.broken
=============================================================================
