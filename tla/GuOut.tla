------------------------------- MODULE GuOut -------------------------------
(***************************************************************************)
(* gu/out.c, gu/write.c, gu/file.c, the writing half of gu/utf8.c, and the *)
(* output stream of gu/seq.c: layers of output.  Layer k is a GuOut and    *)
(* its stream; the stream of layer 1 is a "file" or a growing buffer       *)
(* ("buf"), and that of each other layer writes to the GuOut below:        *)
(*   "proxy"    lends out the window of the GuOut below,                   *)
(*   "buffered" has a buffer of its own,                                   *)
(*   "locale"   decodes to characters and has a buffer of those.           *)
(* A GuOut that is buffering has a window of size bytes, of which win are  *)
(* written: buf_curr is Len(win) - size.                                   *)
(*                                                                         *)
(* Calls run to completion, so each is an operator from a state s of the   *)
(* layers to the state after it.  An operator whose name begins with After *)
(* is the rest of a function behind the call that gives its first argument.*)
(***************************************************************************)
EXTENDS Encoding

CONSTANTS
  BufferSize, \* the size of a "buffered" layer
  UcsSize,    \* the size of a "locale" layer, in characters
  Capacity(_) \* the capacity that gu_buf_require gives for a length

ASSUME OutStreamsAssumption ==
  /\ BufferSize \in Nat \ {0} /\ UcsSize \in Nat \ {0}
  /\ \A n \in 0..16 : Capacity(n) >= n

\* gu_invoke of begin_buf, end_buf, output or flush, for the stream of layer k
RECURSIVE OutInvoke(_, _, _, _)

Off == [on |-> FALSE, size |-> 0, win |-> <<>>]

\* gu_init_out for each layer.  The device of the file has room for some bytes, and
\* fails from then on.  If stdio is late it takes what it is given, and fflush fails.
NewOuts(stack, room, late) ==
  [stack |-> stack, outs |-> [k \in DOMAIN stack |-> Off],
   sink |-> <<>>,                        \* what layer 1 has taken
   avail |-> 0,                          \* the capacity of the growing buffer
   at |-> [k \in DOMAIN stack |-> 0],    \* where the window of a proxy begins
   ucs |-> [k \in DOMAIN stack |-> <<>>], \* ucs_buf, up to ucs_buf_curr
   room |-> room, late |-> late, onDisk |-> 0,
   err |-> FALSE,
   sound |-> TRUE]                       \* no gu_require and no gu_assert has failed

Space(s, k) == s.outs[k].size - Len(s.outs[k].win)

\* gu_out_try_buf_, when src fits
Put(s, k, src) == [s EXCEPT !.outs[k].win = @ \o src]

Window(s, k, size) ==
  IF size = 0 THEN s ELSE [s EXCEPT !.outs[k] = [on |-> TRUE, size |-> size, win |-> <<>>]]

Check(s, p) == [s EXCEPT !.sound = @ /\ p]

-----------------------------------------------------------------------------
\* Mutation: the window is given up first.
EndBufLost(s, k) == [s EXCEPT !.outs[k] = Off]

gu_out_end_buf(s, k) ==
  IF ~s.outs[k].on THEN s
  ELSE [OutInvoke("end_buf", s, k, s.outs[k].win) EXCEPT !.outs[k] = Off]

AfterEndBuf(s, k, req, wasOn) ==
  IF wasOn /\ s.err THEN s ELSE OutInvoke("begin_buf", s, k, req)

\* It returns true if the GuOut is buffering in the end, with space in its window.
gu_out_begin_buf(s, k, req) ==
  IF Space(s, k) > 0 THEN s ELSE AfterEndBuf(gu_out_end_buf(s, k), k, req, s.outs[k].on)

AfterOutputEnd(s, k, src) == IF s.err THEN s ELSE OutInvoke("output", s, k, src)

gu_out_output(s, k, src) == AfterOutputEnd(gu_out_end_buf(s, k), k, src)

AfterBeginBuf(s, k, src) ==
  IF s.outs[k].on /\ Len(src) <= Space(s, k) THEN Put(s, k, src)
  ELSE IF s.err /\ ~s.outs[k].on THEN s
  ELSE gu_out_output(s, k, src)

\* The way of gu_out_bytes_ and gu_out_u8_ once src does not fit the window.
ThroughNewWindow(s, k, src) == AfterBeginBuf(gu_out_begin_buf(s, k, Len(src)), k, src)

\* Mutation: the window is filled before it is ended.
BytesSplit(s, k, src) ==
  LET m == Space(s, k)
  IN IF s.err THEN s
     ELSE ThroughNewWindow(Put(s, k, Take(src, m)), k, Drop(src, m))

gu_out_bytes_(s, k, src) ==
  IF s.err THEN s
  ELSE IF Len(src) <= Space(s, k) THEN Put(s, k, src)
  ELSE ThroughNewWindow(s, k, src)

gu_out_bytes(s, k, src) ==
  IF Len(src) <= Space(s, k) THEN Put(s, k, src) ELSE gu_out_bytes_(s, k, src)

gu_out_u8(s, k, byte) ==
  IF Space(s, k) >= 1 THEN Put(s, k, <<byte>>) ELSE ThroughNewWindow(s, k, <<byte>>)

AfterFlushEnd(s, k, wasOn) ==
  IF wasOn /\ s.err THEN s ELSE OutInvoke("flush", s, k, <<>>)

gu_out_flush(s, k) == AfterFlushEnd(gu_out_end_buf(s, k), k, s.outs[k].on)

\* Does gu_out_begin_span return the window, in the state it leaves?
SpanIsWindow(s, k, fallback) == s.outs[k].on /\ Space(s, k) >= fallback

gu_out_begin_span(s, k, fallback) == IF s.outs[k].on THEN s ELSE gu_out_begin_buf(s, k, fallback)

\* gu_out_end_span of a fallback buffer, or of a span at offset pos of the window: it
\* is in place only if that is still where the GuOut is.
EndSpan(s, k, isWindow, pos, src) ==
  IF isWindow /\ s.outs[k].on /\ pos = Len(s.outs[k].win)
  THEN Put(Check(s, Len(src) <= Space(s, k)), k, src)
  ELSE gu_out_bytes_(s, k, src)

\* How many of the characters go into the span that gu_out_begin_span returns.
SpanChars(e, s, k, fallback, chars) ==
  Fitting(e, chars, IF SpanIsWindow(s, k, fallback) THEN Space(s, k) ELSE fallback)

\* Encodes the first n characters to the span, and ends it.
EncodeToSpan(e, s, k, fallback, chars, n) ==
  EndSpan(s, k, SpanIsWindow(s, k, fallback), Len(s.outs[k].win), Encode(e, Take(chars, n)))

\* The loop of gu_utf32_out_utf8, and gu_out_utf8_long_ for one character
RECURSIVE gu_utf32_out_utf8(_, _, _)

AfterUtf8Span(s, k, chars) ==
  IF s.err THEN s ELSE gu_utf32_out_utf8(s, k, chars)

AfterUtf8Begin(s, k, chars) ==
  LET n == SpanChars("utf8", s, k, Utf8Max, chars) IN
  IF s.err THEN s
  ELSE AfterUtf8Span(EncodeToSpan("utf8", s, k, Utf8Max, chars, n), k, Drop(chars, n))

gu_utf32_out_utf8(s, k, chars) ==
  IF chars = <<>> THEN s ELSE AfterUtf8Begin(gu_out_begin_span(s, k, Utf8Max), k, chars)

gu_out_utf8(s, k, c) ==
  IF Utf8Len[c] = 1 THEN gu_out_u8(s, k, Utf8(<<c>>)[1]) ELSE gu_utf32_out_utf8(s, k, <<c>>)

Require(s, len) == [s EXCEPT !.avail = IF len <= @ THEN @ ELSE Capacity(len)]

\* gu_buf_outbuf_begin
LendBuffer(s, k) == Window(s, k, s.avail - Len(s.sink))

\* gu_proxy_out_buf_begin
LendWindow(s, k) ==
  IF s.err THEN s
  ELSE Window([s EXCEPT !.at[k] = Len(s.outs[k - 1].win)], k, Space(s, k - 1))

StreamBeginBuf(s, k, req) ==
  CASE s.stack[k] = "buf" -> LendBuffer(Require(s, Len(s.sink) + req), k)
    [] s.stack[k] = "buffered" -> Window(s, k, BufferSize)
    [] s.stack[k] = "proxy" -> LendWindow(gu_out_begin_span(s, k - 1, 0), k)
    [] OTHER -> s \* a file and a locale writer lend no buffer

\* gu_buf_outbuf_end's second gu_require compares sz with len - avail_len, which
\* wraps to a huge number unless it is 0.
StreamEndBuf(s, k, win) ==
  CASE s.stack[k] = "buf" -> Check([s EXCEPT !.sink = @ \o win], Len(s.sink) # s.avail)
    [] s.stack[k] = "buffered" ->
         gu_out_bytes(Check(s, Len(win) <= BufferSize), k - 1, win)
    [] s.stack[k] = "proxy" -> EndSpan(s, k - 1, TRUE, s.at[k], win)

\* A device that is full stays full.
gu_file_output(s, src) ==
  LET reach == IF Len(s.sink) + Len(src) < s.room THEN Len(s.sink) + Len(src) ELSE s.room
  IN IF s.late THEN [s EXCEPT !.sink = @ \o src]
     ELSE [s EXCEPT !.sink = Take(@ \o src, reach), !.onDisk = reach,
                    !.err = @ \/ reach < Len(s.sink) + Len(src)]

\* gu_locale_writer_flush_ucs_buf, from the characters chars on.  An error leaves
\* the buffer as it is.
RECURSIVE FlushUcs(_, _, _)

AfterUcsSpan(s, k, chars) == IF s.err THEN s ELSE FlushUcs(s, k, chars)

AfterUcsBegin(s, k, chars) ==
  LET n == SpanChars("locale", s, k - 1, MbMax + 1, chars) IN
  IF s.err THEN s
  ELSE AfterUcsSpan(EncodeToSpan("locale", s, k - 1, MbMax + 1, chars, n), k, Drop(chars, n))

FlushUcs(s, k, chars) ==
  IF chars = <<>> THEN [s EXCEPT !.ucs[k] = <<>>]
  ELSE AfterUcsBegin(gu_out_begin_span(s, k - 1, MbMax + 1), k, chars)

\* gu_locale_writer_output
RECURSIVE LocaleOutput(_, _, _)

AfterFlushUcs(s, k, chars) == IF s.err THEN s ELSE LocaleOutput(s, k, chars)

LocaleOutput(s, k, chars) ==
  LET s1 == [s EXCEPT !.ucs[k] = Take(@ \o chars, UcsSize)]
  IN IF Len(s.ucs[k]) + Len(chars) <= UcsSize THEN s1
     ELSE AfterFlushUcs(FlushUcs(s1, k, s1.ucs[k]), k, Drop(chars, UcsSize - Len(s.ucs[k])))

StreamOutput(s, k, src) ==
  CASE s.stack[k] = "file" -> gu_file_output(s, src)
    [] s.stack[k] = "buf" ->
         [Require(s, Len(s.sink) + Len(src)) EXCEPT !.sink = @ \o src]
    [] s.stack[k] = "locale" -> LocaleOutput(Check(s, src = Utf8(Ucs(src))), k, Ucs(src))
    [] OTHER -> gu_out_bytes(s, k - 1, src)

\* gu_file_flush
FlushFile(s) ==
  LET reach == IF Len(s.sink) < s.room THEN Len(s.sink) ELSE s.room
  IN IF ~s.late THEN s
     ELSE [s EXCEPT !.onDisk = reach, !.err = @ \/ reach < Len(s.sink)]

\* gu_locale_writer_flush
AfterLocaleFlush(s, k) == IF s.err THEN s ELSE gu_out_flush(s, k - 1)

\* The flush functions; a growing buffer has none.
StreamFlush(s, k) ==
  CASE s.stack[k] = "file" -> FlushFile(s)
    [] s.stack[k] = "buf" -> s
    [] s.stack[k] = "locale" -> AfterLocaleFlush(FlushUcs(s, k, s.ucs[k]), k)
    [] OTHER -> gu_out_flush(s, k - 1)

OutInvoke(fn, s, k, arg) ==
  CASE fn = "begin_buf" -> StreamBeginBuf(s, k, arg)
    [] fn = "end_buf" -> StreamEndBuf(s, k, arg)
    [] fn = "output" -> StreamOutput(s, k, arg)
    [] fn = "flush" -> StreamFlush(s, k)

\* The finalizers of the pool, the last registered first: gu_writer_finalize and
\* gu_out_fini, each with an exception of its own.  A "buffered" layer has none.
RECURSIVE Finalize(_, _)
Finalize(s, k) ==
  LET t == [s EXCEPT !.err = FALSE]
      s1 == CASE s.stack[k] = "buffered" -> t
              [] s.stack[k] \in {"proxy", "locale"} -> gu_out_flush(t, k)
              [] OTHER -> gu_out_end_buf(t, k)
  IN IF k = 0 THEN s ELSE [Finalize(s1, k - 1) EXCEPT !.err = s.err]
=============================================================================
