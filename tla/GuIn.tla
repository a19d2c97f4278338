-------------------------------- MODULE GuIn --------------------------------
(***************************************************************************)
(* gu/in.c, gu/read.c, the input stream of gu/file.c, and the reading half *)
(* of gu/utf8.c: layers of input.  Layer k is a GuIn and its stream; the   *)
(* stream of layer 1 is a "file" or "data" in memory, and that of each     *)
(* other layer reads the GuIn below:                                       *)
(*   "proxy"    lends out the window of the GuIn below,                    *)
(*   "buffered" has a buffer of its own,                                   *)
(*   "locale"   decodes characters and encodes them in UTF-8.              *)
(* A GuIn that is buffering has a window of used + Len(win) bytes, of      *)
(* which win are still to be read: buf_curr is -Len(win).                  *)
(*                                                                         *)
(* Calls run to completion, so each is an operator from a state r of the   *)
(* layers to the state after it; got is what the call returns.  An         *)
(* operator whose name begins with After is the rest of a function behind  *)
(* the call that gives its first argument.                                 *)
(***************************************************************************)
EXTENDS Encoding

CONSTANT InBufferSize \* the size of a "buffered" layer

ASSUME InStreamsAssumption == InBufferSize \in Nat \ {0}

\* gu_invoke of begin_buffer, end_buffer or input, for the stream of layer k
RECURSIVE InInvoke(_, _, _, _)

NoWindow == [on |-> FALSE, used |-> 0, win |-> <<>>]

\* gu_init_in for each layer
NewIns(stack, source, broken) ==
  [stack |-> stack, ins |-> [k \in DOMAIN stack |-> NoWindow],
   pos |-> [k \in DOMAIN stack |-> 0],     \* stream_pos
   source |-> source,                      \* what is left in the file, or of the data
   broken |-> broken,                      \* the file fails where it should end
   have |-> [k \in DOMAIN stack |-> <<>>], \* buf[curr..have] of a "buffered" layer
   ps |-> <<>>, frag |-> <<>>, failed |-> FALSE, \* of the "locale" layer
   got |-> <<>>, char |-> Question, err |-> "none",
   sound |-> TRUE]                         \* no gu_require and no gu_assert has failed

Ensure(r, p) == [r EXCEPT !.sound = @ /\ p]

Return(r, bytes) == [r EXCEPT !.got = bytes]

-----------------------------------------------------------------------------
\* Mutation: the position is not moved.
EndBufferingStill(r, k) ==
  IF ~r.ins[k].on THEN r ELSE [InInvoke("end_buffer", r, k, r.ins[k].used) EXCEPT !.ins[k] = NoWindow]

gu_in_end_buffering(r, k) ==
  IF ~r.ins[k].on THEN r
  ELSE [InInvoke("end_buffer", r, k, r.ins[k].used) EXCEPT
          !.pos[k] = @ + r.ins[k].used, !.ins[k] = NoWindow]

AfterBeginBuffer(r, k) ==
  IF r.err # "none" \/ r.got = <<>> THEN r
  ELSE [r EXCEPT !.ins[k] = [on |-> TRUE, used |-> 0, win |-> r.got]]

\* It returns true if the GuIn is buffering in the end.
gu_in_begin_buffering(r, k) ==
  IF r.ins[k].win # <<>> THEN r
  ELSE AfterBeginBuffer(InInvoke("begin_buffer", gu_in_end_buffering(r, k), k, 0), k)

AfterInput(r, k) == [r EXCEPT !.pos[k] = @ + Len(r.got)]

AfterEndBuffering(r, k, n) ==
  IF r.err # "none" THEN Return(r, <<>>) ELSE AfterInput(InInvoke("input", r, k, n), k)

gu_in_input(r, k, n) ==
  IF n = 0 THEN Return(r, <<>>) ELSE AfterEndBuffering(gu_in_end_buffering(r, k), k, n)

gu_in_tell(r, k) == r.pos[k] + r.ins[k].used

\* The bytes of the window that a call of at most n takes.
TakeWindow(r, k, n) ==
  LET m == IF n < Len(r.ins[k].win) THEN n ELSE Len(r.ins[k].win)
  IN Return([r EXCEPT !.ins[k].used = @ + m, !.ins[k].win = Drop(@, m)], Take(r.ins[k].win, m))

\* The loop of gu_in_some
RECURSIVE SomeLoop(_, _, _, _, _)

AfterSomeInput(r, k, n, min, got) ==
  IF r.got = <<>> THEN Return(r, got) \* EOF
  ELSE SomeLoop(r, k, n, min, got \o r.got)

SomeLoop(r, k, n, min, got) ==
  IF Len(got) >= min THEN Return(r, got)
  ELSE AfterSomeInput(gu_in_input(r, k, n - Len(got)), k, n, min, got)

AfterTakeWindow(r, k, n, min) == SomeLoop(r, k, n, min, r.got)

AfterBeginSome(r, k, n, min) ==
  IF r.ins[k].on THEN AfterTakeWindow(TakeWindow(r, k, n), k, n, min)
  ELSE IF r.err # "none" THEN Return(r, <<>>)
  ELSE SomeLoop(r, k, n, min, <<>>)

gu_in_some(r, k, n, min) ==
  AfterBeginSome(gu_in_begin_buffering(Ensure(r, min <= n), k), k, n, min)

RaiseEOF(r, n) == IF r.err = "none" /\ Len(r.got) < n THEN [r EXCEPT !.err = "eof"] ELSE r

\* gu_in_bytes and gu_in_bytes_
gu_in_bytes(r, k, n) ==
  IF n <= Len(r.ins[k].win) THEN TakeWindow(r, k, n) ELSE RaiseEOF(gu_in_some(r, k, n, n), n)

AfterBeginU8(r, k) ==
  IF r.ins[k].on THEN TakeWindow(r, k, 1) ELSE RaiseEOF(gu_in_input(r, k, 1), 1)

\* gu_in_u8 and gu_in_u8_
gu_in_u8(r, k) ==
  IF r.ins[k].win # <<>> THEN TakeWindow(r, k, 1) ELSE AfterBeginU8(gu_in_begin_buffering(r, k), k)

AfterBeginSpan(r, k, req) ==
  IF r.ins[k].on THEN Return(r, r.ins[k].win) ELSE gu_in_input(r, k, req)

\* The span is the window, or what there is of req bytes.
gu_in_begin_span(r, k, req) == AfterBeginSpan(gu_in_begin_buffering(r, k), k, req)

gu_in_end_span(r, k, consumed) ==
  IF ~r.ins[k].on THEN r
  ELSE [Ensure(r, consumed <= Len(r.ins[k].win)) EXCEPT
          !.ins[k].used = @ + consumed, !.ins[k].win = Drop(@, consumed)]

-----------------------------------------------------------------------------
\* The bytes that gu_in_utf8_ reads after the first byte b.
MoreBytes(b) == IF b = Bad THEN Utf8Max - 1 ELSE IF b[2] = 1 THEN Utf8Len[b[1]] - 1 ELSE 0

\* gu_utf8_decode_one tests the first byte and the character it gets, not the bytes
\* between: wrong ones make a "garbled" character.
AfterMoreBytes(r, b) ==
  IF Len(r.got) < MoreBytes(b) THEN [r EXCEPT !.err = IF @ = "none" THEN "ucs" ELSE @]
  ELSE IF b[2] # 1 THEN [r EXCEPT !.err = "ucs"]
  ELSE [r EXCEPT !.got = <<b>> \o @,
                 !.char = IF <<b>> \o r.got = Utf8(<<b[1]>>) THEN b[1] ELSE "garbled"]

\* gu_in_utf8 takes a byte of its own from the window if that is a character.
AfterFirstByte(r, k, wasWindow) ==
  IF r.err # "none" THEN r
  ELSE IF wasWindow /\ r.got[1][2] = 1 /\ MoreBytes(r.got[1]) = 0
    THEN [r EXCEPT !.char = r.got[1][1]]
  ELSE AfterMoreBytes(gu_in_some(r, k, MoreBytes(r.got[1]), MoreBytes(r.got[1])), r.got[1])

\* gu_in_utf8 and gu_in_utf8_
gu_in_utf8(r, k) == AfterFirstByte(gu_in_u8(r, k), k, r.ins[k].win # <<>>)

-----------------------------------------------------------------------------
(* The streams *)

StreamEndBuffer(r, k, consumed) ==
  CASE r.stack[k] = "data" -> [r EXCEPT !.source = Drop(@, consumed)]
    [] r.stack[k] = "proxy" -> gu_in_end_span(r, k - 1, consumed)
    [] r.stack[k] = "buffered" ->
         [Ensure(r, consumed <= Len(r.have[k])) EXCEPT !.have[k] = Drop(@, consumed)]

AfterFill(r, k) == [r EXCEPT !.have[k] = r.got]

Lend(r, k) == Return(r, r.have[k])

\* gu_buffered_in_begin_buffer fills an empty buffer, with one read of the GuIn below.
FillBuffer(r, k) ==
  IF r.have[k] # <<>> THEN r ELSE AfterFill(gu_in_some(r, k - 1, InBufferSize, 1), k)

StreamBeginBuffer(r, k) ==
  CASE r.stack[k] = "data" -> Return(r, r.source)
    [] r.stack[k] = "proxy" -> gu_in_begin_span(r, k - 1, 0)
    [] r.stack[k] = "buffered" -> Lend(FillBuffer(r, k), k)
    [] OTHER -> Return(r, <<>>)

\* A file that is broken gives what it has, and then fails.
gu_file_input(r, n) ==
  LET r1 == Return([r EXCEPT !.source = Drop(@, n)], Take(r.source, n)) IN
  IF r.broken /\ Len(r.source) < n THEN [r1 EXCEPT !.err = "errno"] ELSE r1

\* Mutation: a part of a character that does not fit is dropped.
EncodeWholeOnly(r, n, chars) == Return(r, Take(Utf8(chars), n))

\* The end of gu_locale_reader_input.  Only the last character may have no room, and
\* utf8_frag keeps the rest of it.
EncodeWithFragment(r, n, chars) ==
  Return([Ensure(r, Len(Utf8(Take(chars, Len(chars) - 1))) <= n) EXCEPT !.frag = Drop(Utf8(chars), n)],
         Take(Utf8(chars), n))

\* From read_again on, with mbs for the span.  mbrtowc keeps in ps a character that is
\* not whole yet.
RECURSIVE LocaleReadAgain(_, _, _)

AfterMbSpan(r, k, n, mbs) ==
  LET all == r.ps \o mbs
      whole == WholeLen("locale", all)
      chars == Ucs(Take(all, whole))
      rest == Drop(all, whole)
      good == rest = <<>> \/ IsPartial(rest)
      r1 == [gu_in_end_span(r, k - 1, Len(mbs)) EXCEPT !.ps = IF good THEN rest ELSE <<>>]
  IN IF r.err # "none" \/ mbs = <<>> THEN Return(r, <<>>)
     ELSE IF chars # <<>> THEN EncodeWithFragment([r1 EXCEPT !.failed = ~good], n, chars)
     ELSE IF good THEN LocaleReadAgain(r1, k, n)
     ELSE Return([r1 EXCEPT !.err = "ucs"], <<>>)

AfterMbBegin(r, k, n, max) == AfterMbSpan(r, k, n, Take(r.got, max))

LocaleReadAgain(r, k, n) ==
  LET max == (n + Utf8Max - 1) \div Utf8Max
  IN AfterMbBegin(gu_in_begin_span(r, k - 1, max), k, n, max)

\* gu_locale_reader_input: first what is left of a character, then more of them.
LocaleInput(r, k, n) ==
  IF r.frag # <<>> THEN Return([r EXCEPT !.frag = Drop(@, n)], Take(r.frag, n))
  ELSE IF r.failed THEN Return([r EXCEPT !.err = "ucs"], <<>>)
  ELSE LocaleReadAgain(r, k, n)

StreamInput(r, k, n) ==
  CASE r.stack[k] = "file" -> gu_file_input(r, n)
    [] r.stack[k] = "data" -> Return(r, <<>>)
    [] r.stack[k] = "locale" -> LocaleInput(r, k, n)
    [] OTHER -> gu_in_some(r, k - 1, n, 1)

InInvoke(fn, r, k, arg) ==
  CASE fn = "begin_buffer" -> StreamBeginBuffer(r, k)
    [] fn = "end_buffer" -> StreamEndBuffer(r, k, arg)
    [] fn = "input" -> StreamInput(r, k, arg)
=============================================================================
