------------------------------ MODULE MCStreams ------------------------------
(***************************************************************************)
(* The stacks of layers that the repository writes to, and for reading     *)
(* every kind of layer, with buffers of a few bytes.  The characters: one  *)
(* of one byte in both encodings, one of two bytes in both, and one of two *)
(* that the locale does not have.                                          *)
(***************************************************************************)
EXTENDS Streams

MCChars == {"q", "w", "u"}
MCUtf8Len == [c \in MCChars |-> CASE c = "q" -> 1 [] c = "w" -> 2 [] c = "u" -> 2]
MCMbLen == [c \in MCChars |-> CASE c = "q" -> 1 [] c = "w" -> 2 [] c = "u" -> 0]

MCTexts == {<<"q", "w">>, <<"w", "u", "q">>}

\* string.c, pgf2yaml.c, pgf-translate.c, log.c and test-write.c
MCOutStacks ==
  {<<"buf", "proxy">>, <<"file", "proxy">>, <<"file", "buffered", "proxy">>, <<"file", "locale">>,
   <<"file", "buffered", "locale", "buffered">>}

MCInStacks == [kind \in {"buf", "file", "locale"} |->
  CASE kind = "buf" -> {<<"data", "proxy">>}
    [] kind = "file" -> {<<"file">>, <<"file", "buffered">>, <<"file", "buffered", "proxy">>}
    [] kind = "locale" -> {<<"file", "locale">>, <<"file", "buffered", "locale">>}]

\* gu_buf_require doubles.
MCCapacity(n) == IF n <= 2 THEN 2 ELSE IF n <= 4 THEN 4 ELSE IF n <= 8 THEN 8 ELSE 16
=============================================================================
