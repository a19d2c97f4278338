------------------------------ MODULE Encoding ------------------------------
(***************************************************************************)
(* Characters and the two encodings the streams convert between: UTF-8     *)
(* (gu/utf8.c) and the multibyte encoding of the locale (the C library's   *)
(* wcsrtombs and mbrtowc).  Byte j of a character c is <<c, j, e>>, with e *)
(* the encoding: how long the character is can be told from its first      *)
(* byte, and no other byte looks like a first one.                         *)
(***************************************************************************)
EXTENDS Naturals, SequencesExt

CONSTANTS
  Chars,
  Utf8Len,  \* [Chars -> 1..Utf8Max]
  Utf8Max,  \* the bytes of the longest character in UTF-8: 4
  MbLen,    \* [Chars -> 0..MbMax]; 0 for what the locale cannot encode
  MbMax,    \* MB_LEN_MAX
  Question  \* L'?'

ASSUME EncodingAssumption ==
  /\ Utf8Max \in Nat \ {0} /\ Utf8Len \in [Chars -> 1..Utf8Max]
  /\ MbMax \in Nat \ {0} /\ MbLen \in [Chars -> 0..MbMax]
  /\ Question \in Chars /\ MbLen[Question] # 0

\* What stands for a byte that no encoding has at its place.
Bad == <<"bad", 0, "none">>

Take(s, n) == SubSeq(s, 1, IF n < Len(s) THEN n ELSE Len(s))

Drop(s, n) == SubSeq(s, n + 1, Len(s))

EncodeOne(c, n, e) == [j \in 1..n |-> <<c, j, e>>]

\* gu_utf8_encode_one_unsafe, for each of some characters
Utf8(chars) ==
  FlattenSeq([i \in DOMAIN chars |-> EncodeOne(chars[i], Utf8Len[chars[i]], "utf8")])

\* What the locale writer makes of a character.
Printable(c) == IF MbLen[c] = 0 THEN Question ELSE c

\* wcsrtombs, for each of some characters
Mb(chars) ==
  FlattenSeq([i \in DOMAIN chars |->
    EncodeOne(Printable(chars[i]), MbLen[Printable(chars[i])], "locale")])

\* The bytes of some characters in encoding e.
Encode(e, chars) == IF e = "utf8" THEN Utf8(chars) ELSE Mb(chars)

\* The characters that begin in bytes: gu_utf8_decode_unsafe of whole characters.
Ucs(bytes) ==
  LET first == SelectSeq(bytes, LAMBDA b : b[2] = 1)
  IN [i \in DOMAIN first |-> first[i][1]]

\* How many of the characters go into room bytes: both gu_utf8_encode and wcsrtombs
\* stop at the first that does not fit.
Fitting(e, chars, room) ==
  CHOOSE m \in 0..Len(chars) :
    /\ Len(Encode(e, Take(chars, m))) <= room
    /\ m < Len(chars) => Len(Encode(e, Take(chars, m + 1))) > room

\* The longest beginning of bytes that is whole characters.
WholeLen(e, bytes) ==
  Max({i \in 0..Len(bytes) : Take(bytes, i) = Encode(e, Ucs(Take(bytes, i)))})

\* Is this the beginning of one character, with more to come?
IsPartial(bytes) ==
  bytes # <<>> /\ \A j \in DOMAIN bytes : bytes[j] = <<bytes[1][1], j, bytes[1][3]>>
=============================================================================
