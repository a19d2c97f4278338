------------------------------- MODULE Tagged -------------------------------
(***************************************************************************)
(* gu/string.c and gu/variant.c: strings and variants, words that are a    *)
(* pointer into the pool or hold something of their own in its low bits.   *)
(* The bytes of a string matter by their number only: strings of one       *)
(* length are copies of each other.  Memory is what was stored in front of *)
(* the data: the byte before it, and the word before that.                 *)
(***************************************************************************)
EXTENDS GuBuf

CONSTANTS
  StrLens,   \* the lengths of the strings that are made
  Variants,  \* the variants that are made, as [tag, size, align]
  MaxWords   \* bound: the number of words

ASSUME TaggedAssumption ==
  /\ StrLens \subseteq Nat /\ MaxWords \in Nat
  /\ WordSize <= 128 /\ 2 \in Alignments
  /\ Variants \subseteq [tag : 0..255, size : Nat, align : Alignments]

VARIABLE words \* [k, of, w, obj, byte, prefix]: a string or a variant, what was asked
               \* for, the word, and the object it points to with what is stored there

tagVars == <<bufVars, words>>

TagInit == BufInit /\ words = <<>>

-----------------------------------------------------------------------------
(* Strings *)

\* The address that the request just made was given
NewAddr == allocs'[Len(allocs')].addr

String(of, w, obj, byte, prefix) ==
  [k |-> "string", of |-> of, w |-> w, obj |-> obj, byte |-> byte, prefix |-> prefix]

\* gu_utf8_string, of the len bytes of the string of.  A long string is allocated into
\* another variable than the one whose value, NULL, is copied to and returned.
gu_utf8_string(of, len) ==
  IF len < WordSize
  THEN words' = Append(words, String(of, 2 * len + 1, 0, 0, 0)) /\ UNCHANGED vars
  ELSE IF len < 256
  THEN /\ Alloc(Normal([pre_align |-> 1, pre_size |-> 0, align |-> 2, size |-> 1 + len]), pool.finalizers)
       /\ words' = Append(words, String(of, NewAddr, Len(allocs'), len, 0))
  ELSE /\ Alloc(Normal([pre_align |-> WordSize, pre_size |-> WordSize, align |-> 1, size |-> 1 + len]),
                pool.finalizers)
       /\ words' = Append(words, String(of, NULL, Len(allocs'), 0, len))

gu_string_is_stable(s) == s.w % 2 = 1

\* The length that gu_string_open finds
gu_string_open(s) ==
  CASE gu_string_is_stable(s) -> (s.w % 256) \div 2
    [] s.byte # 0 -> s.byte
    [] OTHER -> s.prefix

gu_string_copy(i) ==
  IF gu_string_is_stable(words[i]) THEN words' = Append(words, words[i]) /\ UNCHANGED vars
  ELSE gu_utf8_string(words[i].of, gu_string_open(words[i]))

\* What gu_string_hash depends on: the word of a string that is stable, and the
\* bytes of others
gu_string_hash(s) == IF gu_string_is_stable(s) THEN <<"word", s.w>> ELSE <<"bytes", gu_string_open(s)>>

-----------------------------------------------------------------------------
(* Variants *)

\* Mutation: the alignment of the type is enough.
VariantAlignOwn(align) == align

VariantAlign(align) == IF align < WordSize THEN WordSize ELSE align

\* gu_alloc_variant: a small tag is in the low bits of the word, and a large one in
\* the byte before the data.
gu_alloc_variant(v) ==
  LET align == VariantAlign(v.align)
      plain(size) == [pre_align |-> 1, pre_size |-> 0, align |-> align, size |-> size]
  IN IF v.tag > WordSize - 2
     THEN /\ Alloc(Normal(plain(align + v.size)), pool.finalizers)
          /\ words' = Append(words, [k |-> "variant", of |-> v, w |-> NewAddr + align, obj |-> Len(allocs'),
                                     byte |-> v.tag, prefix |-> 0])
     ELSE /\ Alloc(Normal(plain(v.size)), pool.finalizers)
          /\ words' = Append(words, [k |-> "variant", of |-> v, w |-> NewAddr + v.tag + 1, obj |-> Len(allocs'),
                                     byte |-> 0, prefix |-> 0])

gu_variant_tag(x) == IF x.w % WordSize = 0 THEN x.byte ELSE (x.w % WordSize) - 1

gu_variant_data(x) == x.w - (x.w % WordSize)

-----------------------------------------------------------------------------
IsString(x) == x.k = "string"

NewWord ==
  /\ Idle /\ Len(words) < MaxWords
  /\ \/ \E len \in StrLens : gu_utf8_string(len, len)
     \/ \E i \in {j \in DOMAIN words : IsString(words[j]) /\ words[j].w # NULL} : gu_string_copy(i)
     \/ \E v \in Variants : gu_alloc_variant(v)
  /\ UNCHANGED <<bufs, making, seqs>>

TagNext == (BufNext /\ UNCHANGED words) \/ NewWord

TagSpec == TagInit /\ [][TagNext]_tagVars

-----------------------------------------------------------------------------
\* string.h: a copy is "a new string, representing the same code point sequence";
\* every string can be opened, as long as its pool, and gives its bytes, from an
\* object that is its own; and equal strings hash alike, though a hash may be that of
\* the word and two long strings have different words.
StringsKept ==
  \A i \in {j \in DOMAIN words : IsString(words[j])} :
    LET s == words[i] IN
    /\ s.w # NULL
    /\ gu_string_open(s) = s.of
    /\ s.obj # 0 => /\ allocs[s.obj].addr = s.w
                    /\ s.byte = 0 => allocs[s.obj].addr - allocs[s.obj].lo >= WordSize
    /\ \A j \in {k \in DOMAIN words : IsString(words[k])} :
         /\ words[j].of = s.of => gu_string_hash(words[j]) = gu_string_hash(s)
         /\ i # j /\ s.obj # 0 => words[j].obj # s.obj

\* The tag and the data of a variant are found again, the data are aligned for their
\* type, and neither they nor the tag are outside the object.
VariantsKept ==
  \A i \in {j \in DOMAIN words : ~IsString(words[j])} :
    LET x == words[i] IN
    /\ gu_variant_tag(x) = x.of.tag
    /\ gu_variant_data(x) % x.of.align = 0
    /\ gu_variant_data(x) + x.of.size = allocs[x.obj].hi
    /\ x.byte # 0 => gu_variant_data(x) > allocs[x.obj].lo

\* What a word holds in its low bits, or before the data it points to, comes back,
\* wherever in a block the pool puts the data: the length of a sequence, the length
\* and the bytes of a string, the tag and the data of a variant.
TagsKept == SeqsTaggable /\ StringsKept /\ VariantsKept
=============================================================================
