------------------------------- MODULE Reader -------------------------------
(***************************************************************************)
(* pgf/reader.c: a grammar is read from a PGF file under the direction of  *)
(* the descriptions of its types.                                          *)
(*                                                                         *)
(* A call runs to completion, so that each function is an operator from a  *)
(* state r of the reader to the state after it; r.got is what it returns.  *)
(* Memory is a heap of cells.  A place in it, the argument to, is a cell   *)
(* and a path of members or indices in it; structs, sequences and variants *)
(* are kept where they are, and a pointer is the number of a cell.  An     *)
(* operator whose name begins with After is the rest of a function behind  *)
(* the call that gives its first argument.                                 *)
(*                                                                         *)
(* The stream below gives its bytes in order and then GuEOF.  Once an      *)
(* exception is raised nothing more is made of what is read.               *)
(***************************************************************************)
EXTENDS GuExn, SequencesExt

\* The function the reader's tables hold for kind fn, of a type and a place
RECURSIVE Read(_, _, _, _)

\* pgf_new_reader, on a file of these bytes
NewReader(bytes) ==
  [in |-> bytes, exn |-> <<NewExn(0, "type")>>, heap |-> <<>>,
   temp |-> 0,       \* the temporary pools that have not been freed
   curr_sequences |-> NULL, curr_cncfuns |-> NULL, curr_ccats |-> NULL,
   curr_lindefs |-> NULL, curr_key |-> NULL, ctx |-> <<>>,
   fatal |-> NULL,   \* why the program has stopped
   got |-> NULL]

Ok(r) == gu_ok(r.exn, 1) /\ r.fatal = NULL

Raise(r, type) == [r EXCEPT !.exn = gu_raise(@, 1, type), !.got = 0]

Stop(r, why) == [r EXCEPT !.fatal = IF @ = NULL THEN why ELSE @, !.got = NULL]

Return(r, x) == [r EXCEPT !.got = x]

-----------------------------------------------------------------------------
(***************************************************************************)
(* Memory                                                                  *)
(***************************************************************************)
New(r) == Len(r.heap) + 1

Alloc(r, x) == [r EXCEPT !.heap = Append(@, x)]

RECURSIVE Put(_, _, _)
Put(v, path, x) ==
  IF path = <<>> THEN x
  ELSE LET f == IF v = NULL THEN <<>> ELSE v
           k == Head(path)
       IN [j \in DOMAIN f \cup {k} |->
             IF j = k THEN Put(IF k \in DOMAIN f THEN f[k] ELSE NULL, Tail(path), x) ELSE f[j]]

RECURSIVE Get(_, _)
Get(v, path) == IF path = <<>> THEN v ELSE Get(v[Head(path)], Tail(path))

Store(r, to, x) == [r EXCEPT !.heap[to[1]] = Put(@, Tail(to), x)]

Load(r, to) == Get(r.heap[to[1]], Tail(to))

\* gu_map_get
Lookup(map, key) == IF key \in DOMAIN map THEN map[key] ELSE NULL

-----------------------------------------------------------------------------
(***************************************************************************)
(* Numbers and characters                                                  *)
(***************************************************************************)
\* gu_in_bytes, of n bytes
ReadBytes(r, n) ==
  CASE ~Ok(r) -> Return(r, [i \in 1..n |-> 0])
    [] Len(r.in) < n -> [Raise(r, "GuEOF") EXCEPT !.in = <<>>, !.got = [i \in 1..n |-> 0]]
    [] OTHER -> [r EXCEPT !.in = SubSeq(@, n + 1, Len(@)), !.got = SubSeq(r.in, 1, n)]

pgf_read_u8(r) == LET s == ReadBytes(r, 1) IN Return(s, s.got[1])

\* gu_decode_2c32 of a number given by its groups of 7 bits
gu_decode_2c32(groups) ==
  LET low == FoldRight(LAMBDA g, u : g + 128 * u, SubSeq(groups, 1, Min({4, Len(groups)})), 0)
      high == IF Len(groups) = 5 THEN groups[5] % 16 ELSE 0
  IN low + (IF high >= 8 THEN high - 16 ELSE high) * 2^28

\* Mutation: a number that the file lacks is 0.
IntSilent(r) ==
  LET ends == {i \in DOMAIN r.in : r.in[i] < 128}
      n == Min(ends)
  IN IF ~Ok(r) \/ ends = {} THEN Return(r, 0)
     ELSE [r EXCEPT !.in = SubSeq(@, n + 1, Len(@)),
                    !.got = gu_decode_2c32([i \in 1..n |-> r.in[i] % 128])]

\* A number ends with its first byte below 0x80.  One of more than five bytes is
\* shifted by more than its width.
pgf_read_int(r) ==
  LET ends == {i \in DOMAIN r.in : r.in[i] < 128}
      n == Min(ends)
  IN CASE ~Ok(r) -> Return(r, 0)
       [] ends = {} -> [Raise(r, "GuEOF") EXCEPT !.in = <<>>]
       [] n > 5 -> Stop(r, "a shift past the width")
       [] OTHER -> [r EXCEPT !.in = SubSeq(@, n + 1, Len(@)),
                             !.got = gu_decode_2c32([i \in 1..n |-> r.in[i] % 128])]

pgf_read_len(r) ==
  LET s == pgf_read_int(r)
  IN IF Ok(s) /\ s.got < 0 THEN Raise(s, "PgfReadTagExn") ELSE s

\* gu_utf8_decode_one, of a first byte and the others
Utf8Decode(first, others) ==
  FoldLeft(LAMBDA u, b : u * 64 + (b % 64),
           CASE Len(others) = 0 -> first [] Len(others) = 1 -> first % 32
             [] Len(others) = 2 -> first % 16 [] OTHER -> first % 8,
           others)

AfterFirst(r) ==
  LET first == r.got
      n == CASE first < 192 -> 0 [] first < 224 -> 1 [] first < 240 -> 2 [] OTHER -> 3
      u == Utf8Decode(first, SubSeq(r.in, 1, n))
  IN CASE ~Ok(r) -> r
       [] Len(r.in) < n -> [Raise(r, "GuUCSExn") EXCEPT !.in = <<>>]
       [] first \in 128..193 \/ first > 244 \/ u > 1114111 -> Raise(r, "GuUCSExn")
       [] OTHER -> [r EXCEPT !.in = SubSeq(@, n + 1, Len(@)), !.got = u]

gu_in_utf8(r) == AfterFirst(pgf_read_u8(r))

\* The characters of a string, of which so far are read: identifiers are in
\* Latin-1 and all others in UTF-8.
RECURSIVE ReadChars(_, _, _, _)
ReadChars(r, type, n, sofar) ==
  IF n = 0 \/ ~Ok(r) THEN Return(r, sofar)
  ELSE LET s == IF type = "PgfCId" THEN pgf_read_u8(r) ELSE gu_in_utf8(r)
       IN ReadChars(s, type, n - 1, Append(sofar, s.got))

\* gu_symtable_intern gives a string of these characters that lives in the pool
\* of the grammar.
AfterChars(r, to) == [Store(r, to, r.got) EXCEPT !.temp = @ - 1]

AfterStringLen(r, type, to) == AfterChars(ReadChars(r, type, r.got, <<>>), to)

\* pgf_read_to_PgfCId as well
pgf_read_to_GuString(type, r, to) ==
  AfterStringLen(pgf_read_len([r EXCEPT !.temp = @ + 1]), type, to)

StoreGot(r, to) == Store(r, to, r.got)

AfterU16(r, to) == Store(r, to, r.got[1] * 256 + r.got[2])

pgf_read_to_uint16_t(r, to) == AfterU16(ReadBytes(r, 2), to)

\* A double is the eight bytes it is decoded from.
pgf_read_to_double(r, to) == StoreGot(ReadBytes(r, 8), to)

-----------------------------------------------------------------------------
(***************************************************************************)
(* The tables, and the types that are read the same way everywhere         *)
(***************************************************************************)
SelfTable(kinds) == [k \in kinds |-> k]

pgf_read_to_table ==
  [PgfEquationsM |-> "maybe_seq", PgfSequences |-> "idarray", PgfCncFuns |-> "idarray"]
  @@ SelfTable({"struct", "GuVariant", "enum", "void", "int32_t", "uint16_t", "GuLength",
                "PgfCId", "GuString", "double", "pointer", "GuSeq", "PgfCCatId", "PgfSeqId",
                "PgfFunId", "PgfContext", "PgfKey", "alias", "referenced"})

pgf_read_new_table ==
  [type |-> "new type", GuMap |-> "new GuMap", PgfCatId |-> "new PgfCatId",
   PgfCCat |-> "new PgfCCat", PgfCncCat |-> "new PgfCncCat", PgfConcr |-> "new PgfConcr"]

\* A type with no function in the table is called through a null pointer.
pgf_read_to(type, r, to) ==
  LET fn == gu_type_map_get(pgf_read_to_table, type)
  IN IF ~Ok(r) THEN r ELSE IF fn = NULL THEN Stop(r, "no function") ELSE Read(fn, type, r, to)

pgf_read_new(type, r) == Read(gu_type_map_get(pgf_read_new_table, type), type, r, NULL)

AfterNewType(r, cell) == Return(r, cell)

pgf_read_new_type(type, r) == AfterNewType(pgf_read_to(type, Alloc(r, NULL), <<New(r)>>), New(r))

\* The loop over the members of a struct or the elements of a sequence, from
\* item i on: each has a type, a place and a key.
ReadEach(items, r, i) ==
  IF i > Len(items) \/ ~Ok(r) THEN r
  ELSE Read("each", items,
            pgf_read_to(items[i].type, [r EXCEPT !.curr_key = items[i].key], items[i].to), i + 1)

pgf_read_to_struct(type, r, to) ==
  LET members == Types[gu_type_repr(type)].members
  IN Read("each",
          [i \in DOMAIN members |->
             [type |-> members[i][2], to |-> Append(to, members[i][1]), key |-> r.curr_key]],
          r, 1)

pgf_read_to_pointer(type, r, to) ==
  LET pointed == Types[type].to
  IN IF gu_type_has_kind(pointed, "struct") \/ gu_type_has_kind(pointed, "abstract")
     THEN StoreGot(pgf_read_new(pointed, r), to)
     ELSE Stop(r, "a pointer to neither a struct nor an abstract type")

\* A tag that is past the constructors or the constants is an error.
AfterTag(r, names, to, k) ==
  CASE ~Ok(r) -> r
    [] r.got >= Len(names) -> Raise(r, "PgfReadTagExn")
    [] k = "enum" -> Store(r, to, names[r.got + 1])
    [] OTHER -> pgf_read_to(names[r.got + 1][2],
                            Store(r, to, [tag |-> names[r.got + 1][1]]), Append(to, "data"))

pgf_read_to_GuVariant(type, r, to) == AfterTag(pgf_read_u8(r), Types[type].ctors, to, "GuVariant")

pgf_read_to_enum(type, r, to) == AfterTag(pgf_read_u8(r), Types[type].constants, to, "enum")

\* The place is known before what is read into it.
pgf_read_to_referenced(type, r, to) ==
  pgf_read_to(Types[type].type, [r EXCEPT !.ctx = (type :> to) @@ @], to)

\* The sequence is put in its place when all of it has been read, and only then
\* is the key of the caller back.
AfterElems(r, to, cell, old_key) ==
  IF ~Ok(r) THEN r ELSE [Store(r, to, r.heap[cell]) EXCEPT !.curr_key = old_key]

\* An element takes a byte at least, so that there are no more of them than bytes
\* before the stream ends.
AfterSeqLen(r, type, to) ==
  IF ~Ok(r) THEN r
  ELSE AfterElems(Read("each",
                       [i \in 1..Min({r.got, Len(r.in) + 1}) |->
                          [type |-> Types[type].elem, to |-> <<New(r), i>>, key |-> <<"index", i>>]],
                       Alloc(r, <<>>), 1),
                  to, New(r), r.curr_key)

pgf_read_to_GuSeq(type, r, to) == AfterSeqLen(pgf_read_len(r), type, to)

AfterMaybe(r, type, to) ==
  CASE ~Ok(r) -> r
    [] r.got = 0 -> Store(r, to, NULL)
    [] r.got = 1 -> pgf_read_to_GuSeq(type, r, to)
    [] OTHER -> Raise(r, "PgfReadTagExn")

pgf_read_to_maybe_seq(type, r, to) == AfterMaybe(pgf_read_u8(r), type, to)

-----------------------------------------------------------------------------
(***************************************************************************)
(* Maps.  Those with a hasher have their keys read into a cell of their    *)
(* own again and again; the keys of the others are pointers.               *)
(***************************************************************************)
AfterValue(r, m, i, key) ==
  IF ~Ok(r) THEN r
  ELSE Read("entry", m,
            [r EXCEPT !.heap[m.map] =
               Put(@, <<IF m.type.hashed THEN Load(r, key) ELSE key[1]>>, Load(r, m.value))],
            i + 1)

AfterKey(r, m, i) ==
  LET key == IF m.type.hashed THEN m.key ELSE <<r.got>>
  IN IF ~Ok(r) THEN r
     ELSE AfterValue(pgf_read_to(m.type.value, [r EXCEPT !.curr_key = key], m.value), m, i, key)

ReadEntry(m, r, i) ==
  IF i > m.len \/ ~Ok(r) THEN r
  ELSE AfterKey(IF m.type.hashed THEN pgf_read_to(m.type.key, r, m.key)
                ELSE pgf_read_new(m.type.key, r), m, i)

AfterEntries(r, old_key) ==
  IF ~Ok(r) THEN r ELSE [r EXCEPT !.curr_key = old_key, !.temp = @ - 1]

AfterMapLen(r, type, map) ==
  IF ~Ok(r) THEN r
  ELSE AfterEntries(Read("entry", [type |-> Types[type], map |-> map, len |-> r.got,
                                   key |-> <<New(r)>>, value |-> <<New(r) + 1>>],
                         Alloc(Alloc(r, NULL), NULL), 1),
                    r.curr_key)

\* Of the ways out only the last frees the pool of the key and the value.
pgf_read_into_map(type, r, map) ==
  AfterMapLen(pgf_read_len([r EXCEPT !.temp = @ + 1]), type, map)

AfterMap(r, map) == Return(r, IF Ok(r) THEN map ELSE NULL)

pgf_read_new_GuMap(type, r) == AfterMap(pgf_read_into_map(type, Alloc(r, <<>>), New(r)), New(r))

-----------------------------------------------------------------------------
(***************************************************************************)
(* References, to what has been read or is still to come                   *)
(***************************************************************************)
\* Mutation: a category that is not in the file yet is not put on the map.
InternApart(r, fid) ==
  IF fid \in DOMAIN r.heap[r.curr_ccats] THEN Return(r, r.heap[r.curr_ccats][fid])
  ELSE Return(Alloc(r, [cnccat |-> NULL, prods |-> NULL, fid |-> fid]), New(r))

pgf_reader_intern_ccat(r, fid) ==
  LET known == Lookup(r.heap[r.curr_ccats], fid)
  IN IF known # NULL THEN Return(r, known)
     ELSE [Alloc(r, [cnccat |-> NULL, prods |-> NULL, fid |-> fid]) EXCEPT
             !.heap[r.curr_ccats] = Put(@, <<fid>>, New(r)), !.got = New(r)]

AfterFId(r, to) == IF ~Ok(r) THEN r ELSE StoreGot(pgf_reader_intern_ccat(r, r.got), to)

pgf_read_to_PgfCCatId(r, to) == AfterFId(pgf_read_int(r), to)

AfterIntern(r) == LET ccat == r.got
                  IN Return(pgf_read_to("PgfProductions", r, <<ccat, "prods">>), ccat)

pgf_read_new_PgfCCat(r) == AfterIntern(pgf_reader_intern_ccat(r, Load(r, r.curr_key)))

AfterId(r, array, to) ==
  CASE ~Ok(r) -> r
    [] r.got < 0 \/ r.got >= Len(array) -> Raise(r, "PgfReadExn")
    [] OTHER -> Store(r, to, array[r.got + 1])

pgf_read_to_PgfSeqId(r, to) == AfterId(pgf_read_int(r), r.curr_sequences, to)

pgf_read_to_PgfFunId(r, to) == AfterId(pgf_read_int(r), r.curr_cncfuns, to)

AfterArray(r, type, to) ==
  CASE ~Ok(r) -> r
    [] type = "PgfSequences" -> [r EXCEPT !.curr_sequences = Load(r, to)]
    [] type = "PgfCncFuns" -> [r EXCEPT !.curr_cncfuns = Load(r, to)]

pgf_read_to_idarray(type, r, to) == AfterArray(pgf_read_to_GuSeq(type, r, to), type, to)

pgf_read_to_PgfContext(type, r, to) == Store(r, to, r.ctx[Types[type].to][1])

pgf_read_to_PgfKey(r, to) == Store(r, to, Load(r, r.curr_key))

Pgf(r) == r.ctx["PgfPGF"][1]

AfterCatId(r) ==
  LET cid == r.heap[Len(r.heap)]
      cats == r.heap[Pgf(r)]["abstract"]["cats"]
      known == Lookup(r.heap[cats], cid)
      cat == [pgf |-> Pgf(r), cid |-> cid, context |-> <<>>, functions |-> <<>>]
  IN CASE ~Ok(r) -> Return(r, NULL)
       [] known # NULL -> Return(r, known)
       [] OTHER -> [Alloc(r, cat) EXCEPT !.heap[cats] = Put(@, <<cid>>, New(r)), !.got = New(r)]

\* A category that the abstract syntax lacks is added to it.
pgf_read_new_PgfCatId(r) ==
  AfterCatId(pgf_read_to_GuString("PgfCId", Alloc(r, NULL), <<New(r)>>))

-----------------------------------------------------------------------------
(***************************************************************************)
(* Concrete categories                                                     *)
(***************************************************************************)
Inconsistent == -2
Endless == -3

\* Mutation: only the first production counts.
CtntsOfFirst(r, ccat, i, n, depth) ==
  LET prods == r.heap[ccat].prods
  IN IF prods = NULL \/ prods = <<>> \/ prods[1].tag = "COERCE" THEN n
     ELSE Len(r.heap[prods[1].data.fun].lins)

\* pgf_ccat_n_ctnts from production i of a category on: the constituents of its
\* functions and of those it is coerced to, or n without any.  depth calls are
\* under way; more than there are categories and there is no end to them.
RECURSIVE CtntsFrom(_, _, _, _, _)
CtntsFrom(r, ccat, i, n, depth) ==
  LET prods == r.heap[ccat].prods
      data == prods[i].data
      lins == Len(r.heap[data.fun].lins)
  IN CASE n \in {Inconsistent, Endless} -> n
       [] prods = NULL \/ i > Len(prods) -> n
       [] prods[i].tag = "COERCE" ->
            IF depth > Cardinality(DOMAIN r.heap[r.curr_ccats]) THEN Endless
            ELSE CtntsFrom(r, ccat, i + 1, CtntsFrom(r, data.coerce, 1, n, depth + 1), depth)
       [] OTHER -> IF n \in {-1, lins} THEN CtntsFrom(r, ccat, i + 1, lins, depth)
                   ELSE Inconsistent

pgf_ccat_n_ctnts(r, ccat, n) == CtntsFrom(r, ccat, 1, n, 0)

\* Each category of the range that is in the file gets this concrete category.
RECURSIVE ClaimRange(_, _, _, _, _)
ClaimRange(r, cnccat, fid, last, n) ==
  LET ccat == Lookup(r.heap[r.curr_ccats], fid)
      s == Store(Store(r, <<cnccat, "cats">>, Append(Load(r, <<cnccat, "cats">>), ccat)),
                 <<ccat, "cnccat">>, cnccat)
      m == pgf_ccat_n_ctnts(s, ccat, n)
  IN CASE fid > last -> Return(r, n)
       [] ccat = NULL ->
            ClaimRange(Store(r, <<cnccat, "cats">>, Append(Load(r, <<cnccat, "cats">>), NULL)),
                       cnccat, fid + 1, last, n)
       [] m = Inconsistent -> Return(Raise(s, "PgfReadExn"), NULL)
       [] m = Endless -> Stop(s, "endless recursion")
       [] OTHER -> ClaimRange(s, cnccat, fid + 1, last, m)

AfterClaim(r, cnccat, first) ==
  IF r.got = NULL THEN r
  ELSE Return(pgf_read_to("GuStrings",
                Store(Store(r, <<cnccat, "n_ctnts">>, IF r.got = -1 THEN 0 ELSE r.got),
                      <<cnccat, "lindefs">>, Lookup(r.heap[r.curr_lindefs], first)),
                <<cnccat, "ctnts">>), cnccat)

\* A bound of the model: a longer range of categories has no memory.
MaxRange == 200

AfterLast(r, cnccat, first) ==
  CASE r.fatal # NULL -> r
    [] r.got + 1 < first -> Stop(r, "a sequence of a negative length")
    [] r.got - first > MaxRange -> Stop(r, "out of memory")
    [] OTHER -> AfterClaim(ClaimRange(r, cnccat, first, r.got, -1), cnccat, first)

AfterFirstFId(r, cnccat) == AfterLast(pgf_read_int(r), cnccat, r.got)

\* The string that a GuString denotes which points at the grammar: its length is the
\* first byte there, the low one of major_version.  The two bytes of minor_version
\* follow, and then whatever memory holds, here zeros.
StringAt(pgf) ==
  LET bytes == <<pgf["major_version"] \div 256, pgf["minor_version"] % 256,
                 pgf["minor_version"] \div 256>>
  IN [i \in 1..pgf["major_version"] % 256 |-> IF i <= 3 THEN bytes[i] ELSE 0]

\* The key is a PgfCat, and the name is taken from where that begins: it is not cid
\* but the pointer to the grammar.
CncCatName(r) == StringAt(r.heap[Load(r, r.curr_key).pgf])

pgf_read_new_PgfCncCat(r) ==
  AfterFirstFId(pgf_read_int(Alloc(r, [cid |-> CncCatName(r), cats |-> <<>>,
                                       n_ctnts |-> 0, lindefs |-> NULL, ctnts |-> NULL])),
                New(r))

\* pgf_ccat_set_cnccat, at production i; 0 is its beginning.  r.got is extra_ccats.
RECURSIVE pgf_ccat_set_cnccat(_, _, _, _)
pgf_ccat_set_cnccat(r, ccat, i, depth) ==
  LET prods == r.heap[ccat].prods
      to == prods[i].data.coerce
      s == pgf_ccat_set_cnccat(r, to, 0, depth + 1)
      mine == s.heap[ccat].cnccat
  IN CASE r.fatal # NULL -> r
       [] i = 0 /\ r.heap[ccat].cnccat # NULL -> r
       [] i = 0 /\ prods = NULL -> Stop(r, "the length of a null sequence")
       [] i = 0 -> pgf_ccat_set_cnccat(r, ccat, 1, depth)
       [] i > Len(prods) -> Return(r, Append(r.got, ccat))
       [] prods[i].tag = "APPLY" -> Stop(r, "a function outside the concrete categories")
       [] depth > Cardinality(DOMAIN r.heap[r.curr_ccats]) -> Stop(r, "endless recursion")
       [] s.fatal # NULL -> s
       [] mine \notin {NULL, s.heap[to].cnccat} -> Stop(s, "two concrete categories")
       [] OTHER -> pgf_ccat_set_cnccat(Store(s, <<ccat, "cnccat">>, s.heap[to].cnccat),
                                       ccat, i + 1, depth)

-----------------------------------------------------------------------------
(***************************************************************************)
(* A concrete syntax and a grammar                                         *)
(***************************************************************************)
FreeTemp(r, x) == [r EXCEPT !.temp = @ - 1, !.got = x]

AfterCncCats(r, concr) ==
  LET s == FoldSet(LAMBDA ccat, q : pgf_ccat_set_cnccat(q, ccat, 0, 0),
                   Return(Store(r, <<concr, "cnccats">>, r.got), <<>>),
                   Range(r.heap[r.curr_ccats]))
  IN IF s.fatal # NULL THEN s
     ELSE FreeTemp(pgf_read_int(Store(s, <<concr, "extra_ccats">>, s.got)), concr)

AfterCCats(r, concr) == AfterCncCats(pgf_read_new("PgfCncCatMap", r), concr)

AfterLinDefs(r, concr) ==
  AfterCCats(pgf_read_into_map("PgfCCatMap", [Alloc(r, <<>>) EXCEPT !.curr_ccats = New(r)], New(r)),
             concr)

\* Behind the functions every section is read without a look at the exception.
AfterCncFuns(r, concr) ==
  IF ~Ok(r) THEN FreeTemp(r, concr)
  ELSE LET numbered == FoldLeft(LAMBDA q, i : Store(q, <<q.curr_cncfuns[i], "fid">>, i - 1),
                                r, [i \in DOMAIN r.curr_cncfuns |-> i])
           s == [Alloc(numbered, <<>>) EXCEPT !.curr_lindefs = New(r)]
       IN AfterLinDefs(pgf_read_into_map("PgfLinDefs", s, New(r)), concr)

AfterSequences(r, concr) == AfterCncFuns(pgf_read_to("PgfCncFuns", Alloc(r, NULL), <<New(r)>>), concr)

AfterPrintNames(r, concr) ==
  AfterSequences(pgf_read_to("PgfSequences",
                             Alloc(Store(r, <<concr, "printnames">>, r.got), NULL), <<New(r)>>),
                 concr)

AfterCFlags(r, concr) ==
  AfterPrintNames(pgf_read_new("PgfPrintNames", Store(r, <<concr, "cflags">>, r.got)), concr)

pgf_read_new_PgfConcr(r) ==
  AfterCFlags(pgf_read_new("PgfFlags",
                [Alloc(r, [pgf |-> Pgf(r), id |-> Load(r, r.curr_key)]) EXCEPT !.temp = @ + 1]),
              New(r))

Read(fn, type, r, to) ==
  CASE fn = "each" -> ReadEach(type, r, to)
    [] fn = "entry" -> ReadEntry(type, r, to)
    [] fn = "struct" -> pgf_read_to_struct(type, r, to)
    [] fn = "pointer" -> pgf_read_to_pointer(type, r, to)
    [] fn = "GuVariant" -> pgf_read_to_GuVariant(type, r, to)
    [] fn = "enum" -> pgf_read_to_enum(type, r, to)
    [] fn = "void" -> r
    [] fn = "int32_t" -> StoreGot(pgf_read_int(r), to)
    [] fn = "uint16_t" -> pgf_read_to_uint16_t(r, to)
    [] fn = "GuLength" -> StoreGot(pgf_read_len(r), to)
    [] fn = "double" -> pgf_read_to_double(r, to)
    [] fn \in {"GuString", "PgfCId"} -> pgf_read_to_GuString(type, r, to)
    [] fn = "alias" -> pgf_read_to(Types[type].type, r, to)
    [] fn = "referenced" -> pgf_read_to_referenced(type, r, to)
    [] fn = "GuSeq" -> pgf_read_to_GuSeq(type, r, to)
    [] fn = "maybe_seq" -> pgf_read_to_maybe_seq(type, r, to)
    [] fn = "idarray" -> pgf_read_to_idarray(type, r, to)
    [] fn = "PgfCCatId" -> pgf_read_to_PgfCCatId(r, to)
    [] fn = "PgfSeqId" -> pgf_read_to_PgfSeqId(r, to)
    [] fn = "PgfFunId" -> pgf_read_to_PgfFunId(r, to)
    [] fn = "PgfContext" -> pgf_read_to_PgfContext(type, r, to)
    [] fn = "PgfKey" -> pgf_read_to_PgfKey(r, to)
    [] fn = "new type" -> pgf_read_new_type(type, r)
    [] fn = "new GuMap" -> pgf_read_new_GuMap(type, r)
    [] fn = "new PgfCatId" -> pgf_read_new_PgfCatId(r)
    [] fn = "new PgfCCat" -> pgf_read_new_PgfCCat(r)
    [] fn = "new PgfCncCat" -> pgf_read_new_PgfCncCat(r)
    [] fn = "new PgfConcr" -> pgf_read_new_PgfConcr(r)

AfterPgf(r) == [r EXCEPT !.temp = @ - 1, !.got = IF Ok(r) THEN @ ELSE NULL]

pgf_read_pgf(bytes) ==
  AfterPgf(pgf_read_new("PgfPGF", [NewReader(bytes) EXCEPT !.temp = @ + 1]))

=============================================================================
