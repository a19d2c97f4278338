---------------------------- MODULE Pgf2YamlRef -----------------------------
(***************************************************************************)
(* What Pgf2Yaml is checked against: the bytes that stand for a grammar in *)
(* the PGF format, the grammar that a heap holds, and the value that a     *)
(* YAML document denotes.  A grammar is written with the names of the      *)
(* members of the C types; its maps are sequences of pairs in the order of *)
(* the file.                                                               *)
(***************************************************************************)
EXTENDS Pgf2Yaml

-----------------------------------------------------------------------------
(***************************************************************************)
(* The PGF format, external to this program                                *)
(***************************************************************************)
Number(n) == IF n \in 0..127 THEN <<n>>
          ELSE IF n > 127 THEN <<128 + (n % 128), n \div 128>>
          ELSE <<256 + n, 255, 255, 255, 15>>

U16(n) == <<n \div 256, n % 256>>

Utf8(c) == IF c < 128 THEN <<c>> ELSE <<192 + (c \div 64), 128 + (c % 64)>>

Str(s) == Number(Len(s)) \o FlattenSeq([i \in DOMAIN s |-> Utf8(s[i])])

CId(s) == Number(Len(s)) \o s

\* A sequence whose elements have these bytes
List(parts) == Number(Len(parts)) \o FlattenSeq(parts)

Strs(s) == List([i \in DOMAIN s |-> Str(s[i])])

Numbers(s) == List([i \in DOMAIN s |-> Number(s[i])])

Lit(l) == IF l.tag = "STR" THEN <<0>> \o Str(l.data.val) ELSE <<2>> \o l.data.val

Flags(f) == List([i \in DOMAIN f |-> Str(f[i][1]) \o Lit(f[i][2])])

\* Of the expressions, those without an int
RECURSIVE Expression(_)
Expression(e) ==
  CASE e.tag = "ABS" -> <<0>> \o <<IF e.data.bind_type = "EXPLICIT" THEN 0 ELSE 1>>
                             \o CId(e.data.id) \o Expression(e.data.body)
    [] e.tag = "APP" -> <<1>> \o Expression(e.data.fun) \o Expression(e.data.arg)
    [] e.tag = "LIT" -> <<2>> \o Lit(e.data.lit)
    [] e.tag = "FUN" -> <<4>> \o CId(e.data.fun)
    [] e.tag = "IMPL_ARG" -> <<7>> \o Expression(e.data.expr)

RECURSIVE HypoList(_)
HypoList(hs) ==
  List([i \in DOMAIN hs |->
          <<IF hs[i].bindtype = "EXPLICIT" THEN 0 ELSE 1>> \o CId(hs[i].cid)
          \o HypoList(hs[i].type.hypos) \o CId(hs[i].type.cid)
          \o List([j \in DOMAIN hs[i].type.exprs |-> Expression(hs[i].type.exprs[j])])])

Type(t) == HypoList(t.hypos) \o CId(t.cid)
           \o List([j \in DOMAIN t.exprs |-> Expression(t.exprs[j])])

Pattern(p) ==
  CASE p.tag = "APP" -> <<0>> \o CId(p.data.ctor) \o <<0>>
    [] p.tag = "VAR" -> <<1>> \o CId(p.data.var)

Equation(q) == List([i \in DOMAIN q.patts |-> Pattern(q.patts[i])]) \o Expression(q.body)

FunDecl(d) ==
  Type(d.type) \o Number(d.arity)
  \o (IF d.defns = NULL THEN <<0>>
      ELSE <<1>> \o List([i \in DOMAIN d.defns |-> Equation(d.defns[i])]))
  \o d.prob

Cat(c) == HypoList(c.context)
          \o List([i \in DOMAIN c.functions |-> c.functions[i].prob \o CId(c.functions[i].fun)])

Symbol(s) ==
  CASE s.tag \in {"CAT", "LIT", "VAR"} ->
         <<CASE s.tag = "CAT" -> 0 [] s.tag = "LIT" -> 1 [] OTHER -> 2>>
         \o Number(s.data.d) \o Number(s.data.r)
    [] s.tag = "KS" -> <<3>> \o Strs(s.data.tokens)
    [] s.tag = "KP" -> <<4>> \o Strs(s.data.default_form)
         \o List([i \in DOMAIN s.data.alts |->
                    Strs(s.data.alts[i].form) \o Strs(s.data.alts[i].prefixes)])

\* A production is <<"APPLY", function, <<<<hypos, category>>, ...>>>> or <<"COERCE", category>>.
Production(p) ==
  IF p[1] = "COERCE" THEN <<1>> \o Number(p[2])
  ELSE <<0>> \o Number(p[2]) \o List([i \in DOMAIN p[3] |-> Numbers(p[3][i][1]) \o Number(p[3][i][2])])

Concr(c) ==
  Flags(c.cflags)
  \o List([i \in DOMAIN c.printnames |-> Str(c.printnames[i][1]) \o Str(c.printnames[i][2])])
  \o List([i \in DOMAIN c.sequences |->
             List([j \in DOMAIN c.sequences[i] |-> Symbol(c.sequences[i][j])])])
  \o List([i \in DOMAIN c.cncfuns |-> CId(c.cncfuns[i].fun) \o Numbers(c.cncfuns[i].lins)])
  \o List([i \in DOMAIN c.lindefs |-> Number(c.lindefs[i][1]) \o Numbers(c.lindefs[i][2])])
  \o List([i \in DOMAIN c.ccats |->
             Number(c.ccats[i][1]) \o List([j \in DOMAIN c.ccats[i][2] |-> Production(c.ccats[i][2][j])])])
  \o List([i \in DOMAIN c.cnccats |->
             CId(c.cnccats[i].cid) \o Number(c.cnccats[i].first) \o Number(c.cnccats[i].last)
             \o Strs(c.cnccats[i].ctnts)])
  \o Number(c.totalcats)

PgfFile(g) ==
  U16(g.major_version) \o U16(g.minor_version) \o Flags(g.gflags)
  \o CId(g.name) \o Flags(g.aflags)
  \o List([i \in DOMAIN g.funs |-> CId(g.funs[i][1]) \o FunDecl(g.funs[i][2])])
  \o List([i \in DOMAIN g.cats |-> CId(g.cats[i][1]) \o Cat(g.cats[i][2])])
  \o List([i \in DOMAIN g.concretes |-> CId(g.concretes[i][1]) \o Concr(g.concretes[i][2])])

-----------------------------------------------------------------------------
(***************************************************************************)
(* The grammar in memory                                                   *)
(***************************************************************************)
AsMap(pairs) == [k \in {p[1] : p \in Range(pairs)} |-> (CHOOSE p \in Range(pairs) : p[1] = k)[2]]

\* The value of a type at a place: pointers are followed, but a concrete category is
\* only named by its number, and the grammar not at all.
RECURSIVE Unfold(_, _, _)
Unfold(h, type, at) ==
  LET v == Get(h[at[1]], Tail(at))
      t == Types[type]
  IN CASE v = NULL -> NULL
       [] type = "PgfCCatId" -> h[v].fid
       [] type = "PgfPGFCtx" -> "pgf"
       [] gu_type_has_kind(type, "alias") -> Unfold(h, t.type, at)
       [] gu_type_has_kind(type, "pointer") -> Unfold(h, t.to, <<v>>)
       [] gu_type_has_kind(type, "struct") ->
            [m \in {t.members[i][1] : i \in DOMAIN t.members} |->
               Unfold(h, (CHOOSE x \in Range(t.members) : x[1] = m)[2], Append(at, m))]
       [] gu_type_has_kind(type, "GuMap") ->
            [k \in DOMAIN v |-> Unfold(h, t.value, Append(at, k))]
       [] gu_type_has_kind(type, "GuSeq") ->
            [i \in 1..Len(v) |-> Unfold(h, t.elem, Append(at, i))]
       [] gu_type_has_kind(type, "GuVariant") ->
            [tag |-> v.tag,
             data |-> Unfold(h, (CHOOSE x \in Range(t.ctors) : x[1] = v.tag)[2],
                             Append(at, "data"))]
       [] OTHER -> v

\* The concrete categories that a concrete syntax reaches from its ranges and its extras
CCats(h, c) ==
  (UNION {Range(h[k].cats) : k \in Range(h[h[c].cnccats])} \ {NULL}) \cup Range(h[c].extra_ccats)

\* Those that the productions of a concrete category refer to
Refers(h, cc) ==
  UNION {IF p.tag = "COERCE" THEN {p.data.coerce}
         ELSE UNION {{a.ccat} \cup Range(a.hypos) : a \in Range(p.data.args)}
         : p \in IF h[cc].prods = NULL THEN {} ELSE Range(h[cc].prods)}

CatOf(h, c, cnccat) ==
  IF cnccat = NULL THEN NULL
  ELSE h[CHOOSE k \in DOMAIN h[h[c].cnccats] : h[h[c].cnccats][k] = cnccat].cid

ConcrAt(h, c) ==
  [id |-> h[c].id,
   cflags |-> Unfold(h, "PgfFlags", <<h[c].cflags>>),
   printnames |-> Unfold(h, "PgfPrintNames", <<h[c].printnames>>),
   cnccats |-> {LET k == h[h[c].cnccats][cat] IN
                [cid |-> h[cat].cid, cats |-> Unfold(h, "PgfCCatIds", <<k, "cats">>),
                 n_ctnts |-> h[k].n_ctnts, lindefs |-> Unfold(h, "PgfFunIds", <<k, "lindefs">>),
                 ctnts |-> h[k].ctnts] : cat \in DOMAIN h[h[c].cnccats]},
   ccats |-> {[fid |-> h[cc].fid, cnccat |-> CatOf(h, c, h[cc].cnccat),
               prods |-> Unfold(h, "PgfProductions", <<cc, "prods">>)] : cc \in CCats(h, c)},
   extra |-> [i \in DOMAIN h[c].extra_ccats |-> h[h[c].extra_ccats[i]].fid]]

AbstrAt(h, p) ==
  LET a == h[p]["abstract"]
  IN [major_version |-> h[p].major_version, minor_version |-> h[p].minor_version,
      gflags |-> Unfold(h, "PgfFlags", <<h[p].gflags>>), name |-> a.name,
      aflags |-> Unfold(h, "PgfFlags", <<a.aflags>>),
      funs |-> Unfold(h, "PgfFunMap", <<a.funs>>),
      cats |-> Unfold(h, "PgfCatMap", <<a.cats>>)]

-----------------------------------------------------------------------------
(***************************************************************************)
(* The grammar that was meant                                              *)
(***************************************************************************)
CncFun(c, id) ==
  [fun |-> c.cncfuns[id + 1].fun,
   lins |-> [i \in DOMAIN c.cncfuns[id + 1].lins |-> c.sequences[c.cncfuns[id + 1].lins[i] + 1]]]

MeantProd(c, p) ==
  IF p[1] = "COERCE" THEN [tag |-> "COERCE", data |-> [coerce |-> p[2]]]
  ELSE [tag |-> "APPLY",
        data |-> [fun |-> CncFun(c, p[2]),
                  args |-> [i \in DOMAIN p[3] |-> [hypos |-> p[3][i][1], ccat |-> p[3][i][2]]]]]

\* The numbers that have productions or that a production refers to
Fids(c) ==
  UNION {{p[1]} \cup UNION {IF q[1] = "COERCE" THEN {q[2]}
                            ELSE UNION {{a[2]} \cup Range(a[1]) : a \in Range(q[3])}
                            : q \in Range(p[2])} : p \in Range(c.ccats)}

ProdsOf(c, fid) ==
  IF fid \in DOMAIN AsMap(c.ccats)
  THEN LET ps == AsMap(c.ccats)[fid] IN [i \in DOMAIN ps |-> MeantProd(c, ps[i])]
  ELSE NULL

InRange(c, fid) == {k \in Range(c.cnccats) : fid \in k.first..k.last}

\* The functions of a category and of those it is coerced to
RECURSIVE Applied(_, _)
Applied(c, fid) ==
  IF fid \notin DOMAIN AsMap(c.ccats) THEN {}
  ELSE UNION {IF p[1] = "COERCE" THEN Applied(c, p[2]) ELSE {p[2]}
              : p \in Range(AsMap(c.ccats)[fid])}

\* The category of the grammar that a concrete category is for: the one whose range it
\* is in, or the one of what it is coerced to
RECURSIVE CatFor(_, _)
CatFor(c, fid) ==
  IF InRange(c, fid) # {} THEN (CHOOSE k \in InRange(c, fid) : TRUE).cid
  ELSE CatFor(c, ProdsOf(c, fid)[1].data.coerce)

MeantConcr(id, c) ==
  LET funs == [k \in Range(c.cnccats) |-> UNION {Applied(c, f) : f \in k.first..k.last}]
  IN [id |-> id, cflags |-> AsMap(c.cflags), printnames |-> AsMap(c.printnames),
      cnccats |->
        {[cid |-> k.cid,
          cats |-> [i \in 1..k.last - k.first + 1 |->
                      IF k.first + i - 1 \in Fids(c) THEN k.first + i - 1 ELSE NULL],
          n_ctnts |-> IF funs[k] = {} THEN 0 ELSE Len(c.cncfuns[Min(funs[k]) + 1].lins),
          lindefs |-> IF k.first \in DOMAIN AsMap(c.lindefs)
                      THEN LET ids == AsMap(c.lindefs)[k.first]
                           IN [i \in DOMAIN ids |-> CncFun(c, ids[i])]
                      ELSE NULL,
          ctnts |-> k.ctnts] : k \in Range(c.cnccats)},
      ccats |-> {[fid |-> f, cnccat |-> CatFor(c, f), prods |-> ProdsOf(c, f)] : f \in Fids(c)},
      extra |-> {f \in Fids(c) : InRange(c, f) = {}}]

MeantCats(g) ==
  LET NewCat(cid, c) == [pgf |-> "pgf", cid |-> cid, context |-> c.context, functions |-> c.functions]
      named == UNION {{k.cid : k \in Range(p[2].cnccats)} : p \in Range(g.concretes)}
      declared == AsMap(g.cats)
  IN [cid \in named \cup DOMAIN declared |->
        NewCat(cid, IF cid \in DOMAIN declared THEN declared[cid]
                    ELSE [context |-> <<>>, functions |-> <<>>])]

MeantAbstr(g) ==
  [major_version |-> g.major_version, minor_version |-> g.minor_version,
   gflags |-> AsMap(g.gflags), name |-> g.name, aflags |-> AsMap(g.aflags),
   funs |-> AsMap(g.funs), cats |-> MeantCats(g)]

-----------------------------------------------------------------------------
(***************************************************************************)
(* YAML documents                                                          *)
(***************************************************************************)
\* The tree of the node that begins at token i of a document, and the token behind it; there
\* is no such token if this is not a node.
RECURSIVE Node(_, _, _)
RECURSIVE Items(_, _, _, _)

NoNode == [kind |-> "none", next |-> 0]

\* The nodes of a collection from token i on, up to its end
Items(toks, i, klass, sofar) ==
  LET key == Node(toks, i + 1, 0)
      item == Node(toks, IF klass = "{" THEN key.next + 1 ELSE i, 0)
  IN CASE i = 0 \/ i > Len(toks) -> NoNode
       [] klass = "{" /\ toks[i] = <<"}">> -> [kind |-> "{", items |-> sofar, next |-> i + 1]
       [] klass = "[" /\ toks[i] = <<"]">> -> [kind |-> "[", items |-> sofar, next |-> i + 1]
       [] klass = "{" /\ (toks[i] # <<"?">> \/ key.next = 0) -> NoNode
       [] klass = "{" /\ ~(key.next <= Len(toks) /\ toks[key.next] = <<":">>) -> NoNode
       [] ~(item.next \in DOMAIN toks /\ toks[item.next] = <<",">>) -> NoNode
       [] OTHER -> Items(toks, item.next + 1, klass,
                         sofar \o (IF klass = "{" THEN <<key, item>> ELSE <<item>>))

\* anchor is the one that has been given to the node
Node(toks, i, anchor) ==
  LET key == toks[i][1]
  IN CASE i \notin DOMAIN toks -> NoNode
       [] key = "&" -> IF anchor = 0 THEN Node(toks, i + 1, toks[i][2]) ELSE NoNode
       [] key = "!" -> IF i + 1 \in DOMAIN toks /\ toks[i + 1] = <<"scalar", <<>>>>
                       THEN [kind |-> "null", next |-> i + 2] ELSE NoNode
       [] key = "*" -> [kind |-> "*", to |-> toks[i][2], next |-> i + 1]
       [] key = "scalar" -> [kind |-> "scalar", is |-> toks[i][2], next |-> i + 1]
       [] key \in {"{", "["} -> [anchor |-> anchor] @@ Items(toks, i + 1, key, <<>>)
       [] OTHER -> NoNode

\* An alias stands for what has been given its anchor before, and an anchor is given once.
AnchorsSound(toks) ==
  /\ \A i, j \in DOMAIN toks : toks[i][1] = "&" /\ toks[j] = toks[i] => i = j
  /\ \A j \in DOMAIN toks : toks[j][1] = "*" => \E i \in 1..j - 1 : toks[i] = <<"&", toks[j][2]>>

\* The characters that a quoted scalar of YAML stands for
Unquoted(s) ==
  LET letters == [n |-> 10, t |-> 9, r |-> 13, a |-> 7, b |-> 8, v |-> 11, f |-> 12, e |-> 27]
      Char(c) == CASE c[1] # "letter" -> c[2]
                   [] c[2] \in DOMAIN letters -> letters[c[2]]
                   [] OTHER -> 0
  IN [i \in DOMAIN s |-> Char(s[i])]

\* Node n of the document stands for the value of a type at a place.
RECURSIVE Denotes(_, _, _, _)
Denotes(d, n, type, at) ==
  LET v == Load(d, at)
      t == Types[type]
      Anchored(ntype, to) ==
        /\ to \in DOMAIN d.anchors
        /\ IF n.kind = "*" THEN n.to = d.anchors[to]
           ELSE n.anchor = d.anchors[to] /\ Denotes(d, n, ntype, to)
  IN CASE type = "GuStr" -> n.kind = "scalar" /\ n.is = at
       [] type = "GuString" -> n.kind = "scalar" /\ Unquoted(n.is) = v
       [] type = "double" -> n.kind = "scalar"
       [] gu_type_has_kind(type, "referenced") -> Anchored(t.type, at)
       [] gu_type_has_kind(type, "alias") -> Denotes(d, n, t.type, at)
       [] gu_type_has_kind(type, "struct") ->
            /\ n.kind = "{" /\ Len(n.items) = 2 * Len(t.members)
            /\ \A i \in DOMAIN t.members :
                 /\ Denotes(d, n.items[2 * i - 1], "GuStr", t.members[i][1])
                 /\ Denotes(d, n.items[2 * i], t.members[i][2], Append(at, t.members[i][1]))
       [] gu_type_has_kind(type, "GuMap") ->
            /\ n.kind = "{" /\ Len(n.items) = 2 * Cardinality(DOMAIN v)
            /\ \A k \in DOMAIN v : \E i \in 1..Cardinality(DOMAIN v) :
                 /\ IF t.hashed THEN Unquoted(n.items[2 * i - 1].is) = k
                    ELSE Denotes(d, n.items[2 * i - 1], t.key, <<k>>)
                 /\ Denotes(d, n.items[2 * i], t.value, Append(at, k))
       [] v = NULL -> n.kind = "null"
       [] gu_type_has_kind(type, "shared") \/ gu_type_has_kind(type, "reference") ->
            Anchored(t.to, <<v>>)
       [] gu_type_has_kind(type, "pointer") -> Denotes(d, n, t.to, <<v>>)
       [] gu_type_has_kind(type, "GuSeq") ->
            /\ n.kind = "[" /\ Len(n.items) = Len(v)
            /\ \A i \in DOMAIN v : Denotes(d, n.items[i], t.elem, Append(at, i))
       [] gu_type_has_kind(type, "GuVariant") ->
            /\ n.kind = "{" /\ Len(n.items) = 2
            /\ Denotes(d, n.items[1], "GuStr", v.tag)
            /\ Denotes(d, n.items[2], (CHOOSE x \in Range(t.ctors) : x[1] = v.tag)[2],
                       Append(at, "data"))
       [] OTHER -> n.kind = "scalar" /\ n.is = v

-----------------------------------------------------------------------------
(***************************************************************************)
(* The properties                                                          *)
(***************************************************************************)
Concretes(h, p) == {h[h[p].concretes][id] : id \in DOMAIN h[h[p].concretes]}

\* A file is read to its last byte and gives the grammar that was written: every reference to a
\* sequence, function or category has become a pointer to the one it numbers, whether that was
\* read before or only after it; each category has one object, which knows the category of the
\* grammar it is for; and all temporary memory is free.
ReadsTheGrammar ==
  pc # "open" /\ damage = "none" =>
    /\ pc \in {"dump", "done"}
    /\ rdr.in = <<>> /\ rdr.temp = 0 /\ rdr.curr_key = NULL
    /\ AbstrAt(rdr.heap, rdr.got) = MeantAbstr(grammar)
    /\ DOMAIN rdr.heap[rdr.heap[rdr.got].concretes] = {p[1] : p \in Range(grammar.concretes)}
    /\ \A p \in Range(grammar.concretes) :
         LET h == rdr.heap
             c == h[h[rdr.got].concretes][p[1]]
             is == ConcrAt(h, c)
         IN /\ [is EXCEPT !.extra = Range(@)] = MeantConcr(p[1], p[2])
            /\ IsInjective(is.extra)
            /\ \A cc \in CCats(h, c) : Refers(h, cc) \subseteq CCats(h, c)
            /\ \A cc, dd \in CCats(h, c) : h[cc].fid = h[dd].fid => cc = dd

\* The end of a file that is cut short is never taken for the end of the grammar.
TruncationDetected == damage = "truncated" => pc \notin {"dump", "done"}

\* In a grammar that pgf_read_pgf returns, from whatever file, the functions of a concrete
\* category have as many sequences as the category has constituents, and every pointer that
\* the parser and the linearizer follow from there leads to an object: the two index the
\* sequences by constituent without a check.
CtntsAgree ==
  pc \in {"dump", "done"} =>
    LET h == rdr.heap
    IN \A c \in Concretes(h, rdr.got) :
         \A k \in Range(h[h[c].cnccats]) : \A cc \in Range(h[k].cats) \ {NULL} :
           h[cc].prods # NULL =>
             \A p \in Range(h[cc].prods) :
               /\ NULL \notin Refers(h, cc)
               /\ p.tag = "APPLY" => /\ p.data.fun # NULL
                                     /\ Len(h[p.data.fun].lins) = h[k].n_ctnts
                                     /\ NULL \notin Range(h[p.data.fun].lins)

\* What is written is a YAML document in which anchors come before their aliases, no assertion
\* of the emitter fails on the way, and the document stands for the grammar: aliases for the
\* very object that a pointer leads to, although the objects refer to each other in cycles.
DumpDenotes ==
  pc = "done" =>
    LET toks == dump.yaml.out
        node == Node(toks, 2, 0)
    IN /\ dump.yaml.sound /\ dump.yaml.stack = <<>>
       /\ toks[1] = <<"---">> /\ node.next = Len(toks) /\ toks[node.next] = <<"...">>
       /\ AnchorsSound(toks)
       /\ Denotes(dump, node, "PgfPGF", <<rdr.got>>)

\* pgf/reader.h of pgf_read_pgf: it returns a grammar, or NULL upon failure.
\* A file that is cut short is a failure.
FailureReturns == damage = "truncated" => pc # "stopped"

=============================================================================
