------------------------------ MODULE Translate -----------------------------
(***************************************************************************)
(* utils/pgf-translate.c: lines are parsed in one concrete syntax of a     *)
(* grammar and linearized in another.  The parser, the enumeration of its  *)
(* results and that of concrete trees enter by what Parser, ParseResult    *)
(* and Linearize are shown to do; the lookups of pgf/pgf.c, the            *)
(* linearization of a concrete tree and the expressions are the code's.    *)
(*                                                                         *)
(* A grammar is [cats, startcat, concretes]: the categories, the flag of   *)
(* that name (NULL, <<"STR", cat>> or <<"FLT">>) and the concrete syntaxes *)
(* by name.  Those are records as in Parser, with the flag language, the   *)
(* category of every coercion in extra_ccats, and the constituents of the  *)
(* categories named in ctnts.                                              *)
(***************************************************************************)
EXTENDS ExprText

CONSTANTS
  Pgfs,      \* the grammars
  Options,   \* [catname, from, to, from_ctnt, to_ctnt, show_expr]
  Inputs,    \* sequences of lines, which are sequences of tokens or NUL
  NUL,       \* a line that begins with a null character
  Coerce, META, Literal, Other, LitCat,
  MaxDepth(_), \* bound: depth of the trees of a line, by concrete syntax
  MaxHeight    \* bound: height of their expressions, which have no coercions

VARIABLES
  pgf, opts,
  input,     \* the lines, of which the first Len(out) have been read
  exn,       \* the frame of main
  pc,        \* "doit", "loop", "token", "result", "linearize", "end_loop", "end" or "read"
  cat, from, to, from_ctnt, to_ctnt,   \* the locals of doit
  parse,     \* the tokens fed so far
  line,      \* the tokens that are left
  result,    \* the trees that are to come
  expr,      \* the tree that is linearized
  cts,       \* the concrete trees of it that are to come
  out,       \* what has been written for each line
  ppool,     \* is there a pool for the line?
  passed,    \* the text of expressions that is read back
  text,      \* what is left of it
  reread     \* what has been read

work == <<cat, from, to, from_ctnt, to_ctnt>>
back == <<passed, text, reread>>
vars == <<pgf, opts, input, exn, pc, work, parse, line, result, expr, cts, out, ppool, back>>

-----------------------------------------------------------------------------
(* pgf/pgf.c *)

PGF_CTNT_ID_BAD == 0

Get(map, key) == IF key \in DOMAIN map THEN map[key] ELSE NULL

pgf_pgf_concr(p, cid) == IF cid \in DOMAIN p.concretes THEN cid ELSE NULL

pgf_concr_lang(p, cid) ==
  LET lit == p.concretes[cid].language IN IF lit # NULL /\ lit[1] = "STR" THEN lit[2] ELSE NULL

\* Any of the concrete syntaxes with this language, or NULL
pgf_pgf_concr_by_lang(p, lang) ==
  LET found == {cid \in DOMAIN p.concretes : pgf_concr_lang(p, cid) = lang}
  IN IF found = {} THEN {NULL} ELSE found

\* pgf_cnccat_ctnt_id_: the first constituent of the name.  Constituents count from 1.
pgf_cnccat_ctnt_id_(ctnts, ctnt) ==
  LET found == {i \in DOMAIN ctnts : ctnts[i] = ctnt}
  IN IF found = {} THEN PGF_CTNT_ID_BAD ELSE CHOOSE i \in found : \A j \in found : i <= j

pgf_concr_cat_ctnt_id(concr, c, ctnt) ==
  CASE c \notin DOMAIN concr.cnccats -> PGF_CTNT_ID_BAD
    [] ctnt = NULL -> IF concr.cnccats[c].n_ctnts = 1 THEN 1 ELSE PGF_CTNT_ID_BAD
    [] OTHER -> pgf_cnccat_ctnt_id_(concr.ctnts[c], ctnt)

pgf_pgf_startcat(p) ==
  IF p.startcat # NULL /\ p.startcat[1] = "STR" /\ p.startcat[2] \in p.cats
  THEN p.startcat[2] ELSE NULL

pgf_pgf_cat(p, cid) ==
  CASE cid = NULL -> pgf_pgf_startcat(p) [] cid \in p.cats -> cid [] OTHER -> NULL

-----------------------------------------------------------------------------
(* The components *)

\* The parser finds the trees of the grammar that yield the tokens.
P(concr) ==
  INSTANCE ParserRef
  WITH concr <- concr, next_fid <- 0, parses <- <<>>, ccats <- <<>>, conts <- <<>>,
       parsing <- <<>>, stack <- <<>>, Grammars <- {}, Tokens <- {}, ResizeAt <- {},
       MaxParses <- 0, MaxToks <- 0

\* The linearizer finds the derivations of an expression.
LzrGrammar(concr) ==
  [cnccats |-> [c \in DOMAIN concr.cnccats |-> concr.cnccats[c].cats],
   extra_ccats |-> concr.extra_ccats,
   prods |-> [c \in DOMAIN concr.prods |->
                [i \in DOMAIN concr.prods[c] |->
                   [fun |-> concr.prods[c][i].fun, cnc |-> concr.prods[c][i].fun,
                    args |-> concr.prods[c][i].args]]]]

L(index) ==
  INSTANCE LinearizeRef
  WITH lzr <- index, input <- NULL, expr <- NULL, ch <- NULL, mark <- 0, stack <- <<>>,
       results <- <<>>, ended <- FALSE, Inputs <- {}, UINT8_MAX <- 255

\* The expression of a tree that the parser finds
RECURSIVE ExprOfTree(_)
ExprOfTree(tree) ==
  IF tree.fun = META THEN <<"META", "0">>
  ELSE FoldLeft(LAMBDA e, arg : <<"APP", e, ExprOfTree(arg)>>, <<"FUN", tree.fun>>, tree.args)

\* The tree of an expression, as the linearizer sees it
RECURSIVE TreeOf(_)
TreeOf(e) ==
  LET appl == pgf_expr_unapply(e)
  IN CASE appl # NULL -> [fun |-> appl.fun, args |-> [i \in DOMAIN appl.args |-> TreeOf(appl.args[i])]]
       [] pgf_expr_unwrap(e)[1] = "LIT" -> [fun |-> Literal, args |-> <<>>]
       [] OTHER -> [fun |-> Other, args |-> <<>>]

\* The constituents of argument d that the constituents R of a function use
Used(concr, fun, R, d) ==
  {sym.r : sym \in {x \in UNION {ToSet(concr.lins[fun][r]) : r \in R} : x.t = "cat" /\ x.d = d}}

\* What constituents R of a tree tell of it
RECURSIVE Told(_, _, _)
Told(concr, tree, R) ==
  IF R = {} THEN [fun |-> META, args |-> <<>>]
  ELSE [fun |-> tree.fun,
        args |-> [d \in DOMAIN tree.args |-> Told(concr, tree.args[d], Used(concr, tree.fun, R, d))]]

\* A tree without what it says
RECURSIVE Whole(_)
Whole(tree) == [fun |-> tree.fun, args |-> [d \in DOMAIN tree.args |-> Whole(tree.args[d])]]

\* The sentences of the concrete syntaxes: constituent start[2] of category start[1] of a
\* tree yields toks.
SentencesOf(concr, c) ==
  LET trees == P(concr)!TreesOf(P(concr)!StartCats(c), P(concr)!GrammarRules)
  IN UNION {{[concr |-> concr, start |-> <<c, x[1]>>, toks |-> x[2],
              whole |-> Whole(t), tree |-> Told(concr, t, {x[1]})] : x \in t.says} : t \in trees}

Sentences ==
  UNION {UNION {SentencesOf(concr, c) : c \in DOMAIN concr.cnccats}
         : concr \in UNION {Range(p.concretes) : p \in Pgfs}}

TreesOf(concr, start, toks) ==
  {z.tree : z \in {q \in Sentences : q.start = start /\ q.toks = toks /\ q.concr = concr}}

SentencesFor(concr, start, tree) ==
  {z.toks : z \in {q \in Sentences : q.start = start /\ q.whole = tree /\ q.concr = concr}}

\* pgf_parse_token gives NULL if no sentence goes on with the token.
CanGoOn(concr, start, toks) ==
  \E z \in Sentences : z.start = start /\ IsPrefix(toks, z.toks) /\ z.concr = concr

\* pgf_parse_result and its enumeration
ParseTrees(concr, start, toks) == {ExprOfTree(t) : t \in TreesOf(concr, start, toks)}

\* pgf_new_lzr, pgf_lzr_concretize and its enumeration
DerivationsOf(concr, e) ==
  LET index == L(<<>>)!pgf_new_lzr(LzrGrammar(concr), SetToSeq(DOMAIN concr.cnccats))
  IN L(index)!Derivations(TreeOf(e))

ConcreteTrees(concr, e) ==
  LET ds == DerivationsOf(concr, e)
      ith(i) == CHOOSE d \in ds : Cardinality(L(<<>>)!Preceding(d.dec, ds)) = i - 1
  IN [i \in 1..Cardinality(ds) |-> ith(i).tree]

-----------------------------------------------------------------------------
(* pgf_lzr_linearize_simple: the tokens of constituent lin_idx of a concrete tree *)

\* Mutation: an argument is linearized to the constituent of the whole.
RECURSIVE LinearizeSame(_, _, _)
LinearizeSame(concr, ctree, lin_idx) ==
  LET seq == concr.lins[ctree.fun][lin_idx]
      ofSym(sym) == CASE sym.t = "cat" -> LinearizeSame(concr, ctree.args[sym.d], lin_idx)
                      [] sym.t = "ks" -> sym.toks
                      [] sym.t = "kp" -> sym.forms[1]
  IN FlattenSeq([i \in DOMAIN seq |-> ofSym(seq[i])])

\* Of a prefix-dependent symbol only the default form is taken.  A literal is passed
\* to expr_literal, which the simple presenter does not have.
RECURSIVE pgf_lzr_linearize(_, _, _)
pgf_lzr_linearize(concr, ctree, lin_idx) ==
  IF ctree.fun = Literal THEN <<>>
  ELSE LET seq == concr.lins[ctree.fun][lin_idx]
           ofSym(sym) == CASE sym.t = "cat" -> pgf_lzr_linearize(concr, ctree.args[sym.d], sym.r)
                           [] sym.t = "ks" -> sym.toks
                           [] sym.t = "kp" -> sym.forms[1]
       IN FlattenSeq([i \in DOMAIN seq |-> ofSym(seq[i])])

-----------------------------------------------------------------------------
Init ==
  /\ pgf \in Pgfs /\ opts \in Options /\ input \in Inputs
  /\ exn = NewExn(0, "type")
  /\ pc = "doit"
  /\ cat = NULL /\ from = NULL /\ to = NULL /\ from_ctnt = 0 /\ to_ctnt = 0
  /\ parse = NULL /\ line = <<>> /\ result = {} /\ expr = NULL /\ cts = <<>>
  /\ out = <<>> /\ ppool = FALSE /\ passed = <<>> /\ text = <<>> /\ reread = <<>>

Ok == gu_ok(<<exn>>, 1)

\* gu_raise_i(exn, GuStr, ...)
RaiseStr == exn' = gu_raise(<<exn>>, 1, "GuStr")[1]

Find(name) ==
  IF pgf_pgf_concr(pgf, name) # NULL THEN {name} ELSE pgf_pgf_concr_by_lang(pgf, name)

\* doit up to its loop
doit ==
  /\ pc = "doit"
  /\ cat' = pgf_pgf_cat(pgf, opts.catname)
  /\ IF cat' = NULL THEN from' = NULL /\ to' = NULL
     ELSE /\ from' \in Find(opts.from)
          /\ IF from' = NULL THEN to' = NULL ELSE to' \in Find(opts.to)
  /\ from_ctnt' = IF to' = NULL THEN 0
                  ELSE pgf_concr_cat_ctnt_id(pgf.concretes[from'], cat', opts.from_ctnt)
  /\ to_ctnt' = IF from_ctnt' = PGF_CTNT_ID_BAD THEN 0
                ELSE pgf_concr_cat_ctnt_id(pgf.concretes[to'], cat', opts.to_ctnt)
  /\ IF to_ctnt' = PGF_CTNT_ID_BAD THEN RaiseStr /\ pc' = "end" ELSE pc' = "loop" /\ UNCHANGED exn
  /\ UNCHANGED <<pgf, opts, input, parse, line, result, expr, cts, out, ppool, back>>

NoMoreLines == Len(out) = Len(input) \/ input[Len(out) + 1] = NUL

\* The head of the loop: a line, unless there has been an exception
\* (pgf_parser_parse does not fail: the constituent was found in its category)
ReadLine ==
  /\ pc = "loop"
  /\ IF ~Ok \/ NoMoreLines THEN pc' = "end" /\ UNCHANGED <<parse, line, out, ppool>>
     ELSE /\ pc' = "token"
          /\ parse' = <<>> /\ line' = input[Len(out) + 1]
          /\ out' = Append(out, <<>>) /\ ppool' = TRUE
  /\ UNCHANGED <<pgf, opts, input, exn, work, result, expr, cts, back>>

\* fgets fails
ReadFails ==
  /\ pc = "loop" /\ Ok
  /\ RaiseStr /\ pc' = "end"
  /\ UNCHANGED <<pgf, opts, input, work, parse, line, result, expr, cts, out, ppool, back>>

\* The loop over the tokens
Token ==
  /\ pc = "token"
  /\ IF line = <<>>
     THEN /\ result' = ParseTrees(pgf.concretes[from], <<cat, from_ctnt>>, parse)
          /\ pc' = "result"
          /\ UNCHANGED <<exn, parse, line>>
     ELSE /\ line' = Tail(line)
          /\ parse' = Append(parse, Head(line))
          /\ IF CanGoOn(pgf.concretes[from], <<cat, from_ctnt>>, parse')
             THEN pc' = "token" /\ UNCHANGED exn
             ELSE pc' = "end_loop" /\ RaiseStr
          /\ UNCHANGED result
  /\ UNCHANGED <<pgf, opts, input, work, expr, cts, out, ppool, back>>

\* Mutation: the failure goes to no frame.
WriteUnheard(x) ==
  \/ Ok /\ out' = [out EXCEPT ![Len(out)] = Append(@, x)] /\ UNCHANGED exn
  \/ UNCHANGED <<out, exn>>

\* Something is written for the current line, or the writing fails: after that
\* nothing more comes out.
Write(x) ==
  \/ /\ Ok
     /\ out' = [out EXCEPT ![Len(out)] = Append(@, x)]
     /\ UNCHANGED exn
  \/ /\ exn' = gu_raise(<<exn>>, 1, "GuErrno")[1]
     /\ UNCHANGED out

\* The next tree, which is shown with -t
NextTree ==
  /\ pc = "result"
  /\ IF result = {} THEN pc' = "end_loop" /\ UNCHANGED <<exn, result, expr, cts, out>>
     ELSE /\ expr' \in result
          /\ result' = result \ {expr'}
          /\ IF opts.show_expr THEN Write(<<"expr", pgf_expr_print(expr'), expr'>>) ELSE UNCHANGED <<out, exn>>
          /\ IF gu_ok(<<exn'>>, 1)
             THEN /\ cts' = ConcreteTrees(pgf.concretes[to], expr')
                  /\ pc' = "linearize"
             ELSE pc' = "end_loop" /\ UNCHANGED cts
  /\ UNCHANGED <<pgf, opts, input, work, parse, line, ppool, back>>

\* The next concrete tree.  Only the tokens are followed by a look at the exception,
\* not the end of the line.
NextCncTree ==
  /\ pc = "linearize"
  /\ IF cts = <<>> THEN pc' = "result" /\ UNCHANGED <<exn, cts, out>>
     ELSE /\ cts' = Tail(cts)
          /\ Write(<<"lin", pgf_lzr_linearize(pgf.concretes[to], Head(cts), to_ctnt)>>)
          /\ pc' \in IF gu_ok(<<exn'>>, 1) THEN {"linearize"}
                     ELSE IF Ok THEN {"linearize", "end_loop"} ELSE {"end_loop"}
  /\ UNCHANGED <<pgf, opts, input, work, parse, line, result, expr, ppool, back>>

EndLoop ==
  /\ pc = "end_loop"
  /\ ppool' = FALSE /\ pc' = "loop"
  /\ UNCHANGED <<pgf, opts, input, exn, work, parse, line, result, expr, cts, out, back>>

\* Another program is given the first n characters of the expressions that have been
\* shown, with semicolons between them (Expr.read of the Python bindings).
Shown == FlattenSeq([i \in DOMAIN out |-> SelectSeq(out[i], LAMBDA x : x[1] = "expr")])
ShownText == FlattenSeq([i \in DOMAIN Shown |-> IF i = 1 THEN Shown[i][2] ELSE <<";", " ">> \o Shown[i][2]])

Pass(n) ==
  /\ pc = "end" /\ opts.show_expr
  /\ passed' = SubSeq(ShownText, 1, n) /\ text' = passed'
  /\ pc' = "read"
  /\ UNCHANGED <<pgf, opts, input, exn, work, parse, line, result, expr, cts, out, ppool, reread>>

\* It reads them one by one until there are no more or one is wrong.
ReadExpr ==
  /\ pc = "read"
  /\ reread # <<>> => LET last == reread[Len(reread)]
                      IN last.expr # NULL /\ gu_ok(<<last.exn>>, 1)
  /\ LET r == pgf_read_expr(text, NewExn(0, "type"))
     IN /\ text' = r.in
        /\ reread' = Append(reread, [expr |-> r.expr, exn |-> r.exn])
  /\ UNCHANGED <<pgf, opts, input, exn, pc, work, parse, line, result, expr, cts, out, ppool, passed>>

Done == pc \in {"end", "read"} /\ UNCHANGED vars

Next ==
  \/ doit \/ ReadLine \/ ReadFails \/ Token \/ NextTree \/ NextCncTree \/ EndLoop
  \/ \E n \in 0..Len(ShownText) : Pass(n)
  \/ ReadExpr \/ Done

Spec == Init /\ [][Next]_vars

-----------------------------------------------------------------------------
HasMeta(e) == pgf_expr_print(e) # SelectSeq(pgf_expr_print(e), LAMBDA c : c # "?")

HasKp(concr) ==
  \E f \in DOMAIN concr.lins : \E r \in DOMAIN concr.lins[f] :
    \E i \in DOMAIN concr.lins[f][r] : concr.lins[f][r][i].t = "kp"

\* What is written for a line with these tokens: each of its trees once, and sentences of
\* the target language that stand for a tree of the line, one at least for each tree
\* without metavariables.
Translated(toks, mine) ==
  LET trees == TreesOf(pgf.concretes[from], <<cat, from_ctnt>>, toks)
      shown == SelectSeq(mine, LAMBDA x : x[1] = "expr")
      lins == {x[2] : x \in {y \in Range(mine) : y[1] = "lin"}}
      full == {t \in trees : ~HasMeta(ExprOfTree(t))}
  IN /\ opts.show_expr => /\ IsInjective(shown)
                          /\ {x[3] : x \in Range(shown)} = {ExprOfTree(t) : t \in trees}
     /\ lins \subseteq UNION {SentencesFor(pgf.concretes[to], <<cat, to_ctnt>>, t) : t \in full}
     /\ \A t \in full : lins \cap SentencesFor(pgf.concretes[to], <<cat, to_ctnt>>, t) # {}

\* A line that has gone well is translated.  Into its own language it is among its
\* translations: the categories that the linearizer infers bottom-up and those that the
\* parser came to top-down have the same linearizations, across coercions and
\* discontinuous constituents.
TranslatesTheLine ==
  pc = "end_loop" /\ Ok =>
    LET mine == out[Len(out)]
        lins == {x[2] : x \in {y \in Range(mine) : y[1] = "lin"}}
    IN /\ Translated(parse, mine)
       /\ from = to /\ from_ctnt = to_ctnt /\ ~HasKp(pgf.concretes[to]) /\ lins # {} => parse \in lins

\* If the program ends without an exception, every line before its end is translated,
\* although most calls are not followed by a look at the exception; and however it ends,
\* the pool of the line is freed.
NothingLostSilently ==
  pc = "end" => /\ ~ppool
                /\ Ok => /\ NoMoreLines
                         /\ \A i \in DOMAIN out : Translated(input[i], out[i])

\* The expressions that -t shows, with semicolons between them, are read back one by one as
\* what they were, although each call of pgf_read_expr starts a parser that knows nothing
\* of what the one before has looked at; if the text ends early, all that are complete are
\* read, and an exception, never GuEOF, tells of the one whose parentheses are open.
ReadsBack ==
  pc = "read" /\ (\A i \in DOMAIN Shown : ~HasMeta(Shown[i][3])) =>
    LET Count(c) == Len(SelectSeq(passed, LAMBDA x : x = c))
        complete == IF passed = ShownText THEN Len(Shown) ELSE Count(";")
    IN \A i \in DOMAIN reread :
         /\ i <= complete => reread[i].expr = Shown[i][3] /\ gu_ok(<<reread[i].exn>>, 1)
         /\ reread[i].expr = NULL => i > complete /\ text = <<>>
         /\ reread[i].exn.caught \in {NULL, "PgfReadExn"}
         /\ i > complete => ((reread[i].exn.caught # NULL) <=> (Count("(") # Count(")")))

=============================================================================
