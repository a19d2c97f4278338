------------------------------- MODULE Parser -------------------------------
(***************************************************************************)
(* pgf/parser.c: the incremental chart parser.                             *)
(*                                                                         *)
(* The client starts a parse with pgf_parser_parse and feeds tokens with   *)
(* pgf_parse_token, each of which returns a new PgfParse; earlier ones stay *)
(* usable.  Inside such a call the parser runs mutually recursive C        *)
(* functions: stack is their call stack (top first), a frame for a call    *)
(* that is about to start or for a loop that is under way.  One step is    *)
(* one function body, or one iteration of its loop.                        *)
(*                                                                         *)
(* A concrete grammar (PgfConcr) is a record                               *)
(*   abscats  the category names of the abstract grammar                   *)
(*   cnccats  name of a category that has a PgfCncCat -> [n_ctnts, cats]   *)
(*   cat      ccat -> name of its PgfCncCat                                *)
(*   prods    ccat -> sequence of productions; a ccat outside its domain   *)
(*            is one whose prods are the null sequence                     *)
(*   lins     function -> sequence (by constituent) of symbol sequences    *)
(* A production is [fun, args]; a coercion is [fun |-> Coerce, args |->    *)
(* <<c>>].  A symbol is [t |-> "cat", d, r], [t |-> "ks", toks],           *)
(* [t |-> "kp", forms] (the default form first, then the alternatives) or  *)
(* [t |-> "lit"].  d, r and sequences of productions count from 1 here.    *)
(* hypos are left out: every use of them in the parser is an assertion     *)
(* that they are empty.                                                    *)
(***************************************************************************)
EXTENDS Integers, Sequences, FiniteSets

CONSTANTS
  Grammars,   \* the concrete grammars a parser may be made for
  Tokens,     \* the tokens there are, of the grammars or fed by a client
  Coerce,     \* stands for the function of a coercion
  NULL,       \* the null PgfItem* that stands for "the whole sentence"
  ResizeAt,   \* the occupancies at which inserting a key resizes a GuMap
  MaxParses,  \* bound: PgfParse objects made from one parser
  MaxToks     \* bound: tokens fed to any one parse

ASSUME ParserAssumption ==
  /\ ResizeAt \subseteq Nat
  /\ MaxParses \in Nat
  /\ MaxToks \in Nat

PGF_FID_SYNTHETIC == -999

-----------------------------------------------------------------------------
(* Concrete grammars *)

\* The symbols of constituent r of a production; a coercion passes the
\* constituent of its only argument through (pgf_item_base_symbol).
LinOf(g, prod, r) ==
  IF prod.fun = Coerce THEN <<[t |-> "cat", d |-> 1, r |-> r]>>
  ELSE g.lins[prod.fun][r]

\* The forms of a token symbol.
Forms(sym) == IF sym.t = "ks" THEN <<sym.toks>> ELSE sym.forms

IsSeq(s) == s \in Seq({s[i] : i \in DOMAIN s})

\* Symbol sym is one of a production whose arguments are of the categories cats:
\* the constituent that it names exists, and no form of a token symbol is empty.
SymbolFits(g, sym, cats) ==
  CASE sym.t = "cat" -> sym.d \in DOMAIN cats /\ sym.r \in 1..g.cnccats[cats[sym.d]].n_ctnts
    [] sym.t \in {"ks", "kp"} ->
         IsSeq(Forms(sym)) /\ \A i \in DOMAIN Forms(sym) : Forms(sym)[i] \in Seq(Tokens) \ {<<>>}
    [] OTHER -> sym.t = "lit"

\* A production of category k has each of its constituents.
ProdFits(g, prod, k, cats) ==
  \A r \in 1..g.cnccats[k].n_ctnts :
    /\ IsSeq(LinOf(g, prod, r))
    /\ \A i \in DOMAIN LinOf(g, prod, r) : SymbolFits(g, LinOf(g, prod, r)[i], cats)

\* What the parser relies on in a grammar, and the compiler that writes the file
\* sees to: the reader does not check it.
WellFormed(g) ==
  /\ \A c \in DOMAIN g.cat :
       c \in Int /\ c > PGF_FID_SYNTHETIC /\ g.cat[c] \in DOMAIN g.cnccats
  /\ \A k \in DOMAIN g.cnccats :
       /\ g.cnccats[k].n_ctnts \in Nat
       /\ IsSeq(g.cnccats[k].cats)
       /\ \A i \in DOMAIN g.cnccats[k].cats :
            g.cnccats[k].cats[i] \in DOMAIN g.cat /\ g.cat[g.cnccats[k].cats[i]] = k
  /\ \A c \in DOMAIN g.prods :
       /\ c \in DOMAIN g.cat /\ IsSeq(g.prods[c])
       /\ \A i \in DOMAIN g.prods[c] :
            LET prod == g.prods[c][i] IN
            /\ prod.args \in [DOMAIN prod.args -> DOMAIN g.cat]
            /\ ProdFits(g, prod, g.cat[c], [d \in DOMAIN prod.args |-> g.cat[prod.args[d]]])

ASSUME GrammarsAssumption == \A g \in Grammars : WellFormed(g)

-----------------------------------------------------------------------------
VARIABLES
  concr,     \* parser->concr
  next_fid,  \* parser->next_fid
  parses,    \* the PgfParse objects made so far, by number
  ccats,     \* fid -> [cat, prods] of each synthetic PgfCCat
  conts,     \* the PgfItemSets of all conts_maps: <<parse, fid, ctnt>> -> items
  parsing,   \* the PgfParsing of the call that is running, or of the last one
  stack      \* the C call stack of the call that is running

vars == <<concr, next_fid, parses, ccats, conts, parsing, stack>>

-----------------------------------------------------------------------------
(* Grammar and item helpers *)

Synthetic(fid) == fid <= PGF_FID_SYNTHETIC

CncCat(fid) == IF Synthetic(fid) THEN ccats[fid].cat ELSE concr.cat[fid]

NCtnts(fid) == concr.cnccats[CncCat(fid)].n_ctnts

HasProds(fid) == Synthetic(fid) \/ fid \in DOMAIN concr.prods

Prods(fid) == IF Synthetic(fid) THEN ccats[fid].prods ELSE concr.prods[fid]

(***************************************************************************)
(* A PgfItem.  Its base is [conts, prod] with conts = <<parse, ccat,       *)
(* lin_idx>> naming the set of continuations: pgf_parsing_production is    *)
(* only called with the set conts_map holds for (cat, lin_idx).  Equality  *)
(* of these records is the structural equality of item_hasher.             *)
(***************************************************************************)
pgf_new_item(cid, prod) ==
  [conts |-> cid, prod |-> prod, args |-> prod.args,
   seq_idx |-> 0, tok_idx |-> 0, alt |-> 0]

Lin(item) == LinOf(concr, item.prod, item.conts[3])

AtEnd(item) == item.seq_idx = Len(Lin(item))

CurrSym(item) == Lin(item)[item.seq_idx + 1]

\* The forms of a token symbol the scanner may follow from this item: of a KP
\* that has not begun, every form that does not repeat an earlier one.
OpenForms(item) ==
  LET forms == Forms(CurrSym(item)) IN
  IF item.tok_idx > 0 THEN {item.alt + 1}
  ELSE {i \in DOMAIN forms : \A j \in 1..(i - 1) : forms[j] # forms[i]}

\* The tokens for which pgf_parsing_symbol enters item into the transitions.
Expected(item) ==
  {Forms(CurrSym(item))[i][item.tok_idx + 1] : i \in OpenForms(item)}

\* pgf_parsing_scan_toks along form number i.
Scanned(item, i) ==
  LET last == item.tok_idx + 1 = Len(Forms(CurrSym(item))[i]) IN
  [item EXCEPT !.alt = i - 1,
               !.tok_idx = IF last THEN 0 ELSE @ + 1,
               !.seq_idx = IF last THEN @ + 1 ELSE @]

\* The forms of the current symbol that go on with tok.
Matching(item, tok) == {i \in OpenForms(item) : Forms(CurrSym(item))[i][item.tok_idx + 1] = tok}

\* Mutation: the category the production was predicted with.
PredictedOriginal(item) == item.prod.args[CurrSym(item).d]

\* The category that pgf_parsing_symbol predicts: the argument as it is by now.
PredictedCat(item) == item.args[CurrSym(item).d]

\* pgf_parsing_combine for a continuation that is an item.
Combined(cont, fid) ==
  [cont EXCEPT !.args[CurrSym(cont).d] = fid, !.seq_idx = @ + 1]

-----------------------------------------------------------------------------
(* Calls of the client *)

\* pgf_new_parse.  start, toks and fid are history: what the parse is for, the
\* tokens it was fed, and parser->next_fid when it was made.
NewParse(start, toks) ==
  [start |-> start, toks |-> toks, fid |-> next_fid,
   transitions |-> [tok \in Tokens |-> {}], completed |-> <<>>]

\* pgf_new_parsing.  Its conts_map is empty: no cid of parse p is in conts yet.
NewParsing(p) == [parse |-> p, seen |-> {}, generated |-> <<>>]

Init ==
  /\ concr \in Grammars
  /\ next_fid = PGF_FID_SYNTHETIC
  /\ parses = <<>>
  /\ ccats = <<>>
  /\ conts = <<>>
  /\ parsing = NewParsing(0)
  /\ stack = <<>>

Idle == stack = <<>>

Begin(start, toks, calls) ==
  /\ Idle
  /\ Len(parses) < MaxParses
  /\ parses' = Append(parses, NewParse(start, toks))
  /\ parsing' = NewParsing(Len(parses) + 1)
  /\ stack' = calls
  /\ UNCHANGED <<concr, next_fid, ccats, conts>>

\* A category without a PgfCncCat gives the empty parse.
pgf_parser_parse(cat, r) ==
  Begin(<<cat, r>>, <<>>,
        IF cat \in DOMAIN concr.cnccats
        THEN <<[k |-> "start", cats |-> concr.cnccats[cat].cats, r |-> r]>>
        ELSE <<>>)

pgf_parse_token(p, tok) ==
  /\ Len(parses[p].toks) < MaxToks
  /\ parses[p].transitions[tok] # {}   \* otherwise it returns NULL
  /\ Begin(parses[p].start, Append(parses[p].toks, tok),
           <<[k |-> "scan", tok |-> tok, agenda |-> parses[p].transitions[tok]]>>)

-----------------------------------------------------------------------------
(* The parser *)

Top == stack[1]
Pop == stack' = Tail(stack)
Become(frame) == stack' = <<frame>> \o Tail(stack)
\* Call frame, and return to top, the current frame's next state.
Call(frame, top) == stack' = <<frame, top>> \o Tail(stack)

ItemFrame(item) == [k |-> "item", item |-> item]

\* The loop of pgf_parser_parse over the ccats of the category.
Start ==
  /\ ~Idle /\ Top.k = "start"
  /\ IF Top.cats = <<>> THEN Pop
     ELSE Call([k |-> "predict", item |-> NULL, cat |-> Head(Top.cats), r |-> Top.r],
               [Top EXCEPT !.cats = Tail(@)])
  /\ UNCHANGED <<concr, next_fid, parses, ccats, conts, parsing>>

\* The loop of pgf_parse_token over the agenda, in the order of the hash table.
Scan ==
  /\ ~Idle /\ Top.k = "scan"
  /\ \/ Top.agenda = {} /\ Pop
     \/ \E item \in Top.agenda :
          /\ Matching(item, Top.tok) # {}              \* gu_assert(succ)
          /\ Call([k |-> "forms", item |-> item, todo |-> Matching(item, Top.tok)],
                  [Top EXCEPT !.agenda = @ \ {item}])
  /\ UNCHANGED <<concr, next_fid, parses, ccats, conts, parsing>>

\* pgf_parsing_scan: the forms that match, in their order.
ScanForms ==
  /\ ~Idle /\ Top.k = "forms"
  /\ \/ Top.todo = {} /\ Pop
     \/ \E i \in Top.todo :
          /\ \A j \in Top.todo : i <= j
          /\ Call(ItemFrame(Scanned(Top.item, i)), [Top EXCEPT !.todo = @ \ {i}])
  /\ UNCHANGED <<concr, next_fid, parses, ccats, conts, parsing>>

\* pgf_parsing_item on an item it has not seen, and pgf_parsing_symbol.
ItemNew ==
  /\ ~Idle /\ Top.k = "item" /\ Top.item \notin parsing.seen
  /\ parsing' = [parsing EXCEPT !.seen = @ \cup {Top.item}]
  /\ LET item == Top.item IN
       IF AtEnd(item) THEN
         /\ Become([k |-> "complete", item |-> item])
         /\ UNCHANGED parses
       ELSE IF CurrSym(item).t = "cat" THEN
         /\ Become([k |-> "predict", item |-> item,
                    cat |-> PredictedCat(item), r |-> CurrSym(item).r])
         /\ UNCHANGED parses
       ELSE IF CurrSym(item).t = "lit" THEN Pop /\ UNCHANGED parses
       ELSE
         /\ parses' = [parses EXCEPT ![parsing.parse].transitions =
              [tok \in Tokens |-> IF tok \in Expected(item)
                                  THEN @[tok] \cup {item} ELSE @[tok]]]
         /\ Pop
  /\ UNCHANGED <<concr, next_fid, ccats, conts>>

ItemSeen ==
  /\ ~Idle /\ Top.k = "item" /\ Top.item \in parsing.seen
  /\ Pop
  /\ UNCHANGED <<concr, next_fid, parses, ccats, conts, parsing>>

(***************************************************************************)
(* gu_set_insert(conts, item) while a frame of pgf_parsing_complete may be *)
(* enumerating conts with gu_map_keys (at most one: a set is enumerated    *)
(* when its category is created).  The enumerator keeps only a table       *)
(* index: it reaches the new key or not, depending on where the key        *)
(* hashes; and when the insert resizes the table every key moves, so any   *)
(* of them may now lie on either side of the index.                        *)
(***************************************************************************)
Enumerating(frame, cid) == frame.k = "conts" /\ frame.conts = cid

StillToVisit(todo, cid, item) ==
  IF Cardinality(conts[cid]) \in ResizeAt
  THEN SUBSET (conts[cid] \cup {item})
  ELSE {todo, todo \cup {item}}

InsertCont(cid, old, item, frame) ==
  /\ conts' = [c \in DOMAIN conts \cup {cid} |->
                 IF c = cid THEN old \cup {item} ELSE conts[c]]
  /\ LET callers == {n \in 2..Len(stack) : Enumerating(stack[n], cid)} IN
       \/ callers = {} /\ Become(frame)
       \/ \E n \in callers : \E todo \in StillToVisit(stack[n].todo, cid, item) :
            stack' = [stack EXCEPT ![1] = frame, ![n].todo = todo]

\* Mutation: one conts_map for all parses of a parser.
SharedConts(cat, r) == <<1, cat, r>>

\* pgf_parsing_get_conts: the set conts_map has for a constituent of a category.
ContsId(cat, r) == <<parsing.parse, cat, r>>

\* pgf_parsing_predict up to its loop.
Predict ==
  /\ ~Idle /\ Top.k = "predict"
  /\ IF ~HasProds(Top.cat) THEN Pop /\ UNCHANGED conts
     ELSE LET cid == ContsId(Top.cat, Top.r)
              old == IF cid \in DOMAIN conts THEN conts[cid] ELSE {}
              n == Len(Prods(Top.cat))
              loop == [k |-> "prods", item |-> Top.item, conts |-> cid, i |-> 1, n |-> n]
          IN IF Top.item \in old
             THEN Become([loop EXCEPT !.i = n + 1]) /\ UNCHANGED conts
             ELSE InsertCont(cid, old, Top.item, loop)
  /\ UNCHANGED <<concr, next_fid, parses, ccats, parsing>>

\* Mutations: the completed category is not looked for after the loop; the loop
\* does not go on to the next production.
ProdsLoopForgetful ==
  /\ ~Idle /\ Top.k = "prods"
  /\ IF Top.i <= Top.n
     THEN Call(ItemFrame(pgf_new_item(Top.conts, Prods(Top.conts[2])[Top.i])),
               [Top EXCEPT !.i = @ + 1])
     ELSE Pop
  /\ UNCHANGED <<concr, next_fid, parses, ccats, conts, parsing>>

ProdsLoopStuck ==
  /\ ~Idle /\ Top.k = "prods"
  /\ IF Top.i <= Top.n
     THEN Call(ItemFrame(pgf_new_item(Top.conts, Prods(Top.conts[2])[Top.i])), Top)
     ELSE Pop
  /\ UNCHANGED <<concr, next_fid, parses, ccats, conts, parsing>>

\* Its loop over the productions there were when it began, and the combination
\* with the completed category, if there is one by now.
ProdsLoop ==
  /\ ~Idle /\ Top.k = "prods"
  /\ IF Top.i <= Top.n
     THEN Call(ItemFrame(pgf_new_item(Top.conts, Prods(Top.conts[2])[Top.i])),
               [Top EXCEPT !.i = @ + 1])
     ELSE IF Top.conts \in DOMAIN parsing.generated
     THEN Become([k |-> "combine", cont |-> Top.item, cat |-> parsing.generated[Top.conts]])
     ELSE Pop
  /\ UNCHANGED <<concr, next_fid, parses, ccats, conts, parsing>>

pgf_parsing_combine ==
  /\ ~Idle /\ Top.k = "combine"
  /\ IF Top.cont = NULL
     THEN /\ parses' = [parses EXCEPT ![parsing.parse].completed = Append(@, Top.cat)]
          /\ Pop
     ELSE /\ Become(ItemFrame(Combined(Top.cont, Top.cat)))
          /\ UNCHANGED parses
  /\ UNCHANGED <<concr, next_fid, ccats, conts, parsing>>

\* Mutation: with the arguments the production was predicted with.
DonePredicted(item) == item.prod

\* The production an item that is at its end stands for.
DoneProd(item) == [fun |-> item.prod.fun, args |-> item.args]

\* pgf_parsing_complete when the category of these continuations exists.
CompleteOld ==
  /\ ~Idle /\ Top.k = "complete" /\ Top.item.conts \in DOMAIN parsing.generated
  /\ LET fid == parsing.generated[Top.item.conts] IN
       /\ ccats' = [ccats EXCEPT ![fid].prods = Append(@, DoneProd(Top.item))]
       /\ Become([k |-> "contss", cat |-> fid, prod |-> DoneProd(Top.item), i |-> 1])
  /\ UNCHANGED <<concr, next_fid, parses, conts, parsing>>

\* Its loop over the constituents of the category predicted so far.
ContssLoop ==
  /\ ~Idle /\ Top.k = "contss"
  /\ IF Top.i > NCtnts(Top.cat) THEN Pop
     ELSE LET cid == ContsId(Top.cat, Top.i)
              next == [Top EXCEPT !.i = @ + 1]
          IN IF cid \in DOMAIN conts
             THEN Call(ItemFrame(pgf_new_item(cid, Top.prod)), next)
             ELSE Become(next)
  /\ UNCHANGED <<concr, next_fid, parses, ccats, conts, parsing>>

\* The fid that pgf_parsing_create_completed takes.
FreshFid == next_fid - 1

\* pgf_parsing_complete when it has to create the category.
CompleteNew ==
  /\ ~Idle /\ Top.k = "complete" /\ Top.item.conts \notin DOMAIN parsing.generated
  /\ LET cid == Top.item.conts
         fid == FreshFid
         cat == [cat |-> CncCat(cid[2]), prods |-> <<DoneProd(Top.item)>>]
     IN /\ next_fid' = fid
        /\ ccats' = [f \in DOMAIN ccats \cup {fid} |-> IF f = fid THEN cat ELSE ccats[f]]
        /\ parsing' = [parsing EXCEPT !.generated =
                         [c \in DOMAIN @ \cup {cid} |-> IF c = cid THEN fid ELSE @[c]]]
        /\ Become([k |-> "conts", conts |-> cid, cat |-> fid, todo |-> conts[cid]])
  /\ UNCHANGED <<concr, parses, conts>>

\* Its loop over the continuations, in the order of the hash table.
ContsLoop ==
  /\ ~Idle /\ Top.k = "conts"
  /\ \/ Top.todo = {} /\ Pop
     \/ \E cont \in Top.todo :
          Call([k |-> "combine", cont |-> cont, cat |-> Top.cat],
               [Top EXCEPT !.todo = @ \ {cont}])
  /\ UNCHANGED <<concr, next_fid, parses, ccats, conts, parsing>>

Step ==
  \/ Start \/ Scan \/ ScanForms \/ ItemNew \/ ItemSeen \/ Predict \/ ProdsLoop
  \/ pgf_parsing_combine \/ CompleteOld \/ ContssLoop \/ CompleteNew \/ ContsLoop

\* The constituents pgf_parser_parse may be asked for (its gu_require).
CtntIds(cat) ==
  IF cat \in DOMAIN concr.cnccats THEN 1..concr.cnccats[cat].n_ctnts ELSE {1}

Next ==
  \/ \E cat \in concr.abscats : \E r \in CtntIds(cat) : pgf_parser_parse(cat, r)
  \/ \E p \in DOMAIN parses : \E tok \in Tokens : pgf_parse_token(p, tok)
  \/ Step

Spec == Init /\ [][Next]_vars

\* A call of the library runs to its end once it has begun; the client need
\* never make another.
FairSpec == Spec /\ WF_vars(Step)

-----------------------------------------------------------------------------
(* Properties *)

Fids == DOMAIN ccats \cup DOMAIN concr.cat

IsItem(item) ==
  /\ item.conts \in DOMAIN conts
  /\ item.args \in [DOMAIN item.prod.args -> Fids]
  /\ item.seq_idx \in 0..Len(Lin(item))
  /\ item.tok_idx \in Nat
  /\ item.alt \in Nat

TypeOK ==
  /\ concr \in Grammars
  /\ next_fid \in Int /\ next_fid <= PGF_FID_SYNTHETIC
  /\ DOMAIN ccats = next_fid..(PGF_FID_SYNTHETIC - 1)
  /\ \A cid \in DOMAIN conts : /\ cid[1] \in DOMAIN parses
                              /\ cid[2] \in Fids
                              /\ \A item \in conts[cid] \ {NULL} : IsItem(item)
  /\ parsing.parse \in 0..Len(parses)
  /\ \A item \in parsing.seen : IsItem(item)
  /\ \A cid \in DOMAIN parsing.generated :
       cid \in DOMAIN conts /\ parsing.generated[cid] \in DOMAIN ccats

\* What a set of continuations must be for pgf_parsing_combine to be right on
\* each of them: the constituent exists (gu_require, parser.c:282), and the item
\* stands before a category symbol (gu_assert, parser.c:407), whose argument is
\* still the very category that was predicted and completes, even when an
\* earlier constituent of it has been combined, at an earlier token or not.
ContsSound ==
  \A cid \in DOMAIN conts :
    /\ cid[3] \in 1..NCtnts(cid[2])
    /\ \A item \in conts[cid] \ {NULL} :
         /\ ~AtEnd(item)
         /\ CurrSym(item).t = "cat"
         /\ item.args[CurrSym(item).d] = cid[2]
         /\ CurrSym(item).r = cid[3]

\* Every item that is filed under a token can be scanned with it (gu_assert(succ),
\* parser.c:715), also when the item is in the middle of an alternative: it is one
\* that exists (gu_assert, parser.c:581), and it has not ended.
TransitionsSound ==
  \A p \in DOMAIN parses : \A tok \in Tokens : \A item \in parses[p].transitions[tok] :
    /\ ~AtEnd(item)
    /\ CurrSym(item).t \in {"ks", "kp"}
    /\ Matching(item, tok) # {}
    /\ \A i \in OpenForms(item) :
         i \in DOMAIN Forms(CurrSym(item)) /\ item.tok_idx < Len(Forms(CurrSym(item))[i])

\* What the parser takes for granted of its chart at every call: the types (the
\* numbers of new categories never collide, and what an item refers to exists),
\* and the assertions on continuations and on transitions.
ChartSound == TypeOK /\ ContsSound /\ TransitionsSound

\* The item before a category is waiting for it, each of the category's
\* productions has been tried, and the item has been combined with what the
\* category completed to.
PredictedFully(item) ==
  LET sym == CurrSym(item)
      cat == item.args[sym.d]
      cid == ContsId(cat, sym.r)
  IN HasProds(cat) =>
       /\ cid \in DOMAIN conts /\ item \in conts[cid]
       /\ \A i \in DOMAIN Prods(cat) : pgf_new_item(cid, Prods(cat)[i]) \in parsing.seen
       /\ cid \in DOMAIN parsing.generated =>
            Combined(item, parsing.generated[cid]) \in parsing.seen

\* The completed item is a production of its category, and everything that was
\* waiting for that category has been combined with it.
CompletedFully(item) ==
  /\ item.conts \in DOMAIN parsing.generated
  /\ LET cat == parsing.generated[item.conts] IN
       /\ \E i \in DOMAIN ccats[cat].prods : ccats[cat].prods[i] = DoneProd(item)
       /\ \A cont \in conts[item.conts] :
            IF cont = NULL
            THEN \E i \in DOMAIN parses[parsing.parse].completed :
                   parses[parsing.parse].completed[i] = cat
            ELSE Combined(cont, cat) \in parsing.seen

\* When a call returns, the chart is closed: no item, production or completed
\* category that a rule of the parser yields is missing, whatever the order in
\* which the recursive calls met them (a production added to a category that is
\* being predicted, a continuation added to a set that is being enumerated).
ChartClosed ==
  Idle => \A item \in parsing.seen :
    IF AtEnd(item) THEN CompletedFully(item)
    ELSE CASE CurrSym(item).t = "cat" -> PredictedFully(item)
           [] CurrSym(item).t = "lit" -> TRUE
           [] OTHER -> \A tok \in Expected(item) :
                         item \in parses[parsing.parse].transitions[tok]

\* parser.h: "The old parse state is unaffected by this, so backtracking - and
\* even branching - can be accomplished by retaining the earlier PgfParse
\* objects."  While a parse is being built, no earlier one changes, nor do the
\* categories and the continuations that it refers to.
OldParsesUnaffected ==
  [][/\ \A p \in DOMAIN parses : p # parsing'.parse => parses'[p] = parses[p]
     /\ \A fid \in DOMAIN ccats :
          fid >= parses'[parsing'.parse].fid => ccats'[fid] = ccats[fid]
     /\ \A cid \in DOMAIN conts : cid[1] # parsing'.parse => conts'[cid] = conts[cid]
    ]_vars

\* Each call of the parser returns: left recursion, empty constituents and
\* cyclic categories do not make the recursion run forever.
CallsReturn == ~Idle ~> Idle
=============================================================================
