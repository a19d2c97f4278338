----------------------------- MODULE MCPgf2Yaml -----------------------------
(***************************************************************************)
(* Two small grammars.  In the first a category outside the ranges stands  *)
(* for two others, one of which refers back to it, and comes before, in    *)
(* between or behind them; a number of the range is unused.  The second    *)
(* has everything else: literals, bound variables, prefixes, definitions,  *)
(* default linearizations, two constituents, a category that the abstract  *)
(* syntax lacks.                                                           *)
(***************************************************************************)
EXTENDS Pgf2YamlRef, PgfTypes

Zero == <<0, 0, 0, 0, 0, 0, 0, 0>>
One == <<63, 240, 0, 0, 0, 0, 0, 0>>

ExprOf(tag, data) == [tag |-> tag, data |-> data]
SimpleType(cid) == [hypos |-> <<>>, cid |-> cid, exprs |-> <<>>]
Sym(tag, d, k) == [tag |-> tag, data |-> [d |-> d, r |-> k]]
Tokens(s) == [tag |-> "KS", data |-> [tokens |-> s]]

A == <<65>>
B == <<66>>
E == <<228>>   \* a letter that is one byte in Latin-1 and two in UTF-8
S == <<83>>

Loop(order) ==
  LET ccats == <<<<0, <<<<"APPLY", 0, <<<<<<>>, 3>>>>>>>>>>,
                 <<1, <<<<"APPLY", 1, <<>>>>>>>>,
                 <<3, <<<<"COERCE", 0>>, <<"COERCE", 1>>>>>>>>
  IN [major_version |-> 1, minor_version |-> 0, gflags |-> <<>>, name |-> B, aflags |-> <<>>,
      funs |-> <<<<A, [type |-> SimpleType(S), arity |-> 0, defns |-> NULL, prob |-> Zero]>>>>,
      cats |-> <<<<S, [context |-> <<>>, functions |-> <<[prob |-> Zero, fun |-> A]>>]>>>>,
      concretes |->
        <<<<A, [cflags |-> <<>>, printnames |-> <<>>,
                sequences |-> <<<<Sym("CAT", 0, 0)>>, <<Tokens(<<A>>)>>>>,
                cncfuns |-> <<[fun |-> B, lins |-> <<0>>], [fun |-> A, lins |-> <<1>>]>>,
                lindefs |-> <<>>,
                ccats |-> [i \in 1..3 |-> ccats[order[i]]],
                cnccats |-> <<[cid |-> S, first |-> 0, last |-> 2, ctnts |-> <<A>>]>>,
                totalcats |-> 4]>>>>]

Rich ==
  LET word == [tag |-> "STR", data |-> [val |-> <<65, 228>>]]
      bound == ExprOf("ABS", [bind_type |-> "IMPLICIT", id |-> E,
                              body |-> ExprOf("APP", [fun |-> ExprOf("FUN", [fun |-> A]),
                                                      arg |-> ExprOf("LIT", [lit |-> word])])])
  IN [major_version |-> 1, minor_version |-> 258,
      gflags |-> <<<<A, word>>, <<B, [tag |-> "FLT", data |-> [val |-> One]]>>>>,
      name |-> E, aflags |-> <<>>,
      funs |-> <<<<A, [type |-> [hypos |-> <<[bindtype |-> "EXPLICIT", cid |-> E,
                                              type |-> SimpleType(S)]>>,
                                 cid |-> S, exprs |-> <<ExprOf("IMPL_ARG", [expr |-> bound])>>],
                       arity |-> 1,
                       defns |-> <<[patts |-> <<[tag |-> "VAR", data |-> [var |-> E]],
                                                [tag |-> "APP", data |-> [ctor |-> A, args |-> <<>>]]>>,
                                    body |-> bound]>>,
                       prob |-> One]>>>>,
      cats |-> <<>>,
      concretes |->
        <<<<A, [cflags |-> <<<<A, word>>>>, printnames |-> <<<<B, <<228, 65>>>>>>,
                sequences |-> <<<<Sym("LIT", 0, 0), Sym("VAR", 1, 0),
                                  [tag |-> "KP",
                                   data |-> [default_form |-> <<A>>,
                                             alts |-> <<[form |-> <<A, B>>, prefixes |-> <<E>>]>>]]>>,
                                <<>>>>,
                cncfuns |-> <<[fun |-> A, lins |-> <<0, 1>>], [fun |-> B, lins |-> <<1>>]>>,
                lindefs |-> <<<<1, <<1, 0>>>>>>,
                ccats |-> <<<<1, <<<<"APPLY", 0, <<<<<<>>, -1>>, <<<<-2>>, 1>>>>>>,
                                   <<"APPLY", 0, <<>>>>>>>>>>,
                cnccats |-> <<[cid |-> B, first |-> -2, last |-> -1, ctnts |-> <<>>],
                              [cid |-> S, first |-> 1, last |-> 1, ctnts |-> <<A, B>>]>>,
                totalcats |-> 130]>>>>]

MCGrammars == {Loop(order) : order \in {<<1, 2, 3>>, <<2, 3, 1>>, <<3, 2, 1>>}} \cup {Rich}
MCFileOf == [g \in MCGrammars |-> PgfFile(g)]
MCWrongBytes == {0, 1, 3, 127}
=============================================================================
