------------------------------ MODULE MCParser ------------------------------
(* Small grammars, one for each difficulty the parser has to cope with.    *)
EXTENDS ParserRef

Arg(d, r) == [t |-> "cat", d |-> d, r |-> r]
Ks(toks) == [t |-> "ks", toks |-> toks]
Kp(forms) == [t |-> "kp", forms |-> forms]
App(f, args) == [fun |-> f, args |-> args]

\* Left-recursive and ambiguous:  E -> E E | "a"
GAmb == [abscats |-> {"E"},
         cnccats |-> [E |-> [n_ctnts |-> 1, cats |-> <<1>>]],
         cat |-> <<"E">>,
         prods |-> << <<App("bin", <<1, 1>>), App("var", <<>>)>> >>,
         lins |-> [bin |-> << <<Arg(1, 1), Arg(2, 1)>> >>,
                   var |-> << <<Ks(<<"a">>)>> >>]]

\* Empty constituents:  S -> X X;  X -> "" | "a";  and Z, which has no
\* concrete category
GEps == [abscats |-> {"S", "Z"},
         cnccats |-> [S |-> [n_ctnts |-> 1, cats |-> <<1>>],
                      X |-> [n_ctnts |-> 1, cats |-> <<2>>]],
         cat |-> <<"S", "X">>,
         prods |-> << <<App("pair", <<2, 2>>)>>, <<App("none", <<>>), App("one", <<>>)>> >>,
         lins |-> [pair |-> << <<Arg(1, 1), Arg(2, 1)>> >>,
                   none |-> << <<>> >>,
                   one |-> << <<Ks(<<"a">>)>> >>]]

\* Discontinuous constituents:  S -> N.1 "b" N.2;
\* N -> ("a", "a") | ("b", "a") | (N.1 "a", N.2)
GDisc == [abscats |-> {"S"},
          cnccats |-> [S |-> [n_ctnts |-> 1, cats |-> <<1>>],
                       N |-> [n_ctnts |-> 2, cats |-> <<2>>]],
          cat |-> <<"S", "N">>,
          prods |-> << <<App("mk", <<2>>)>>,
                       <<App("aa", <<>>), App("ba", <<>>), App("more", <<2>>)>> >>,
          lins |-> [mk |-> << <<Arg(1, 1), Ks(<<"b">>), Arg(1, 2)>> >>,
                    aa |-> << <<Ks(<<"a">>)>>, <<Ks(<<"a">>)>> >>,
                    ba |-> << <<Ks(<<"b">>)>>, <<Ks(<<"a">>)>> >>,
                    more |-> << <<Arg(1, 1), Ks(<<"a">>)>>, <<Arg(1, 2)>> >>]]

\* Coercions and a cycle:  1 -> _(2) | _(3);  2 -> "a" 1 | id(1);  3 -> "b"
GCycle == [abscats |-> {"S"},
           cnccats |-> [S |-> [n_ctnts |-> 1, cats |-> <<1>>]],
           cat |-> <<"S", "S", "S">>,
           prods |-> << <<App(Coerce, <<2>>), App(Coerce, <<3>>)>>,
                        <<App("pre", <<1>>), App("id", <<1>>)>>,
                        <<App("stop", <<>>)>> >>,
           lins |-> [pre |-> << <<Ks(<<"a">>), Arg(1, 1)>> >>,
                     id |-> << <<Arg(1, 1)>> >>,
                     stop |-> << <<Ks(<<"b">>)>> >>]]

\* Alternatives and literals, an argument that is not used, and a category (4)
\* without productions:  S -> {"a" / "a" "b" / "a"} "b" B.1, A unused;
\* B -> "" | literal;  S -> 4.1
GPre == [abscats |-> {"S"},
         cnccats |-> [S |-> [n_ctnts |-> 1, cats |-> <<1>>],
                      A |-> [n_ctnts |-> 1, cats |-> <<2>>],
                      B |-> [n_ctnts |-> 1, cats |-> <<3>>],
                      C |-> [n_ctnts |-> 1, cats |-> <<4>>]],
         cat |-> <<"S", "A", "B", "C">>,
         prods |-> << <<App("kp", <<2, 3>>), App("dead", <<4>>)>>,
                      <<App("none", <<>>)>>,
                      <<App("none", <<>>), App("lit", <<>>)>> >>,
         lins |-> [kp |-> << <<Kp(<< <<"a">>, <<"a", "b">>, <<"a">> >>),
                               Ks(<<"b">>), Arg(2, 1)>> >>,
                   dead |-> << <<Arg(1, 1)>> >>,
                   none |-> << <<>> >>,
                   lit |-> << <<[t |-> "lit"]>> >>]]

\* Everything empty, through a cycle:  X -> Y | X X;  Y -> X | ""
GNull == [abscats |-> {"X"},
          cnccats |-> [X |-> [n_ctnts |-> 1, cats |-> <<1>>],
                       Y |-> [n_ctnts |-> 1, cats |-> <<2>>]],
          cat |-> <<"X", "Y">>,
          prods |-> << <<App("h", <<2>>), App("f", <<1, 1>>)>>,
                       <<App("m", <<1>>), App("none", <<>>)>> >>,
          lins |-> [h |-> << <<Arg(1, 1)>> >>,
                    f |-> << <<Arg(1, 1), Arg(2, 1)>> >>,
                    m |-> << <<Arg(1, 1)>> >>,
                    none |-> << <<>> >>]]

\* Two ways through the alternatives:  S -> {"a" / "a" "b"} {"b" / "b" "b"}
GAlt == [abscats |-> {"S"},
         cnccats |-> [S |-> [n_ctnts |-> 1, cats |-> <<1>>]],
         cat |-> <<"S">>,
         prods |-> << <<App("alts", <<>>)>> >>,
         lins |-> [alts |-> << <<Kp(<< <<"a">>, <<"a", "b">> >>),
                                 Kp(<< <<"b">>, <<"b", "b">> >>)>> >>]]

MCMaxDepth(g) == IF g = GCycle THEN 8 ELSE 5

OnlyNull == {GNull}
AllGrammars == {GAmb, GEps, GDisc, GCycle, GPre, GNull, GAlt}
=============================================================================
