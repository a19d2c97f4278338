---------------------------- MODULE MCTranslate -----------------------------
(* A grammar with two concrete syntaxes.  One is ambiguous; in the other the *)
(* arguments have two constituents and two categories, which a coercion      *)
(* joins, and the sentences come in another order.  h says nothing of its    *)
(* argument in the first, and w depends on a prefix in the second.           *)
EXTENDS Translate, PgfTypes

Arg(d, k) == [t |-> "cat", d |-> d, r |-> k]
Ks(toks) == [t |-> "ks", toks |-> toks]
Kp(forms) == [t |-> "kp", forms |-> forms]
App(f, args) == [fun |-> f, args |-> args]

f == <<"f">>
g == <<"g">>
h == <<"h">>
k == <<"k", "1">>
s == <<"s">>
w == <<"w">>
x == <<"x">>
y == <<"y", "_">>

\* 1 is S, 2 is A
Plain(extra) ==
  [language |-> <<"STR", "plain">>, abscats |-> {"S", "A"},
   cnccats |-> [S |-> [n_ctnts |-> 1, cats |-> <<1>>], A |-> [n_ctnts |-> 1, cats |-> <<2>>]],
   ctnts |-> [S |-> <<"s">>, A |-> <<"s">>],
   cat |-> <<"S", "A">>, extra_ccats |-> <<>>,
   prods |-> <<<<App(f, <<2>>), App(k, <<2, 2>>)>> \o (IF extra THEN <<App(h, <<2>>)>> ELSE <<>>),
               <<App(x, <<>>), App(y, <<>>), App(s, <<2>>)>>
               \o (IF extra THEN <<App(w, <<>>)>> ELSE <<>>)>>,
   lins |-> (f :> <<<<Arg(1, 1), Ks(<<"b">>)>>>>) @@ (k :> <<<<Arg(1, 1), Arg(2, 1)>>>>)
            @@ (x :> <<<<Ks(<<"a">>)>>>>) @@ (y :> <<<<Ks(<<"a">>)>>>>)
            @@ (s :> <<<<Ks(<<"c">>), Arg(1, 1)>>>>)
            @@ (h :> <<<<Ks(<<"b">>)>>>>) @@ (w :> <<<<Ks(<<"d">>)>>>>)]

\* 1 is S, 2 and 3 are A, and 4 is either of them
Split(extra) ==
  [language |-> <<"STR", "split">>, abscats |-> {"S", "A"},
   cnccats |-> [S |-> [n_ctnts |-> 1, cats |-> <<1>>], A |-> [n_ctnts |-> 2, cats |-> <<2, 3>>]],
   ctnts |-> [S |-> <<"s">>, A |-> <<"head", "tail">>],
   cat |-> <<"S", "A", "A", "A">>, extra_ccats |-> <<4>>,
   prods |-> <<<<App(f, <<4>>), App(k, <<2, 4>>), App(k, <<3, 4>>)>>
               \o (IF extra THEN <<App(h, <<4>>)>> ELSE <<>>),
               <<App(x, <<>>), App(s, <<4>>)>>,
               <<App(y, <<>>)>> \o (IF extra THEN <<App(w, <<>>)>> ELSE <<>>),
               <<App(Coerce, <<2>>), App(Coerce, <<3>>)>>>>,
   lins |-> (f :> <<<<Arg(1, 2), Ks(<<"b">>), Arg(1, 1)>>>>)
            @@ (k :> <<<<Arg(2, 1), Arg(1, 1), Arg(2, 2), Arg(1, 2)>>>>)
            @@ (x :> <<<<Ks(<<"a">>)>>, <<Ks(<<"d">>)>>>>)
            @@ (y :> <<<<Ks(<<"a">>)>>, <<>>>>)
            @@ (s :> <<<<Arg(1, 1), Ks(<<"c">>)>>, <<Arg(1, 2)>>>>)
            @@ (h :> <<<<Arg(1, 1)>>>>)
            @@ (w :> <<<<Kp(<<<<"e">>, <<"e", "e">>>>)>>, <<>>>>)]

MCPgfs ==
  {[cats |-> {"S", "A"}, startcat |-> start,
    concretes |-> [P |-> Plain(extra), Q |-> Split(extra)]] :
     start \in {<<"STR", "S">>, <<"FLT">>}, extra \in BOOLEAN}

Opts(cn, a, b, ac, bc, t) ==
  [catname |-> cn, from |-> a, to |-> b, from_ctnt |-> ac, to_ctnt |-> bc, show_expr |-> t]

MCOptions ==
  {Opts(NULL, "P", "P", NULL, NULL, TRUE), Opts(NULL, "P", "split", NULL, NULL, FALSE),
   Opts("S", "Q", "plain", NULL, "s", TRUE), Opts("S", "Q", "Q", NULL, NULL, FALSE),
   Opts("A", "Q", "Q", "head", "tail", FALSE), Opts("A", "Q", "Q", NULL, NULL, FALSE),
   Opts("S", "P", "R", NULL, NULL, FALSE)}

MCInputs ==
  {<<<<"a", "b">>, <<"c", "a", "b">>>>, <<<<"d", "b", "a">>, <<"a">>, <<"a", "a", "d">>>>,
   <<<<"b">>, <<>>, NUL>>, <<<<"c", "a", "a">>>>, <<<<"b", "a", "c">>, <<"b", "e">>, <<"d", "b">>>>}

\* Trees that a line of these can have: of three functions, with a coercion before two
MCMaxDepth(concr) == IF concr.extra_ccats = <<>> THEN 3 ELSE 5
=============================================================================
