---------------------------- MODULE MCLinearize ----------------------------
(* Grammars with variants, coercions (also of a coercion), functions that    *)
(* accept only some of the categories of an argument, and a literal; and     *)
(* abstract trees over them.                                                 *)
EXTENDS LinearizeRef

App(f, c, args) == [fun |-> f, cnc |-> c, args |-> args]
Co(c) == [fun |-> Coerce, args |-> <<c>>]
T(f, args) == [fun |-> f, args |-> args]

\* x : A1 or A2;  y : B1 or B2;  g : A -> A;  f, p, q, l : ... -> S;
\* E coerces A1 and A2, F coerces E; D1 has no productions.
MCGrammar(fArgs, gArg) ==
  [cnccats |-> [A |-> <<"A1", "A2">>, B |-> <<"B1", "B2">>, S |-> <<"S1", "D1">>],
   extra_ccats |-> <<"E", "F">>,
   prods |->
     [A1 |-> <<App("x", "x1", <<>>), App("g", "g1", <<"A2">>)>>,
      A2 |-> <<App("x", "x2", <<>>), App("g", "g2", <<gArg>>)>>,
      B1 |-> <<App("y", "y1", <<>>)>>,
      B2 |-> <<App("y", "y2", <<>>), App("y", "y3", <<>>)>>,
      S1 |-> <<App("f", "f1", fArgs), App("f", "f2", <<"A2", "B1">>),
               App("f", "f3", <<"A2", "B1">>), App("p", "p1", <<"A1">>),
               App("q", "q1", <<"S1", "B1">>), App("l", "l1", <<"E", LitCat>>)>>,
      E |-> <<Co("A1"), Co("A2")>>,
      F |-> <<Co("E")>>]]

x == T("x", <<>>)
y == T("y", <<>>)
lit == T(Literal, <<>>)
gx == T("g", <<x>>)

MCExprs ==
  {x, lit, T(Other, <<>>), T("f", <<x, y>>), T("f", <<x>>), T("p", <<x>>), T("p", <<gx>>),
   T("q", <<T("p", <<gx>>), y>>), T("q", <<T("f", <<gx, y>>), y>>), T("f", <<y, x>>),
   T("l", <<gx, lit>>), T("q", <<T("p", <<T(Other, <<>>)>>), y>>)}

MCInputs ==
  [g : {MCGrammar(fArgs, gArg) : fArgs \in {<<"F", "B2">>, <<"E", "B1">>, <<"A2", "B1">>},
                                 gArg \in {"E", "A1"}},
   expr : MCExprs]
=============================================================================
