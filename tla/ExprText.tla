------------------------------ MODULE ExprText ------------------------------
(***************************************************************************)
(* pgf/expr.c: abstract syntax trees, and how they are printed and read.   *)
(*                                                                         *)
(* An expression is <<"FUN", name>>, <<"APP", fun, arg>>, <<"META", id>>,  *)
(* <<"IMPL_ARG", expr>>, <<"TYPED", expr, type>> or <<"LIT", lit>>, and    *)
(* NULL is the null variant.  A name and a text are sequences of           *)
(* characters.                                                             *)
(*                                                                         *)
(* The parser calls itself and reads as it goes: each of its functions is  *)
(* an operator from the state e of the parser to the state after it, with  *)
(* what it returns in e.got.  e.exn has two frames, the caller's and       *)
(* eof_exn, whose parent that is.                                          *)
(***************************************************************************)
EXTENDS GuExn, SequencesExt

CONSTANTS
  Letters,  \* the characters for which isalpha holds
  Digits,   \* the characters that are isalnum but not isalpha
  Spaces,   \* the characters for which isspace holds
  Foreign   \* the characters that are not ones of C

-----------------------------------------------------------------------------
(* Trees *)

RECURSIVE pgf_expr_unwrap(_)
pgf_expr_unwrap(expr) ==
  IF expr[1] \in {"IMPL_ARG", "TYPED"} THEN pgf_expr_unwrap(expr[2]) ELSE expr

\* pgf_expr_arity and pgf_expr_unapply: the function and the arguments, or NULL for
\* what is not the application of a function.  args are those found so far.
RECURSIVE Unapply(_, _)
Unapply(expr, args) ==
  LET e == pgf_expr_unwrap(expr)
  IN CASE e[1] = "APP" -> Unapply(e[2], <<e[3]>> \o args)
       [] e[1] = "FUN" -> [fun |-> e[2], args |-> args]
       [] OTHER -> NULL

pgf_expr_unapply(expr) == Unapply(expr, <<>>)

\* The text of an expression of functions and metavariables
RECURSIVE pgf_expr_print_with_paren(_, _)
pgf_expr_print_with_paren(expr, need_paren) ==
  LET inner == pgf_expr_print_with_paren(expr[2], FALSE) \o <<" ">>
               \o pgf_expr_print_with_paren(expr[3], TRUE)
  IN CASE expr[1] = "FUN" -> expr[2]
       [] expr[1] = "META" -> <<"?", expr[2]>>
       [] expr[1] = "APP" -> IF need_paren THEN <<"(">> \o inner \o <<")">> ELSE inner

pgf_expr_print(expr) == pgf_expr_print_with_paren(expr, FALSE)

-----------------------------------------------------------------------------
(* The lexer *)

EOF == "EOF"   \* '\0'

\* A new parser on the text that a reader still has
NewExprParser(in, exn) ==
  [in |-> in, exn |-> <<exn, NewExn(1, "GuEOF")>>, lookahead |-> NULL,
   next_char |-> NULL, got |-> NULL]

Fine(e) == gu_ok(e.exn, 2)

Got(e, x) == [e EXCEPT !.got = x]

\* gu_getc: the end of the text is GuEOF, which eof_exn catches and the parser
\* clears; what is not a character of C goes to the caller's frame.
pgf_expr_parser_next(e) ==
  CASE e.next_char = EOF -> Got(e, EOF)
    [] e.next_char # NULL -> [e EXCEPT !.next_char = NULL, !.got = e.next_char]
    [] e.in = <<>> -> [e EXCEPT !.exn = gu_exn_clear(gu_raise(@, 2, "GuEOF"), 2), !.got = EOF]
    [] Head(e.in) \in Foreign -> [e EXCEPT !.in = Tail(@), !.exn = gu_raise(@, 2, "GuUCSExn"),
                                           !.got = EOF]
    [] OTHER -> [e EXCEPT !.in = Tail(@), !.got = Head(e.in)]

\* Mutation: the character behind an identifier is dropped.
RECURSIVE LexIdGreedy(_, _)
LexIdGreedy(e, chars) ==
  CASE ~Fine(e) -> Got(e, NULL)
    [] e.got \in Letters \cup Digits \cup {"_"} ->
         LexIdGreedy(pgf_expr_parser_next(e), Append(chars, e.got))
    [] OTHER -> [e EXCEPT !.lookahead = <<"id", chars>>, !.got = <<"id", chars>>]

\* The rest of an identifier; the character behind it is kept.
RECURSIVE LexId(_, _)
LexId(e, chars) ==
  CASE ~Fine(e) -> Got(e, NULL)
    [] e.got \in Letters \cup Digits \cup {"_"} -> LexId(pgf_expr_parser_next(e), Append(chars, e.got))
    [] OTHER -> [e EXCEPT !.next_char = e.got, !.lookahead = <<"id", chars>>,
                          !.got = <<"id", chars>>]

\* The token that begins with the character that has been read: there is none at the
\* end, nor at a character that no token begins with.
RECURSIVE Lex(_)
Lex(e) ==
  CASE ~Fine(e) -> Got(e, NULL)
    [] e.got \in Spaces -> Lex(pgf_expr_parser_next(e))
    [] e.got \in {"(", ")", ";"} -> [e EXCEPT !.lookahead = <<e.got>>, !.got = <<e.got>>]
    [] e.got \in Letters -> LexId(pgf_expr_parser_next(e), <<e.got>>)
    [] OTHER -> Got(e, NULL)

pgf_expr_parser_lookahead(e) ==
  IF e.lookahead # NULL THEN Got(e, e.lookahead) ELSE Lex(pgf_expr_parser_next(e))

pgf_expr_parser_consume(e) == [pgf_expr_parser_lookahead(e) EXCEPT !.lookahead = NULL]

-----------------------------------------------------------------------------
(* The parser *)

RECURSIVE Parse(_, _, _)

\* An expression so far, and an argument if there is one
AfterArg(e, fun) ==
  IF e.got = NULL THEN Got(e, fun) ELSE Parse("args", e, <<"APP", fun, e.got>>)

AfterTerm(e) == IF e.got = NULL THEN e ELSE Parse("args", e, e.got)

AfterRpar(e, expr) ==
  CASE e.got = <<")">> -> Got(pgf_expr_parser_consume(e), expr)
    [] Fine(e) -> [e EXCEPT !.exn = gu_raise(@, 2, "PgfReadExn"), !.got = NULL]
    [] OTHER -> Got(e, NULL)

AfterInner(e) == AfterRpar(pgf_expr_parser_lookahead(e), e.got)

pgf_expr_parser_term(e) ==
  LET la == e.got
  IN CASE la = NULL -> e
       [] la[1] = "(" -> AfterInner(Parse("expr", pgf_expr_parser_consume(e), NULL))
       [] la[1] = "id" -> Got(pgf_expr_parser_consume(e), <<"FUN", la[2]>>)
       [] OTHER -> Got(e, NULL)

\* pgf_expr_parser_expr, and its loop
Parse(what, e, fun) ==
  CASE what = "expr" -> AfterTerm(pgf_expr_parser_term(pgf_expr_parser_lookahead(e)))
    [] what = "args" -> AfterArg(pgf_expr_parser_term(pgf_expr_parser_lookahead(e)), fun)

\* An expression ends with a semicolon or with the text.
AfterExpr(e) ==
  CASE e.got = NULL \/ e.lookahead = NULL -> e
    [] e.lookahead = <<";">> -> Got(pgf_expr_parser_consume(e), e.got)
    [] OTHER -> [e EXCEPT !.exn = gu_raise(@, 1, "PgfReadExn")]

\* What is left of the text, the expression and the caller's frame.  The parser is
\* gone with what it has looked at.
pgf_read_expr(in, exn) ==
  LET e == AfterExpr(Parse("expr", NewExprParser(in, exn), NULL))
  IN [in |-> e.in, expr |-> e.got, exn |-> e.exn[1]]

=============================================================================
