------------------------------- MODULE GuExn --------------------------------
(***************************************************************************)
(* gu/exn.c and gu/exn.h: frames of exceptions.  exns is the sequence of   *)
(* the frames that exist, and a frame is named by its index; 0 is no       *)
(* frame.  A frame catches the exceptions of one kind and passes others to *)
(* its parent, and no control is transferred: callers look at gu_ok.       *)
(***************************************************************************)
EXTENDS GuType

\* gu_exn, gu_new_exn; gu_null_exn is a frame that catches NULL, nothing
NewExn(parent, catch) ==
  [state |-> "ok", parent |-> parent, catch |-> catch, caught |-> NULL]

gu_ok(exns, e) == exns[e].state # "raised"

gu_exn_caught(exns, e) == exns[e].caught

gu_exn_clear(exns, e) == [exns EXCEPT ![e].caught = NULL, ![e].state = "ok"]

\* The nearest frame whose kind the type has catches it, and the frames that
\* are passed on the way are marked.  An exception that comes to a frame that
\* has one already is dropped.  Without such a frame the program stops: NULL.
RECURSIVE gu_raise(_, _, _)
gu_raise(exns, e, type) ==
  IF e = 0 THEN NULL
  ELSE IF exns[e].catch # NULL /\ gu_type_has_kind(type, exns[e].catch)
  THEN [exns EXCEPT ![e] = [@ EXCEPT !.state = "raised",
                                     !.caught = IF exns[e].state = "ok" THEN type ELSE @]]
  ELSE gu_raise([exns EXCEPT ![e].state = "raised"], exns[e].parent, type)

=============================================================================
