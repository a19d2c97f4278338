------------------------------ MODULE MapEnum ------------------------------
(***************************************************************************)
(* An enumerator of the keys of a GuMap (gu_map_keys in gu/map.c) whose    *)
(* client inserts into the map between two calls of gu_enum_next, as       *)
(* pgf_parsing_complete does with the continuations it is enumerating.     *)
(***************************************************************************)
EXTENDS GuMap, Sequences

VARIABLE en \* the GuMapEnum: its index i; the keys it has given; and, as
            \* history, the keys at its start and whether a resize came after; or,
            \* before gu_map_keys, not active

enumVars == <<hash, data, resize, en>>

KeySet == {data.keys[i] : i \in Occupied(data)}

EnumInit == Init /\ en = [active |-> FALSE]

gu_map_keys ==
  /\ ~resize.active /\ ~en.active
  /\ en' = [active |-> TRUE, i |-> 0, given |-> <<>>, atEnd |-> FALSE,
            start |-> KeySet, resized |-> FALSE]
  /\ UNCHANGED vars

\* Mutation: the slot at the index is taken to have been given.
AheadPast == {i \in Occupied(data) : i > en.i}

\* The slots the enumerator has before it.
Ahead == {i \in Occupied(data) : i >= en.i}

\* The next occupied slot, or the end.
gu_map_enum_next ==
  /\ ~resize.active /\ en.active /\ ~en.atEnd
  /\ IF Ahead = {} THEN en' = [en EXCEPT !.i = data.n_entries, !.atEnd = TRUE]
     ELSE \E i \in Ahead :
            /\ \A j \in Ahead : i <= j
            /\ en' = [en EXCEPT !.i = i + 1, !.given = Append(@, data.keys[i])]
  /\ UNCHANGED vars

Insert ==
  /\ \E kv \in Insertions : gu_map_insert(kv[1], kv[2])
  /\ en' = IF ~en.active \/ ~resize'.active THEN en ELSE [en EXCEPT !.resized = TRUE]

EnumNext ==
  \/ gu_map_keys
  \/ gu_map_enum_next
  \/ Insert
  \/ (Rehash \/ EndResize) /\ UNCHANGED en

EnumSpec == EnumInit /\ [][EnumNext]_enumVars

-----------------------------------------------------------------------------
Given == {en.given[n] : n \in DOMAIN en.given}

\* Insertions behind the enumerator's back are harmless as long as they do not
\* resize the table: no key is given twice, and at the end every key there was at
\* the start has been given.
ExactUnlessResized ==
  en.active /\ ~en.resized =>
    /\ Cardinality(Given) = Len(en.given)
    /\ en.atEnd => en.start \subseteq Given
=============================================================================
