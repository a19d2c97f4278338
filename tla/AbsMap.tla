------------------------------- MODULE AbsMap -------------------------------
(***************************************************************************)
(* What gu/map.h promises: a finite function from keys to values.          *)
(***************************************************************************)
EXTENDS Naturals

CONSTANTS Keys, Values, DefaultValue

VARIABLE content

With(k, v) == [x \in DOMAIN content \cup {k} |-> IF x = k THEN v ELSE content[x]]

AbsInit == content = <<>>

\* gu_map_insert leaves a key it finds alone.
AbsInsert(k) == k \notin DOMAIN content /\ content' = With(k, DefaultValue)

\* gu_map_put
AbsPut(k, v) == content' = With(k, v)

AbsNext == \E k \in Keys : AbsInsert(k) \/ \E v \in Values : AbsPut(k, v)

AbsSpec == AbsInit /\ [][AbsNext]_content
=============================================================================
