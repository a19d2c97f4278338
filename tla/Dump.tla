-------------------------------- MODULE Dump --------------------------------
(***************************************************************************)
(* gu/yaml.c, a writer of YAML documents in flow style, and gu/dump.c,     *)
(* with which any value is written as YAML under the direction of its      *)
(* type.                                                                   *)
(*                                                                         *)
(* y is the state of the writer, y.out the tokens written so far; spaces   *)
(* and the ends of lines are left out.  A scalar is a token with its       *)
(* characters, of which some are written as escapes.                       *)
(*                                                                         *)
(* d is the state of a GuDump: the document, the anchors of what has been  *)
(* written, and the memory that is dumped, in which a value is given by    *)
(* its place as in Reader.  No type of a grammar has a GuLength or a       *)
(* flexible array member, and the bookkeeping for these is left out.       *)
(***************************************************************************)
EXTENDS Reader, TLC

-----------------------------------------------------------------------------
(* gu/yaml.c *)

\* gu_yaml_states: what is written before and after a node, and what comes next
Prefix == [document |-> <<<<"---">>>>, key |-> <<<<"?">>>>, value |-> <<<<":">>>>, elem |-> <<>>]
Suffix == [document |-> <<<<"...">>>>, key |-> <<>>, value |-> <<<<",">>>>, elem |-> <<<<",">>>>]
NextState == [document |-> "document", key |-> "value", value |-> "key", elem |-> "elem"]

\* gu_yaml_frame_classes
Open == [mapping |-> "{", sequence |-> "["]
FirstState == [mapping |-> "key", sequence |-> "elem"]
Close == [mapping |-> "}", sequence |-> "]"]

gu_new_yaml ==
  [out |-> <<>>, state |-> "document", in_node |-> FALSE, have_anchor |-> FALSE,
   have_tag |-> FALSE, next_anchor |-> 1, stack |-> <<>>,
   sound |-> TRUE]  \* no gu_assert has failed

Assert_(y, p) == [y EXCEPT !.sound = @ /\ p]

\* gu_yaml_puts and the like
Puts(y, tokens) == [y EXCEPT !.out = @ \o tokens]

gu_yaml_begin_node(y) ==
  IF y.in_node THEN y ELSE [Puts(y, Prefix[y.state]) EXCEPT !.in_node = TRUE]

gu_yaml_end_node(y) ==
  [Puts(Assert_(y, y.in_node), Suffix[y.state]) EXCEPT
     !.in_node = FALSE, !.have_anchor = FALSE, !.have_tag = FALSE, !.state = NextState[@]]

\* gu_yaml_begin_mapping and gu_yaml_begin_sequence
gu_yaml_begin(y, klass) ==
  LET z == Puts(gu_yaml_begin_node(y), <<<<Open[klass]>>>>)
  IN [z EXCEPT !.stack = Append(@, [klass |-> klass, next |-> z.state]),
               !.state = FirstState[klass],
               !.in_node = FALSE, !.have_anchor = FALSE, !.have_tag = FALSE]

\* Mutation: the end of a collection is not the end of a node.
EndInside(y) ==
  LET f == y.stack[Len(y.stack)]
  IN [Puts(Assert_(y, ~y.in_node), <<<<Close[f.klass]>>>>) EXCEPT
        !.stack = SubSeq(@, 1, Len(@) - 1), !.state = f.next, !.in_node = TRUE]

gu_yaml_end(y) ==
  LET f == y.stack[Len(y.stack)]
  IN gu_yaml_end_node([Puts(Assert_(y, ~y.in_node), <<<<Close[f.klass]>>>>) EXCEPT
       !.stack = SubSeq(@, 1, Len(@) - 1), !.state = f.next, !.in_node = TRUE])

\* The escapes of one letter
esc ==
  (0 :> "0") @@ (7 :> "a") @@ (8 :> "b") @@ (9 :> "t") @@ (10 :> "n") @@ (11 :> "v")
  @@ (12 :> "f") @@ (13 :> "r") @@ (27 :> "e")

\* How a character is written: as it is, behind a backslash, or as an escape with a
\* letter or with two or four digits
Escape(u) ==
  CASE u \in {34, 92} -> <<"backslash", u>>
    [] u \in 32..126 -> <<"plain", u>>
    [] u \in DOMAIN esc -> <<"letter", esc[u]>>
    [] u <= 159 -> <<"x", u>>
    [] u \in 55296..57343 \/ u \in 65534..65535 -> <<"u", u>>
    [] OTHER -> <<"plain", u>>

Quoted(s) == [i \in DOMAIN s |-> Escape(s[i])]

\* The node of a scalar that is written with these characters
gu_yaml_scalar(y, s) == gu_yaml_end_node(Puts(gu_yaml_begin_node(y), <<<<"scalar", s>>>>))

gu_yaml_tag(y, tag) ==
  LET z == gu_yaml_begin_node(y)
  IN [Puts(Assert_(z, ~z.have_tag), <<<<"!", tag>>>>) EXCEPT !.have_tag = TRUE]

gu_yaml_anchor(y) ==
  LET z == gu_yaml_begin_node(y)
  IN [Puts(Assert_(z, ~z.have_anchor), <<<<"&", z.next_anchor>>>>) EXCEPT
        !.have_anchor = TRUE, !.next_anchor = @ + 1]

gu_yaml_alias(y, anchor) ==
  LET z == gu_yaml_begin_node(y)
  IN gu_yaml_end_node(Puts(Assert_(z, ~z.have_anchor /\ ~z.have_tag), <<<<"*", anchor>>>>))

-----------------------------------------------------------------------------
(* gu/dump.c *)

\* A dumper of the table, for a type and a place
RECURSIVE DumpAs(_, _, _, _)

gu_new_dump(heap) ==
  [heap |-> heap, yaml |-> gu_new_yaml, anchors |-> <<>>, fatal |-> NULL]

gu_dump_table ==
  SelfTable({"int", "uint16_t", "int32_t", "size_t", "GuString", "struct", "pointer", "GuMap",
             "alias", "reference", "referenced", "shared", "GuSeq", "GuVariant", "double",
             "enum"})

\* A type without a dumper is called through a null pointer.
gu_dump(type, at, d) ==
  LET fn == gu_type_map_get(gu_dump_table, type)
  IN IF fn = NULL THEN [d EXCEPT !.fatal = "no dumper"] ELSE DumpAs(fn, type, at, d)

\* gu_dump_scalar and gu_dump_str_scalar as well
DumpScalar(d, s) == [d EXCEPT !.yaml = gu_yaml_scalar(@, s)]

gu_dump_null(d) == [d EXCEPT !.yaml = gu_yaml_scalar(gu_yaml_tag(@, "null"), <<>>)]

\* The loop over the nodes of a collection: each is a name, or has a type and a place.
DumpEach(items, i, d) ==
  IF i > Len(items) \/ d.fatal # NULL THEN [d EXCEPT !.yaml = gu_yaml_end(@)]
  ELSE DumpAs("each", items, i + 1,
              IF items[i].type = "GuStr" THEN DumpScalar(d, items[i].at)
              ELSE gu_dump(items[i].type, items[i].at, d))

\* A collection of these nodes, with its beginning and its end
DumpItems(klass, items, d) ==
  DumpAs("each", items, 1, [d EXCEPT !.yaml = gu_yaml_begin(@, klass)])

gu_dump_pointer(type, at, d) ==
  IF Load(d, at) = NULL THEN gu_dump_null(d) ELSE gu_dump(Types[type].to, <<Load(d, at)>>, d)

\* The keys of a map with a hasher are in the map, and others point to where they are.
gu_dump_map(type, at, d) ==
  LET m == Types[type]
      map == Load(d, at)
      keys == FoldSet(LAMBDA k, ks : Append(ks, k), <<>>, DOMAIN map)
      Key(k) == IF m.hashed THEN <<Len(d.heap) + k>> ELSE <<keys[k]>>
  IN DumpItems("mapping",
       FlattenSeq([k \in DOMAIN keys |-> <<[type |-> m.key, at |-> Key(k)],
                                           [type |-> m.value, at |-> Append(at, keys[k])]>>]),
       IF m.hashed THEN [d EXCEPT !.heap = @ \o keys] ELSE d)

gu_dump_struct(type, at, d) ==
  LET members == Types[type].members
  IN DumpItems("mapping",
       FlattenSeq([i \in DOMAIN members |->
         <<[type |-> "GuStr", at |-> members[i][1]],
           [type |-> members[i][2], at |-> Append(at, members[i][1])]>>]), d)

gu_dump_seq(type, at, d) ==
  IF Load(d, at) = NULL THEN gu_dump_null(d)
  ELSE DumpItems("sequence",
         [i \in DOMAIN Load(d, at) |-> [type |-> Types[type].elem, at |-> Append(at, i)]], d)

gu_dump_variant(type, at, d) ==
  LET ctor == CHOOSE c \in Range(Types[type].ctors) : c[1] = Load(d, at).tag
  IN DumpItems("mapping", <<[type |-> "GuStr", at |-> ctor[1]],
                            [type |-> ctor[2], at |-> Append(at, "data")]>>, d)

\* gu_dump_anchor, and what follows: the first time what is at to is dumped.
DumpAnchored(type, to, d) ==
  IF to \in DOMAIN d.anchors THEN [d EXCEPT !.yaml = gu_yaml_alias(@, d.anchors[to])]
  ELSE gu_dump(type, to, [d EXCEPT !.anchors = (to :> d.yaml.next_anchor) @@ @,
                                   !.yaml = gu_yaml_anchor(@)])

gu_dump_referenced(type, at, d) == DumpAnchored(Types[type].type, at, d)

\* gu_dump_reference as well
gu_dump_shared(type, at, d) ==
  IF Load(d, at) = NULL THEN gu_dump_null(d)
  ELSE DumpAnchored(Types[type].to, <<Load(d, at)>>, d)

\* The digits of a double are not followed: six decimals do not tell it from others.
DumpAs(fn, type, at, d) ==
  CASE fn = "each" -> DumpEach(type, at, d)
    [] fn \in {"int", "uint16_t", "int32_t", "size_t", "enum"} -> DumpScalar(d, Load(d, at))
    [] fn = "double" -> DumpScalar(d, "%lf")
    [] fn = "GuString" -> DumpScalar(d, Quoted(Load(d, at)))
    [] fn = "struct" -> gu_dump_struct(type, at, d)
    [] fn = "pointer" -> gu_dump_pointer(type, at, d)
    [] fn = "GuMap" -> gu_dump_map(type, at, d)
    [] fn = "alias" -> gu_dump(Types[type].type, at, d)
    [] fn \in {"reference", "shared"} -> gu_dump_shared(type, at, d)
    [] fn = "referenced" -> gu_dump_referenced(type, at, d)
    [] fn = "GuSeq" -> gu_dump_seq(type, at, d)
    [] fn = "GuVariant" -> gu_dump_variant(type, at, d)

=============================================================================
