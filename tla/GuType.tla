------------------------------- MODULE GuType -------------------------------
(***************************************************************************)
(* gu/type.c: kinds, types, and tables of functions indexed by them.       *)
(* A type is a kind as well, and every kind but "type" has a super kind.   *)
(* The types of a program are the constant Types, a function from names to *)
(* descriptors; the field kind of a descriptor is the super kind.          *)
(***************************************************************************)
EXTENDS Integers, Sequences, FiniteSets

CONSTANTS Types, NULL

\* The GU_DEFINE_KINDs of gu/type.c, and the kinds and types of the rest of gu/
SuperKind ==
  [alias |-> "type", typedef |-> "alias", referenced |-> "alias",
   repr |-> "type", GuOpaque |-> "repr", abstract |-> "type",
   struct |-> "repr", pointer |-> "repr", reference |-> "pointer", shared |-> "pointer",
   primitive |-> "repr", void |-> "primitive", integer |-> "primitive",
   signed |-> "integer", int |-> "signed", int32_t |-> "signed",
   unsigned |-> "integer", uint16_t |-> "unsigned", size_t |-> "unsigned",
   GuLength |-> "unsigned", GuFloating |-> "primitive", double |-> "GuFloating",
   enum |-> "repr"]

\* The same for gu/seq.c, map.c, string.c, variant.c, in.c, bits.c and str.c
LibraryKind ==
  [GuSeq |-> "GuOpaque", GuString |-> "GuOpaque", GuMap |-> "abstract",
   GuAddrMap |-> "GuMap", GuStringMap |-> "GuMap", GuVariant |-> "repr",
   GuEOF |-> "abstract", GuUCSExn |-> "abstract", GuErrno |-> "signed",
   GuIntDecodeExn |-> "abstract", GuStr |-> "repr"]

Super(kind) ==
  CASE kind \in DOMAIN Types -> Types[kind].kind
    [] kind \in DOMAIN SuperKind -> SuperKind[kind]
    [] kind \in DOMAIN LibraryKind -> LibraryKind[kind]
    [] OTHER -> NULL

RECURSIVE gu_type_has_kind(_, _)
gu_type_has_kind(type, kind) ==
  /\ type # NULL
  /\ type = kind \/ gu_type_has_kind(Super(type), kind)

\* A GuTypeMap is a function from kinds: the entry of the nearest kind is
\* taken, and NULL if no kind of the type has one.
RECURSIVE gu_type_map_get(_, _)
gu_type_map_get(tmap, kind) ==
  CASE kind = NULL -> NULL
    [] kind \in DOMAIN tmap -> tmap[kind]
    [] OTHER -> gu_type_map_get(tmap, Super(kind))

\* The type without its aliases: what it is represented as.
RECURSIVE gu_type_repr(_)
gu_type_repr(type) ==
  IF gu_type_has_kind(type, "alias") THEN gu_type_repr(Types[type].type) ELSE type

=============================================================================
