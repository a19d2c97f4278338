------------------------------ MODULE PgfTypes ------------------------------
(***************************************************************************)
(* The descriptions of the types of a grammar in pgf/data.c, pgf/expr.c    *)
(* and pgf/reader.c, by which a PGF file is read and a grammar is dumped.  *)
(* "T*" names the anonymous type of the pointers to a T.                   *)
(***************************************************************************)
EXTENDS TLC, Sequences

Struct(members) == [kind |-> "struct", members |-> members]
Variant(ctors) == [kind |-> "GuVariant", ctors |-> ctors]
Enum(constants) == [kind |-> "enum", constants |-> constants]
SequenceOf(elem) == [kind |-> "GuSeq", elem |-> elem]
Pointer(kind, to) == [kind |-> kind, to |-> to]
Alias(kind, of) == [kind |-> kind, type |-> of]
Map(kind, key, hashed, value) ==
  [kind |-> kind, key |-> key, hashed |-> hashed, value |-> value]

ExprTypes ==
  [PgfBindType |-> Enum(<<"EXPLICIT", "IMPLICIT">>),
   PgfLiteral |-> Variant(<<<<"STR", "PgfLiteralStr">>, <<"INT", "PgfLiteralInt">>,
                            <<"FLT", "PgfLiteralFlt">>>>),
   PgfLiteralStr |-> Struct(<<<<"val", "GuString">>>>),
   PgfLiteralInt |-> Struct(<<<<"val", "int">>>>),
   PgfLiteralFlt |-> Struct(<<<<"val", "double">>>>),
   PgfHypo |-> Struct(<<<<"bindtype", "PgfBindType">>, <<"cid", "PgfCId">>,
                        <<"type", "PgfType*">>>>),
   PgfHypos |-> SequenceOf("PgfHypo"),
   PgfExprs |-> SequenceOf("PgfExpr"),
   PgfType |-> Struct(<<<<"hypos", "PgfHypos">>, <<"cid", "PgfCId">>,
                        <<"exprs", "PgfExprs">>>>),
   PgfExpr |-> Variant(<<<<"ABS", "PgfExprAbs">>, <<"APP", "PgfExprApp">>,
                         <<"LIT", "PgfExprLit">>, <<"META", "PgfExprMeta">>,
                         <<"FUN", "PgfExprFun">>, <<"VAR", "PgfExprVar">>,
                         <<"TYPED", "PgfExprTyped">>, <<"IMPL_ARG", "PgfExprImplArg">>>>),
   PgfExprAbs |-> Struct(<<<<"bind_type", "PgfBindType">>, <<"id", "PgfCId">>,
                           <<"body", "PgfExpr">>>>),
   PgfExprApp |-> Struct(<<<<"fun", "PgfExpr">>, <<"arg", "PgfExpr">>>>),
   PgfExprLit |-> Struct(<<<<"lit", "PgfLiteral">>>>),
   PgfExprMeta |-> Struct(<<<<"id", "int">>>>),
   PgfExprFun |-> Struct(<<<<"fun", "PgfCId">>>>),
   PgfExprVar |-> Struct(<<<<"var", "int">>>>),
   PgfExprTyped |-> Struct(<<<<"expr", "PgfExpr">>, <<"type", "PgfType*">>>>),
   PgfExprImplArg |-> Struct(<<<<"expr", "PgfExpr">>>>)]
  @@ ("PgfType*" :> Pointer("pointer", "PgfType"))

ConcreteTypes ==
  [PgfCId |-> Alias("typedef", "GuString"),
   GuStrings |-> SequenceOf("GuString"),
   PgfTokens |-> SequenceOf("GuString"),
   PgfCCat |-> Struct(<<<<"cnccat", "PgfCncCat shared*">>, <<"prods", "PgfProductions">>>>),
   PgfCCatId |-> Pointer("shared", "PgfCCat"),
   PgfCCatIds |-> SequenceOf("PgfCCatId"),
   PgfAlternative |-> Struct(<<<<"form", "PgfTokens">>, <<"prefixes", "GuStrings">>>>),
   PgfAlternatives |-> SequenceOf("PgfAlternative"),
   PgfSymbolIdx |-> Struct(<<<<"d", "int32_t">>, <<"r", "int32_t">>>>),
   PgfSymbol |-> Variant(<<<<"CAT", "PgfSymbolIdx">>, <<"LIT", "PgfSymbolIdx">>,
                           <<"VAR", "PgfSymbolIdx">>, <<"KS", "PgfSymbolKS">>,
                           <<"KP", "PgfSymbolKP">>>>),
   PgfSymbolKS |-> Struct(<<<<"tokens", "PgfTokens">>>>),
   PgfSymbolKP |-> Struct(<<<<"default_form", "PgfTokens">>, <<"alts", "PgfAlternatives">>>>),
   PgfCncCat |-> Struct(<<<<"cid", "PgfCId">>, <<"cats", "PgfCCatIds">>,
                          <<"n_ctnts", "size_t">>, <<"lindefs", "PgfFunIds">>,
                          <<"ctnts", "GuStrings">>>>),
   PgfSequence |-> SequenceOf("PgfSymbol"),
   PgfFlags |-> Map("GuStringMap", "GuString", TRUE, "PgfLiteral"),
   PgfFlagsP |-> Pointer("pointer", "PgfFlags"),
   PgfSequences |-> SequenceOf("PgfSequence"),
   PgfSeqId |-> Alias("typedef", "PgfSequence"),
   PgfSeqIds |-> SequenceOf("PgfSeqId"),
   PgfCncFun |-> Struct(<<<<"fun", "PgfCId">>, <<"lins", "PgfSeqIds">>>>),
   PgfCncFuns |-> SequenceOf("PgfCncFun referenced"),
   PgfFunId |-> Pointer("shared", "PgfCncFun"),
   PgfFunIds |-> SequenceOf("PgfFunId"),
   PgfPArg |-> Struct(<<<<"hypos", "PgfCCatIds">>, <<"ccat", "PgfCCatId">>>>),
   PgfPArgs |-> SequenceOf("PgfPArg"),
   PgfProduction |-> Variant(<<<<"APPLY", "PgfProductionApply">>,
                               <<"COERCE", "PgfProductionCoerce">>>>),
   PgfProductionApply |-> Struct(<<<<"fun", "PgfFunId">>, <<"args", "PgfPArgs">>>>),
   PgfProductionCoerce |-> Struct(<<<<"coerce", "PgfCCatId">>>>),
   PgfProductions |-> SequenceOf("PgfProduction")]
  @@ ("PgfCncCat shared*" :> Pointer("shared", "PgfCncCat"))
  @@ ("PgfCncFun referenced" :> Alias("referenced", "PgfCncFun*"))
  @@ ("PgfCncFun*" :> Pointer("pointer", "PgfCncFun"))

AbstractTypes ==
  [PgfContext |-> [kind |-> "reference"],
   PgfPGFCtx |-> Pointer("PgfContext", "PgfPGF"),
   PgfKey |-> [kind |-> "alias"],
   PgfCIdKey |-> Alias("PgfKey", "PgfCId"),
   PgfPatts |-> SequenceOf("PgfPatt"),
   PgfPatt |-> Variant(<<<<"APP", "PgfPattApp">>, <<"VAR", "PgfPattVar">>,
                         <<"AS", "PgfPattAs">>, <<"WILD", "void">>, <<"LIT", "PgfPattLit">>,
                         <<"IMPL_ARG", "PgfPattImplArg">>, <<"TILDE", "PgfPattTilde">>>>),
   PgfPattApp |-> Struct(<<<<"ctor", "PgfCId">>, <<"args", "PgfPatts">>>>),
   PgfPattVar |-> Struct(<<<<"var", "PgfCId">>>>),
   PgfPattAs |-> Struct(<<<<"var", "PgfCId">>, <<"patt", "PgfPatt">>>>),
   PgfPattLit |-> Struct(<<<<"lit", "PgfLiteral">>>>),
   PgfPattImplArg |-> Struct(<<<<"patt", "PgfPatt">>>>),
   PgfPattTilde |-> Struct(<<<<"expr", "PgfExpr">>>>),
   PgfEquation |-> Struct(<<<<"patts", "PgfPatts">>, <<"body", "PgfExpr">>>>),
   PgfEquationsM |-> SequenceOf("PgfEquation"),
   PgfFunDecl |-> Struct(<<<<"type", "PgfType*">>, <<"arity", "int32_t">>,
                           <<"defns", "PgfEquationsM">>, <<"prob", "double">>>>),
   PgfCatFun |-> Struct(<<<<"prob", "double">>, <<"fun", "PgfCId">>>>),
   PgfCatFuns |-> SequenceOf("PgfCatFun"),
   PgfCat |-> Struct(<<<<"pgf", "PgfPGFCtx">>, <<"cid", "PgfCIdKey">>,
                       <<"context", "PgfHypos">>, <<"functions", "PgfCatFuns">>>>),
   PgfAbstr |-> Struct(<<<<"name", "PgfCId">>, <<"aflags", "PgfFlagsP">>,
                         <<"funs", "PgfFunMap*">>, <<"cats", "PgfCatMap*">>>>),
   PgfFunMap |-> Map("GuStringMap", "GuString", TRUE, "PgfFunDecl*"),
   PgfCatMap |-> Map("GuStringMap", "GuString", TRUE, "PgfCat*"),
   PgfPrintNames |-> Map("GuStringMap", "GuString", TRUE, "GuString"),
   PgfCatId |-> Alias("alias", "PgfCat"),
   PgfCncCatMap |-> Map("GuAddrMap", "PgfCatId", FALSE, "PgfCncCat*"),
   PgfConcr |-> Struct(<<<<"cflags", "PgfFlagsP">>, <<"printnames", "PgfPrintNames*">>,
                         <<"cnccats", "PgfCncCatMap*">>>>),
   PgfPGF |-> Alias("referenced", "struct PgfPGF"),
   PgfConcrMap |-> Map("GuStringMap", "GuString", TRUE, "PgfConcr*")]
  @@ ("struct PgfPGF" :>
        Struct(<<<<"major_version", "uint16_t">>, <<"minor_version", "uint16_t">>,
                 <<"gflags", "PgfFlagsP">>, <<"abstract", "PgfAbstr">>,
                 <<"concretes", "PgfConcrMap*">>>>))
  @@ [t \in {"PgfFunDecl*", "PgfCat*", "PgfCncCat*", "PgfConcr*", "PgfFunMap*", "PgfCatMap*",
             "PgfConcrMap*", "PgfPrintNames*", "PgfCncCatMap*"} |->
        Pointer("pointer",
                CASE t = "PgfFunDecl*" -> "PgfFunDecl" [] t = "PgfCat*" -> "PgfCat"
                  [] t = "PgfCncCat*" -> "PgfCncCat" [] t = "PgfConcr*" -> "PgfConcr"
                  [] t = "PgfFunMap*" -> "PgfFunMap" [] t = "PgfCatMap*" -> "PgfCatMap"
                  [] t = "PgfConcrMap*" -> "PgfConcrMap"
                  [] t = "PgfPrintNames*" -> "PgfPrintNames"
                  [] t = "PgfCncCatMap*" -> "PgfCncCatMap")]

\* The maps of a concrete syntax that only the reader knows
ReaderTypes ==
  [PgfLinDefs |-> Map("GuMap", "int32_t", TRUE, "PgfFunIds"),
   PgfCCatMap |-> Map("GuMap", "int32_t", TRUE, "PgfCCat*"),
   PgfReadTagExn |-> [kind |-> "abstract"],
   PgfReadExn |-> [kind |-> "abstract"]]
  @@ ("PgfCCat*" :> Pointer("pointer", "PgfCCat"))

PgfTypeTable == ExprTypes @@ ConcreteTypes @@ AbstractTypes @@ ReaderTypes

=============================================================================
