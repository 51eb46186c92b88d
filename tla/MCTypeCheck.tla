---------------------------- MODULE MCTypeCheck ----------------------------
(***************************************************************************)
(* Small type universes for TypeCheck.  <<b>> is a type, <<b, n>> an array *)
(* of n of it, <<b, 0>> one of unknown length.  A scalar or pointer has    *)
(* size 1.  sa and in are shaped like sockaddr and sockaddr_in, and G is   *)
(* P with a generic pointer and the other signedness.                      *)
(***************************************************************************)
EXTENDS TypeCheck, TLC

CONSTANTS
  BaseName, PointerName, StructName, FunName   \* names of the types by kind

MCType ==
  LET named == BaseName \union PointerName \union StructName \union FunName
  IN {<<b>> : b \in named \union {"void"}} \union {<<b, n>> : b \in named, n \in 0 .. 5}

MCKind ==
  [t \in MCType |-> CASE Len(t) = 2 -> "array"
                      [] t[1] \in BaseName -> "base"
                      [] t[1] \in PointerName -> "address"
                      [] t[1] \in StructName -> "composite"
                      [] t[1] \in FunName -> "subprogram"
                      [] OTHER -> "void"]

Unbounded == 6
MCSizeOf ==
  [t \in MCType |-> LET n == CASE t[1] = "void" -> Unbounded
                               [] t[1] \in {"S", "P", "G"} -> 2
                               [] t[1] \in {"in", "sa"} -> 3
                               [] t[1] = "big" -> 4
                               [] t[1] = "wrap" -> 5
                               [] OTHER -> 1
                        m == IF Len(t) = 1 \/ t[2] = 0 THEN n ELSE n * t[2]
                    IN IF m > Unbounded THEN Unbounded ELSE m]

MCOf ==
  [t \in MCType |-> CASE Len(t) = 2 -> <<t[1]>>
                      [] t[1] \in {"voidp", "absp"} -> <<"void">>
                      [] t[1] = "voidpp" -> <<"voidp">>
                      [] t[1] = "intp" -> <<"int">>
                      [] t[1] = "fltp" -> <<"flt">>
                      [] t[1] = "Sp" -> <<"S">>
                      [] OTHER -> None]

MCLenOf == [t \in MCType |-> IF Len(t) = 2 THEN t[2] ELSE 0]

M(o, t) == [off |-> o, ty |-> t]
MCMemb ==
  [t \in MCType |->
     CASE t = <<"S">> -> <<M(0, <<"int">>), M(1, <<"flt">>)>>
       [] t = <<"P">> -> <<M(0, <<"int">>), M(1, <<"intp">>)>>
       [] t = <<"G">> -> <<M(0, <<"uint">>), M(1, <<"voidp">>)>>
       [] t = <<"in">> -> <<M(0, <<"int">>), M(1, <<"uint">>), M(2, <<"flt">>)>>
       [] t = <<"sa">> -> <<M(0, <<"int">>), M(1, <<"schar", 2>>)>>
       [] t = <<"big">> -> <<M(0, <<"int">>), M(3, <<"flt">>)>>
       [] t = <<"wrap">> -> <<M(0, <<"big", 1>>), M(4, <<"int">>)>>
       [] OTHER -> <<>>]

\* int fi(void*), int gi(int*), void fv(int*), void gv(float*), int* hv(float*),
\* void nv(void)
MCRel ==
  [t \in MCType |->
     CASE t = <<"fi">> -> <<<<"int">>, <<"voidp">>>>
       [] t = <<"gi">> -> <<<<"int">>, <<"intp">>>>
       [] t = <<"fv">> -> <<<<"intp">>>>
       [] t = <<"gv">> -> <<<<"fltp">>>>
       [] t = <<"hv">> -> <<<<"intp">>, <<"fltp">>>>
       [] OTHER -> <<>>]
MCNret == [t \in MCType |-> IF t \in {<<"fi">>, <<"gi">>, <<"hv">>} THEN 1 ELSE 0]

MCMakePrecise == [t \in MCType |-> t = <<"absp">> \/ (Len(t) = 2 /\ t[Len(t)] = 0)]
MCComplement == [t \in MCType |-> CASE t = <<"int">> -> <<"uint">>
                                    [] t = <<"uint">> -> <<"int">>
                                    [] OTHER -> None]

Void == <<"void">>
SChar == <<"schar">>
UChar == <<"uchar">>

Is(t, n) == [ty |-> t, size |-> n]
Pointers(c, os) == {[chunk |-> c, off |-> o, trap |-> FALSE] : o \in os}
Nowhere == [chunk |-> None, off |-> 0, trap |-> FALSE]

\* Casts: one heap chunk.  The size of big does not fit the period of a range.
CastChunk == [{"h"} -> {Is(<<"int", 0>>, 2), Is(<<"absp", 0>>, 2), Is(<<"S", 0>>, 2),
                        Is(<<"S", 0>>, 4), Is(<<"in", 0>>, 3), Is(<<"voidpp", 0>>, 1),
                        Is(<<"P", 0>>, 2), Is(<<"wrap", 0>>, 5)}]
CastPtr == Pointers("h", 0 .. 2) \union
           {Nowhere, [chunk |-> "h", off |-> 1, trap |-> TRUE]}
CastType == {<<"int">>, <<"flt">>, <<"intp">>, <<"voidp">>, <<"S">>, <<"G">>, <<"sa">>,
             <<"int", 2>>, <<"big">>}

\* Stores and calls: heap chunks h and g, a static object s and a function f.
\* Either the objects or the function vary.
Chunks(f, h, g) ==
  [c \in {"f", "h", "g", "s"} |-> CASE c = "f" -> Is(f, 1) [] c = "h" -> h [] c = "g" -> g
                                    [] OTHER -> Is(<<"intp">>, 1)]
MemoryChunk ==
  {Chunks(<<"gi">>, h, Is(<<"absp", 0>>, 1)) :
     h \in {Is(<<"P", 0>>, 2), Is(<<"voidpp", 0>>, 1), Is(<<"Sp", 0>>, 1)}}
  \union {Chunks(<<"fi">>, Is(<<"voidpp", 0>>, 1), Is(<<"voidp", 0>>, 2)),
          Chunks(<<"fi">>, Is(<<"Sp", 0>>, 1), Is(<<"S", 0>>, 2))}
  \union {Chunks(f, Is(<<"int", 0>>, 2), Is(<<"S", 0>>, 2)) :
            f \in {<<"fv">>, <<"gv">>, <<"hv">>, <<"nv">>}}
MemoryPtr == UNION {Pointers("h", 0 .. 1), Pointers("g", 0 .. 1), Pointers("s", {0}),
                    Pointers("f", {0}), {Nowhere},
                    {[chunk |-> "g", off |-> 0, trap |-> TRUE]}}
MemoryType == {<<"int">>}
MemoryFun == {<<"fi">>, <<"gi">>, <<"fv">>, <<"gv">>, <<"hv">>}
NoFun == {}
=============================================================================
