------------------------- MODULE MCSubobjectBounds -------------------------
(* The types of MCTypeCheck; one heap chunk at address 2, with memory nobody *)
(* knows before and after it.                                               *)
EXTENDS MCTypeCheck, SubobjectBounds

FetchChunk == [{"h"} -> {Is(<<"int", 0>>, 3), Is(<<"S", 0>>, 4), Is(<<"sa", 0>>, 3),
                       Is(<<"absp", 0>>, 2)}]
FetchPtr == Pointers("h", 0 .. 3) \union Pointers(None, 0 .. 1) \union
            {[chunk |-> "h", off |-> 2, trap |-> TRUE]}
FetchPlace == "h" :> 2
CheckedType == {<<"int">>, <<"S">>}
FetchType == {<<"int">>, <<"S">>, <<"schar">>, <<"void">>, <<"in">>}
=============================================================================
