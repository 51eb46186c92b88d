---------------------------- MODULE MCDerivePtr ----------------------------
(***************************************************************************)
(* A small instance of DerivePtr: two adjacent arrays a and b, so that the *)
(* one-past address of a is the first address of b, and further up an      *)
(* opaque allocation c or an unknown one u.                                *)
(***************************************************************************)
EXTENDS DerivePtr, TLC

MCLo == [o \in Obj |-> CASE o = "a" -> 2 [] o \in {"b", "c"} -> 4 [] OTHER -> 5]
MCHi == [o \in Obj |-> CASE o = "a" -> 4 [] o \in {"b", "c"} -> 5 [] OTHER -> 6]
MCKind == [o \in Obj |-> CASE o \in {"a", "b"} -> "array"
                           [] o = "c" -> "opaque"
                           [] OTHER -> "unknown"]
MCOffsets == {-1, 0, 2}
Symmetry == Permutations(Var)
=============================================================================
