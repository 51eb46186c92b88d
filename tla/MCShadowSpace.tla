--------------------------- MODULE MCShadowSpace ---------------------------
(***************************************************************************)
(* A small instance of ShadowSpace.  A shadow size has two bits, a word    *)
(* three more: p1 has a small object, p2 has max bounds, and p3 an object  *)
(* too large for the shadow space.                                         *)
(***************************************************************************)
EXTENDS ShadowSpace, TLC

MCBase == [p \in Ptr |-> CASE p = "p1" -> 8 [] p = "p2" -> 0 [] OTHER -> 16]
MCSize == [p \in Ptr |-> CASE p = "p1" -> 2 [] p = "p2" -> 31 [] OTHER -> 5]

Symmetry == Permutations(Thread)
=============================================================================
