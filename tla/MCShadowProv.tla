---------------------------- MODULE MCShadowProv ----------------------------
(* Two static objects, a two-word one (a TLS block or table of libc) and     *)
(* argv's, and two adjacent heap objects: one of two words that qsort can    *)
(* exchange, and one whose base folds to the same byte as argv's.            *)
EXTENDS ShadowProv, TLC

MCLo == "tls" :> 512 @@ "argv" :> 65792 @@ "h1" :> 256 @@ "h2" :> 258
MCHi == "tls" :> 514 @@ "argv" :> 65793 @@ "h1" :> 258 @@ "h2" :> 259
\* The two locals are interchangeable.
Locals == Permutations(Var)
MCStaticAt == "__errno_location" :> {513} @@ "__ctype_b_loc" :> {513}
=============================================================================
