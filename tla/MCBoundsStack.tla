--------------------------- MODULE MCBoundsStack ---------------------------
(***************************************************************************)
(* A small instance of BoundsStack: main, one instrumented function C that *)
(* takes two pointers and returns one, an uninstrumented function U that   *)
(* takes one and returns one, and an instrumented handler H that takes a   *)
(* pointer (sa_sigaction).                                                 *)
(***************************************************************************)
EXTENDS BoundsStack, TLC

MCParams == [f \in Fn |-> CASE f \in {"main", "U", "H"} -> 1
                            [] f = "C" -> 2
                            [] OTHER -> 0]
MCResults == [f \in Fn |-> IF f \in {"C", "U"} THEN 1 ELSE 0]

\* Words below the stack pointer are never read before they are written.
LiveView == <<[a \in sp .. StackTop |-> mem[a]], sp, frames, argv, jumps>>
=============================================================================
