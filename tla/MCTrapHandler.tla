--------------------------- MODULE MCTrapHandler ---------------------------
(* Two general registers and the stack pointer; one-operand accesses with   *)
(* and without an index, a decode failure, and a string move.               *)
EXTENDS TrapHandler

Op(a, b) == [r1 |-> a, r2 |-> b, lost |-> {}]
MCInstr == {<<Op("rax", "absent")>>, <<Op("rax", "rcx")>>, <<Op("rax", "rax")>>,
            <<Op("rsp", "rcx")>>, <<[Op("rax", "rcx") EXCEPT !.lost = {"rax"}]>>,
            <<[Op("rax", "rcx") EXCEPT !.lost = {"rax", "rcx"}]>>,
            <<Op("rax", "absent"), Op("rcx", "absent")>>}
\* 0, untagged addresses, the three kinds of trap, a tag that is none, and -1.
MCValues == {0, 1, 3, 5, 10, 13, 17, 31}
=============================================================================
