---------------------------- MODULE TrapHandler ----------------------------
(***************************************************************************)
(* The SIGSEGV handler.  An access through a trapped pointer faults because *)
(* its address has tag bits; handle_sigsegv decodes the instruction, clears *)
(* the tag of every register that a memory operand was computed from and    *)
(* that looks trapped, and resumes; if it cleared none, it exits.           *)
(*                                                                         *)
(* Words have LowBits address bits below the tag bits, with the arithmetic  *)
(* of the machine: an index may be negative and carries go into the tag.    *)
(***************************************************************************)
EXTENDS Integers, Sequences, FiniteSets

CONSTANTS Reg,        \* registers an operand may be computed from
          Fixable,    \* those try_register_fixup has a case for (not rsp)
          LowRange,   \* 2 ^ LIBCRUNCH_TRAP_TAG_SHIFT
          TagRange,   \* number of values of the bits above
          Mapped,     \* untagged addresses where an access succeeds
          Instr,      \* instructions: sequences of memory operands
          Values      \* words that the program puts into registers

Word == 0 .. (LowRange * TagRange - 1)
\* An operand: the registers it is computed from ("absent": none), and those
\* the decoder cannot tell (it gives -1, or no register at all).
Operand == [r1 : Reg \cup {"absent"}, r2 : Reg \cup {"absent"}, lost : SUBSET Reg]

ASSUME MachineAssumption ==
  /\ LowRange \in Nat \ {0} /\ TagRange \in Nat /\ TagRange > 3
  /\ Fixable \subseteq Reg /\ "absent" \notin Reg
  /\ Mapped \subseteq 0 .. (LowRange - 1)
  /\ Instr \subseteq Seq(Operand) /\ Values \subseteq Word

VARIABLES reg,        \* the registers (in the handler: the saved context)
          stage,      \* "run", "fault" (in the handler), "retry" or "exited"
          instr,      \* the instruction that faulted
          next,       \* the next operand enumerate_operands will call back for
          did_fixup,
          meant,      \* history: its operands' addresses, as it first faulted
          before,     \* history: the registers then
          accessed    \* history: where the last access went

vars == <<reg, stage, instr, next, did_fixup, meant, before, accessed>>
-----------------------------------------------------------------------------
Tag(w) == w \div LowRange
IsTrap(w) == Tag(w) \in 1 .. 3          \* one-past, one-before, type-invalid

\* Mutant: the shift takes a bit of the address with it.
MutDetrapped(w) == w % (LowRange \div 2)

\* (w << shiftamount) >> shiftamount
Detrapped(w) == w % LowRange

\* The address the hardware computes.
Part(r) == IF r \in Reg THEN reg[r] ELSE 0
Effective(o) == (Part(o.r1) + Part(o.r2)) % (LowRange * TagRange)
Addresses(i) == [k \in 1 .. Len(i) |-> Effective(i[k])]
Faults(i) == \E k \in 1 .. Len(i) : Effective(i[k]) \notin Mapped

Init ==
  /\ reg \in [Reg -> Values]
  /\ stage = "run" /\ instr = <<>> /\ next = 0 /\ did_fixup = FALSE
  /\ meant = <<>> /\ before = reg /\ accessed = <<>>

\* The program computes another value.
Compute ==
  /\ stage = "run"
  /\ \E r \in Reg, v \in Values : reg' = [reg EXCEPT ![r] = v]
  /\ before' = reg' /\ accessed' = <<>>
  /\ UNCHANGED <<stage, instr, next, did_fixup, meant>>

\* It executes an instruction; the access goes through, or faults and the
\* handler is entered.
Execute(i) ==
  /\ IF Faults(i)
     THEN stage' = "fault" /\ next' = 1 /\ UNCHANGED accessed
     ELSE stage' = "run" /\ next' = 0 /\ accessed' = Addresses(i)
  /\ did_fixup' = FALSE
  /\ UNCHANGED reg

Access ==
  /\ stage = "run"
  /\ \E i \in Instr : Execute(i) /\ instr' = i /\ meant' = Addresses(i)
  /\ before' = reg

\* The handler has returned: the same instruction again.
Retry == stage = "retry" /\ Execute(instr) /\ UNCHANGED <<instr, meant, before>>

\* try_register_fixup does something.
Trapped(r) == r \in Fixable /\ IsTrap(reg[r])

\* The registers saw_operand_cb can name for operand o.
Known(o) == {o.r1, o.r2} \ o.lost

\* Mutant: did_fixup is what the last operand gave.
MutSawOperand ==
  /\ stage = "fault" /\ next <= Len(instr)
  /\ LET rs == {r \in Known(instr[next]) : Trapped(r)}
     IN /\ reg' = [r \in Reg |-> IF r \in rs THEN Detrapped(reg[r]) ELSE reg[r]]
        /\ did_fixup' = (rs # {})
  /\ next' = next + 1
  /\ UNCHANGED <<stage, instr, meant, before, accessed>>

\* saw_operand_cb for the next memory operand: both registers, if known.
SawOperand ==
  /\ stage = "fault" /\ next <= Len(instr)
  /\ LET rs == {r \in Known(instr[next]) : Trapped(r)}
     IN /\ reg' = [r \in Reg |-> IF r \in rs THEN Detrapped(reg[r]) ELSE reg[r]]
        /\ did_fixup' = (did_fixup \/ rs # {})
  /\ next' = next + 1
  /\ UNCHANGED <<stage, instr, meant, before, accessed>>

\* Mutant: the handler always resumes.
MutHandled == "retry"

\* if (did_fixup) return; raw_exit(128 + SIGSEGV)
Handled == IF did_fixup THEN "retry" ELSE "exited"

Return ==
  /\ stage = "fault" /\ next > Len(instr)
  /\ stage' = Handled
  /\ did_fixup' = FALSE
  /\ UNCHANGED <<reg, instr, next, meant, before, accessed>>

Exited == stage = "exited" /\ UNCHANGED vars

Next == Compute \/ Access \/ Retry \/ SawOperand \/ Return \/ Exited

\* The handler runs to its end and the kernel resumes the instruction; that the
\* program makes another access is not assumed.
Spec == Init /\ [][Next]_vars /\ WF_vars(Retry) /\ WF_vars(SawOperand \/ Return)
-----------------------------------------------------------------------------
\* A faulting access is resolved: after at most a few rounds through the
\* handler it is made or the program has exited.  The handler never resumes an
\* instruction that will fault in the same way for ever.
Resolved == (stage = "fault") ~> (stage \in {"run", "exited"})

\* An access that was let through after fixups touches exactly the addresses
\* the instruction meant, without their tags.
SameAddress ==
  stage = "run" /\ accessed # <<>> =>
    /\ Len(accessed) = Len(meant)
    /\ \A k \in 1 .. Len(meant) : accessed[k] = meant[k] % LowRange

\* What register r contributes to an address once try_register_fixup has seen it.
Meant(r) ==
  IF r \notin Reg THEN 0
  ELSE IF IsTrap(before[r]) THEN before[r] % LowRange ELSE before[r]

\* The program is killed only for an access that no fixup could have rescued:
\* over all rounds through the handler, some operand has a trapped register that
\* saw_operand_cb could not name or try_register_fixup has no case for, or its
\* registers as they were when the instruction first faulted give, without
\* their trap tags, an address where nothing is mapped.
ExitJustified ==
  stage = "exited" =>
    \E k \in 1 .. Len(instr) : LET o == instr[k] IN
      \/ \E r \in {o.r1, o.r2} \cap Reg : IsTrap(before[r]) /\ r \notin Known(o) \cap Fixable
      \/ (Meant(o.r1) + Meant(o.r2)) % (LowRange * TagRange) \notin Mapped
=============================================================================
