------------------------- MODULE TrapHandlerProofs -------------------------
(***************************************************************************)
(* Proofs about TrapHandler, for every set of registers and instructions   *)
(* and every width of the address and of the tag.                          *)
(***************************************************************************)
EXTENDS TrapHandler, TLAPS

-----------------------------------------------------------------------------
(* The inductive invariant *)

Types ==
  /\ reg \in [Reg -> Word]
  /\ stage \in {"run", "fault", "retry", "exited"}
  /\ instr \in Seq(Operand) /\ next \in Nat /\ did_fixup \in BOOLEAN
  /\ stage = "fault" => next > 0

\* The addresses as are those of instruction i, as far as the tags do not matter.
Agree(as, i) ==
  /\ DOMAIN as = 1 .. Len(i)
  /\ \A k \in 1 .. Len(i) : as[k] % LowRange = Effective(i[k]) % LowRange

\* Until the access is made, the registers still give the addresses meant.
StillMeant == stage \in {"fault", "retry"} => Agree(meant, instr)

\* An access that was made went to mapped addresses that agree with those meant.
WentThrough ==
  stage = "run" /\ accessed # <<>> =>
    /\ DOMAIN accessed = 1 .. Len(instr) /\ DOMAIN meant = 1 .. Len(instr)
    /\ \A k \in 1 .. Len(instr) :
         accessed[k] \in Mapped /\ meant[k] % LowRange = accessed[k] % LowRange

\* From the fault on, a register is as it was or has lost its trap tag.
FromBefore ==
  /\ before \in [Reg -> Word]
  /\ stage # "run" => \A r \in Reg :
       reg[r] = before[r] \/ (IsTrap(before[r]) /\ reg[r] = Detrapped(before[r]))

\* A round that has fixed nothing yet has seen no trapped register it can fix,
\* and the instruction still faults.
NothingToFix ==
  (stage = "fault" /\ ~did_fixup) \/ stage = "exited" =>
    /\ Faults(instr)
    /\ \A k \in 1 .. Len(instr) : stage = "exited" \/ k < next =>
         \A r \in Known(instr[k]) : ~Trapped(r)

\* meant is a sequence, which tells its length.
Sequences == meant \in Seq(Word) /\ accessed \in Seq(Word)

IInv == Types /\ StillMeant /\ WentThrough /\ Sequences /\ FromBefore /\ NothingToFix

-----------------------------------------------------------------------------
(* Remainders *)

LEMMA DivMod ==
  ASSUME NEW d \in Nat \ {0}, NEW r \in Int
  PROVE  r \div d \in Int /\ r % d \in 0 .. d - 1 /\ r = d * (r \div d) + (r % d)
  OBVIOUS

LEMMA ModRange ==
  ASSUME NEW d \in Nat \ {0}, NEW r \in Int
  PROVE  r % d \in 0 .. d - 1
  OBVIOUS

LEMMA ModUnique ==
  ASSUME NEW d \in Nat \ {0}, NEW q \in Int, NEW r \in 0 .. d - 1
  PROVE  (d * q + r) % d = r
  OBVIOUS

LEMMA ModShift ==
  ASSUME NEW d \in Nat \ {0}, NEW q \in Int, NEW r \in Int
  PROVE  (d * q + r) % d = r % d
<1> DEFINE p == r \div d
           s == r % d
<1>1. p \in Int /\ s \in 0 .. d - 1 /\ r = d * p + s
  BY DivMod
<1> HIDE DEF p, s
<1>2. d * q + r = d * (q + p) + s
  BY <1>1
<1>3. (d * (q + p) + s) % d = s
  BY <1>1, ModUnique
<1> QED BY <1>2, <1>3 DEF s

LEMMA ModSmall ==
  ASSUME NEW d \in Nat \ {0}, NEW r \in 0 .. d - 1
  PROVE  r % d = r
  OBVIOUS

\* The remainder of a sum depends on the remainders of its parts.
LEMMA ModSum ==
  ASSUME NEW d \in Nat \ {0}, NEW a \in Int, NEW b \in Int
  PROVE  (a + b) % d = ((a % d) + (b % d)) % d
<1> DEFINE p == a \div d  x == a % d
           q == b \div d  y == b % d
<1>1. /\ p \in Int /\ x \in Int /\ a = d * p + x
      /\ q \in Int /\ y \in Int /\ b = d * q + y
  BY DivMod
<1> HIDE DEF p, q, x, y
<1> DEFINE m == p + q
           z == x + y
<1>2. a + b = d * m + z /\ m \in Int /\ z \in Int
  BY <1>1
<1> HIDE DEF m, z
<1>3. (a + b) % d = z % d
  BY <1>2, ModShift
<1> QED BY <1>3 DEF x, y, z

-----------------------------------------------------------------------------
(* Words and addresses *)

LEMMA Machine ==
  /\ LowRange \in Nat \ {0} /\ TagRange \in Nat \ {0} /\ LowRange * TagRange \in Nat \ {0}
  /\ Word \subseteq Nat /\ 0 .. LowRange - 1 \subseteq Word
<1>1. LowRange \in Nat \ {0} /\ TagRange \in Nat \ {0}
  BY MachineAssumption
<1>2. LowRange * TagRange \in Nat \ {0} /\ LowRange <= LowRange * TagRange
  BY <1>1
<1> QED BY <1>1, <1>2 DEF Word

\* A carry into the tag does not change the address below it.
LEMMA WrapLow ==
  ASSUME NEW n \in Nat
  PROVE  (n % (LowRange * TagRange)) % LowRange = n % LowRange
<1> DEFINE m == LowRange * TagRange
           q == n \div m
           r == n % m
           p == TagRange * q
<1>1. m \in Nat \ {0} /\ n \in Int
  BY Machine
<1> HIDE DEF m
<1>2. q \in Int /\ r \in Int /\ n = m * q + r
  BY ONLY <1>1, DivMod
<1> HIDE DEF q, r
<1>3. n = LowRange * p + r /\ p \in Int
  BY <1>2, Machine DEF m
<1> HIDE DEF p
<1>4. n % LowRange = r % LowRange
  <2>1. LowRange \in Nat \ {0}
    BY Machine
  <2> QED BY ONLY <1>2, <1>3, <2>1, ModShift
<1> QED BY <1>4 DEF r, m

LEMMA SumLow ==
  ASSUME NEW a \in Nat, NEW b \in Nat
  PROVE  (a + b) % LowRange = ((a % LowRange) + (b % LowRange)) % LowRange
<1>1. LowRange \in Nat \ {0} /\ a \in Int /\ b \in Int
  BY Machine
<1> QED BY ONLY <1>1, ModSum, Zenon

\* Clearing the tag of a word leaves a word without one.
LEMMA DetrappedLow == \A w \in Word : Detrapped(w) \in 0 .. LowRange - 1
<1> SUFFICES ASSUME NEW w \in Word PROVE Detrapped(w) \in 0 .. LowRange - 1
  OBVIOUS
<1>1. w \in Int /\ LowRange \in Nat \ {0}
  BY Machine
<1> QED BY ONLY <1>1, ModRange DEF Detrapped

LEMMA LowNoTrap == \A w \in 0 .. LowRange - 1 : ~IsTrap(w)
  BY Machine DEF IsTrap, Tag

\* What the hardware computes is a word; the tags taken off, it is a word still.
LEMMA WordFacts ==
  /\ \A w \in Word : Detrapped(w) \in Word /\ Detrapped(w) % LowRange = w % LowRange
  /\ Types => \A r : Part(r) \in Nat
  /\ Types => \A o \in Operand : Effective(o) \in Word
<1>1. ASSUME NEW w \in Word
      PROVE  Detrapped(w) \in Word /\ Detrapped(w) % LowRange = w % LowRange
  <2>1. w \in Nat /\ w % LowRange \in 0 .. LowRange - 1
    BY Machine
  <2> QED BY <2>1, Machine, ModSmall DEF Detrapped
<1>2. ASSUME Types, NEW r PROVE Part(r) \in Nat
  BY <1>2, Machine DEF Types, Part
<1>3. ASSUME Types, NEW o \in Operand PROVE Effective(o) \in Word
  <2>1. Part(o.r1) + Part(o.r2) \in Nat
    BY <1>2, <1>3
  <2> QED BY <2>1, Machine DEF Effective, Word
<1> QED BY <1>1, <1>2, <1>3

LEMMA AddressFacts ==
  ASSUME Types, NEW i \in Seq(Operand)
  PROVE  Addresses(i) \in Seq(Word) /\ Agree(Addresses(i), i)
<1>1. \A k \in 1 .. Len(i) : Effective(i[k]) \in Word
  BY WordFacts
<1> QED BY <1>1 DEF Addresses, Agree

-----------------------------------------------------------------------------
(* One lemma per action *)

LEMMA Initial == Init => IInv
<1> SUFFICES ASSUME Init PROVE IInv
  OBVIOUS
<1>1. reg \in [Reg -> Word]
  BY MachineAssumption DEF Init
<1>2. instr \in Seq(Operand) /\ meant \in Seq(Word) /\ accessed \in Seq(Word)
  BY DEF Init
<1> QED BY <1>1, <1>2 DEF Init, IInv, Types, StillMeant, WentThrough, Sequences, FromBefore,
             NothingToFix

LEMMA ComputeStep == IInv /\ Compute => IInv'
<1> SUFFICES ASSUME IInv, Compute PROVE IInv'
  OBVIOUS
<1>1. reg' \in [Reg -> Word]
  BY MachineAssumption DEF Compute, IInv, Types
<1> QED BY <1>1 DEF Compute, IInv, Types, StillMeant, WentThrough, Sequences, FromBefore,
             NothingToFix

\* The instruction i is executed while the registers agree with what it meant.
LEMMA ExecuteStep ==
  ASSUME IInv, NEW i \in Seq(Operand), Execute(i), instr' = i, meant' \in Seq(Word),
         Agree(meant', i), before' \in [Reg -> Word],
         \A r \in Reg : reg[r] = before'[r] \/ (IsTrap(before'[r]) /\ reg[r] = Detrapped(before'[r]))
  PROVE  IInv'
<1>1. Addresses(i) \in Seq(Word) /\ Agree(Addresses(i), i)
  BY AddressFacts DEF IInv
<1>2. Types'
  <2>1. reg' \in [Reg -> Word] /\ instr' \in Seq(Operand)
    BY DEF IInv, Types, Execute
  <2>2. did_fixup' \in BOOLEAN
    BY DEF Execute
  <2>3. stage' \in {"fault", "run"} /\ next' \in Nat /\ (stage' = "fault" => next' > 0)
    BY DEF Execute
  <2> QED BY <2>1, <2>2, <2>3 DEF Types
<1>3. StillMeant'
  BY DEF StillMeant, Agree, Effective, Part, Execute
<1>4. WentThrough'
  <2> SUFFICES ASSUME ~Faults(i) PROVE WentThrough'
    BY DEF WentThrough, Execute
  <2>1. accessed' = Addresses(i) /\ \A k \in 1 .. Len(i) : Addresses(i)[k] \in Mapped
    BY DEF Execute, Faults, Addresses
  <2> QED BY <1>1, <2>1 DEF WentThrough, Agree
<1>5. Sequences'
  BY <1>1 DEF IInv, Sequences, Execute
<1>6. FromBefore'
  BY DEF FromBefore, Execute
<1>7. NothingToFix'
  BY DEF NothingToFix, Execute, Faults, Effective, Part
<1> QED BY <1>2, <1>3, <1>4, <1>5, <1>6, <1>7 DEF IInv

LEMMA AccessStep == IInv /\ Access => IInv'
<1> SUFFICES ASSUME IInv, Access PROVE IInv'
  OBVIOUS
<1>1. PICK i \in Instr : Execute(i) /\ instr' = i /\ meant' = Addresses(i)
  BY DEF Access
<1>2. i \in Seq(Operand)
  BY MachineAssumption
<1>3. Addresses(i) \in Seq(Word) /\ Agree(Addresses(i), i)
  BY <1>2, AddressFacts DEF IInv
<1>4. before' = reg /\ before' \in [Reg -> Word]
  BY DEF Access, IInv, Types
<1> QED BY <1>1, <1>2, <1>3, <1>4, ExecuteStep

LEMMA RetryStep == IInv /\ Retry => IInv'
<1> SUFFICES ASSUME IInv, Retry PROVE IInv'
  OBVIOUS
<1>1. Execute(instr) /\ instr' = instr /\ meant' = meant /\ stage = "retry"
  BY DEF Retry
<1>2. instr \in Seq(Operand) /\ meant \in Seq(Word) /\ Agree(meant, instr)
  BY <1>1 DEF IInv, Types, Sequences, StillMeant
<1>3. /\ before' = before /\ before \in [Reg -> Word]
      /\ \A r \in Reg : reg[r] = before[r] \/ (IsTrap(before[r]) /\ reg[r] = Detrapped(before[r]))
  BY <1>1 DEF Retry, IInv, FromBefore
<1> QED BY <1>1, <1>2, <1>3, ExecuteStep

\* What a callback does to a register: nothing, or its tag is cleared.
LEMMA Fixups ==
  ASSUME IInv, SawOperand
  PROVE  /\ reg' \in [Reg -> Word]
         /\ \A r \in Reg : reg'[r] # reg[r] =>
              /\ r \in Fixable /\ IsTrap(reg[r]) /\ reg'[r] = Detrapped(reg[r])
              /\ next \in 1 .. Len(instr) /\ r \in {instr[next].r1, instr[next].r2}
         /\ \A r \in Reg : reg'[r] % LowRange = reg[r] % LowRange
<1> DEFINE rs == {r \in Known(instr[next]) : Trapped(r)}
<1>1. /\ reg' = [r \in Reg |-> IF r \in rs THEN Detrapped(reg[r]) ELSE reg[r]]
      /\ stage = "fault" /\ next <= Len(instr)
  BY DEF SawOperand
<1>2. next \in 1 .. Len(instr)
  BY <1>1 DEF IInv, Types
<1>3. \A r \in Reg : reg[r] \in Word
  BY DEF IInv, Types
<1>4. \A r \in rs : Trapped(r) /\ r \in {instr[next].r1, instr[next].r2}
  BY DEF Known
<1> HIDE DEF rs
<1>5. reg' \in [Reg -> Word]
  BY <1>1, <1>3, WordFacts
<1>6. \A r \in Reg : reg'[r] % LowRange = reg[r] % LowRange
  BY <1>1, <1>3, WordFacts
<1> QED BY <1>1, <1>2, <1>4, <1>5, <1>6 DEF Trapped

LEMMA SawOperandStep == IInv /\ SawOperand => IInv'
<1> SUFFICES ASSUME IInv, SawOperand PROVE IInv'
  OBVIOUS
<1>1. Types'
  BY Fixups DEF IInv, Types, SawOperand
<1>2. ASSUME NEW o PROVE Effective(o)' % LowRange = Effective(o) % LowRange
  <2>1. ASSUME NEW r PROVE Part(r)' % LowRange = Part(r) % LowRange
    BY Fixups DEF Part
  <2>2. \A r : Part(r) \in Nat /\ Part(r)' \in Nat
    BY <1>1, Fixups, Machine DEF IInv, Types, Part
  <2> DEFINE x == Part(o.r1)
             y == Part(o.r2)
  <2>3. /\ x \in Nat /\ y \in Nat /\ x' \in Nat /\ y' \in Nat
        /\ x' % LowRange = x % LowRange /\ y' % LowRange = y % LowRange
    BY <2>1, <2>2
  <2>4. (x' + y') % LowRange = (x + y) % LowRange
    <3>1. (x' + y') % LowRange = ((x' % LowRange) + (y' % LowRange)) % LowRange
      BY <2>3, SumLow, Zenon
    <3>2. (x + y) % LowRange = ((x % LowRange) + (y % LowRange)) % LowRange
      BY <2>3, SumLow, Zenon
    <3> QED BY <2>3, <3>1, <3>2, Zenon
  <2>5. x + y \in Nat /\ x' + y' \in Nat
    BY <2>3
  <2>6. ((x' + y') % (LowRange * TagRange)) % LowRange
          = ((x + y) % (LowRange * TagRange)) % LowRange
    BY <2>4, <2>5, WrapLow, Zenon
  <2> QED BY <2>6 DEF Effective
<1>3. StillMeant'
  BY <1>2 DEF IInv, StillMeant, Agree, SawOperand
<1>4. WentThrough' /\ Sequences'
  BY DEF IInv, WentThrough, Sequences, SawOperand
<1>5. FromBefore'
  <2>1. ASSUME NEW r \in Reg
        PROVE  reg'[r] = before[r] \/ (IsTrap(before[r]) /\ reg'[r] = Detrapped(before[r]))
    <3>1. reg[r] = before[r] \/ (IsTrap(before[r]) /\ reg[r] = Detrapped(before[r]))
      BY DEF IInv, FromBefore, SawOperand
    <3>2. before[r] \in Word
      BY DEF IInv, FromBefore
    <3>3. ~IsTrap(Detrapped(before[r]))
      BY <3>2, DetrappedLow, LowNoTrap
    <3> QED BY <3>1, <3>3, Fixups
  <2> QED BY <2>1 DEF IInv, FromBefore, SawOperand
<1>6. NothingToFix'
  <2> SUFFICES ASSUME ~did_fixup' PROVE NothingToFix'
    BY DEF NothingToFix, SawOperand
  <2> DEFINE rs == {r \in Known(instr[next]) : Trapped(r)}
  <2>1. rs = {} /\ ~did_fixup /\ stage = "fault" /\ instr' = instr /\ next' = next + 1
    BY DEF SawOperand
  <2>2. reg' = [r \in Reg |-> reg[r]]
    BY <2>1 DEF SawOperand
  <2>3. reg' = reg
    BY <2>2 DEF IInv, Types
  <2>4. Faults(instr) /\ \A k \in 1 .. Len(instr) : k < next => \A r \in Known(instr[k]) : ~Trapped(r)
    BY <2>1 DEF IInv, NothingToFix
  <2>5. Faults(instr)' /\ \A r : Trapped(r)' = Trapped(r)
    BY <2>1, <2>3, <2>4 DEF Faults, Effective, Part, Trapped
  <2>6. ASSUME NEW k \in 1 .. Len(instr), k < next + 1, NEW r \in Known(instr[k])
        PROVE  ~Trapped(r)
    <3>1. k < next \/ k = next
      BY <2>6 DEF IInv, Types
    <3> QED BY <2>1, <2>4, <2>6, <3>1
  <2> QED BY <2>1, <2>5, <2>6 DEF NothingToFix, SawOperand
<1> QED BY <1>1, <1>3, <1>4, <1>5, <1>6 DEF IInv

LEMMA ReturnStep == IInv /\ (Return \/ Exited \/ UNCHANGED vars) => IInv'
<1> SUFFICES ASSUME IInv, Return \/ Exited \/ UNCHANGED vars PROVE IInv'
  OBVIOUS
<1>1. Types' /\ StillMeant' /\ WentThrough' /\ Sequences' /\ FromBefore'
  BY DEF Return, Exited, Handled, vars, IInv, Types, StillMeant, Agree, Effective, Part,
         WentThrough, Sequences, FromBefore
<1>2. NothingToFix'
  <2>1. CASE Return
    <3> SUFFICES ASSUME ~did_fixup PROVE NothingToFix'
      BY <2>1 DEF Return, Handled, NothingToFix
    <3>1. /\ stage = "fault" /\ next > Len(instr) /\ instr' = instr /\ reg' = reg
          /\ Len(instr) \in Nat /\ next \in Nat
      BY <2>1 DEF Return, IInv, Types
    <3>2. \A k \in 1 .. Len(instr) : k < next
      BY <3>1
    <3>3. Faults(instr) /\ \A k \in 1 .. Len(instr) : \A r \in Known(instr[k]) : ~Trapped(r)
      BY <3>1, <3>2 DEF IInv, NothingToFix
    <3> QED BY <3>1, <3>3 DEF NothingToFix, Faults, Effective, Part, Trapped
  <2>2. CASE Exited \/ UNCHANGED vars
    BY <2>2 DEF Exited, vars, IInv, NothingToFix, Faults, Effective, Part, Trapped
  <2> QED BY <2>1, <2>2
<1> QED BY <1>1, <1>2 DEF IInv

LEMMA Inductive == IInv /\ [Next]_vars => IInv'
  BY ComputeStep, AccessStep, RetryStep, SawOperandStep, ReturnStep DEF Next

LEMMA IInvHolds == Spec => []IInv
  BY Initial, Inductive, PTL DEF Spec

-----------------------------------------------------------------------------
(* Theorems *)

\* An access that handle_sigsegv let through after clearing tags touches exactly
\* the addresses meant, without their tags: a carry out of the index, a register
\* used twice or an operand decoded in part never moves it.
THEOREM SameAddressCorrect == Spec => []SameAddress
<1>1. IInv => SameAddress
  <2> SUFFICES ASSUME IInv, stage = "run", accessed # <<>>
               PROVE  /\ Len(accessed) = Len(meant)
                      /\ \A k \in 1 .. Len(meant) : accessed[k] = meant[k] % LowRange
    BY DEF SameAddress
  <2>1. Len(accessed) = Len(instr) /\ Len(meant) = Len(instr)
    BY DEF IInv, WentThrough, Sequences, Types
  <2>2. ASSUME NEW k \in 1 .. Len(instr) PROVE accessed[k] = meant[k] % LowRange
    <3>1. accessed[k] \in 0 .. LowRange - 1 /\ meant[k] % LowRange = accessed[k] % LowRange
      BY MachineAssumption DEF IInv, WentThrough
    <3> QED BY <3>1, Machine, ModSmall
  <2> QED BY <2>1, <2>2
<1> QED BY <1>1, IInvHolds, PTL

\* handle_sigsegv kills the program only for an access that could not be rescued:
\* with every trapped register named by the decoder and fixable, the exit means
\* that the address without the trap tags is not mapped.
THEOREM ExitJustifiedCorrect == Spec => []ExitJustified
<1>1. IInv => ExitJustified
  <2> SUFFICES ASSUME IInv, stage = "exited" PROVE ExitJustified
    BY DEF ExitJustified
  <2>1. PICK k \in 1 .. Len(instr) : Effective(instr[k]) \notin Mapped
    BY DEF IInv, NothingToFix, Faults
  <2> DEFINE o == instr[k]
  <2> SUFFICES ASSUME \A r \in {o.r1, o.r2} \cap Reg : IsTrap(before[r]) => r \in Known(o) \cap Fixable
               PROVE  (Meant(o.r1) + Meant(o.r2)) % (LowRange * TagRange) \notin Mapped
    BY <2>1 DEF ExitJustified
  <2>2. \A r \in Known(o) : ~Trapped(r)
    BY <2>1 DEF IInv, NothingToFix
  <2>3. ASSUME NEW r \in {o.r1, o.r2} PROVE Part(r) = Meant(r)
    <3> SUFFICES ASSUME r \in Reg PROVE reg[r] = Meant(r)
      BY DEF Part, Meant
    <3>1. reg[r] = before[r] \/ (IsTrap(before[r]) /\ reg[r] = Detrapped(before[r]))
      BY DEF IInv, FromBefore
    <3>2. ASSUME IsTrap(before[r]) PROVE ~IsTrap(reg[r])
      BY <2>2, <3>2 DEF Trapped
    <3> QED BY <3>1, <3>2 DEF Meant, Detrapped
  <2>4. Part(o.r1) = Meant(o.r1) /\ Part(o.r2) = Meant(o.r2)
    BY <2>3
  <2> QED BY <2>1, <2>4 DEF Effective
<1> QED BY <1>1, IInvHolds, PTL

\* The registers that try_register_fixup would still change.
ToFix == {r \in Reg : Trapped(r)}

\* Between the fault and the end no register becomes trapped, and a handler that
\* records a fixup has untrapped one: the rounds through handle_sigsegv for one
\* instruction are at most as many as there are trapped registers.
THEOREM FixupsDescend ==
  Spec => [][stage # "run" => /\ ToFix' \subseteq ToFix
                              /\ did_fixup' /\ ~did_fixup => ToFix' # ToFix]_vars
<1> DEFINE A == stage # "run" => /\ ToFix' \subseteq ToFix
                                 /\ did_fixup' /\ ~did_fixup => ToFix' # ToFix
<1>1. IInv /\ [Next]_vars => [A]_vars
  <2> SUFFICES ASSUME IInv, Next, stage # "run" PROVE A
    OBVIOUS
  <2>1. CASE SawOperand
    <3>1. \A r \in Reg : reg'[r] # reg[r] => reg'[r] \in 0 .. LowRange - 1
      <4> SUFFICES ASSUME NEW r \in Reg, reg'[r] # reg[r] PROVE reg'[r] \in 0 .. LowRange - 1
        OBVIOUS
      <4>1. reg'[r] = Detrapped(reg[r]) /\ reg[r] \in Word
        BY <2>1, Fixups DEF IInv, Types
      <4> QED BY <4>1, DetrappedLow
    <3>2. \A w \in 0 .. LowRange - 1 : ~IsTrap(w)
      BY LowNoTrap
    <3>3. ToFix' \subseteq ToFix
      BY <3>1, <3>2 DEF ToFix, Trapped
    <3>4. ASSUME did_fixup', ~did_fixup PROVE ToFix' # ToFix
      <4>1. PICK r \in Known(instr[next]) : Trapped(r)
        BY <2>1, <3>4 DEF SawOperand
      <4>2. r \in Reg /\ reg'[r] = Detrapped(reg[r]) /\ reg[r] \in Word
        BY <2>1, <4>1, MachineAssumption DEF SawOperand, Trapped, IInv, Types
      <4>3. reg'[r] \in 0 .. LowRange - 1
        BY <4>2, DetrappedLow
      <4> QED BY <3>2, <4>1, <4>2, <4>3 DEF ToFix, Trapped
    <3> QED BY <3>3, <3>4
  <2>2. CASE Retry \/ Return \/ Exited
    BY <2>2 DEF Retry, Execute, Return, Exited, vars, ToFix, Trapped
  <2> QED BY <2>1, <2>2 DEF Next, Compute, Access
<1> QED BY <1>1, IInvHolds, PTL DEF Spec
=============================================================================
