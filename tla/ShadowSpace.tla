---------------------------- MODULE ShadowSpace ----------------------------
(***************************************************************************)
(* The shadow space: for every word of memory that holds a pointer, a      *)
(* second word for the base and a 32-bit cell for the size of the          *)
(* pointer's bounds.  Instrumented code writes bounds before it stores a   *)
(* pointer, reads bounds before it loads one, and moves bounds when        *)
(* memory is copied; uninstrumented code only ever touches the pointers.   *)
(*                                                                         *)
(* Every memory access of the inline helpers is a step of its own, so that *)
(* the threads of the program interleave inside them.  The program itself  *)
(* has no data race on a pointer (Free).                                   *)
(***************************************************************************)
EXTENDS Integers, FiniteSets

CONSTANTS
  Thread,   \* threads of the program
  Slots,    \* words of memory that hold pointers are 1 .. Slots
  Ptr,      \* pointers the program handles, other than Null
  Null,
  Base,     \* Base[p], Size[p]: what __fetch_bounds_ool answers for p,
  Size,     \*   the object's bounds or max bounds
  SizeMod,  \* 2^32: a shadow size is an `unsigned'
  WordMod,  \* 2^64
  MaxCopy,  \* bound on the number of words one memmove moves
  MaxOps    \* bound on the number of operations that the program starts

Slot  == 1 .. Slots
Value == Ptr \union {Null}

ASSUME WordAssumption ==
  /\ SizeMod \in Nat /\ WordMod \in Nat
  /\ 2 < SizeMod /\ SizeMod < WordMod /\ WordMod % SizeMod = 0

ASSUME PtrAssumption ==
  /\ Slots \in Nat /\ MaxCopy \in Nat /\ MaxOps \in Nat /\ Null \notin Ptr
  /\ Base \in [Ptr -> 0 .. WordMod - 1]
  /\ Size \in [Ptr -> 1 .. WordMod - 1]

-----------------------------------------------------------------------------
(* Bounds, and what the shadow space makes of their size *)

Bounds == [base : 0 .. WordMod - 1, size : 0 .. WordMod - 1]
invalid_bounds == [base |-> 0, size |-> 0]
bounds_invalid(b) == b.size = 0
null_bounds == [base |-> 0, size |-> 1]

\* __fetch_bounds_ool, or [0, 1) for a null pointer.
FetchOol(v) == IF v = Null THEN null_bounds ELSE [base |-> Base[v], size |-> Size[v]]

\* Mutant: the size is not truncated.
MutSizeStored(n) == n

\* (unsigned) val_bounds.size
SizeStored(n) == n % SizeMod

\* Mutant: the 32-to-64 transformation is the identity.
MutSizeLoaded(n) == n

\* (unsigned long) (size + 1u) - 1ul
SizeLoaded(n) == (((n + 1) % SizeMod) - 1) % WordMod

\* Bounds after a round trip through the shadow space.
Narrowed(b) == [b EXCEPT !.size = SizeLoaded(SizeStored(b.size))]

-----------------------------------------------------------------------------
VARIABLES
  mem,    \* the pointers
  base,   \* BASE_STORED of each word
  size,   \* SIZE_STORED of each word
  reg,    \* the local pointer each thread works with, and its bounds
  op,     \* the helper each thread is in
  alive,  \* FALSE once abort has been called
  origin, \* history: how the pointer in a word got there, see Origins
  good,   \* history: good[t], the local pointer of t came with its bounds
  ops     \* history: number of operations started

vars == <<mem, base, size, reg, op, alive, origin, good, ops>>

\* "kept": together with its bounds; "stored": by uninstrumented code;
\* "passed": as an argument, by an uninstrumented caller.
Origins == {"kept", "stored", "passed"}

Idle == [pc |-> "idle"]

Init ==
  /\ mem = [s \in Slot |-> Null]
  /\ base = [s \in Slot |-> 0]
  /\ size = [s \in Slot |-> 0]
  /\ reg = [t \in Thread |-> [p |-> Null, b |-> null_bounds]]
  /\ op = [t \in Thread |-> Idle]
  /\ alive = TRUE
  /\ origin = [s \in Slot |-> "kept"]
  /\ good = [t \in Thread |-> TRUE]
  /\ ops = 0

-----------------------------------------------------------------------------
(* Data races *)

WrittenBy(t) == CASE op[t].pc \in {"base", "size", "ptr"} -> {op[t].dest}
                  [] op[t].pc \in {"cbase", "csize", "cptr"} ->
                       op[t].dest .. op[t].dest + op[t].n - 1
                  [] OTHER -> {}

ReadBy(t) == CASE op[t].pc \in {"lbase", "lsize", "lptr"} -> {op[t].src}
               [] op[t].pc \in {"cbase", "csize", "cptr"} ->
                    op[t].src .. op[t].src + op[t].n - 1
               [] OTHER -> {}

\* Thread t may read words rs and write words ws without a data race.
Free(t, rs, ws) ==
  \A u \in Thread \ {t} :
    /\ WrittenBy(u) \intersect (rs \union ws) = {}
    /\ ReadBy(u) \intersect ws = {}

Begins(t) == alive /\ op[t].pc = "idle" /\ ops < MaxOps /\ ops' = ops + 1

-----------------------------------------------------------------------------
(* Local pointers *)

\* p = &object: the bounds come with the address (and are never max bounds).
TakeAddress(t, v) ==
  /\ Begins(t) /\ v # Null /\ Size[v] < WordMod - 1
  /\ reg' = [reg EXCEPT ![t] = [p |-> v, b |-> FetchOol(v)]]
  /\ good' = [good EXCEPT ![t] = TRUE]
  /\ UNCHANGED <<mem, base, size, op, alive, origin>>

\* p comes from an uninstrumented caller or callee, without bounds.
Receive(t, v) ==
  /\ Begins(t)
  /\ reg' = [reg EXCEPT ![t] = [p |-> v, b |-> invalid_bounds]]
  /\ good' = [good EXCEPT ![t] = TRUE]
  /\ UNCHANGED <<mem, base, size, op, alive, origin>>

-----------------------------------------------------------------------------
(* Stores *)

\* Bounds that __store_pointer_nonlocal writes for value r.p, of bounds r.b.
BoundsToStore(r) == IF bounds_invalid(r.b) THEN FetchOol(r.p) ELSE r.b

\* The store of t's local pointer to word s has bounds b to write.
BeginStore(t, s, b) ==
  /\ Begins(t) /\ Free(t, {}, {s})
  /\ op' = [op EXCEPT ![t] = [pc |-> "base", dest |-> s, b |-> b]]
  /\ UNCHANGED <<mem, base, size, reg, alive, origin, good>>

\* *dest = p for a typed p: __store_pointer_nonlocal.
Store(t, s) == BeginStore(t, s, BoundsToStore(reg[t]))

\* Mutant: nothing is written when the target's type is unknown.
MutVoidBounds(t, s) ==
  {BoundsToStore(reg[t]), [base |-> base[s], size |-> SizeLoaded(size[s])]}

\* The old pointer's address is the base of the invalid bounds (a HACK).
VoidBounds(t, s) ==
  {BoundsToStore(reg[t]),
   [base |-> IF mem[s] = Null THEN 0 ELSE Base[mem[s]], size |-> 0]}

\* *dest = p for a void* p: __store_pointer_nonlocal_via_voidptrptr either knows
\* a pointer type for dest from the cache, or writes invalid bounds ...
StoreVoid(t, s) == \E b \in VoidBounds(t, s) : BeginStore(t, s, b)

\* ... or finds that the cached type and the static guess disagree.
StoreVoidDisagree(t) ==
  /\ Begins(t)
  /\ alive' = FALSE
  /\ UNCHANGED <<mem, base, size, reg, op, origin, good>>

\* __shadow_store_bounds_for
WriteBase(t) ==
  /\ alive /\ op[t].pc = "base"
  /\ base' = [base EXCEPT ![op[t].dest] = op[t].b.base]
  /\ op' = [op EXCEPT ![t].pc = "size"]
  /\ UNCHANGED <<mem, size, reg, alive, origin, good, ops>>

WriteSize(t) ==
  /\ alive /\ op[t].pc = "size"
  /\ size' = [size EXCEPT ![op[t].dest] = SizeStored(op[t].b.size)]
  /\ op' = [op EXCEPT ![t].pc = "ptr"]
  /\ UNCHANGED <<mem, base, reg, alive, origin, good, ops>>

\* The store itself.
WritePtr(t) ==
  /\ alive /\ op[t].pc = "ptr"
  /\ mem' = [mem EXCEPT ![op[t].dest] = reg[t].p]
  /\ origin' = [origin EXCEPT ![op[t].dest] = IF good[t] THEN "kept" ELSE "stored"]
  /\ op' = [op EXCEPT ![t] = Idle]
  /\ UNCHANGED <<base, size, reg, alive, good, ops>>

-----------------------------------------------------------------------------
(* Loads: __fetch_bounds_inl on what the word holds, then the load itself *)

\* Mutant: no test for a null pointer.
MutAfterNullTest(t, s) == [pc |-> "lbase", src |-> s, b |-> invalid_bounds]

\* if (!ptr) return __make_bounds(0, 1);
AfterNullTest(t, s) ==
  [pc |-> IF mem[s] = Null THEN "lptr" ELSE "lbase", src |-> s, b |-> null_bounds]

Load(t, s) ==
  /\ Begins(t) /\ Free(t, {s}, {})
  /\ op' = [op EXCEPT ![t] = AfterNullTest(t, s)]
  /\ UNCHANGED <<mem, base, size, reg, alive, origin, good>>

ReadBase(t) ==
  /\ alive /\ op[t].pc = "lbase"
  /\ op' = [op EXCEPT ![t] = [@ EXCEPT !.pc = "lsize", !.b.base = base[op[t].src]]]
  /\ UNCHANGED <<mem, base, size, reg, alive, origin, good, ops>>

ReadSize(t) ==
  /\ alive /\ op[t].pc = "lsize"
  /\ op' = [op EXCEPT ![t] = [@ EXCEPT !.pc = "lptr", !.b.size = SizeLoaded(size[op[t].src])]]
  /\ UNCHANGED <<mem, base, size, reg, alive, origin, good, ops>>

ReadPtr(t) ==
  /\ alive /\ op[t].pc = "lptr"
  /\ reg' = [reg EXCEPT ![t] = [p |-> mem[op[t].src], b |-> op[t].b]]
  /\ good' = [good EXCEPT ![t] = (origin[op[t].src] = "kept")]
  /\ op' = [op EXCEPT ![t] = Idle]
  /\ UNCHANGED <<mem, base, size, alive, origin, ops>>

-----------------------------------------------------------------------------
(* Copies: __wrap___notify_copy, and the copy it announces *)

\* Memory f after a memmove of n words.
Moved(f, c) ==
  [s \in Slot |-> IF s \in c.dest .. c.dest + c.n - 1 THEN f[s - c.dest + c.src] ELSE f[s]]

Copy(t, src, dest, n) ==
  /\ Begins(t)
  /\ src + n - 1 \in Slot /\ dest + n - 1 \in Slot
  /\ Free(t, src .. src + n - 1, dest .. dest + n - 1)
  /\ op' = [op EXCEPT ![t] = [pc |-> "cbase", src |-> src, dest |-> dest, n |-> n]]
  /\ UNCHANGED <<mem, base, size, reg, alive, origin, good>>

CopyBases(t) ==
  /\ alive /\ op[t].pc = "cbase"
  /\ base' = Moved(base, op[t])
  /\ op' = [op EXCEPT ![t].pc = "csize"]
  /\ UNCHANGED <<mem, size, reg, alive, origin, good, ops>>

MovedSizes(c) == Moved(size, c)

CopySizes(t) ==
  /\ alive /\ op[t].pc = "csize"
  /\ size' = MovedSizes(op[t])
  /\ op' = [op EXCEPT ![t].pc = "cptr"]
  /\ UNCHANGED <<mem, base, reg, alive, origin, good, ops>>

CopyPtrs(t) ==
  /\ alive /\ op[t].pc = "cptr"
  /\ mem' = Moved(mem, op[t])
  /\ origin' = Moved(origin, op[t])
  /\ op' = [op EXCEPT ![t] = Idle]
  /\ UNCHANGED <<base, size, reg, alive, good, ops>>

-----------------------------------------------------------------------------
(* Code that leaves the bounds alone *)

\* A store by uninstrumented code.
StoreUninstrumented(t, s, v) ==
  /\ Begins(t) /\ Free(t, {}, {s})
  /\ mem' = [mem EXCEPT ![s] = v]
  /\ origin' = [origin EXCEPT ![s] = IF v = Null THEN "kept" ELSE "stored"]
  /\ UNCHANGED <<base, size, reg, op, alive, good>>

\* Entry of a function whose address-taken formal lives in word s: the pointer
\* is there, and __peek_and_shadow_store_argument_bounds writes the bounds that
\* the caller passed -- if it passed some.
EnterWithFormal(t, s, v, really) ==
  /\ Begins(t) /\ Free(t, {}, {s})
  /\ mem' = [mem EXCEPT ![s] = v]
  /\ base' = IF really THEN [base EXCEPT ![s] = FetchOol(v).base] ELSE base
  /\ size' = IF really THEN [size EXCEPT ![s] = SizeStored(FetchOol(v).size)] ELSE size
  /\ origin' = [origin EXCEPT ![s] = IF really \/ v = Null THEN "kept" ELSE "passed"]
  /\ UNCHANGED <<reg, op, alive, good>>

-----------------------------------------------------------------------------
Start(t) ==
  \/ \E v \in Value : TakeAddress(t, v) \/ Receive(t, v)
  \/ \E s \in Slot : Store(t, s) \/ StoreVoid(t, s) \/ Load(t, s)
  \/ StoreVoidDisagree(t)
  \/ \E src, dest \in Slot, n \in 1 .. MaxCopy : Copy(t, src, dest, n)
  \/ \E s \in Slot, v \in Value : StoreUninstrumented(t, s, v)
  \/ \E s \in Slot, v \in Value, really \in BOOLEAN : EnterWithFormal(t, s, v, really)

Step(t) ==
  \/ WriteBase(t) \/ WriteSize(t) \/ WritePtr(t)
  \/ ReadBase(t) \/ ReadSize(t) \/ ReadPtr(t)
  \/ CopyBases(t) \/ CopySizes(t) \/ CopyPtrs(t)

Next == \E t \in Thread : Start(t) \/ Step(t)

Spec == Init /\ [][Next]_vars

-----------------------------------------------------------------------------
(* Properties *)

\* Types.  In particular a shadow size is an unsigned, and the size that a load
\* makes of it is a 64-bit word again.
TypeOK ==
  /\ mem \in [Slot -> Value]
  /\ base \in [Slot -> 0 .. WordMod - 1]
  /\ size \in [Slot -> 0 .. SizeMod - 1]
  /\ \A t \in Thread : reg[t].p \in Value /\ reg[t].b \in Bounds
  /\ alive \in BOOLEAN /\ origin \in [Slot -> Origins] /\ good \in [Thread -> BOOLEAN]
  /\ ops \in 0 .. MaxOps

\* Bounds b are as good as the shadow space can give for pointer v.
Fits(v, b) == \/ bounds_invalid(b)
              \/ b = FetchOol(v)
              \/ b = Narrowed(FetchOol(v))

\* A local pointer has its own bounds or none, unless it was loaded from a word
\* that uninstrumented code wrote: the base and the size that a load finds belong
\* to the pointer it loads, whichever stores, void* stores and overlapping copies
\* other threads have under way elsewhere.
LoadedBoundsFit == \A t \in Thread : good[t] => Fits(reg[t].p, reg[t].b)

\* The size of an object can be told from what the shadow space keeps of it.
Representable(v) == v = Null \/ Size[v] < SizeMod - 1 \/ Size[v] = WordMod - 1

\* Nothing is lost or gained in the shadow space for objects below 4 GiB - 1
\* and for max bounds: the 32-to-64 transformation restores max bounds and
\* leaves everything else unchanged.
NothingLost ==
  \A t \in Thread :
    good[t] /\ Representable(reg[t].p) =>
      bounds_invalid(reg[t].b) \/ reg[t].b = FetchOol(reg[t].p)

\* Words nobody is writing, and whose pointer came with its bounds, have shadow
\* bounds that belong to it: bounds are written on behalf of no other word.
ShadowFollowsMemory ==
  \A s \in Slot :
    /\ origin[s] = "kept" /\ mem[s] # Null
    /\ \A t \in Thread : s \notin WrittenBy(t)
    => Fits(mem[s], [base |-> base[s], size |-> SizeLoaded(size[s])])
=============================================================================
