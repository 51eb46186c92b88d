------------------------- MODULE ShadowSpaceProofs -------------------------
(***************************************************************************)
(* Proofs about ShadowSpace, for every number of threads, words and        *)
(* pointers, and every width of words and sizes.                           *)
(***************************************************************************)
EXTENDS ShadowSpace, TLAPS

-----------------------------------------------------------------------------
(* The inductive invariant *)

StoreOp == [pc : {"base", "size", "ptr"}, dest : Slot, b : Bounds]
LoadOp  == [pc : {"lbase", "lsize", "lptr"}, src : Slot, b : Bounds]
CopyOp  == {c \in [pc : {"cbase", "csize", "cptr"}, src : Slot, dest : Slot, n : Nat \ {0}] :
              c.src + c.n - 1 \in Slot /\ c.dest + c.n - 1 \in Slot}

\* TypeOK, with the helper that a thread is in and with the domains it leaves open.
Types ==
  /\ mem \in [Slot -> Value]
  /\ base \in [Slot -> 0 .. WordMod - 1]
  /\ size \in [Slot -> 0 .. SizeMod - 1]
  /\ reg \in [Thread -> [p : Value, b : Bounds]]
  /\ op \in [Thread -> {Idle} \union StoreOp \union LoadOp \union CopyOp]
  /\ alive \in BOOLEAN /\ origin \in [Slot -> Origins] /\ good \in [Thread -> BOOLEAN]
  /\ ops \in 0 .. MaxOps

\* Words that hold base and size c for a pointer v of origin o.
Safe(v, o, bs, sz) == o = "kept" /\ v # Null => Fits(v, [base |-> bs, size |-> SizeLoaded(sz)])

\* Helpers under way do not race: Free holds throughout, not only at the start.
NoRace ==
  \A t, u \in Thread : t # u =>
    /\ WrittenBy(t) \intersect WrittenBy(u) = {}
    /\ WrittenBy(t) \intersect ReadBy(u) = {}

\* How far the helper of t has come.
Storing(t) ==
  /\ good[t] => Fits(reg[t].p, op[t].b)
  /\ op[t].pc \in {"size", "ptr"} => base[op[t].dest] = op[t].b.base
  /\ op[t].pc = "ptr" => size[op[t].dest] = SizeStored(op[t].b.size)

Loading(t) ==
  /\ op[t].pc \in {"lbase", "lsize"} => mem[op[t].src] # Null
  /\ op[t].pc = "lsize" => op[t].b.base = base[op[t].src]
  /\ op[t].pc = "lptr" /\ origin[op[t].src] = "kept" => Fits(mem[op[t].src], op[t].b)

\* Where the copy c has put the base and the size of word y of its source: in an
\* overlapping copy the word's own cells may have been overwritten already.
BaseNow(c, y) == IF c.pc = "cbase" THEN y ELSE y - c.src + c.dest
SizeNow(c, y) == IF c.pc = "cptr" THEN y - c.src + c.dest ELSE y
Copying(t) ==
  \A y \in op[t].src .. op[t].src + op[t].n - 1 :
    Safe(mem[y], origin[y], base[BaseNow(op[t], y)], size[SizeNow(op[t], y)])

Progress(t) ==
  /\ op[t] \in StoreOp => Storing(t)
  /\ op[t] \in LoadOp => Loading(t)
  /\ op[t] \in CopyOp => Copying(t)

Settled ==
  \A s \in Slot : (\A t \in Thread : s \notin WrittenBy(t))
                    => Safe(mem[s], origin[s], base[s], size[s])

IInv ==
  /\ Types
  /\ NoRace
  /\ LoadedBoundsFit
  /\ \A t \in Thread : Progress(t)
  /\ Settled

-----------------------------------------------------------------------------
(* Words and sizes *)

\* Division with remainder, as the round trip of a size needs it.
LEMMA ModUnique ==
  ASSUME NEW d \in Nat \ {0}, NEW q \in Int, NEW r \in 0 .. d - 1
  PROVE  (d * q + r) % d = r
  OBVIOUS

LEMMA ModSmall ==
  ASSUME NEW d \in Nat \ {0}, NEW r \in 0 .. d - 1
  PROVE  r % d = r
  OBVIOUS

LEMMA ModRange ==
  ASSUME NEW d \in Nat \ {0}, NEW a \in Int
  PROVE  a % d \in 0 .. d - 1
  OBVIOUS

\* Both conversions give numbers of their width.
LEMMA SizeTypes ==
  /\ \A n \in Nat : SizeStored(n) \in 0 .. SizeMod - 1
  /\ \A n \in Nat : SizeLoaded(n) \in 0 .. WordMod - 1
<1>1. ASSUME NEW n \in Nat PROVE SizeStored(n) \in 0 .. SizeMod - 1
  BY WordAssumption, ModRange DEF SizeStored
<1>2. ASSUME NEW n \in Nat PROVE SizeLoaded(n) \in 0 .. WordMod - 1
  <2>1. (n + 1) % SizeMod \in 0 .. SizeMod - 1
    BY WordAssumption, ModRange
  <2> QED BY <2>1, WordAssumption, ModRange DEF SizeLoaded
<1> QED BY <1>1, <1>2

\* A size below the largest unsigned is loaded as it is, the largest as max
\* bounds, which were stored as the largest.
LEMMA SizeRoundTrip ==
  /\ \A n \in 0 .. SizeMod - 2 : SizeStored(n) = n /\ SizeLoaded(n) = n
  /\ SizeLoaded(SizeMod - 1) = WordMod - 1
  /\ SizeStored(WordMod - 1) = SizeMod - 1
<1>1. ASSUME NEW n \in 0 .. SizeMod - 2 PROVE SizeStored(n) = n /\ SizeLoaded(n) = n
  <2>1. n % SizeMod = n /\ (n + 1) % SizeMod = n + 1 /\ n % WordMod = n
    BY WordAssumption, ModSmall
  <2> QED BY <2>1, WordAssumption DEF SizeStored, SizeLoaded
<1>2. SizeLoaded(SizeMod - 1) = WordMod - 1
  <2>1. SizeMod % SizeMod = 0
    BY WordAssumption, ModUnique
  <2>2. (0 - 1) % WordMod = WordMod - 1
    BY WordAssumption, ModUnique
  <2> QED BY <2>1, <2>2, WordAssumption DEF SizeLoaded
<1>3. SizeStored(WordMod - 1) = SizeMod - 1
  <2>1. PICK q \in Int : WordMod = SizeMod * q
    BY WordAssumption
  <2> QED BY <2>1, WordAssumption, ModUnique DEF SizeStored
<1> QED BY <1>1, <1>2, <1>3

\* The second trip through the shadow space changes nothing.
LEMMA SizeTwice ==
  ASSUME NEW n \in Nat
  PROVE  SizeLoaded(SizeStored(SizeLoaded(SizeStored(n)))) = SizeLoaded(SizeStored(n))
<1> DEFINE m == SizeStored(n)
<1>1. m \in 0 .. SizeMod - 1
  BY SizeTypes
<1>2. CASE m = SizeMod - 1
  BY <1>2, SizeRoundTrip
<1>3. CASE m \in 0 .. SizeMod - 2
  BY <1>3, SizeRoundTrip
<1> QED BY <1>1, <1>2, <1>3, WordAssumption

LEMMA FetchType == \A v \in Value : FetchOol(v) \in Bounds
  BY PtrAssumption, WordAssumption DEF FetchOol, null_bounds, Bounds, Value

\* Bounds that fit a pointer still do after they have been stored and loaded.
LEMMA FitsStored ==
  ASSUME NEW v \in Value, NEW b \in Bounds, Fits(v, b)
  PROVE  Fits(v, [base |-> b.base, size |-> SizeLoaded(SizeStored(b.size))])
<1> DEFINE c == [base |-> b.base, size |-> SizeLoaded(SizeStored(b.size))]
<1>0. b.base \in Nat /\ b.size \in Nat /\ FetchOol(v) \in Bounds
  BY FetchType, WordAssumption DEF Bounds
<1>1. CASE bounds_invalid(b)
  <2>1. SizeLoaded(SizeStored(0)) = 0
    BY SizeRoundTrip, WordAssumption
  <2> QED BY <1>1, <2>1 DEF Fits, bounds_invalid
<1>2. CASE b = FetchOol(v)
  BY <1>0, <1>2 DEF Fits, Narrowed, Bounds
<1>3. CASE b = Narrowed(FetchOol(v))
  <2>1. FetchOol(v).size \in Nat
    BY <1>0, WordAssumption DEF Bounds
  <2>2. b.size = SizeLoaded(SizeStored(FetchOol(v).size))
    BY <1>0, <1>3 DEF Narrowed, Bounds
  <2>3. c.size = b.size
    BY <2>1, <2>2, SizeTwice
  <2>4. c = b
    BY <2>3 DEF Bounds
  <2> QED BY <2>4
<1> QED BY <1>1, <1>2, <1>3 DEF Fits

-----------------------------------------------------------------------------
(* What a step has to show *)

Ops == {Idle} \union StoreOp \union LoadOp \union CopyOp

\* The program counter tells the kind of helper.
LEMMA OpKinds ==
  ASSUME NEW o \in Ops
  PROVE  /\ o.pc = "idle" => o = Idle /\ o \notin StoreOp /\ o \notin LoadOp /\ o \notin CopyOp
         /\ o.pc \in {"base", "size", "ptr"} => o \in StoreOp /\ o \notin LoadOp /\ o \notin CopyOp
         /\ o.pc \in {"lbase", "lsize", "lptr"} => o \in LoadOp /\ o \notin StoreOp /\ o \notin CopyOp
         /\ o.pc \in {"cbase", "csize", "cptr"} => o \in CopyOp /\ o \notin StoreOp /\ o \notin LoadOp
         /\ o.pc \in {"idle", "base", "size", "ptr", "lbase", "lsize", "lptr",
                      "cbase", "csize", "cptr"}
  BY DEF Ops, Idle, StoreOp, LoadOp, CopyOp

\* The words that a helper o reads and writes, by kind.
Writes(o) == CASE o.pc \in {"base", "size", "ptr"} -> {o.dest}
               [] o.pc \in {"cbase", "csize", "cptr"} -> o.dest .. o.dest + o.n - 1
               [] OTHER -> {}

Reads(o) == CASE o.pc \in {"lbase", "lsize", "lptr"} -> {o.src}
              [] o.pc \in {"cbase", "csize", "cptr"} -> o.src .. o.src + o.n - 1
              [] OTHER -> {}

LEMMA Footprint ==
  ASSUME NEW o \in Ops
  PROVE  /\ o = Idle => Writes(o) = {} /\ Reads(o) = {}
         /\ o \in StoreOp => Writes(o) = {o.dest} /\ Reads(o) = {}
         /\ o \in LoadOp => Writes(o) = {} /\ Reads(o) = {o.src}
         /\ o \in CopyOp => /\ Writes(o) = o.dest .. o.dest + o.n - 1
                            /\ Reads(o) = o.src .. o.src + o.n - 1
         /\ Writes(o) \subseteq Slot /\ Reads(o) \subseteq Slot
<1>2. CASE o = Idle
  BY <1>2, OpKinds DEF Idle, Writes, Reads
<1>3. CASE o \in StoreOp
  <2>1. o.pc \in {"base", "size", "ptr"} /\ o.dest \in Slot
    BY <1>3 DEF StoreOp
  <2> QED BY <1>3, <2>1, OpKinds DEF Idle, Writes, Reads
<1>4. CASE o \in LoadOp
  <2>1. o.pc \in {"lbase", "lsize", "lptr"} /\ o.src \in Slot
    BY <1>4 DEF LoadOp
  <2> QED BY <1>4, <2>1, OpKinds DEF Idle, Writes, Reads
<1>5. CASE o \in CopyOp
  <2>1. /\ o.pc \in {"cbase", "csize", "cptr"}
        /\ o.src \in Slot /\ o.dest \in Slot /\ o.n \in Nat \ {0}
        /\ o.src + o.n - 1 \in Slot /\ o.dest + o.n - 1 \in Slot
    BY <1>5 DEF CopyOp
  <2>2. /\ Writes(o) = o.dest .. o.dest + o.n - 1
        /\ Reads(o) = o.src .. o.src + o.n - 1
    BY <2>1 DEF Writes, Reads
  <2>3. Writes(o) \subseteq Slot /\ Reads(o) \subseteq Slot
    BY <2>1, <2>2, PtrAssumption DEF Slot
  <2> QED BY <1>5, <2>1, <2>2, <2>3, OpKinds DEF Idle
<1> QED BY <1>2, <1>3, <1>4, <1>5 DEF Ops

LEMMA OpFacts ==
  ASSUME NEW t \in Thread
  PROVE  /\ Types => op[t] \in Ops
         /\ WrittenBy(t) = Writes(op[t]) /\ ReadBy(t) = Reads(op[t])
         /\ WrittenBy(t)' = Writes(op'[t]) /\ ReadBy(t)' = Reads(op'[t])
<1>1. Types => op[t] \in Ops
  BY DEF Types, Ops
<1> QED BY <1>1 DEF WrittenBy, ReadBy, Writes, Reads

\* A copy keeps the words in order.
LEMMA Shift ==
  ASSUME NEW a \in Int, NEW b \in Int, NEW n \in Int, NEW y \in a .. a + n - 1
  PROVE  y \in Int /\ y - a + b \in b .. b + n - 1 /\ (y - a + b) - b + a = y
  OBVIOUS

\* A thread whose helper and words are left alone has got as far as before.
LEMMA ProgressKept ==
  ASSUME Types, NEW u \in Thread, Progress(u),
         op'[u] = op[u], reg'[u] = reg[u], good'[u] = good[u],
         \A s \in WrittenBy(u) \union ReadBy(u) :
           mem'[s] = mem[s] /\ base'[s] = base[s] /\ size'[s] = size[s] /\ origin'[s] = origin[s]
  PROVE  Progress(u)'
<1>1. op[u] \in StoreOp => Storing(u)'
  BY OpFacts, Footprint DEF Progress, Storing, Fits, bounds_invalid, StoreOp
<1>2. op[u] \in LoadOp => Loading(u)'
  BY OpFacts, Footprint DEF Progress, Loading, Fits, bounds_invalid, LoadOp
<1>3. ASSUME op[u] \in CopyOp PROVE Copying(u)'
  <2> SUFFICES ASSUME NEW y \in op[u].src .. op[u].src + op[u].n - 1
               PROVE  Safe(mem'[y], origin'[y], base'[BaseNow(op[u], y)], size'[SizeNow(op[u], y)])
    BY DEF Copying, Safe, Fits, bounds_invalid
  <2>1. /\ op[u].src \in Int /\ op[u].dest \in Int /\ op[u].n \in Int
        /\ WrittenBy(u) = op[u].dest .. op[u].dest + op[u].n - 1
        /\ ReadBy(u) = op[u].src .. op[u].src + op[u].n - 1
    BY <1>3, OpFacts, Footprint DEF CopyOp, Slot
  <2>2. y \in ReadBy(u) /\ y - op[u].src + op[u].dest \in WrittenBy(u)
    BY <2>1, Shift
  <2>3. BaseNow(op[u], y) \in WrittenBy(u) \union ReadBy(u)
    BY <2>2 DEF BaseNow
  <2>4. SizeNow(op[u], y) \in WrittenBy(u) \union ReadBy(u)
    BY <2>2 DEF SizeNow
  <2>5. Safe(mem[y], origin[y], base[BaseNow(op[u], y)], size[SizeNow(op[u], y)])
    BY <1>3 DEF Progress, Copying
  <2> QED BY <2>2, <2>3, <2>4, <2>5
<1> QED BY <1>1, <1>2, <1>3 DEF Progress

\* A step of thread t that changes words W only preserves the invariant if no
\* other helper uses these words, and t leaves the words it is done with settled.
LEMMA Preserved ==
  ASSUME IInv, NEW t \in Thread, NEW W \in SUBSET Slot, Types',
         \A u \in Thread \ {t} : op'[u] = op[u] /\ reg'[u] = reg[u] /\ good'[u] = good[u],
         \A s \in Slot \ W : /\ mem'[s] = mem[s] /\ base'[s] = base[s]
                             /\ size'[s] = size[s] /\ origin'[s] = origin[s],
         \A u \in Thread \ {t} :
           /\ WrittenBy(u) \intersect (ReadBy(t)' \union W \union WrittenBy(t)') = {}
           /\ ReadBy(u) \intersect (W \union WrittenBy(t)') = {},
         good'[t] => Fits(reg'[t].p, reg'[t].b),
         Progress(t)',
         \A s \in W \union WrittenBy(t) :
           s \notin WrittenBy(t)' => Safe(mem'[s], origin'[s], base'[s], size'[s])
  PROVE  IInv'
<1>1. \A u \in Thread \ {t} : WrittenBy(u)' = WrittenBy(u) /\ ReadBy(u)' = ReadBy(u)
  BY DEF WrittenBy, ReadBy
<1>2. NoRace'
  <2> SUFFICES ASSUME NEW u \in Thread, NEW v \in Thread, u # v
               PROVE  /\ WrittenBy(u)' \intersect WrittenBy(v)' = {}
                      /\ WrittenBy(u)' \intersect ReadBy(v)' = {}
    BY DEF NoRace
  <2>1. CASE u = t
    BY <1>1, <2>1
  <2>2. CASE v = t
    BY <1>1, <2>2
  <2>3. CASE u # t /\ v # t
    BY <1>1, <2>3 DEF IInv, NoRace
  <2> QED BY <2>1, <2>2, <2>3
<1>3. LoadedBoundsFit'
  BY DEF IInv, LoadedBoundsFit, Fits, bounds_invalid
<1>4. ASSUME NEW u \in Thread PROVE Progress(u)'
  <2>1. CASE u = t
    BY <2>1
  <2>2. CASE u # t
    <3>1. Types /\ Progress(u)
      BY DEF IInv
    <3>2. WrittenBy(u) \union ReadBy(u) \subseteq Slot \ W
      BY <2>2, <3>1, OpFacts, Footprint
    <3> QED BY <2>2, <3>1, <3>2, ProgressKept
  <2> QED BY <2>1, <2>2
<1>5. Settled'
  <2> SUFFICES ASSUME NEW s \in Slot, \A u \in Thread : s \notin WrittenBy(u)'
               PROVE  Safe(mem'[s], origin'[s], base'[s], size'[s])
    BY DEF Settled, Safe, Fits, bounds_invalid
  <2>1. CASE s \in W \union WrittenBy(t)
    BY <2>1
  <2>2. CASE s \notin W /\ s \notin WrittenBy(t)
    <3>1. \A u \in Thread : s \notin WrittenBy(u)
      BY <1>1, <2>2
    <3> QED BY <2>2, <3>1 DEF IInv, Settled
  <2> QED BY <2>1, <2>2
<1> QED BY <1>2, <1>3, <1>4, <1>5 DEF IInv

-----------------------------------------------------------------------------
(* One lemma per action *)

\* A thread that is in no helper has nothing to show.
LEMMA IdleProgress ==
  ASSUME NEW t \in Thread, op'[t] = Idle
  PROVE  Progress(t)' /\ WrittenBy(t)' = {} /\ ReadBy(t)' = {}
<1>1. Idle \in Ops /\ Idle.pc = "idle"
  BY DEF Ops, Idle
<1>2. Idle \notin StoreOp /\ Idle \notin LoadOp /\ Idle \notin CopyOp
  BY <1>1, OpKinds
<1> QED BY <1>1, <1>2, Footprint, OpFacts DEF Progress

LEMMA BeginFacts ==
  ASSUME IInv, NEW t \in Thread, Begins(t)
  PROVE  /\ op[t] = Idle /\ WrittenBy(t) = {} /\ ReadBy(t) = {}
         /\ ops' \in 0 .. MaxOps
<1>1. op[t] \in Ops /\ op[t].pc = "idle"
  BY OpFacts DEF IInv, Begins
<1>2. op[t] = Idle
  BY <1>1, OpKinds
<1>3. ops' \in 0 .. MaxOps
  BY PtrAssumption DEF IInv, Types, Begins
<1> QED BY <1>1, <1>2, <1>3, OpFacts, Footprint

LEMMA LocalStep ==
  ASSUME IInv, NEW t \in Thread, NEW v \in Value, TakeAddress(t, v) \/ Receive(t, v)
  PROVE  IInv'
<1>1. Begins(t) /\ UNCHANGED <<mem, base, size, op, alive, origin>>
  BY DEF TakeAddress, Receive
<1>2. op'[t] = Idle /\ WrittenBy(t) = {} /\ ops' \in 0 .. MaxOps
  BY <1>1, BeginFacts
<1>3. PICK b \in Bounds : /\ Fits(v, b)
                          /\ reg' = [reg EXCEPT ![t] = [p |-> v, b |-> b]]
                          /\ good' = [good EXCEPT ![t] = TRUE]
  <2>1. FetchOol(v) \in Bounds /\ Fits(v, FetchOol(v))
    BY FetchType DEF Fits
  <2>2. invalid_bounds \in Bounds /\ Fits(v, invalid_bounds)
    BY WordAssumption DEF invalid_bounds, Bounds, Fits, bounds_invalid
  <2> QED BY <2>1, <2>2 DEF TakeAddress, Receive
<1>4. Types'
  BY <1>1, <1>2, <1>3 DEF IInv, Types
<1>5. /\ \A u \in Thread \ {t} : op'[u] = op[u] /\ reg'[u] = reg[u] /\ good'[u] = good[u]
      /\ reg'[t].p = v /\ reg'[t].b = b
  BY <1>1, <1>3 DEF IInv, Types
<1>6. Progress(t)' /\ WrittenBy(t)' = {} /\ ReadBy(t)' = {}
  BY <1>2, IdleProgress
<1> QED BY <1>1, <1>2, <1>3, <1>4, <1>5, <1>6, Preserved

\* BoundsToStore gives bounds that fit the value.
LEMMA ToStoreFits ==
  ASSUME IInv, NEW t \in Thread
  PROVE  /\ BoundsToStore(reg[t]) \in Bounds
         /\ good[t] => Fits(reg[t].p, BoundsToStore(reg[t]))
<1>1. reg[t].p \in Value /\ reg[t].b \in Bounds
  BY DEF IInv, Types
<1>2. FetchOol(reg[t].p) \in Bounds /\ Fits(reg[t].p, FetchOol(reg[t].p))
  BY <1>1, FetchType DEF Fits
<1> QED BY <1>1, <1>2 DEF BoundsToStore, IInv, LoadedBoundsFit

LEMMA BeginStoreStep ==
  ASSUME IInv, NEW t \in Thread, NEW s \in Slot, NEW b \in Bounds,
         good[t] => Fits(reg[t].p, b), BeginStore(t, s, b)
  PROVE  IInv'
<1> DEFINE o == [pc |-> "base", dest |-> s, b |-> b]
<1>1. /\ op' = [op EXCEPT ![t] = o] /\ Free(t, {}, {s}) /\ Begins(t)
      /\ UNCHANGED <<mem, base, size, reg, alive, origin, good>>
  BY DEF BeginStore
<1>2. o \in StoreOp /\ o \in Ops /\ Writes(o) = {s} /\ Reads(o) = {}
  <2>1. o \in StoreOp
    BY DEF StoreOp
  <2>2. o \in Ops
    BY <2>1 DEF Ops
  <2> QED BY <2>1, <2>2, Footprint
<1>3. Types' /\ op'[t] = o /\ WrittenBy(t) = {}
  BY <1>1, <1>2, BeginFacts DEF IInv, Types, Ops
<1>4. WrittenBy(t)' = {s} /\ ReadBy(t)' = {}
  BY <1>2, <1>3, OpFacts
<1>5. Progress(t)'
  <2>1. o \notin LoadOp /\ o \notin CopyOp
    BY <1>2, OpKinds
  <2>2. Storing(t)'
    BY <1>1, <1>3 DEF Storing
  <2> QED BY <1>3, <2>1, <2>2 DEF Progress
<1>6. \A u \in Thread \ {t} : op'[u] = op[u]
  BY <1>1 DEF IInv, Types
<1>7. good'[t] => Fits(reg'[t].p, reg'[t].b)
  BY <1>1 DEF IInv, LoadedBoundsFit
<1> QED BY <1>1, <1>3, <1>4, <1>5, <1>6, <1>7, Preserved DEF Free

LEMMA StoreStep ==
  ASSUME IInv, NEW t \in Thread, NEW s \in Slot, Store(t, s) \/ StoreVoid(t, s)
  PROVE  IInv'
<1>1. CASE Store(t, s)
  BY <1>1, ToStoreFits, BeginStoreStep DEF Store
<1>2. CASE StoreVoid(t, s)
  <2>1. PICK b \in VoidBounds(t, s) : BeginStore(t, s, b)
    BY <1>2 DEF StoreVoid
  <2>2. mem[s] \in Value
    BY DEF IInv, Types
  <2>3. b \in Bounds /\ (good[t] => Fits(reg[t].p, b))
    BY <2>1, <2>2, ToStoreFits, PtrAssumption, WordAssumption
       DEF VoidBounds, Bounds, Value, Fits, bounds_invalid
  <2> QED BY <2>1, <2>3, BeginStoreStep
<1> QED BY <1>1, <1>2

LEMMA DisagreeStep ==
  ASSUME IInv, NEW t \in Thread, StoreVoidDisagree(t)
  PROVE  IInv'
<1>1. /\ Begins(t) /\ alive' = FALSE
      /\ UNCHANGED <<mem, base, size, reg, op, origin, good>>
  BY DEF StoreVoidDisagree
<1>2. op'[t] = Idle /\ WrittenBy(t) = {} /\ ops' \in 0 .. MaxOps
  BY <1>1, BeginFacts
<1>3. Types'
  BY <1>1, <1>2 DEF IInv, Types
<1>4. Progress(t)' /\ WrittenBy(t)' = {} /\ ReadBy(t)' = {}
  BY <1>2, IdleProgress
<1>5. good'[t] => Fits(reg'[t].p, reg'[t].b)
  BY <1>1 DEF IInv, LoadedBoundsFit
<1> QED BY <1>1, <1>2, <1>3, <1>4, <1>5, Preserved

\* What holds of a thread in a helper: its words are its own.
LEMMA InHelper ==
  ASSUME IInv, NEW t \in Thread
  PROVE  /\ op[t] \in Ops /\ WrittenBy(t) \subseteq Slot
         /\ good[t] => Fits(reg[t].p, reg[t].b)
         /\ \A u \in Thread \ {t} :
              /\ WrittenBy(u) \intersect (ReadBy(t) \union WrittenBy(t)) = {}
              /\ ReadBy(u) \intersect WrittenBy(t) = {}
  BY OpFacts, Footprint DEF IInv, NoRace, LoadedBoundsFit

LEMMA WriteBaseStep ==
  ASSUME IInv, NEW t \in Thread, WriteBase(t)
  PROVE  IInv'
<1> DEFINE o == [op[t] EXCEPT !.pc = "size"]
           d == op[t].dest
<1>1. /\ op[t].pc = "base" /\ op' = [op EXCEPT ![t].pc = "size"]
      /\ base' = [base EXCEPT ![d] = op[t].b.base]
      /\ UNCHANGED <<mem, size, reg, alive, origin, good, ops>>
  BY DEF WriteBase
<1>2. op[t] \in StoreOp /\ d \in Slot /\ op[t].b \in Bounds
  BY <1>1, InHelper, OpKinds DEF StoreOp
<1>3. o \in StoreOp /\ o \in Ops /\ o.dest = d /\ o.b = op[t].b /\ o.pc = "size"
  BY <1>2 DEF StoreOp, Ops
<1>4. Types' /\ op'[t] = o /\ base'[d] = op[t].b.base
  BY <1>1, <1>2, <1>3 DEF IInv, Types, Ops, Bounds
<1>5. WrittenBy(t) = {d} /\ WrittenBy(t)' = {d} /\ ReadBy(t)' = {}
  BY <1>2, <1>3, <1>4, OpFacts, Footprint, InHelper
<1>6. Progress(t)'
  <2>1. o \notin LoadOp /\ o \notin CopyOp
    BY <1>3, OpKinds
  <2>2. Storing(t)
    BY <1>2 DEF IInv, Progress
  <2>3. Storing(t)'
    BY <1>1, <1>3, <1>4, <2>2 DEF Storing
  <2> QED BY <1>4, <2>1, <2>3 DEF Progress
<1>7. /\ \A u \in Thread \ {t} : op'[u] = op[u]
      /\ \A s \in Slot \ {d} : base'[s] = base[s]
  BY <1>1 DEF IInv, Types
<1> QED BY <1>1, <1>2, <1>4, <1>5, <1>6, <1>7, InHelper, Preserved, SMTT(30)

LEMMA WriteSizeStep ==
  ASSUME IInv, NEW t \in Thread, WriteSize(t)
  PROVE  IInv'
<1> DEFINE o == [op[t] EXCEPT !.pc = "ptr"]
           d == op[t].dest
<1>1. /\ op[t].pc = "size" /\ op' = [op EXCEPT ![t].pc = "ptr"]
      /\ size' = [size EXCEPT ![d] = SizeStored(op[t].b.size)]
      /\ UNCHANGED <<mem, base, reg, alive, origin, good, ops>>
  BY DEF WriteSize
<1>2. op[t] \in StoreOp /\ d \in Slot /\ op[t].b \in Bounds
  BY <1>1, InHelper, OpKinds DEF StoreOp
<1>3. o \in StoreOp /\ o \in Ops /\ o.dest = d /\ o.b = op[t].b /\ o.pc = "ptr"
  BY <1>2 DEF StoreOp, Ops
<1>4. SizeStored(op[t].b.size) \in 0 .. SizeMod - 1
  BY <1>2, SizeTypes, WordAssumption DEF Bounds
<1>5. Types' /\ op'[t] = o /\ size'[d] = SizeStored(op[t].b.size)
  BY <1>1, <1>2, <1>3, <1>4 DEF IInv, Types, Ops
<1>6. WrittenBy(t) = {d} /\ WrittenBy(t)' = {d} /\ ReadBy(t)' = {}
  BY <1>2, <1>3, <1>5, OpFacts, Footprint, InHelper
<1>7. Progress(t)'
  <2>1. o \notin LoadOp /\ o \notin CopyOp
    BY <1>3, OpKinds
  <2>2. Storing(t)
    BY <1>2 DEF IInv, Progress
  <2>3. Storing(t)'
    BY <1>1, <1>3, <1>5, <2>2 DEF Storing
  <2> QED BY <1>5, <2>1, <2>3 DEF Progress
<1>8. /\ \A u \in Thread \ {t} : op'[u] = op[u]
      /\ \A s \in Slot \ {d} : size'[s] = size[s]
  BY <1>1 DEF IInv, Types
<1> QED BY <1>1, <1>2, <1>5, <1>6, <1>7, <1>8, InHelper, Preserved

LEMMA WritePtrStep ==
  ASSUME IInv, NEW t \in Thread, WritePtr(t)
  PROVE  IInv'
<1> DEFINE d == op[t].dest
<1>1. /\ op[t].pc = "ptr" /\ op' = [op EXCEPT ![t] = Idle]
      /\ mem' = [mem EXCEPT ![d] = reg[t].p]
      /\ origin' = [origin EXCEPT ![d] = IF good[t] THEN "kept" ELSE "stored"]
      /\ UNCHANGED <<base, size, reg, alive, good, ops>>
  BY DEF WritePtr
<1>2. op[t] \in StoreOp /\ d \in Slot /\ op[t].b \in Bounds /\ reg[t].p \in Value
  BY <1>1, InHelper, OpKinds DEF StoreOp, IInv, Types
<1>3. Types' /\ op'[t] = Idle
  BY <1>1, <1>2 DEF IInv, Types, Origins
<1>4. WrittenBy(t) = {d} /\ WrittenBy(t)' = {} /\ ReadBy(t)' = {} /\ Progress(t)'
  BY <1>2, <1>3, OpFacts, Footprint, InHelper, IdleProgress
<1>5. Safe(mem'[d], origin'[d], base'[d], size'[d])
  <2>1. Storing(t)
    BY <1>2 DEF IInv, Progress
  <2>2. base[d] = op[t].b.base /\ size[d] = SizeStored(op[t].b.size)
    BY <1>1, <2>1 DEF Storing
  <2>3. mem'[d] = reg[t].p /\ (origin'[d] = "kept" => good[t])
    BY <1>1, <1>2 DEF IInv, Types
  <2>4. good[t] => Fits(reg[t].p, op[t].b)
    BY <2>1 DEF Storing
  <2> QED BY <1>1, <1>2, <2>2, <2>3, <2>4, FitsStored DEF Safe
<1>6. /\ \A u \in Thread \ {t} : op'[u] = op[u]
      /\ \A s \in Slot \ {d} : mem'[s] = mem[s] /\ origin'[s] = origin[s]
  BY <1>1 DEF IInv, Types
<1> QED BY <1>1, <1>2, <1>3, <1>4, <1>5, <1>6, InHelper, Preserved, SMTT(30)

LEMMA LoadStep ==
  ASSUME IInv, NEW t \in Thread, NEW s \in Slot, Load(t, s)
  PROVE  IInv'
<1> DEFINE o == AfterNullTest(t, s)
<1>1. /\ op' = [op EXCEPT ![t] = o] /\ Free(t, {s}, {}) /\ Begins(t)
      /\ UNCHANGED <<mem, base, size, reg, alive, origin, good>>
  BY DEF Load
<1>2. /\ o \in LoadOp /\ o \in Ops /\ o.src = s /\ o.b = null_bounds
      /\ o.pc \in {"lbase", "lptr"} /\ (o.pc = "lptr" <=> mem[s] = Null)
  BY WordAssumption DEF AfterNullTest, LoadOp, Ops, null_bounds, Bounds
<1>3. Types' /\ op'[t] = o /\ WrittenBy(t) = {}
  BY <1>1, <1>2, BeginFacts DEF IInv, Types, Ops
<1>4. WrittenBy(t)' = {} /\ ReadBy(t)' = {s}
  BY <1>2, <1>3, OpFacts, Footprint
<1>5. Progress(t)'
  <2>1. o \notin StoreOp /\ o \notin CopyOp
    BY <1>2, OpKinds
  <2>2. Fits(Null, null_bounds)
    BY DEF Fits, FetchOol
  <2>3. Loading(t)'
    BY <1>1, <1>2, <1>3, <2>2 DEF Loading
  <2> QED BY <1>3, <2>1, <2>3 DEF Progress
<1>6. \A u \in Thread \ {t} : op'[u] = op[u]
  BY <1>1 DEF IInv, Types
<1>7. good'[t] => Fits(reg'[t].p, reg'[t].b)
  BY <1>1 DEF IInv, LoadedBoundsFit
<1> QED BY <1>1, <1>3, <1>4, <1>5, <1>6, <1>7, Preserved DEF Free

LEMMA ReadBaseStep ==
  ASSUME IInv, NEW t \in Thread, ReadBase(t)
  PROVE  IInv'
<1> DEFINE s == op[t].src
           o == [op[t] EXCEPT !.pc = "lsize", !.b.base = base[s]]
<1>1. /\ op[t].pc = "lbase" /\ op' = [op EXCEPT ![t] = o]
      /\ UNCHANGED <<mem, base, size, reg, alive, origin, good, ops>>
  BY DEF ReadBase
<1>2. op[t] \in LoadOp /\ s \in Slot /\ base[s] \in 0 .. WordMod - 1
  BY <1>1, InHelper, OpKinds DEF LoadOp, IInv, Types
<1>3. o \in LoadOp /\ o \in Ops /\ o.src = s /\ o.pc = "lsize" /\ o.b.base = base[s]
  BY <1>2 DEF LoadOp, Ops, Bounds
<1>4. Types' /\ op'[t] = o
  BY <1>1, <1>3 DEF IInv, Types, Ops
<1>5. WrittenBy(t) = {} /\ WrittenBy(t)' = {} /\ ReadBy(t) = {s} /\ ReadBy(t)' = {s}
  BY <1>2, <1>3, <1>4, OpFacts, Footprint, InHelper, ZenonT(40)
<1>6. Progress(t)'
  <2>1. o \notin StoreOp /\ o \notin CopyOp
    BY <1>3, OpKinds
  <2>2. Loading(t)
    BY <1>2 DEF IInv, Progress
  <2>3. Loading(t)'
    BY <1>1, <1>3, <1>4, <2>2 DEF Loading
  <2> QED BY <1>4, <2>1, <2>3 DEF Progress
<1>7. \A u \in Thread \ {t} : op'[u] = op[u]
  BY <1>1 DEF IInv, Types
<1> QED BY <1>1, <1>4, <1>5, <1>6, <1>7, InHelper, Preserved

LEMMA ReadSizeStep ==
  ASSUME IInv, NEW t \in Thread, ReadSize(t)
  PROVE  IInv'
<1> DEFINE s == op[t].src
           o == [op[t] EXCEPT !.pc = "lptr", !.b.size = SizeLoaded(size[s])]
<1>1. /\ op[t].pc = "lsize" /\ op' = [op EXCEPT ![t] = o]
      /\ UNCHANGED <<mem, base, size, reg, alive, origin, good, ops>>
  BY DEF ReadSize
<1>2. op[t] \in LoadOp /\ s \in Slot /\ SizeLoaded(size[s]) \in 0 .. WordMod - 1
  BY <1>1, InHelper, OpKinds, SizeTypes, WordAssumption DEF LoadOp, IInv, Types
<1>3. /\ o \in LoadOp /\ o \in Ops /\ o.src = s /\ o.pc = "lptr"
      /\ o.b = [base |-> op[t].b.base, size |-> SizeLoaded(size[s])]
  BY <1>2 DEF LoadOp, Ops, Bounds
<1>4. Types' /\ op'[t] = o
  BY <1>1, <1>3 DEF IInv, Types, Ops
<1>5. WrittenBy(t) = {} /\ WrittenBy(t)' = {} /\ ReadBy(t) = {s} /\ ReadBy(t)' = {s}
  BY <1>2, <1>3, <1>4, OpFacts, Footprint, InHelper, ZenonT(40)
<1>6. Progress(t)'
  <2>1. o \notin StoreOp /\ o \notin CopyOp
    BY <1>3, OpKinds
  <2>2. mem[s] # Null /\ op[t].b.base = base[s]
    BY <1>1, <1>2 DEF IInv, Progress, Loading
  <2>3. \A u \in Thread : s \notin WrittenBy(u)
    BY <1>5, InHelper
  <2>4. origin[s] = "kept" => Fits(mem[s], o.b)
    BY <1>2, <1>3, <2>2, <2>3 DEF IInv, Settled, Safe
  <2>5. Loading(t)'
    BY <1>1, <1>3, <1>4, <2>4 DEF Loading
  <2> QED BY <1>4, <2>1, <2>5 DEF Progress
<1>7. \A u \in Thread \ {t} : op'[u] = op[u]
  BY <1>1 DEF IInv, Types
<1> QED BY <1>1, <1>4, <1>5, <1>6, <1>7, InHelper, Preserved

LEMMA ReadPtrStep ==
  ASSUME IInv, NEW t \in Thread, ReadPtr(t)
  PROVE  IInv'
<1> DEFINE s == op[t].src
<1>1. /\ op[t].pc = "lptr" /\ op' = [op EXCEPT ![t] = Idle]
      /\ reg' = [reg EXCEPT ![t] = [p |-> mem[s], b |-> op[t].b]]
      /\ good' = [good EXCEPT ![t] = (origin[s] = "kept")]
      /\ UNCHANGED <<mem, base, size, alive, origin, ops>>
  BY DEF ReadPtr
<1>2. op[t] \in LoadOp /\ s \in Slot /\ mem[s] \in Value /\ op[t].b \in Bounds
  BY <1>1, InHelper, OpKinds DEF LoadOp, IInv, Types
<1>3. Types' /\ op'[t] = Idle
  BY <1>1, <1>2 DEF IInv, Types
<1>4. WrittenBy(t) = {} /\ WrittenBy(t)' = {} /\ ReadBy(t)' = {} /\ Progress(t)'
  BY <1>2, <1>3, OpFacts, Footprint, InHelper, IdleProgress
<1>5. good'[t] => Fits(reg'[t].p, reg'[t].b)
  <2>1. origin[s] = "kept" => Fits(mem[s], op[t].b)
    BY <1>1, <1>2 DEF IInv, Progress, Loading
  <2>2. good'[t] = (origin[s] = "kept") /\ reg'[t].p = mem[s] /\ reg'[t].b = op[t].b
    BY <1>1 DEF IInv, Types
  <2> QED BY <2>1, <2>2
<1>6. \A u \in Thread \ {t} : op'[u] = op[u] /\ reg'[u] = reg[u] /\ good'[u] = good[u]
  BY <1>1 DEF IInv, Types
<1> QED BY <1>1, <1>3, <1>4, <1>5, <1>6, InHelper, Preserved

LEMMA CopyStep ==
  ASSUME IInv, NEW t \in Thread, NEW src \in Slot, NEW dest \in Slot,
         NEW n \in 1 .. MaxCopy, Copy(t, src, dest, n)
  PROVE  IInv'
<1> DEFINE o == [pc |-> "cbase", src |-> src, dest |-> dest, n |-> n]
           R == src .. src + n - 1
           W == dest .. dest + n - 1
<1>1. /\ op' = [op EXCEPT ![t] = o] /\ Free(t, R, W) /\ Begins(t)
      /\ src + n - 1 \in Slot /\ dest + n - 1 \in Slot
      /\ UNCHANGED <<mem, base, size, reg, alive, origin, good>>
  BY DEF Copy
<1>2. n \in Nat \ {0}
  BY PtrAssumption
<1>3. o \in CopyOp /\ o \in Ops
  BY <1>1, <1>2 DEF CopyOp, Ops
<1>4. Types' /\ op'[t] = o /\ WrittenBy(t) = {}
  BY <1>1, <1>3, BeginFacts DEF IInv, Types, Ops
<1>5. WrittenBy(t)' = W /\ ReadBy(t)' = R /\ R \subseteq Slot
  BY <1>3, <1>4, OpFacts, Footprint
<1>6. Progress(t)'
  <2>1. o \notin StoreOp /\ o \notin LoadOp
    BY <1>3, OpKinds
  <2>2. ASSUME NEW y \in R PROVE Safe(mem[y], origin[y], base[y], size[y])
    <3>1. \A u \in Thread : y \notin WrittenBy(u)
      BY <1>1, <1>4 DEF Free
    <3> QED BY <1>5, <3>1 DEF IInv, Settled
  <2>3. Copying(t)'
    BY <1>1, <1>4, <2>2 DEF Copying, BaseNow, SizeNow
  <2> QED BY <1>4, <2>1, <2>3 DEF Progress
<1>7. \A u \in Thread \ {t} : op'[u] = op[u]
  BY <1>1 DEF IInv, Types
<1>8. good'[t] => Fits(reg'[t].p, reg'[t].b)
  BY <1>1 DEF IInv, LoadedBoundsFit
<1> HIDE DEF o, R, W
<1> QED BY <1>1, <1>4, <1>5, <1>6, <1>7, <1>8, Preserved DEF Free

\* A copy takes the words of its source to those of its target.
LEMMA CopyIndex ==
  ASSUME NEW c \in CopyOp
  PROVE  /\ \A y \in Reads(c) : /\ y - c.src + c.dest \in Writes(c)
                                /\ (y - c.src + c.dest) - c.dest + c.src = y
         /\ \A x \in Writes(c) : /\ x - c.dest + c.src \in Reads(c)
                                 /\ (x - c.dest + c.src) - c.src + c.dest = x
         /\ Writes(c) \subseteq Slot /\ Reads(c) \subseteq Slot
         /\ Writes(c) = c.dest .. c.dest + c.n - 1
<1>1. /\ Writes(c) = c.dest .. c.dest + c.n - 1 /\ Reads(c) = c.src .. c.src + c.n - 1
      /\ Writes(c) \subseteq Slot /\ Reads(c) \subseteq Slot
      /\ c.src \in Int /\ c.dest \in Int /\ c.n \in Int
  BY Footprint DEF Ops, CopyOp, Slot
<1>2. ASSUME NEW y \in Reads(c)
      PROVE  y - c.src + c.dest \in Writes(c) /\ (y - c.src + c.dest) - c.dest + c.src = y
  <2>1. /\ c.src \in Int /\ c.dest \in Int /\ c.n \in Int /\ y \in c.src .. c.src + c.n - 1
    BY <1>1
  <2>2. /\ y - c.src + c.dest \in c.dest .. c.dest + c.n - 1
        /\ (y - c.src + c.dest) - c.dest + c.src = y
    BY ONLY <2>1, Shift
  <2> QED BY <1>1, <2>2
<1>3. ASSUME NEW x \in Writes(c)
      PROVE  x - c.dest + c.src \in Reads(c) /\ (x - c.dest + c.src) - c.src + c.dest = x
  <2>1. /\ c.src \in Int /\ c.dest \in Int /\ c.n \in Int /\ x \in c.dest .. c.dest + c.n - 1
    BY <1>1
  <2>2. /\ x - c.dest + c.src \in c.src .. c.src + c.n - 1
        /\ (x - c.dest + c.src) - c.src + c.dest = x
    BY ONLY <2>1, Shift
  <2> QED BY <1>1, <2>2
<1> QED BY <1>1, <1>2, <1>3

\* A memmove leaves the words outside its target alone, and puts word y of its
\* source where it belongs, whether or not source and target overlap.
LEMMA MovedFacts ==
  ASSUME NEW c \in CopyOp, NEW f
  PROVE  /\ \A x \in Slot \ Writes(c) : Moved(f, c)[x] = f[x]
         /\ \A y \in Reads(c) : Moved(f, c)[y - c.src + c.dest] = f[y]
         /\ \A x \in Writes(c) : Moved(f, c)[x] = f[x - c.dest + c.src]
<1>1. \A x \in Slot \ Writes(c) : Moved(f, c)[x] = f[x]
  BY CopyIndex DEF Moved
<1>2. \A x \in Writes(c) : Moved(f, c)[x] = f[x - c.dest + c.src]
  BY CopyIndex DEF Moved
<1> QED BY <1>1, <1>2, CopyIndex

LEMMA MovedType ==
  ASSUME NEW c \in CopyOp, NEW S, NEW f \in [Slot -> S]
  PROVE  Moved(f, c) \in [Slot -> S]
<1>1. \A x \in Slot : Moved(f, c)[x] \in S
  BY CopyIndex, MovedFacts
<1> QED BY <1>1 DEF Moved

\* A copy under way, and the same one step further.
LEMMA CopyShape ==
  ASSUME IInv, NEW t \in Thread, op[t].pc \in {"cbase", "csize", "cptr"},
         NEW pc \in {"csize", "cptr"}
  PROVE  LET o == [op[t] EXCEPT !.pc = pc]
         IN  /\ op[t] \in CopyOp /\ Copying(t)
             /\ WrittenBy(t) = Writes(op[t]) /\ ReadBy(t) = Reads(op[t])
             /\ Writes(op[t]) \subseteq Slot /\ Reads(op[t]) \subseteq Slot
             /\ Reads(op[t]) = op[t].src .. op[t].src + op[t].n - 1
             /\ o \in CopyOp /\ o.pc = pc /\ o \notin StoreOp /\ o \notin LoadOp
             /\ o.src = op[t].src /\ o.dest = op[t].dest /\ o.n = op[t].n
             /\ Writes(o) = Writes(op[t]) /\ Reads(o) = Reads(op[t])
<1> DEFINE o == [op[t] EXCEPT !.pc = pc]
<1>1. op[t] \in CopyOp /\ op[t] \in Ops /\ Copying(t)
  BY InHelper, OpKinds DEF IInv, Progress
<1>2. o \in CopyOp /\ o.pc = pc /\ o.src = op[t].src /\ o.dest = op[t].dest /\ o.n = op[t].n
  BY <1>1 DEF CopyOp
<1>3. o \in Ops /\ o \notin StoreOp /\ o \notin LoadOp
  <2>1. o \in Ops
    BY <1>2 DEF Ops
  <2> QED BY <1>2, <2>1, OpKinds
<1> QED BY <1>1, <1>2, <1>3, Footprint, OpFacts

LEMMA CopyBasesStep ==
  ASSUME IInv, NEW t \in Thread, CopyBases(t)
  PROVE  IInv'
<1> DEFINE c == op[t]
           o == [c EXCEPT !.pc = "csize"]
<1>1. /\ c.pc = "cbase" /\ op' = [op EXCEPT ![t].pc = "csize"]
      /\ base' = Moved(base, c)
      /\ UNCHANGED <<mem, size, reg, alive, origin, good, ops>>
  BY DEF CopyBases
<1>2. /\ c \in CopyOp /\ Copying(t) /\ WrittenBy(t) = Writes(c) /\ ReadBy(t) = Reads(c)
      /\ Writes(c) \subseteq Slot /\ Reads(c) = c.src .. c.src + c.n - 1
      /\ o \in CopyOp /\ o.pc = "csize" /\ o \notin StoreOp /\ o \notin LoadOp
      /\ o.src = c.src /\ o.dest = c.dest /\ o.n = c.n
      /\ Writes(o) = Writes(c) /\ Reads(o) = Reads(c)
  BY <1>1, CopyShape
<1>3. base' \in [Slot -> 0 .. WordMod - 1]
  BY <1>1, <1>2, MovedType DEF IInv, Types
<1>4. Types' /\ op'[t] = o
  BY <1>1, <1>2, <1>3 DEF IInv, Types
<1>5. WrittenBy(t)' = Writes(c) /\ ReadBy(t)' = Reads(c)
  BY <1>2, <1>4, OpFacts
<1>6. Progress(t)'
  <2>1. ASSUME NEW y \in Reads(c)
        PROVE  Safe(mem[y], origin[y], base'[y - c.src + c.dest], size[y])
    <3>1. Safe(mem[y], origin[y], base[y], size[y])
      BY <1>1, <1>2 DEF Copying, BaseNow, SizeNow
    <3>2. c \in CopyOp
      BY <1>2
    <3>3. \A x \in Reads(c) : Moved(base, c)[x - c.src + c.dest] = base[x]
      BY ONLY <3>2, MovedFacts
    <3>4. base'[y - c.src + c.dest] = base[y]
      BY <1>1, <3>3
    <3> QED BY <3>1, <3>4
  <2>2. Copying(t)'
    BY <1>1, <1>2, <1>4, <2>1 DEF Copying, BaseNow, SizeNow
  <2> QED BY <1>2, <1>4, <2>2 DEF Progress
<1>7. /\ \A u \in Thread \ {t} : op'[u] = op[u]
      /\ \A s \in Slot \ Writes(c) : base'[s] = base[s]
  BY <1>1, <1>2, MovedFacts DEF IInv, Types
<1>8. /\ \A u \in Thread \ {t} :
           /\ op'[u] = op[u] /\ reg'[u] = reg[u] /\ good'[u] = good[u]
           /\ WrittenBy(u) \intersect (ReadBy(t)' \union Writes(c) \union WrittenBy(t)') = {}
           /\ ReadBy(u) \intersect (Writes(c) \union WrittenBy(t)') = {}
      /\ \A x \in Writes(c) \union WrittenBy(t) : x \in WrittenBy(t)'
  <2>1. \A u \in Thread \ {t} : /\ WrittenBy(u) \intersect (Reads(c) \union Writes(c)) = {}
                                /\ ReadBy(u) \intersect Writes(c) = {}
    <3> HIDE DEF c, o
    <3> QED BY <1>2, InHelper
  <2> HIDE DEF c, o
  <2> QED BY <1>1, <1>2, <1>5, <1>7, <2>1
<1>9. /\ \A s \in Slot \ Writes(c) : /\ mem'[s] = mem[s] /\ base'[s] = base[s]
                                     /\ size'[s] = size[s] /\ origin'[s] = origin[s]
      /\ good'[t] => Fits(reg'[t].p, reg'[t].b)
      /\ Writes(c) \in SUBSET Slot
  BY <1>1, <1>2, <1>7, InHelper
<1> HIDE DEF c, o
<1> QED BY ONLY IInv, t \in Thread, <1>4, <1>6, <1>8, <1>9, Preserved

LEMMA CopySizesStep ==
  ASSUME IInv, NEW t \in Thread, CopySizes(t)
  PROVE  IInv'
<1> DEFINE c == op[t]
           o == [c EXCEPT !.pc = "cptr"]
<1>1. /\ c.pc = "csize" /\ op' = [op EXCEPT ![t].pc = "cptr"]
      /\ size' = Moved(size, c)
      /\ UNCHANGED <<mem, base, reg, alive, origin, good, ops>>
  BY DEF CopySizes, MovedSizes
<1>2. /\ c \in CopyOp /\ Copying(t) /\ WrittenBy(t) = Writes(c) /\ ReadBy(t) = Reads(c)
      /\ Writes(c) \subseteq Slot /\ Reads(c) = c.src .. c.src + c.n - 1
      /\ o \in CopyOp /\ o.pc = "cptr" /\ o \notin StoreOp /\ o \notin LoadOp
      /\ o.src = c.src /\ o.dest = c.dest /\ o.n = c.n
      /\ Writes(o) = Writes(c) /\ Reads(o) = Reads(c)
  BY <1>1, CopyShape
<1>3. size' \in [Slot -> 0 .. SizeMod - 1]
  BY <1>1, <1>2, MovedType DEF IInv, Types
<1>4. Types' /\ op'[t] = o
  BY <1>1, <1>2, <1>3 DEF IInv, Types
<1>5. WrittenBy(t)' = Writes(c) /\ ReadBy(t)' = Reads(c)
  BY <1>2, <1>4, OpFacts
<1>6. Progress(t)'
  <2>1. ASSUME NEW y \in Reads(c)
        PROVE  Safe(mem[y], origin[y], base[y - c.src + c.dest], size'[y - c.src + c.dest])
    <3>1. Safe(mem[y], origin[y], base[y - c.src + c.dest], size[y])
      BY <1>1, <1>2 DEF Copying, BaseNow, SizeNow
    <3>2. c \in CopyOp
      BY <1>2
    <3>3. \A x \in Reads(c) : Moved(size, c)[x - c.src + c.dest] = size[x]
      BY ONLY <3>2, MovedFacts
    <3>4. size'[y - c.src + c.dest] = size[y]
      BY <1>1, <3>3
    <3> QED BY <3>1, <3>4
  <2>2. Copying(t)'
    BY <1>1, <1>2, <1>4, <2>1, ZenonT(40) DEF Copying, BaseNow, SizeNow
  <2> QED BY <1>2, <1>4, <2>2 DEF Progress
<1>7. /\ \A u \in Thread \ {t} : op'[u] = op[u]
      /\ \A s \in Slot \ Writes(c) : size'[s] = size[s]
  BY <1>1, <1>2, MovedFacts DEF IInv, Types
<1> QED BY <1>1, <1>2, <1>4, <1>5, <1>6, <1>7, InHelper, Preserved

LEMMA CopyPtrsStep ==
  ASSUME IInv, NEW t \in Thread, CopyPtrs(t)
  PROVE  IInv'
<1> DEFINE c == op[t]
<1>1. /\ c.pc = "cptr" /\ op' = [op EXCEPT ![t] = Idle]
      /\ mem' = Moved(mem, c) /\ origin' = Moved(origin, c)
      /\ UNCHANGED <<base, size, reg, alive, good, ops>>
  BY DEF CopyPtrs
<1>2. /\ c \in CopyOp /\ Copying(t) /\ WrittenBy(t) = Writes(c)
      /\ Writes(c) \subseteq Slot /\ Reads(c) = c.src .. c.src + c.n - 1
  BY <1>1, CopyShape
<1>3. mem' \in [Slot -> Value] /\ origin' \in [Slot -> Origins]
  BY <1>1, <1>2, MovedType DEF IInv, Types
<1>4. Types' /\ op'[t] = Idle
  BY <1>1, <1>3 DEF IInv, Types
<1>5. WrittenBy(t)' = {} /\ ReadBy(t)' = {} /\ Progress(t)'
  BY <1>4, IdleProgress
<1>6. ASSUME NEW x \in Writes(c) PROVE Safe(mem'[x], origin'[x], base'[x], size'[x])
  <2> DEFINE y == x - c.dest + c.src
  <2>1. y \in Reads(c) /\ y - c.src + c.dest = x
    BY <1>2, CopyIndex
  <2>2. mem'[x] = mem[y] /\ origin'[x] = origin[y]
    BY <1>1, <1>2, MovedFacts
  <2>3. Safe(mem[y], origin[y], base[x], size[x])
    BY <1>1, <1>2, <2>1 DEF Copying, BaseNow, SizeNow
  <2> QED BY <1>1, <2>2, <2>3
<1>7. /\ \A u \in Thread \ {t} : op'[u] = op[u]
      /\ \A s \in Slot \ Writes(c) : mem'[s] = mem[s] /\ origin'[s] = origin[s]
  BY <1>1, <1>2, MovedFacts DEF IInv, Types
<1> QED BY <1>1, <1>2, <1>4, <1>5, <1>6, <1>7, InHelper, Preserved, ZenonT(40)

LEMMA UninstrumentedStep ==
  ASSUME IInv, NEW t \in Thread, NEW s \in Slot, NEW v \in Value, StoreUninstrumented(t, s, v)
  PROVE  IInv'
<1>1. /\ Begins(t) /\ Free(t, {}, {s}) /\ mem' = [mem EXCEPT ![s] = v]
      /\ origin' = [origin EXCEPT ![s] = IF v = Null THEN "kept" ELSE "stored"]
      /\ UNCHANGED <<base, size, reg, op, alive, good>>
  BY DEF StoreUninstrumented
<1>2. op'[t] = Idle /\ WrittenBy(t) = {} /\ ops' \in 0 .. MaxOps
  BY <1>1, BeginFacts
<1>3. Types'
  BY <1>1, <1>2 DEF IInv, Types, Origins
<1>4. Progress(t)' /\ WrittenBy(t)' = {} /\ ReadBy(t)' = {}
  BY <1>2, IdleProgress
<1>5. Safe(mem'[s], origin'[s], base'[s], size'[s])
  BY <1>1 DEF IInv, Types, Safe
<1>6. \A x \in Slot \ {s} : mem'[x] = mem[x] /\ origin'[x] = origin[x]
  BY <1>1 DEF IInv, Types
<1>7. good'[t] => Fits(reg'[t].p, reg'[t].b)
  BY <1>1 DEF IInv, LoadedBoundsFit
<1> QED BY <1>1, <1>2, <1>3, <1>4, <1>5, <1>6, <1>7, Preserved DEF Free

LEMMA FormalStep ==
  ASSUME IInv, NEW t \in Thread, NEW s \in Slot, NEW v \in Value, NEW really \in BOOLEAN,
         EnterWithFormal(t, s, v, really)
  PROVE  IInv'
<1> DEFINE b == FetchOol(v)
<1>1. /\ Begins(t) /\ Free(t, {}, {s}) /\ mem' = [mem EXCEPT ![s] = v]
      /\ base' = IF really THEN [base EXCEPT ![s] = b.base] ELSE base
      /\ size' = IF really THEN [size EXCEPT ![s] = SizeStored(b.size)] ELSE size
      /\ origin' = [origin EXCEPT ![s] = IF really \/ v = Null THEN "kept" ELSE "passed"]
      /\ UNCHANGED <<reg, op, alive, good>>
  BY DEF EnterWithFormal
<1>2. op'[t] = Idle /\ WrittenBy(t) = {} /\ ops' \in 0 .. MaxOps
  BY <1>1, BeginFacts
<1>3. b \in Bounds /\ b.base \in 0 .. WordMod - 1 /\ SizeStored(b.size) \in 0 .. SizeMod - 1
  BY FetchType, SizeTypes, WordAssumption DEF Bounds
<1>4. Types'
  <2>1. base' \in [Slot -> 0 .. WordMod - 1] /\ size' \in [Slot -> 0 .. SizeMod - 1]
    BY <1>1, <1>3 DEF IInv, Types
  <2> QED BY <1>1, <1>2, <2>1 DEF IInv, Types, Origins
<1>5. Progress(t)' /\ WrittenBy(t)' = {} /\ ReadBy(t)' = {}
  BY <1>2, IdleProgress
<1>6. Safe(mem'[s], origin'[s], base'[s], size'[s])
  <2>1. CASE really
    <3>1. mem'[s] = v /\ base'[s] = b.base /\ size'[s] = SizeStored(b.size)
      BY <1>1, <2>1 DEF IInv, Types
    <3>2. Fits(v, b)
      BY DEF Fits
    <3>3. Fits(v, [base |-> b.base, size |-> SizeLoaded(SizeStored(b.size))])
      BY <1>3, <3>2, FitsStored
    <3> QED BY <3>1, <3>3 DEF Safe
  <2>2. CASE ~ really
    BY <1>1, <2>2 DEF IInv, Types, Safe
  <2> QED BY <2>1, <2>2
<1>7. \A x \in Slot \ {s} : /\ mem'[x] = mem[x] /\ origin'[x] = origin[x]
                            /\ base'[x] = base[x] /\ size'[x] = size[x]
  BY <1>1 DEF IInv, Types
<1>8. good'[t] => Fits(reg'[t].p, reg'[t].b)
  BY <1>1 DEF IInv, LoadedBoundsFit
<1>9. /\ \A u \in Thread \ {t} : op'[u] = op[u] /\ reg'[u] = reg[u] /\ good'[u] = good[u]
      /\ \A u \in Thread \ {t} : s \notin WrittenBy(u) /\ s \notin ReadBy(u)
  BY <1>1 DEF Free
<1>10. /\ {s} \in SUBSET Slot
       /\ \A u \in Thread \ {t} :
            /\ WrittenBy(u) \intersect (ReadBy(t)' \union {s} \union WrittenBy(t)') = {}
            /\ ReadBy(u) \intersect ({s} \union WrittenBy(t)') = {}
       /\ \A x \in {s} \union WrittenBy(t) : Safe(mem'[x], origin'[x], base'[x], size'[x])
  BY ONLY <1>2, <1>5, <1>6, <1>9, s \in Slot
<1> HIDE DEF b
<1> QED BY <1>4, <1>5, <1>7, <1>8, <1>9, <1>10, Preserved
-----------------------------------------------------------------------------
(* Theorems *)

LEMMA Initial == Init => IInv
<1> SUFFICES ASSUME Init PROVE IInv
  OBVIOUS
<1>1. \A t \in Thread : op[t] = Idle /\ WrittenBy(t) = {} /\ ReadBy(t) = {}
  BY DEF Init, Idle, WrittenBy, ReadBy
<1>2. null_bounds \in Bounds /\ Fits(Null, null_bounds)
  BY WordAssumption DEF null_bounds, Bounds, Fits, FetchOol
<1>3. Types
  BY <1>2, WordAssumption, PtrAssumption DEF Init, Types, Value, Origins
<1>4. NoRace /\ LoadedBoundsFit
  BY <1>1, <1>2 DEF NoRace, LoadedBoundsFit, Init
<1>5. \A t \in Thread : Progress(t)
  <2>1. Idle \in Ops /\ Idle.pc = "idle"
    BY DEF Ops, Idle
  <2> QED BY <1>1, <2>1, OpKinds DEF Progress
<1>6. Settled
  BY DEF Init, Settled, Safe
<1> QED BY <1>3, <1>4, <1>5, <1>6 DEF IInv

LEMMA StartStep ==
  ASSUME IInv, NEW t \in Thread, Start(t)
  PROVE  IInv'
<1>1. ASSUME NEW v \in Value, TakeAddress(t, v) \/ Receive(t, v) PROVE IInv'
  BY <1>1, LocalStep
<1>2. ASSUME NEW s \in Slot, Store(t, s) \/ StoreVoid(t, s) PROVE IInv'
  BY <1>2, StoreStep
<1>3. ASSUME NEW s \in Slot, Load(t, s) PROVE IInv'
  BY <1>3, LoadStep
<1>4. CASE StoreVoidDisagree(t)
  BY <1>4, DisagreeStep
<1>5. ASSUME NEW src \in Slot, NEW dest \in Slot, NEW n \in 1 .. MaxCopy, Copy(t, src, dest, n)
      PROVE  IInv'
  BY <1>5, CopyStep
<1>6. ASSUME NEW s \in Slot, NEW v \in Value, StoreUninstrumented(t, s, v) PROVE IInv'
  BY <1>6, UninstrumentedStep
<1>7. ASSUME NEW s \in Slot, NEW v \in Value, NEW really \in BOOLEAN,
             EnterWithFormal(t, s, v, really)
      PROVE  IInv'
  BY <1>7, FormalStep
<1> QED BY <1>1, <1>2, <1>3, <1>4, <1>5, <1>6, <1>7 DEF Start

LEMMA HelperStep ==
  ASSUME IInv, NEW t \in Thread, Step(t)
  PROVE  IInv'
  BY WriteBaseStep, WriteSizeStep, WritePtrStep, ReadBaseStep, ReadSizeStep, ReadPtrStep,
     CopyBasesStep, CopySizesStep, CopyPtrsStep DEF Step

LEMMA StutterStep == IInv /\ UNCHANGED vars => IInv'
  BY DEF vars, IInv, Types, NoRace, LoadedBoundsFit, Progress, Settled, Storing, Loading,
         Copying, Safe, Fits, bounds_invalid, WrittenBy, ReadBy

LEMMA Inductive == IInv /\ [Next]_vars => IInv'
<1>1. ASSUME IInv, Next PROVE IInv'
  BY <1>1, StartStep, HelperStep DEF Next
<1> QED BY <1>1, StutterStep

LEMMA IInvHolds == Spec => []IInv
  BY Initial, Inductive, PTL DEF Spec

\* Every word, shadow cell, local pointer and counter keeps its type; a shadow
\* size stays an unsigned, and what a load makes of it a 64-bit word.
THEOREM TypeCorrect == Spec => []TypeOK
<1>1. IInv => TypeOK
  BY DEF IInv, Types, TypeOK
<1> QED BY <1>1, IInvHolds, PTL

\* The base and the size that __fetch_bounds_inl finds belong to the pointer that
\* is loaded, or are invalid, whatever other threads store and copy meanwhile.
THEOREM LoadedCorrect == Spec => []LoadedBoundsFit
<1>1. IInv => LoadedBoundsFit
  BY DEF IInv
<1> QED BY <1>1, IInvHolds, PTL

\* The 32-to-64 transformation gives back the very bounds of every object below
\* 4 GiB - 1 and max bounds.
THEOREM NothingLostCorrect == Spec => []NothingLost
<1>1. ASSUME NEW v \in Value, Representable(v) PROVE Narrowed(FetchOol(v)) = FetchOol(v)
  <2>1. FetchOol(v) \in Bounds
    BY FetchType
  <2>2. FetchOol(v).size \in 0 .. SizeMod - 2 \/ FetchOol(v).size = WordMod - 1
    BY <1>1, PtrAssumption, WordAssumption DEF Representable, FetchOol, null_bounds, Value
  <2>3. SizeLoaded(SizeStored(FetchOol(v).size)) = FetchOol(v).size
    BY <2>2, SizeRoundTrip
  <2> QED BY <2>1, <2>3 DEF Narrowed, Bounds
<1>2. IInv => NothingLost
  BY <1>1 DEF IInv, Types, LoadedBoundsFit, NothingLost, Fits
<1> QED BY <1>2, IInvHolds, PTL

\* The shadow of a word that no helper is writing belongs to the pointer in it,
\* unless uninstrumented code put it there.
THEOREM FollowsCorrect == Spec => []ShadowFollowsMemory
<1>1. IInv => ShadowFollowsMemory
  BY DEF IInv, Settled, Safe, ShadowFollowsMemory
<1> QED BY <1>1, IInvHolds, PTL
=============================================================================
