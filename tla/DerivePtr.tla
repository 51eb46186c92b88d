----------------------------- MODULE DerivePtr -----------------------------
(***************************************************************************)
(* Checked pointer derivation: what the instrumentation of crunchbound.ml  *)
(* (hoistAndCheckAdjustment) and the inline checks of                      *)
(* libcrunch_cil_inlines.h make of `q = p + k` in the default (split-path, *)
(* trap-pointer, CHECK_DERIVE) build, with the lazy bounds fetch and its   *)
(* two memory-range caches, and with the SIGSEGV handler that detraps a    *)
(* trapped pointer when it is dereferenced.                                *)
(*                                                                         *)
(* A pointer is a canonical address and the two tag bits above it; Word    *)
(* gives the machine word, on which the unsigned subtractions of the code  *)
(* are done modulo 2^64.  One unit of address is one element of the        *)
(* pointee type (t->pos_maxoff), of which there is one.                    *)
(***************************************************************************)
EXTENDS Integers, FiniteSets

CONSTANTS
  Var,        \* local pointer variables of the instrumented program
  Obj,        \* allocations
  Lo, Hi,     \* an allocation's first address and the one past its last
  Kind,       \* what liballocs can say of an allocation, see Kinds
  Cacheable,  \* allocations whose allocator has is_cacheable set
  MaxAddr,    \* addresses are 1 .. MaxAddr: null and wrap-around are left out
  Offsets,    \* adjustments the program adds to pointers
  TagUnit,    \* 2^LIBCRUNCH_TRAP_TAG_SHIFT
  WordMod,    \* 2^64
  CacheSize,  \* entries of a memory-range cache
  MaxErrors,  \* bound on __libcrunch_created_invalid_pointer
  MaxFixups   \* bound on __libcrunch_fault_handler_fixups

\* "array": liballocs finds the array that holds the pointer;
\* "opaque": it finds the allocation, but no subobject of the pointee's size;
\* "unknown": the query fails (uninstrumented allocation).
Kinds == {"array", "opaque", "unknown"}

Addr == 1 .. MaxAddr

ASSUME ObjAssumption ==
  /\ MaxAddr \in Nat
  /\ Lo \in [Obj -> Addr] /\ Hi \in [Obj -> Addr] /\ Kind \in [Obj -> Kinds]
  /\ \A o \in Obj : Lo[o] < Hi[o]
  /\ \A o, p \in Obj : o # p => Hi[o] <= Lo[p] \/ Hi[p] <= Lo[o]

ASSUME WordAssumption ==
  /\ TagUnit \in Nat /\ TagUnit > MaxAddr + 1
  /\ WordMod \in Nat /\ WordMod > 4 * TagUnit + 1

ASSUME LimitAssumption ==
  /\ Offsets \subseteq Int
  /\ MaxErrors \in Nat /\ MaxFixups \in Nat

-----------------------------------------------------------------------------
(* Pointers and trap tags *)

NOT_TRAPPED == 0
ONE_PAST    == 1
ONE_BEFORE  == 2
INVALID     == 3
Tag == {NOT_TRAPPED, ONE_PAST, ONE_BEFORE, INVALID}

Ptr == [addr : Addr, tag : Tag]

Word(p) == p.tag * TagUnit + p.addr

\* Mutant: the tag is added where it should be XORed.
MutAddTag(a, b) == a + b

Xor2(a, b) == 2 * ((a \div 2 + b \div 2) % 2) + ((a + b) % 2)

trap(p, t) == [p EXCEPT !.tag = Xor2(p.tag, t)]
detrap(p)  == [p EXCEPT !.tag = NOT_TRAPPED]
is_trap_ptr(p) == p.tag # NOT_TRAPPED

\* Unsigned subtraction of machine words.
Sub(w, b) == IF w >= b THEN w - b ELSE w - b + WordMod

-----------------------------------------------------------------------------
(* Bounds *)

Bounds == [base : 0 .. WordMod - 1, size : 0 .. WordMod - 1]

make_bounds(base, limit) == [base |-> base, size |-> limit - base]
max_bounds     == make_bounds(0, WordMod - 1)
\* Bounds are invalid when their size is 0; their base, which the code sets
\* to the pointer itself, is not read.
invalid_bounds == [base |-> 0, size |-> 0]
bounds_invalid(b) == b.size = 0

ObjBounds(o) == make_bounds(Lo[o], Hi[o])

-----------------------------------------------------------------------------
VARIABLES
  val,     \* value of each pointer variable
  bnd,     \* its local bounds variable
  cache,   \* __liballocs_ool_cache: ranges with their true bounds
  fake,    \* __libcrunch_fake_bounds_cache: ranges of failed queries
  errors,  \* __libcrunch_created_invalid_pointer
  fixups,  \* __libcrunch_fault_handler_fixups
  alive,   \* FALSE once raw_exit has been called
  prov,    \* history: the allocation a variable's pointer was first made for
  clean    \* history: see CleanStep

vars == <<val, bnd, cache, fake, errors, fixups, alive, prov, clean>>

MemRange == [lo : Nat, hi : Nat]

\* Types.  Not obvious for the tags, which trap() combines by XOR, nor for the
\* addresses, which derivation and the one-past adjustment move.
TypeOK ==
  /\ val \in [Var -> Ptr]
  /\ bnd \in [Var -> Bounds]
  /\ cache \subseteq MemRange
  /\ fake \subseteq MemRange
  /\ errors \in 0 .. MaxErrors
  /\ fixups \in 0 .. MaxFixups
  /\ alive \in BOOLEAN
  /\ prov \in [Var -> Obj]
  /\ clean \in [Var -> BOOLEAN]

-----------------------------------------------------------------------------
(* Fetching bounds: __fetch_bounds_ool.  Each operator below gives the set *)
(* of possible outcomes: the bounds returned and the caches afterwards.    *)

\* A cache of liballocs replaces some entry when it is full.
Insert(c, r) ==
  IF Cardinality(c) < CacheSize THEN {c \union {r}}
                                ELSE {(c \ {x}) \union {r} : x \in c}

Hits(c, q) == {r \in c : r.lo <= Word(q) /\ Word(q) < r.hi}

\* Mutant: a one-past pointer is detrapped but looked up where it points.
MutOnePastAdjusted(p) ==
  IF p.tag = ONE_PAST THEN [addr |-> p.addr, tag |-> NOT_TRAPPED] ELSE p

\* A one-past pointer is looked up as the element before it.
OnePastAdjusted(p) ==
  IF p.tag = ONE_PAST THEN [addr |-> p.addr - 1, tag |-> NOT_TRAPPED] ELSE p

\* A fake entry grows so that it reaches past the derived pointer.
Widened(r, d) ==
  IF d.addr + 1 > r.hi THEN [r EXCEPT !.hi = d.addr + 1] ELSE r

FetchFromCache(q) ==
  {[b |-> make_bounds(r.lo, r.hi), cache |-> cache, fake |-> fake] :
     r \in Hits(cache, q)}

FetchFromFake(q, d) ==
  {[b |-> max_bounds, cache |-> cache, fake |-> (fake \ {r}) \union {Widened(r, d)}] :
     r \in Hits(fake, q)}

\* The allocations a successful query at q can be about: at most one.
KnownAt(q) ==
  {o \in Obj : /\ q.tag = NOT_TRAPPED
               /\ Kind[o] # "unknown"
               /\ Lo[o] <= q.addr /\ q.addr < Hi[o]}

\* Mutant: the upper bound of an array is one element too far.
MutFoundRange(o, q) ==
  IF Kind[o] = "array" THEN [lo |-> Lo[o], hi |-> Hi[o] + 1]
                       ELSE [lo |-> q.addr, hi |-> q.addr + 1]

FoundRange(o, q) == IF Kind[o] = "array" THEN [lo |-> Lo[o], hi |-> Hi[o]]
                                         ELSE [lo |-> q.addr, hi |-> q.addr + 1]

FakeRange(q, d) ==
  LET lesser  == IF Word(q) < Word(d) THEN Word(q) ELSE Word(d)
      greater == IF Word(q) < Word(d) THEN Word(d) ELSE Word(q)
  IN [lo |-> lesser, hi |-> greater + 1]

FetchKnown(o, q) ==
  LET r == FoundRange(o, q)
  IN {[b |-> make_bounds(r.lo, r.hi), cache |-> c, fake |-> fake] :
        c \in IF o \in Cacheable THEN Insert(cache, r) ELSE {cache}}

FetchUnknown(q, d) ==
  {[b |-> max_bounds, cache |-> cache, fake |-> f] : f \in Insert(fake, FakeRange(q, d))}

fetch_bounds_internal(q, d) ==
  IF KnownAt(q) # {} THEN UNION {FetchKnown(o, q) : o \in KnownAt(q)}
                     ELSE FetchUnknown(q, d)

fetch_bounds_ool(p, derived) ==
  LET q == OnePastAdjusted(p)
      d == OnePastAdjusted(derived)
  IN  IF Hits(cache, q) # {} THEN FetchFromCache(q)
      ELSE IF Hits(fake, q) # {} THEN FetchFromFake(q, d)
      ELSE fetch_bounds_internal(q, d)

-----------------------------------------------------------------------------
(* The derivation check *)

\* Mutant: the Austin check lets the one-past address through.
MutPrimaryCheck(d, b) == Sub(Word(d), b.base) <= b.size

primary_check(d, b) == Sub(Word(d), b.base) < b.size

\* The secondary check, once its bounds are valid: what the derived pointer
\* becomes, and whether a bounds error is raised.
BackIn(d, b)   == Sub(d.addr, b.base) < b.size
OnePast(d, b)  == Sub(d.addr, b.base) = b.size

\* Mutant: the error path traps the pointer but reports nothing.
MutSecondaryCheck(src, d, b) ==
  IF BackIn(d, b)
    THEN [ptr |-> IF is_trap_ptr(src) THEN detrap(d) ELSE d, error |-> FALSE]
  ELSE IF OnePast(d, b)
    THEN [ptr |-> trap(d, ONE_PAST), error |-> FALSE]
  ELSE [ptr |-> trap(d, INVALID), error |-> FALSE]

secondary_check(src, d, b) ==
  IF BackIn(d, b)
    THEN [ptr |-> IF is_trap_ptr(src) THEN detrap(d) ELSE d, error |-> FALSE]
  ELSE IF OnePast(d, b)
    THEN [ptr |-> trap(d, ONE_PAST), error |-> FALSE]
  ELSE [ptr |-> trap(d, INVALID), error |-> TRUE]

\* Bounds the secondary check works with.
SecondaryBounds(src, d, b) ==
  IF bounds_invalid(b) THEN fetch_bounds_ool(src, d)
                       ELSE {[b |-> b, cache |-> cache, fake |-> fake]}

\* History: the new pointer is clean when its source was, the check used
\* bounds that are not max bounds, and the source was untrapped or the
\* new pointer is back inside those bounds.
CleanStep(s, src, d, b) ==
  clean[s] /\ b # max_bounds /\ (~ is_trap_ptr(src) \/ BackIn(d, b))

-----------------------------------------------------------------------------
(* The program *)

Init ==
  /\ \E o \in Obj : prov = [v \in Var |-> o]
  /\ val = [v \in Var |-> [addr |-> Lo[prov[v]], tag |-> NOT_TRAPPED]]
  /\ bnd = [v \in Var |-> invalid_bounds]
  /\ cache = {} /\ fake = {}
  /\ errors = 0 /\ fixups = 0 /\ alive = TRUE
  /\ clean = [v \in Var |-> TRUE]

\* v = &array[i]: bounds come with the address (BoundsBaseLimitRvals).
TakeAddress(v, o, a) ==
  /\ alive
  /\ Kind[o] = "array"
  /\ Lo[o] <= a /\ a < Hi[o]
  /\ val' = [val EXCEPT ![v] = [addr |-> a, tag |-> NOT_TRAPPED]]
  /\ bnd' = [bnd EXCEPT ![v] = ObjBounds(o)]
  /\ prov' = [prov EXCEPT ![v] = o]
  /\ clean' = [clean EXCEPT ![v] = TRUE]
  /\ UNCHANGED <<cache, fake, errors, fixups, alive>>

\* v = f() with f uninstrumented: no bounds come back (__peek_result_bounds
\* with really = 0), and f may well return a plain one-past pointer.
CallUninstrumented(v, o, a) ==
  /\ alive
  /\ Lo[o] <= a /\ a <= Hi[o]
  /\ val' = [val EXCEPT ![v] = [addr |-> a, tag |-> NOT_TRAPPED]]
  /\ bnd' = [bnd EXCEPT ![v] = invalid_bounds]
  /\ prov' = [prov EXCEPT ![v] = o]
  /\ clean' = [clean EXCEPT ![v] = a < Hi[o]]
  /\ UNCHANGED <<cache, fake, errors, fixups, alive>>

\* v = s: a local pointer is assigned along with its bounds.
Assign(v, s) ==
  /\ alive /\ v # s
  /\ val' = [val EXCEPT ![v] = val[s]]
  /\ bnd' = [bnd EXCEPT ![v] = bnd[s]]
  /\ prov' = [prov EXCEPT ![v] = prov[s]]
  /\ clean' = [clean EXCEPT ![v] = clean[s]]
  /\ UNCHANGED <<cache, fake, errors, fixups, alive>>

\* The new pointer of v, and everything the derivation leaves to the
\* variables: v's bounds are the copy of s's bounds that was made before
\* the check, s keeps the bounds that the check may have fetched.
Derived(v, s, p, b2, ok) ==
  /\ val' = [val EXCEPT ![v] = p]
  /\ bnd' = [bnd EXCEPT ![s] = b2, ![v] = bnd[s]]
  /\ prov' = [prov EXCEPT ![v] = prov[s]]
  /\ clean' = [clean EXCEPT ![v] = ok]

\* v = s + k, primary check passed.  If s is trapped the code has told the
\* compiler that this cannot happen, and the pointer may come out detrapped.
DerivePrimary(v, s, k) ==
  LET src == val[s]
      d   == [src EXCEPT !.addr = @ + k]
  IN /\ alive
     /\ d.addr \in Addr
     /\ primary_check(d, bnd[s])
     /\ \E p \in {d} \union (IF is_trap_ptr(src) THEN {detrap(d)} ELSE {}) :
          Derived(v, s, p, bnd[s], CleanStep(s, src, d, bnd[s]))
     /\ UNCHANGED <<cache, fake, errors, fixups, alive>>

\* v = s + k, primary check failed: the secondary check, in full.
DeriveSecondary(v, s, k) ==
  LET src == val[s]
      d   == [src EXCEPT !.addr = @ + k]
  IN /\ alive
     /\ d.addr \in Addr
     /\ ~ primary_check(d, bnd[s])
     /\ \E f \in SecondaryBounds(src, d, bnd[s]) :
          LET res == secondary_check(src, d, f.b)
          IN /\ Derived(v, s, res.ptr, f.b, CleanStep(s, src, d, f.b))
             /\ cache' = f.cache /\ fake' = f.fake
             /\ res.error => errors < MaxErrors
             /\ errors' = IF res.error THEN errors + 1 ELSE errors
     /\ UNCHANGED <<fixups, alive>>

\* A trapped pointer is dereferenced: handle_sigsegv detraps the register the
\* operand came from, which may be v itself or a copy of it, and resumes.
FaultFixup(v) ==
  /\ alive
  /\ is_trap_ptr(val[v])
  /\ fixups < MaxFixups
  /\ fixups' = fixups + 1
  /\ \E p \in {val[v], detrap(val[v])} :
       /\ val' = [val EXCEPT ![v] = p]
       /\ clean' = [clean EXCEPT ![v] = clean[v] /\ p = val[v]]
  /\ UNCHANGED <<bnd, cache, fake, errors, alive, prov>>

\* ... or no register of the operand can be fixed up, and it exits.
FaultExit(v) ==
  /\ alive
  /\ is_trap_ptr(val[v])
  /\ alive' = FALSE
  /\ UNCHANGED <<val, bnd, cache, fake, errors, fixups, prov, clean>>

Next ==
  \/ \E v \in Var, o \in Obj, a \in Addr :
       TakeAddress(v, o, a) \/ CallUninstrumented(v, o, a)
  \/ \E v, s \in Var : Assign(v, s)
  \/ \E v, s \in Var, k \in Offsets : DerivePrimary(v, s, k) \/ DeriveSecondary(v, s, k)
  \/ \E v \in Var : FaultFixup(v) \/ FaultExit(v)

Spec == Init /\ [][Next]_vars

-----------------------------------------------------------------------------
(* Properties *)

InObject(o, a) == Lo[o] <= a /\ a < Hi[o]

\* What the tag of a pointer made for allocation o says.
TruePtr(o, p) ==
  /\ p.tag = NOT_TRAPPED => InObject(o, p.addr)
  /\ p.tag = ONE_PAST => /\ InObject(o, p.addr - 1)
                         /\ Kind[o] = "array" => p.addr = Hi[o]
  /\ p.tag = INVALID /\ Kind[o] = "array" => p.addr < Lo[o] \/ p.addr > Hi[o]
  /\ p.tag # ONE_BEFORE

\* A pointer with a clean history is dereferenceable only inside the
\* allocation it was made for, its one-past tag means that the element before
\* it is the allocation's, and an invalid tag on a pointer into an array means
\* that it has left the array: the trap tags of __secondary_check_derive_ptr
\* tell the truth about the program's pointers.
TagsTellTruth == \A v \in Var : clean[v] => TruePtr(prov[v], val[v])

\* Bounds that lie in allocation o, and are all of it when it is an array.
OwnBounds(o, b) ==
  /\ Lo[o] <= b.base /\ b.base + b.size <= Hi[o]
  /\ Kind[o] = "array" => b = ObjBounds(o)

\* Local bounds of a pointer with a clean history are missing, or max bounds,
\* or lie in the allocation the pointer was made for (and are all of it when
\* liballocs knows the array): neither the lazy fetch, with its look-up of a
\* one-past pointer as the element before, nor a cache hit "notype" hands a
\* pointer the bounds of a neighbouring allocation.
GenuineBounds ==
  \A v \in Var : clean[v] => \/ bounds_invalid(bnd[v])
                            \/ bnd[v] = max_bounds
                            \/ OwnBounds(prov[v], bnd[v])

\* The whole of a known array or one element of an opaque allocation.
TrueRange(r) ==
  \E o \in Obj :
    \/ Kind[o] = "array" /\ r = [lo |-> Lo[o], hi |-> Hi[o]]
    \/ Kind[o] = "opaque" /\ InObject(o, r.lo) /\ r.hi = r.lo + 1

\* Whatever the program does, also once it has derived from pointers that were
\* out of bounds, every entry of the cache that __fetch_bounds_from_cache
\* trusts is true of the allocations: wrong pointers never poison it.
CacheIsTrue == \A r \in cache : TrueRange(r)

\* A pointer with a tag other than one-past is never made silently:
\* __libcrunch_bounds_error has counted an invalid pointer before.
InvalidIsReported ==
  (\E v \in Var : val[v].tag \in {ONE_BEFORE, INVALID}) => errors > 0
=============================================================================
