-------------------------- MODULE DerivePtrProofs --------------------------
(***************************************************************************)
(* Proofs about DerivePtr, for every set of variables, every layout of     *)
(* disjoint allocations and every bound.                                   *)
(***************************************************************************)
EXTENDS DerivePtr, TLAPS

\* Pointers as the fetch looks them up: a one-past pointer at the lowest
\* address is looked up below it.
LookedUp == [addr : 0 .. MaxAddr, tag : Tag]

\* The invariant that is inductive: types, true tags, genuine bounds and a
\* true cache need each other.
IInv == TypeOK /\ TagsTellTruth /\ GenuineBounds /\ CacheIsTrue

\* Constant facts in the form the provers use them.
LEMMA Constants ==
  /\ MaxAddr \in Nat /\ TagUnit \in Nat /\ WordMod \in Nat
  /\ TagUnit > MaxAddr + 1 /\ WordMod > 4 * TagUnit + 1
  /\ \A o \in Obj : /\ Lo[o] \in Nat /\ Hi[o] \in Nat /\ Lo[o] >= 1
                    /\ Lo[o] < Hi[o] /\ Hi[o] <= MaxAddr /\ Kind[o] \in Kinds
  BY ObjAssumption, WordAssumption DEF Addr

\* XORing two-bit tags gives a two-bit tag.
LEMMA XorType == \A a, b \in Tag : Xor2(a, b) \in Tag
  BY DEF Tag, NOT_TRAPPED, ONE_PAST, ONE_BEFORE, INVALID, Xor2

\* An untrapped pointer is its own word; a trapped one is above all addresses.
LEMMA WordFacts ==
  ASSUME NEW p \in LookedUp
  PROVE  /\ Word(p) \in Nat
         /\ Word(p) < WordMod - 1
         /\ p.tag = NOT_TRAPPED => Word(p) = p.addr
         /\ p.tag # NOT_TRAPPED => Word(p) > MaxAddr + 1
<1>1. p.addr \in 0 .. MaxAddr /\ p.tag \in {0, 1, 2, 3}
  BY DEF LookedUp, Tag, NOT_TRAPPED, ONE_PAST, ONE_BEFORE, INVALID
<1>2. CASE p.tag = 0
  BY <1>1, <1>2, Constants DEF Word, NOT_TRAPPED
<1>3. CASE p.tag = 1
  BY <1>1, <1>3, Constants DEF Word, NOT_TRAPPED
<1>4. CASE p.tag = 2
  BY <1>1, <1>4, Constants DEF Word, NOT_TRAPPED
<1>5. CASE p.tag = 3
  BY <1>1, <1>5, Constants DEF Word, NOT_TRAPPED
<1> QED BY <1>1, <1>2, <1>3, <1>4, <1>5

\* Trapping, detrapping and the one-past adjustment give pointers.
LEMMA PtrOps ==
  ASSUME NEW p \in Ptr
  PROVE  /\ detrap(p) \in Ptr
         /\ \A t \in Tag : trap(p, t) \in Ptr /\ trap(p, t).addr = p.addr
                           /\ trap(p, t).tag = Xor2(p.tag, t)
         /\ p \in LookedUp
         /\ OnePastAdjusted(p) \in LookedUp
         /\ p.tag # ONE_PAST => OnePastAdjusted(p) = p
         /\ p.tag = ONE_PAST => /\ OnePastAdjusted(p).addr = p.addr - 1
                                /\ OnePastAdjusted(p).tag = NOT_TRAPPED
<1>1. p.tag \in Tag /\ p.addr \in Addr /\ NOT_TRAPPED \in Tag
  BY DEF Ptr, Tag
<1>2. \A t \in Tag : trap(p, t) \in Ptr /\ trap(p, t).addr = p.addr
                           /\ trap(p, t).tag = Xor2(p.tag, t)
  BY <1>1, XorType DEF Ptr, trap
<1>3. detrap(p) \in Ptr /\ p \in LookedUp
  BY <1>1, Constants DEF Ptr, LookedUp, detrap, Addr
<1>4. OnePastAdjusted(p) \in LookedUp
  BY <1>1, Constants DEF Ptr, LookedUp, OnePastAdjusted, Addr
<1> QED BY <1>2, <1>3, <1>4 DEF OnePastAdjusted

\* Putting an entry into a cache adds no other entry.
LEMMA InsertAdds ==
  ASSUME NEW c, NEW r, NEW x \in Insert(c, r)
  PROVE  x \subseteq c \union {r}
  BY DEF Insert

\* Max bounds are valid bounds.
LEMMA MaxBoundsFacts ==
  max_bounds \in Bounds /\ max_bounds.base = 0 /\ max_bounds.size = WordMod - 1
  BY Constants DEF max_bounds, make_bounds, Bounds

\* The range liballocs reports for a known allocation is true of it, and
\* holds the pointer that was looked up.
LEMMA FoundRangeFacts ==
  ASSUME NEW q \in LookedUp, NEW o \in KnownAt(q)
  PROVE  LET r == FoundRange(o, q)
         IN /\ r \in MemRange /\ TrueRange(r) /\ r.lo < r.hi
            /\ OwnBounds(o, make_bounds(r.lo, r.hi))
            /\ make_bounds(r.lo, r.hi) \in Bounds
<1>1. /\ o \in Obj /\ q.addr \in Nat /\ Lo[o] \in Nat /\ Hi[o] \in Nat
      /\ Hi[o] < WordMod /\ WordMod \in Nat
      /\ Lo[o] < Hi[o] /\ Lo[o] <= q.addr /\ q.addr < Hi[o]
      /\ Kind[o] \in {"array", "opaque"}
  BY Constants DEF KnownAt, LookedUp, Kinds
<1>2. CASE Kind[o] = "array"
  BY <1>1, <1>2 DEF FoundRange, MemRange, TrueRange, OwnBounds, ObjBounds, make_bounds, Bounds
<1>3. CASE Kind[o] = "opaque"
  BY <1>1, <1>3 DEF FoundRange, MemRange, TrueRange, OwnBounds, make_bounds, Bounds, InObject
<1> QED BY <1>1, <1>2, <1>3

\* What __fetch_bounds_ool returns: valid bounds, always; and unless they are
\* max bounds, the bounds of the allocation in which the pointer (or the
\* element before a one-past pointer) lies.  The cache stays true.
LEMMA FetchFacts ==
  ASSUME cache \subseteq MemRange, fake \subseteq MemRange, CacheIsTrue,
         NEW p \in Ptr, NEW derived \in Ptr,
         NEW f \in fetch_bounds_ool(p, derived)
  PROVE  /\ f.b \in Bounds /\ f.b.size # 0
         /\ f.cache \subseteq MemRange /\ f.fake \subseteq MemRange
         /\ \A r \in f.cache : TrueRange(r)
         /\ \/ f.b = max_bounds
            \/ \E o \in Obj : /\ OwnBounds(o, f.b)
                             /\ OnePastAdjusted(p).tag = NOT_TRAPPED
                             /\ InObject(o, OnePastAdjusted(p).addr)
<1> DEFINE q == OnePastAdjusted(p)
           d == OnePastAdjusted(derived)
<1>q. q \in LookedUp /\ d \in LookedUp /\ q.addr \in Nat /\ d.addr \in Nat
  <2>1. q \in LookedUp /\ d \in LookedUp
    BY PtrOps
  <2> HIDE DEF q, d
  <2> QED BY <2>1 DEF LookedUp
<1>w. /\ Word(q) \in Nat /\ Word(d) \in Nat
      /\ q.tag = NOT_TRAPPED => Word(q) = q.addr
      /\ q.tag # NOT_TRAPPED => Word(q) > MaxAddr + 1
  BY <1>q, WordFacts
<1>f. f \in IF Hits(cache, q) # {} THEN FetchFromCache(q)
           ELSE IF Hits(fake, q) # {} THEN FetchFromFake(q, d)
           ELSE IF KnownAt(q) # {} THEN UNION {FetchKnown(o, q) : o \in KnownAt(q)}
           ELSE FetchUnknown(q, d)
  BY DEF fetch_bounds_ool, fetch_bounds_internal
<1> HIDE DEF q, d
<1>1. ASSUME f \in FetchFromCache(q) PROVE
         /\ f.b \in Bounds /\ f.b.size # 0
         /\ f.cache = cache /\ f.fake = fake
         /\ \E o \in Obj : OwnBounds(o, f.b) /\ q.tag = NOT_TRAPPED /\ InObject(o, q.addr)
  <2>1. PICK r \in cache : /\ r.lo <= Word(q) /\ Word(q) < r.hi
                           /\ f = [b |-> make_bounds(r.lo, r.hi), cache |-> cache, fake |-> fake]
    BY <1>1 DEF FetchFromCache, Hits
  <2>2. PICK o \in Obj :
          \/ Kind[o] = "array" /\ r = [lo |-> Lo[o], hi |-> Hi[o]]
          \/ Kind[o] = "opaque" /\ InObject(o, r.lo) /\ r.hi = r.lo + 1
    BY CacheIsTrue DEF CacheIsTrue, TrueRange
  <2>3. /\ r.lo \in Nat /\ r.hi \in Nat /\ Lo[o] \in Nat /\ Hi[o] \in Nat /\ MaxAddr \in Nat
        /\ Lo[o] < Hi[o] /\ Hi[o] <= MaxAddr
    BY cache \subseteq MemRange, Constants DEF MemRange
  <2>4. r.hi <= MaxAddr /\ r.lo < r.hi /\ Lo[o] <= r.lo /\ r.hi <= Hi[o]
    BY <2>1, <2>2, <2>3, <1>w DEF InObject
  <2>5. q.tag = NOT_TRAPPED /\ Word(q) = q.addr
    BY <2>1, <2>3, <2>4, <1>w
  <2>6. InObject(o, q.addr)
    BY <2>1, <2>3, <2>4, <2>5, <1>q DEF InObject
  <2>7. OwnBounds(o, make_bounds(r.lo, r.hi))
    BY <2>2, <2>3, <2>4 DEF OwnBounds, make_bounds, ObjBounds
  <2>8. make_bounds(r.lo, r.hi) \in Bounds /\ make_bounds(r.lo, r.hi).size # 0
    BY <2>3, <2>4, Constants DEF make_bounds, Bounds
  <2> QED BY <2>1, <2>5, <2>6, <2>7, <2>8
<1>2. ASSUME f \in FetchFromFake(q, d) PROVE
         f.b = max_bounds /\ f.cache = cache /\ f.fake \subseteq MemRange
  <2>1. PICK r \in fake : f = [b |-> max_bounds, cache |-> cache,
                               fake |-> (fake \ {r}) \union {Widened(r, d)}]
    BY <1>2 DEF FetchFromFake, Hits
  <2>2. Widened(r, d) \in MemRange
    BY <1>q, fake \subseteq MemRange DEF Widened, MemRange
  <2> QED BY <2>1, <2>2, fake \subseteq MemRange
<1>3. ASSUME NEW o \in KnownAt(q), f \in FetchKnown(o, q) PROVE
         /\ f.b \in Bounds /\ f.b.size # 0
         /\ f.cache \subseteq MemRange /\ f.fake = fake
         /\ \A r \in f.cache : TrueRange(r)
         /\ o \in Obj /\ OwnBounds(o, f.b) /\ q.tag = NOT_TRAPPED /\ InObject(o, q.addr)
  <2> DEFINE r == FoundRange(o, q)
  <2>1. /\ r \in MemRange /\ TrueRange(r) /\ r.lo < r.hi
        /\ OwnBounds(o, make_bounds(r.lo, r.hi)) /\ make_bounds(r.lo, r.hi) \in Bounds
    BY <1>q, FoundRangeFacts
  <2>2. PICK c \in (IF o \in Cacheable THEN Insert(cache, r) ELSE {cache}) :
          f = [b |-> make_bounds(r.lo, r.hi), cache |-> c, fake |-> fake]
    BY <1>3 DEF FetchKnown
  <2>3. c \subseteq cache \union {r}
    BY <2>2, InsertAdds
  <2> HIDE DEF r
  <2>4. make_bounds(r.lo, r.hi).size # 0
    BY <2>1 DEF make_bounds, MemRange
  <2>5. o \in Obj /\ q.tag = NOT_TRAPPED /\ InObject(o, q.addr)
    BY DEF KnownAt, InObject
  <2>6. \A x \in c : TrueRange(x) /\ x \in MemRange
    BY <2>1, <2>3, CacheIsTrue, cache \subseteq MemRange DEF CacheIsTrue
  <2> QED BY <2>1, <2>2, <2>4, <2>5, <2>6
<1>4. ASSUME f \in FetchUnknown(q, d) PROVE
         f.b = max_bounds /\ f.cache = cache /\ f.fake \subseteq MemRange
  <2>1. PICK c \in Insert(fake, FakeRange(q, d)) :
          f = [b |-> max_bounds, cache |-> cache, fake |-> c]
    BY <1>4 DEF FetchUnknown
  <2>2. FakeRange(q, d) \in MemRange
    BY <1>w DEF FakeRange, MemRange
  <2> QED BY <2>1, <2>2, InsertAdds, fake \subseteq MemRange
<1>5. max_bounds \in Bounds /\ max_bounds.size # 0
  BY MaxBoundsFacts, Constants
<1>6. CASE f \in FetchFromCache(q)
  BY <1>6, <1>1, CacheIsTrue DEF CacheIsTrue, q
<1>7. CASE f \in FetchFromFake(q, d) \/ f \in FetchUnknown(q, d)
  BY <1>7, <1>2, <1>4, <1>5, CacheIsTrue DEF CacheIsTrue
<1>8. CASE f \in UNION {FetchKnown(o, q) : o \in KnownAt(q)}
  BY <1>8, <1>3 DEF q
<1> QED BY <1>f, <1>6, <1>7, <1>8

\* An address lies in one allocation at most.
LEMMA OneObject ==
  ASSUME NEW o \in Obj, NEW p \in Obj, NEW a \in Int, InObject(o, a), InObject(p, a)
  PROVE  o = p
  BY ObjAssumption, Constants DEF InObject

\* Where an unsigned difference with an allocation's bounds puts an address.
LEMMA AustinFacts ==
  ASSUME NEW o \in Obj, NEW b \in Bounds, OwnBounds(o, b), NEW a \in Nat, a < WordMod - 1
  PROVE  /\ Sub(a, b.base) \in Nat
         /\ Sub(a, b.base) < b.size => b.base <= a /\ a < b.base + b.size
         /\ Sub(a, b.base) = b.size /\ a <= MaxAddr => a = b.base + b.size
         /\ b.base <= a /\ a <= b.base + b.size => Sub(a, b.base) <= b.size
<1>1. /\ b.base \in Nat /\ b.size \in Nat /\ Lo[o] \in Nat /\ Hi[o] \in Nat /\ Hi[o] <= MaxAddr
      /\ MaxAddr \in Nat /\ WordMod \in Nat /\ TagUnit \in Nat
      /\ TagUnit > MaxAddr + 1 /\ WordMod > 4 * TagUnit + 1
  BY Constants DEF Bounds
<1>2. b.base + b.size <= MaxAddr
  BY <1>1 DEF OwnBounds
<1> QED BY <1>1, <1>2 DEF Sub

\* The heart of the check: with bounds of its own allocation, from an
\* untrapped pointer or back into bounds, the secondary check makes a pointer
\* whose tag tells the truth.
LEMMA SecondaryTruth ==
  ASSUME NEW o \in Obj, NEW src \in Ptr, NEW d \in Ptr, d.tag = src.tag,
         NEW b \in Bounds, b.size # 0, OwnBounds(o, b),
         ~ is_trap_ptr(src) \/ BackIn(d, b)
  PROVE  TruePtr(o, secondary_check(src, d, b).ptr)
<1>1. /\ d.addr \in Nat /\ d.addr <= MaxAddr /\ d.addr < WordMod - 1
      /\ b.base \in Nat /\ b.size \in Nat
      /\ Lo[o] \in Nat /\ Hi[o] \in Nat /\ Lo[o] <= b.base /\ b.base + b.size <= Hi[o]
      /\ Kind[o] = "array" => b.base = Lo[o] /\ b.base + b.size = Hi[o]
  BY Constants DEF Ptr, Addr, Bounds, OwnBounds, ObjBounds, make_bounds
<1>2. /\ Sub(d.addr, b.base) \in Nat
      /\ Sub(d.addr, b.base) < b.size => b.base <= d.addr /\ d.addr < b.base + b.size
      /\ Sub(d.addr, b.base) = b.size => d.addr = b.base + b.size
      /\ b.base <= d.addr /\ d.addr <= b.base + b.size => Sub(d.addr, b.base) <= b.size
  BY <1>1, AustinFacts
<1>3. CASE BackIn(d, b)
  <2> DEFINE p == secondary_check(src, d, b).ptr
  <2>1. p.addr = d.addr /\ p.tag = NOT_TRAPPED
    <3>1. p = IF is_trap_ptr(src) THEN detrap(d) ELSE d
      BY <1>3 DEF secondary_check
    <3>2. detrap(d).addr = d.addr /\ detrap(d).tag = NOT_TRAPPED
      BY DEF detrap, Ptr
    <3> QED BY <3>1, <3>2 DEF is_trap_ptr
  <2>2. InObject(o, d.addr)
    BY <1>1, <1>2, <1>3 DEF BackIn, InObject
  <2> HIDE DEF p
  <2>3. TruePtr(o, p)
    BY <2>1, <2>2 DEF TruePtr, NOT_TRAPPED, ONE_PAST, ONE_BEFORE, INVALID
  <2> QED BY <2>3 DEF p
<1>4. CASE ~ BackIn(d, b) /\ OnePast(d, b)
  <2> DEFINE p == trap(d, ONE_PAST)
  <2>1. p.addr = d.addr /\ p.tag = ONE_PAST
    BY <1>4, PtrOps DEF is_trap_ptr, Xor2, NOT_TRAPPED, ONE_PAST, Tag
  <2>2. d.addr = b.base + b.size
    BY <1>2, <1>4 DEF OnePast
  <2> HIDE DEF p
  <2>3. TruePtr(o, p)
    BY <2>1, <2>2, <1>1, b.size # 0
       DEF TruePtr, InObject, NOT_TRAPPED, ONE_PAST, ONE_BEFORE, INVALID
  <2> QED BY <1>4, <2>3 DEF p, secondary_check
<1>5. CASE ~ BackIn(d, b) /\ ~ OnePast(d, b)
  <2> DEFINE p == trap(d, INVALID)
  <2>1. p.addr = d.addr /\ p.tag = INVALID
    BY <1>5, PtrOps DEF is_trap_ptr, Xor2, NOT_TRAPPED, INVALID, Tag
  <2>2. d.addr < b.base \/ d.addr > b.base + b.size
    BY <1>1, <1>2, <1>5 DEF BackIn, OnePast
  <2> HIDE DEF p
  <2>3. TruePtr(o, p)
    BY <2>1, <2>2, <1>1 DEF TruePtr, NOT_TRAPPED, ONE_PAST, ONE_BEFORE, INVALID
  <2> QED BY <1>5, <2>3 DEF p, secondary_check
<1> QED BY <1>3, <1>4, <1>5

\* The primary check passes for an untrapped pointer inside the bounds only.
LEMMA PrimaryTruth ==
  ASSUME NEW o \in Obj, NEW d \in Ptr, NEW b \in Bounds, OwnBounds(o, b), primary_check(d, b)
  PROVE  TruePtr(o, d) /\ d.tag = NOT_TRAPPED
<1>1. /\ Word(d) \in Nat /\ Word(d) < WordMod - 1
      /\ d.tag = NOT_TRAPPED => Word(d) = d.addr
      /\ d.tag # NOT_TRAPPED => Word(d) > MaxAddr + 1
  BY WordFacts, PtrOps
<1>2. b.base <= Word(d) /\ Word(d) < b.base + b.size
  BY <1>1, AustinFacts DEF primary_check
<1>3. /\ Lo[o] \in Nat /\ Hi[o] \in Nat /\ Hi[o] <= MaxAddr /\ MaxAddr \in Nat
      /\ b.base \in Nat /\ b.size \in Nat
      /\ Lo[o] <= b.base /\ b.base + b.size <= Hi[o]
  BY Constants DEF Bounds, OwnBounds
<1>4. d.tag = NOT_TRAPPED
  BY <1>1, <1>2, <1>3
<1>5. InObject(o, d.addr)
  BY <1>1, <1>2, <1>3, <1>4 DEF InObject
<1> QED BY <1>4, <1>5 DEF TruePtr, NOT_TRAPPED, ONE_PAST, ONE_BEFORE, INVALID

\* Variables and caches of a state that satisfies the invariant.
LEMMA InvFacts ==
  ASSUME IInv, NEW s \in Var, NEW k \in Int, val[s].addr + k \in Addr
  PROVE  LET d == [val[s] EXCEPT !.addr = @ + k]
         IN /\ val[s] \in Ptr /\ bnd[s] \in Bounds /\ prov[s] \in Obj /\ clean[s] \in BOOLEAN
            /\ d \in Ptr /\ d.tag = val[s].tag /\ d.addr = val[s].addr + k
  BY DEF IInv, TypeOK, Ptr

\* The bounds the secondary check works with: valid, and those of the source
\* pointer's own allocation or max bounds when its history is clean.
LEMMA SecondaryBoundsFacts ==
  ASSUME IInv, NEW s \in Var, NEW d \in Ptr, NEW f \in SecondaryBounds(val[s], d, bnd[s])
  PROVE  /\ f.b \in Bounds /\ f.b.size # 0
         /\ f.cache \subseteq MemRange /\ f.fake \subseteq MemRange
         /\ \A r \in f.cache : TrueRange(r)
         /\ clean[s] => f.b = max_bounds \/ OwnBounds(prov[s], f.b)
<1>1. /\ val[s] \in Ptr /\ bnd[s] \in Bounds /\ prov[s] \in Obj
      /\ cache \subseteq MemRange /\ fake \subseteq MemRange /\ CacheIsTrue
  BY DEF IInv, TypeOK
<1>2. CASE ~ bounds_invalid(bnd[s])
  <2>1. f = [b |-> bnd[s], cache |-> cache, fake |-> fake]
    BY <1>2 DEF SecondaryBounds
  <2> QED BY <1>1, <1>2, <2>1 DEF IInv, GenuineBounds, bounds_invalid, CacheIsTrue
<1>3. CASE bounds_invalid(bnd[s])
  <2> DEFINE q == OnePastAdjusted(val[s])
  <2>1. f \in fetch_bounds_ool(val[s], d)
    BY <1>3 DEF SecondaryBounds
  <2>2. /\ f.b \in Bounds /\ f.b.size # 0
        /\ f.cache \subseteq MemRange /\ f.fake \subseteq MemRange
        /\ \A r \in f.cache : TrueRange(r)
        /\ \/ f.b = max_bounds
           \/ \E o \in Obj : OwnBounds(o, f.b) /\ q.tag = NOT_TRAPPED /\ InObject(o, q.addr)
    BY <1>1, <2>1, FetchFacts
  <2>3. ASSUME clean[s], NEW o \in Obj, OwnBounds(o, f.b), q.tag = NOT_TRAPPED, InObject(o, q.addr)
        PROVE  OwnBounds(prov[s], f.b)
    <3>1. TruePtr(prov[s], val[s])
      BY <2>3 DEF IInv, TagsTellTruth
    <3>2. val[s].tag \in {NOT_TRAPPED, ONE_PAST}
      <4>1. val[s].tag # ONE_PAST => q.tag = val[s].tag
        BY <1>1, PtrOps
      <4> QED BY <4>1, <2>3
    <3>3. InObject(prov[s], q.addr)
      <4>1. CASE val[s].tag = NOT_TRAPPED
        BY <4>1, <1>1, <3>1, PtrOps DEF TruePtr, NOT_TRAPPED, ONE_PAST
      <4>2. CASE val[s].tag = ONE_PAST
        BY <4>2, <1>1, <3>1, PtrOps DEF TruePtr, NOT_TRAPPED, ONE_PAST
      <4> QED BY <3>2, <4>1, <4>2
    <3>4. q.addr \in Int
      BY <1>1, PtrOps DEF LookedUp
    <3>5. o = prov[s]
      BY <1>1, <2>3, <3>3, <3>4, OneObject
    <3> QED BY <3>5, <2>3
  <2> QED BY <2>2, <2>3
<1> QED BY <1>2, <1>3

\* Every initial state satisfies the invariant.
LEMMA InitInv == Init => IInv
<1> SUFFICES ASSUME Init PROVE IInv OBVIOUS
<1>1. PICK o \in Obj : prov = [v \in Var |-> o]
  BY DEF Init
<1>2. Lo[o] \in Addr /\ Lo[o] < Hi[o] /\ Hi[o] \in Addr
  BY ObjAssumption
<1>3. val = [v \in Var |-> [addr |-> Lo[o], tag |-> NOT_TRAPPED]]
  BY <1>1 DEF Init
<1>4. TypeOK
  BY <1>1, <1>2, <1>3, LimitAssumption, Constants
     DEF Init, TypeOK, Ptr, Tag, Bounds, invalid_bounds
<1>5. TagsTellTruth
  BY <1>1, <1>2, <1>3 DEF TagsTellTruth, TruePtr, InObject, Addr,
       NOT_TRAPPED, ONE_PAST, ONE_BEFORE, INVALID
<1>6. GenuineBounds
  BY DEF Init, GenuineBounds, bounds_invalid, invalid_bounds
<1>7. CacheIsTrue
  BY DEF Init, CacheIsTrue
<1> QED BY <1>4, <1>5, <1>6, <1>7 DEF IInv

\* Pointers made without a check.
LEMMA TakeAddressInv ==
  ASSUME IInv, NEW v \in Var, NEW o \in Obj, NEW a \in Addr, TakeAddress(v, o, a)
  PROVE  IInv'
<1>1. /\ val' = [val EXCEPT ![v] = [addr |-> a, tag |-> NOT_TRAPPED]]
      /\ bnd' = [bnd EXCEPT ![v] = ObjBounds(o)]
      /\ prov' = [prov EXCEPT ![v] = o] /\ clean' = [clean EXCEPT ![v] = TRUE]
      /\ UNCHANGED <<cache, fake, errors, fixups, alive>>
      /\ InObject(o, a) /\ Kind[o] = "array"
  BY DEF TakeAddress, InObject
<1>2. ObjBounds(o) \in Bounds /\ OwnBounds(o, ObjBounds(o))
  BY Constants DEF ObjBounds, make_bounds, Bounds, OwnBounds
<1>3. TypeOK'
  BY <1>1, <1>2 DEF IInv, TypeOK, Ptr, Tag
<1>4. TagsTellTruth'
  BY <1>1 DEF IInv, TypeOK, TagsTellTruth, TruePtr, NOT_TRAPPED, ONE_PAST, ONE_BEFORE, INVALID
<1>5. GenuineBounds'
  BY <1>1, <1>2 DEF IInv, TypeOK, GenuineBounds
<1>6. CacheIsTrue'
  BY <1>1 DEF IInv, CacheIsTrue
<1> QED BY <1>3, <1>4, <1>5, <1>6 DEF IInv

\* A pointer that comes back from an uninstrumented call has no bounds, and is
\* clean only inside its allocation.
LEMMA CallUninstrumentedInv ==
  ASSUME IInv, NEW v \in Var, NEW o \in Obj, NEW a \in Addr, CallUninstrumented(v, o, a)
  PROVE  IInv'
<1>1. /\ val' = [val EXCEPT ![v] = [addr |-> a, tag |-> NOT_TRAPPED]]
      /\ bnd' = [bnd EXCEPT ![v] = invalid_bounds]
      /\ prov' = [prov EXCEPT ![v] = o] /\ clean' = [clean EXCEPT ![v] = a < Hi[o]]
      /\ UNCHANGED <<cache, fake, errors, fixups, alive>>
      /\ a < Hi[o] => InObject(o, a)
  BY DEF CallUninstrumented, InObject
<1>3. TypeOK'
  BY <1>1, Constants DEF IInv, TypeOK, Ptr, Tag, Bounds, invalid_bounds
<1>4. TagsTellTruth'
  <2> SUFFICES ASSUME NEW w \in Var, clean'[w] PROVE TruePtr(prov[w], val[w])'
    BY DEF TagsTellTruth
  <2>1. CASE w = v
    <3>1. a < Hi[o]
      BY <2>1, <1>1 DEF IInv, TypeOK
    <3>2. InObject(o, a)
      BY <3>1, <1>1
    <3>3. prov'[w] = o /\ val'[w] = [addr |-> a, tag |-> NOT_TRAPPED]
      BY <2>1, <1>1 DEF IInv, TypeOK
    <3> QED BY <3>2, <3>3 DEF TruePtr, InObject, NOT_TRAPPED, ONE_PAST, ONE_BEFORE, INVALID
  <2>2. CASE w # v
    BY <2>2, <1>1 DEF IInv, TypeOK, TagsTellTruth, TruePtr, InObject
  <2> QED BY <2>1, <2>2
<1>5. GenuineBounds'
  BY <1>1 DEF IInv, TypeOK, GenuineBounds, bounds_invalid, invalid_bounds
<1>6. CacheIsTrue'
  BY <1>1 DEF IInv, CacheIsTrue
<1> QED BY <1>3, <1>4, <1>5, <1>6 DEF IInv

\* A copied pointer is as clean as its source and shares its bounds.
LEMMA AssignInv ==
  ASSUME IInv, NEW v \in Var, NEW s \in Var, Assign(v, s)
  PROVE  IInv'
<1>3. TypeOK'
  BY DEF IInv, TypeOK, Assign
<1>4. TagsTellTruth'
  BY DEF IInv, TypeOK, TagsTellTruth, Assign
<1>5. GenuineBounds'
  BY DEF IInv, TypeOK, GenuineBounds, Assign
<1>6. CacheIsTrue'
  BY DEF IInv, CacheIsTrue, Assign
<1> QED BY <1>3, <1>4, <1>5, <1>6 DEF IInv

\* The handler's fixup detraps a pointer, which is not clean afterwards.
LEMMA FaultInv ==
  ASSUME IInv, NEW v \in Var, FaultFixup(v) \/ FaultExit(v)
  PROVE  IInv'
<1>1. CASE FaultFixup(v)
  <2>1. PICK p \in {val[v], detrap(val[v])} :
          /\ val' = [val EXCEPT ![v] = p]
          /\ clean' = [clean EXCEPT ![v] = clean[v] /\ p = val[v]]
    BY <1>1 DEF FaultFixup
  <2>2. p \in Ptr
    BY PtrOps DEF IInv, TypeOK
  <2>3. fixups' = fixups + 1 /\ fixups < MaxFixups
        /\ UNCHANGED <<bnd, cache, fake, errors, alive, prov>>
    BY <1>1 DEF FaultFixup
  <2>4. TypeOK'
    BY <2>1, <2>2, <2>3, LimitAssumption DEF IInv, TypeOK
  <2>5. TagsTellTruth'
    BY <2>1, <2>3 DEF IInv, TypeOK, TagsTellTruth
  <2>6. GenuineBounds'
    BY <2>1, <2>3 DEF IInv, TypeOK, GenuineBounds
  <2>7. CacheIsTrue'
    BY <2>3 DEF IInv, CacheIsTrue
  <2> QED BY <2>4, <2>5, <2>6, <2>7 DEF IInv
<1>2. CASE FaultExit(v)
  BY <1>2 DEF FaultExit, IInv, TypeOK, TagsTellTruth, GenuineBounds, CacheIsTrue
<1> QED BY <1>1, <1>2

\* What a derivation leaves to the variables keeps the invariant's two parts
\* about them, given what holds of the new pointer and of the fetched bounds.
LEMMA DerivedInv ==
  ASSUME IInv, NEW v \in Var, NEW s \in Var, NEW p \in Ptr, NEW b2 \in Bounds,
         NEW ok \in BOOLEAN, Derived(v, s, p, b2, ok),
         ok => clean[s] /\ TruePtr(prov[s], p),
         clean[s] => bounds_invalid(b2) \/ b2 = max_bounds \/ OwnBounds(prov[s], b2)
  PROVE  /\ val' \in [Var -> Ptr] /\ bnd' \in [Var -> Bounds]
         /\ prov' \in [Var -> Obj] /\ clean' \in [Var -> BOOLEAN]
         /\ TagsTellTruth' /\ GenuineBounds'
<1>1. /\ val' = [val EXCEPT ![v] = p]
      /\ bnd' = [bnd EXCEPT ![s] = b2, ![v] = bnd[s]]
      /\ prov' = [prov EXCEPT ![v] = prov[s]]
      /\ clean' = [clean EXCEPT ![v] = ok]
  BY DEF Derived
<1>2. /\ val \in [Var -> Ptr] /\ bnd \in [Var -> Bounds]
      /\ prov \in [Var -> Obj] /\ clean \in [Var -> BOOLEAN]
  BY DEF IInv, TypeOK
<1>3. /\ val' \in [Var -> Ptr] /\ bnd' \in [Var -> Bounds]
      /\ prov' \in [Var -> Obj] /\ clean' \in [Var -> BOOLEAN]
  BY <1>1, <1>2
<1>4. TagsTellTruth'
  <2> SUFFICES ASSUME NEW w \in Var, clean'[w] PROVE TruePtr(prov'[w], val'[w])
    BY DEF TagsTellTruth, TruePtr, InObject
  <2>1. CASE w = v
    BY <2>1, <1>1, <1>2
  <2>2. CASE w # v
    BY <2>2, <1>1, <1>2 DEF IInv, TagsTellTruth
  <2> QED BY <2>1, <2>2
<1>5. GenuineBounds'
  <2> SUFFICES ASSUME NEW w \in Var, clean'[w]
               PROVE  \/ bounds_invalid(bnd'[w])
                      \/ bnd'[w] = max_bounds
                      \/ OwnBounds(prov'[w], bnd'[w])
    BY DEF GenuineBounds, OwnBounds, ObjBounds, make_bounds, max_bounds, bounds_invalid
  <2>1. CASE w = v
    BY <2>1, <1>1, <1>2 DEF IInv, GenuineBounds
  <2>2. CASE w # v /\ w = s
    BY <2>2, <1>1, <1>2
  <2>3. CASE w # v /\ w # s
    BY <2>3, <1>1, <1>2 DEF IInv, GenuineBounds
  <2> QED BY <2>1, <2>2, <2>3
<1> QED BY <1>3, <1>4, <1>5

\* v = s + k with a passing primary check.
LEMMA DerivePrimaryInv ==
  ASSUME IInv, NEW v \in Var, NEW s \in Var, NEW k \in Offsets, DerivePrimary(v, s, k)
  PROVE  IInv'
<1> DEFINE src == val[s]
           d   == [src EXCEPT !.addr = @ + k]
           ok  == CleanStep(s, src, d, bnd[s])
<1>1. /\ d.addr \in Addr
      /\ primary_check(d, bnd[s])
      /\ \E p \in {d} \union (IF is_trap_ptr(src) THEN {detrap(d)} ELSE {}) :
           Derived(v, s, p, bnd[s], ok)
      /\ UNCHANGED <<cache, fake, errors, fixups, alive>>
  BY DEF DerivePrimary
<1>2. k \in Int /\ src.addr + k \in Addr
  BY <1>1, LimitAssumption DEF IInv, TypeOK, Ptr
<1>3. /\ src \in Ptr /\ bnd[s] \in Bounds /\ prov[s] \in Obj /\ clean[s] \in BOOLEAN
      /\ d \in Ptr /\ d.tag = src.tag
  BY <1>2, InvFacts
<1>p. PICK p \in {d} \union (IF is_trap_ptr(src) THEN {detrap(d)} ELSE {}) :
        Derived(v, s, p, bnd[s], ok)
  BY <1>1
<1>4. p \in Ptr
  BY <1>3, PtrOps
<1>5. ok \in BOOLEAN /\ (ok => clean[s] /\ bnd[s] # max_bounds)
  BY <1>3 DEF CleanStep
<1>6. ~ bounds_invalid(bnd[s])
  <2>1. Sub(Word(d), bnd[s].base) \in Int /\ Sub(Word(d), bnd[s].base) >= 0
    BY <1>3, WordFacts, PtrOps, Constants DEF Sub, Bounds
  <2> QED BY <1>1, <2>1 DEF bounds_invalid, primary_check
<1>7. ok => TruePtr(prov[s], p)
  <2> SUFFICES ASSUME ok PROVE TruePtr(prov[s], p) OBVIOUS
  <2>1. OwnBounds(prov[s], bnd[s])
    BY <1>5, <1>6 DEF IInv, GenuineBounds
  <2>2. TruePtr(prov[s], d) /\ d.tag = NOT_TRAPPED
    BY <1>1, <1>3, <2>1, PrimaryTruth
  <2>3. p = d
    BY <2>2, <1>3 DEF is_trap_ptr
  <2> QED BY <2>2, <2>3
<1>8. clean[s] => \/ bounds_invalid(bnd[s]) \/ bnd[s] = max_bounds
                  \/ OwnBounds(prov[s], bnd[s])
  BY DEF IInv, GenuineBounds
<1> HIDE DEF ok
<1>9. /\ val' \in [Var -> Ptr] /\ bnd' \in [Var -> Bounds]
      /\ prov' \in [Var -> Obj] /\ clean' \in [Var -> BOOLEAN]
      /\ TagsTellTruth' /\ GenuineBounds'
  BY <1>p, <1>3, <1>4, <1>5, <1>7, <1>8, DerivedInv
<1>10. CacheIsTrue'
  BY <1>1 DEF IInv, CacheIsTrue, TrueRange, InObject
<1>11. TypeOK'
  BY <1>1, <1>9 DEF IInv, TypeOK
<1> QED BY <1>9, <1>10, <1>11 DEF IInv

\* v = s + k with a failing primary check.
LEMMA DeriveSecondaryInv ==
  ASSUME IInv, NEW v \in Var, NEW s \in Var, NEW k \in Offsets, DeriveSecondary(v, s, k)
  PROVE  IInv'
<1> DEFINE src == val[s]
           d   == [src EXCEPT !.addr = @ + k]
<1>1. /\ d.addr \in Addr
      /\ UNCHANGED <<fixups, alive>>
  BY DEF DeriveSecondary
<1>f. PICK f \in SecondaryBounds(src, d, bnd[s]) :
        LET res == secondary_check(src, d, f.b)
        IN /\ Derived(v, s, res.ptr, f.b, CleanStep(s, src, d, f.b))
           /\ cache' = f.cache /\ fake' = f.fake
           /\ res.error => errors < MaxErrors
           /\ errors' = IF res.error THEN errors + 1 ELSE errors
  BY DEF DeriveSecondary
<1>2. k \in Int /\ src.addr + k \in Addr
  BY <1>1, LimitAssumption DEF IInv, TypeOK, Ptr
<1>3. /\ src \in Ptr /\ bnd[s] \in Bounds /\ prov[s] \in Obj /\ clean[s] \in BOOLEAN
      /\ d \in Ptr /\ d.tag = src.tag
  BY <1>2, InvFacts
<1>4. /\ f.b \in Bounds /\ f.b.size # 0
      /\ f.cache \subseteq MemRange /\ f.fake \subseteq MemRange
      /\ \A r \in f.cache : TrueRange(r)
      /\ clean[s] => f.b = max_bounds \/ OwnBounds(prov[s], f.b)
  BY <1>3, SecondaryBoundsFacts
<1> DEFINE res == secondary_check(src, d, f.b)
           ok  == CleanStep(s, src, d, f.b)
<1>5. res.ptr \in Ptr /\ res.error \in BOOLEAN
  BY <1>3, PtrOps DEF secondary_check, Tag
<1>6. ok \in BOOLEAN /\ (ok => clean[s])
  BY <1>3 DEF CleanStep
<1>7. ok => TruePtr(prov[s], res.ptr)
  <2> SUFFICES ASSUME ok PROVE TruePtr(prov[s], res.ptr) OBVIOUS
  <2>1. OwnBounds(prov[s], f.b) /\ (~ is_trap_ptr(src) \/ BackIn(d, f.b))
    BY <1>4 DEF CleanStep
  <2> HIDE DEF d
  <2> QED BY <1>3, <1>4, <2>1, SecondaryTruth
<1>d. Derived(v, s, res.ptr, f.b, ok)
  BY <1>f
<1> HIDE DEF ok, res, d
<1>9. /\ val' \in [Var -> Ptr] /\ bnd' \in [Var -> Bounds]
      /\ prov' \in [Var -> Obj] /\ clean' \in [Var -> BOOLEAN]
      /\ TagsTellTruth' /\ GenuineBounds'
  BY <1>d, <1>4, <1>5, <1>6, <1>7, DerivedInv
<1>10. CacheIsTrue'
  BY <1>f, <1>4 DEF CacheIsTrue, TrueRange, InObject
<1>11. errors' \in 0 .. MaxErrors
  BY <1>f, <1>5, LimitAssumption DEF IInv, TypeOK, res
<1>12. TypeOK'
  BY <1>1, <1>4, <1>f, <1>9, <1>11 DEF IInv, TypeOK
<1> QED BY <1>9, <1>10, <1>12 DEF IInv

\* Every step keeps the invariant.
LEMMA NextInv == IInv /\ [Next]_vars => IInv'
<1> SUFFICES ASSUME IInv, [Next]_vars PROVE IInv' OBVIOUS
<1>1. ASSUME NEW v \in Var, NEW o \in Obj, NEW a \in Addr,
             TakeAddress(v, o, a) \/ CallUninstrumented(v, o, a)
      PROVE  IInv'
  BY <1>1, TakeAddressInv, CallUninstrumentedInv
<1>2. ASSUME NEW v \in Var, NEW s \in Var, Assign(v, s) PROVE IInv'
  BY <1>2, AssignInv
<1>3. ASSUME NEW v \in Var, NEW s \in Var, NEW k \in Offsets,
             DerivePrimary(v, s, k) \/ DeriveSecondary(v, s, k)
      PROVE  IInv'
  BY <1>3, DerivePrimaryInv, DeriveSecondaryInv
<1>4. ASSUME NEW v \in Var, FaultFixup(v) \/ FaultExit(v) PROVE IInv'
  BY <1>4, FaultInv
<1>5. CASE UNCHANGED vars
  BY <1>5 DEF vars, IInv, TypeOK, TagsTellTruth, GenuineBounds, CacheIsTrue
<1> QED BY <1>1, <1>2, <1>3, <1>4, <1>5 DEF Next

\* The variables of the derivation check, its caches and its counters always
\* have their types: in particular no sequence of XORs makes a third tag bit.
THEOREM TypeCorrect == Spec => []TypeOK
<1>1. IInv => TypeOK
  BY DEF IInv
<1> QED BY <1>1, InitInv, NextInv, PTL DEF Spec

\* Trap tags of pointers with a clean history tell the truth: such a pointer is
\* untrapped only inside the allocation it was made for.
THEOREM TagsCorrect == Spec => []TagsTellTruth
<1>1. IInv => TagsTellTruth
  BY DEF IInv
<1> QED BY <1>1, InitInv, NextInv, PTL DEF Spec

\* The lazy fetch never gives such a pointer another allocation's bounds.
THEOREM BoundsCorrect == Spec => []GenuineBounds
<1>1. IInv => GenuineBounds
  BY DEF IInv
<1> QED BY <1>1, InitInv, NextInv, PTL DEF Spec

\* The range cache stays true whatever pointers the program makes.
THEOREM CacheCorrect == Spec => []CacheIsTrue
<1>1. IInv => CacheIsTrue
  BY DEF IInv
<1> QED BY <1>1, InitInv, NextInv, PTL DEF Spec

\* XORing a tag with ONE_PAST leaves its upper bit alone.
LEMMA XorOnePast == \A t \in Tag : Xor2(t, ONE_PAST) \in {ONE_BEFORE, INVALID}
                                   => t \in {ONE_BEFORE, INVALID}
  BY DEF Tag, NOT_TRAPPED, ONE_PAST, ONE_BEFORE, INVALID, Xor2

\* One step keeps InvalidIsReported: only the error path sets the upper tag bit
\* of a pointer whose source did not have it set.
LEMMA ReportedNext == TypeOK /\ InvalidIsReported /\ [Next]_vars => InvalidIsReported'
<1> SUFFICES ASSUME TypeOK, InvalidIsReported, [Next]_vars,
                    NEW w \in Var, val'[w].tag \in {ONE_BEFORE, INVALID}
             PROVE  errors' > 0
  BY DEF InvalidIsReported
<1> DEFINE Bad(p) == p.tag \in {ONE_BEFORE, INVALID}
<1>0. /\ val \in [Var -> Ptr] /\ errors \in Nat
      /\ \A x \in Var : Bad(val[x]) => errors > 0
  BY LimitAssumption DEF TypeOK, InvalidIsReported
<1>n. \A p : detrap(p).tag = p.tag \/ ~ Bad(detrap(p))
  BY DEF detrap, NOT_TRAPPED, ONE_BEFORE, INVALID
<1>1. ASSUME NEW v \in Var, NEW o \in Obj, NEW a \in Addr,
             TakeAddress(v, o, a) \/ CallUninstrumented(v, o, a)
      PROVE  errors' > 0
  <2>1. val' = [val EXCEPT ![v] = [addr |-> a, tag |-> NOT_TRAPPED]] /\ errors' = errors
    BY <1>1 DEF TakeAddress, CallUninstrumented
  <2>2. w # v
    BY <2>1, <1>0 DEF NOT_TRAPPED, ONE_BEFORE, INVALID
  <2> QED BY <2>1, <2>2, <1>0
<1>2. ASSUME NEW v \in Var, NEW s \in Var, Assign(v, s) PROVE errors' > 0
  BY <1>2, <1>0 DEF Assign
<1>3. ASSUME NEW v \in Var, NEW s \in Var, NEW k \in Offsets, DerivePrimary(v, s, k)
      PROVE  errors' > 0
  <2> DEFINE d == [val[s] EXCEPT !.addr = @ + k]
  <2>1. PICK p : /\ p = d \/ p = detrap(d)
                 /\ val' = [val EXCEPT ![v] = p] /\ errors' = errors
    BY <1>3 DEF DerivePrimary, Derived
  <2>2. d.tag = val[s].tag
    BY <1>0 DEF Ptr
  <2>3. Bad(p) => Bad(val[s])
    BY <2>1, <2>2, <1>n DEF detrap, Ptr, NOT_TRAPPED, ONE_BEFORE, INVALID
  <2> QED BY <2>1, <2>3, <1>0
<1>4. ASSUME NEW v \in Var, NEW s \in Var, NEW k \in Offsets, DeriveSecondary(v, s, k)
      PROVE  errors' > 0
  <2> DEFINE d == [val[s] EXCEPT !.addr = @ + k]
  <2>1. PICK b : LET res == secondary_check(val[s], d, b)
                 IN /\ val' = [val EXCEPT ![v] = res.ptr]
                    /\ errors' = IF res.error THEN errors + 1 ELSE errors
    BY <1>4 DEF DeriveSecondary, Derived
  <2>2. d.tag = val[s].tag /\ d.tag \in Tag
    BY <1>0 DEF Ptr
  <2> DEFINE res == secondary_check(val[s], d, b)
  <2>3. \/ res.error = TRUE
        \/ res.error = FALSE /\ (res.ptr.tag = NOT_TRAPPED \/ res.ptr.tag = Xor2(d.tag, ONE_PAST))
    BY <2>2 DEF secondary_check, is_trap_ptr, detrap, trap
  <2>4. CASE res.error = TRUE
    BY <2>4, <2>1, <1>0
  <2>5. CASE res.error = FALSE /\ (res.ptr.tag = NOT_TRAPPED \/ res.ptr.tag = Xor2(d.tag, ONE_PAST))
    <3>1. Bad(res.ptr) => Bad(val[s])
      BY <2>2, <2>5, XorOnePast DEF NOT_TRAPPED, ONE_BEFORE, INVALID
    <3> HIDE DEF res, d
    <3>2. val' = [val EXCEPT ![v] = res.ptr] /\ errors' = errors
      BY <2>1, <2>5 DEF res
    <3> QED BY <3>1, <3>2, <1>0
  <2> QED BY <2>3, <2>4, <2>5
<1>5. ASSUME NEW v \in Var, FaultFixup(v) \/ FaultExit(v) PROVE errors' > 0
  <2>1. /\ errors' = errors
        /\ val' = val \/ \E p \in {val[v], detrap(val[v])} : val' = [val EXCEPT ![v] = p]
    BY <1>5 DEF FaultFixup, FaultExit
  <2> QED BY <2>1, <1>0, <1>n DEF detrap, Ptr, NOT_TRAPPED, ONE_BEFORE, INVALID
<1>6. CASE UNCHANGED vars
  BY <1>6, <1>0 DEF vars
<1> QED BY <1>1, <1>2, <1>3, <1>4, <1>5, <1>6 DEF Next

\* An invalid tag is never made silently: no sequence of derivations, copies and
\* fixups gets there without __libcrunch_bounds_error having counted one.
THEOREM ReportedCorrect == Spec => []InvalidIsReported
<1>1. Init => InvalidIsReported
  BY DEF Init, InvalidIsReported, NOT_TRAPPED, ONE_BEFORE, INVALID
<1> QED BY <1>1, TypeCorrect, ReportedNext, PTL DEF Spec
=============================================================================
