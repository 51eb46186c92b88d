-------------------------- MODULE SubobjectBounds --------------------------
(***************************************************************************)
(* Where bounds come from when a pointer has none: __fetch_bounds_ool asks  *)
(* the memory-range cache that the type checks also fill, then the cache of *)
(* fake bounds for memory nobody knows, then walks the subobjects at the    *)
(* pointer (__fetch_bounds_internal, bounds_cb) and caches what it finds.   *)
(* Composed with the type checks of TypeCheck through that shared cache,    *)
(* and with chunks that are freed and allocated again.                      *)
(*                                                                         *)
(* Bounds of a pointer into a chunk are offsets into the chunk.  Place puts *)
(* the chunks on a line, which the fake bounds need: they are addresses.    *)
(***************************************************************************)
EXTENDS TypeCheck

CONSTANTS Place,       \* address of each chunk
          Reach,       \* addresses that pointers may be derived to
          PointeeType  \* static pointee types of the pointers

\* No chunk is as large as a type whose size is unbounded.
ASSUME PlaceAssumption ==
  /\ Place \in [Chunk -> Nat \ {0}] /\ Reach \subseteq Nat /\ PointeeType \subseteq Type
  /\ \A i \in InitChunk, c \in Chunk : i[c].size <= MaxOff

\* A chunk that is an array, once its length is known, holds it in full.
ASSUME ArrayAssumption ==
  \A i \in InitChunk, c \in Chunk :
    LET b == PreciseType(i[c])
    IN IsArray(b) => LenOf[b] > 0 /\ SizeOf[b] = LenOf[b] * SizeOf[Of[b]]

VARIABLES fake,      \* __libcrunch_fake_bounds_cache
          fetched,   \* history: the last fetch, and what it returned
          reached,   \* history: how far fetches of unknown pointers reached
          retyped    \* history: the chunks that a type check has typed lazily

bvars == <<fake, fetched, reached, retyped>>
allvars == <<vars, bvars>>

Address(p) == (IF p.chunk = None THEN 0 ELSE Place[p.chunk]) + p.off
IsNull(p) == Address(p) = 0
\* pos_maxoff == UNIQTYPE_POS_MAXOFF_UNBOUNDED
Incomplete(t) == t = VoidType
IsChar(t) == t \in {SignedChar, UnsignedChar}

Nothing == [p |-> None, t |-> None, how |-> "none", lo |-> 0, hi |-> 0]
Result(p, t, how, lo, hi) == [p |-> p, t |-> t, how |-> how, lo |-> lo, hi |-> hi]
-----------------------------------------------------------------------------
(* The walk *)

\* Mutant: only a smaller one will do.
MutFits(i, n) == i.off = 0 /\ SizeOf[i.ty] < n

\* bounds_cb stops at subobject i: it starts at the pointer and is not larger
\* than the pointee.
Fits(i, n) == i.off = 0 /\ SizeOf[i.ty] <= n

\* __liballocs_walk_subobjects_spanning with bounds_cb, for a pointee of n
\* bytes at spot s: the array just descended through, if it was one, and where
\* it starts.
WalkTo(spot, n) ==
  LET To[s \in Spot] ==
        IF Leaf(s) THEN [success |-> FALSE, array |-> None, start |-> 0, size |-> 0]
        ELSE IF Fits(Inner(s), n)
        THEN [success |-> TRUE, array |-> IF IsArray(s.ty) THEN s.ty ELSE None,
              start |-> 0, size |-> SizeOf[Inner(s).ty]]
        ELSE [To[Inner(s)] EXCEPT !.start = @ + s.off - Inner(s).off]
  IN To[spot]

\* Mutant: the period of an array's entry is one byte.
MutBoundsEntry(p, t, lo, hi, period, fits) ==
  [chunk |-> p.chunk, ty |-> t, period |-> 1, array |-> fits, lo |-> lo, hi |-> hi]

\* cache_bounds; the history field array is FALSE for a range that may be too
\* wide, as it is for some of the type checks', or whose period was cut.
BoundsEntry(p, t, lo, hi, period, fits) ==
  [chunk |-> p.chunk, ty |-> t, period |-> Short(period),
   array |-> fits /\ period < PeriodMod, lo |-> lo, hi |-> hi]
-----------------------------------------------------------------------------
(* The caches *)

\* __liballocs_memrange_cache_lookup_notype: the type is not compared, the
\* entry's period is the pointee's size.
Covers(e, p, t) ==
  /\ e.chunk = p.chunk /\ e.period = SizeOf[t]
  /\ e.lo <= p.off /\ p.off < e.hi /\ Steps(p.off - e.lo, e.period)

FakeCovers(e, a, t) ==
  e.lo <= a /\ a < e.hi /\ e.period = SizeOf[t] /\ Steps(a - e.lo, e.period)

MinOf(a, b) == IF a < b THEN a ELSE b
MaxOf(a, b) == IF a < b THEN b ELSE a

\* Mutant: the fake range is aligned up to a whole page.
MutFakeEntry(a, d, t) ==
  [lo |-> 0, hi |-> 8, period |-> Short(SizeOf[t]), size |-> SizeOf[t]]

\* cache_fake_bounds
FakeEntry(a, d, t) ==
  [lo |-> MinOf(a, d), hi |-> MaxOf(a, d) + SizeOf[t],
   period |-> Short(SizeOf[t]), size |-> SizeOf[t]]

\* A full cache loses any entry.
FakeCached(e) ==
  fake' \in {(fake \ out) \union {e} :
               out \in IF Cardinality(fake \union {e}) > CacheSize THEN {{v} : v \in fake} ELSE {{}}}
-----------------------------------------------------------------------------
(* __fetch_bounds_ool *)

\* A one-past pointer is asked for as the element before it.
Untrapped(p, t) == IF p.trap THEN [p EXCEPT !.off = @ - SizeOf[t], !.trap = FALSE] ELSE p

\* __fetch_bounds_from_cache: the ranges of the type checks and of fetches.
FetchCached(p, t) ==
  /\ \E e \in cache : Covers(e, p, t) /\ fetched' = Result(p, t, "hit", e.lo, e.hi)
  /\ UNCHANGED <<chunk, cache, fake, reached, alive>>

\* ... and the fake ranges, which grow to the end of an object, of the type they
\* were made for, at the derived pointer: maximal bounds.
FetchFake(p, d, t) ==
  /\ \A e \in cache : ~Covers(e, p, t)
  /\ \E e \in fake :
       /\ FakeCovers(e, Address(p), t)
       /\ fake' = (fake \ {e}) \union {[e EXCEPT !.hi = MaxOf(@, d + e.size)]}
       /\ reached' = MaxOf(reached, d + e.size)
  /\ fetched' = Result(p, t, "max", 0, 0)
  /\ UNCHANGED <<chunk, cache, alive>>

Missed(p, t) ==
  /\ \A e \in cache : ~Covers(e, p, t)
  /\ \A e \in fake : ~FakeCovers(e, Address(p), t)

\* return_min_bounds
MinBounds(p, t) ==
  /\ Cached(p.chunk, BoundsEntry(p, None, p.off, p.off + 1, 1, TRUE))
  /\ fetched' = Result(p, t, "min", p.off, p.off + 1)

\* A null pointer jumps past the query: "a" is uninitialised, so that an entry
\* may be made, or may not, or reading a->is_cacheable stops the program.
FetchNull(p, t) ==
  /\ Missed(p, t) /\ IsNull(p)
  /\ \/ alive' = FALSE /\ UNCHANGED <<fetched, cache>>
     \/ /\ fetched' = Result(p, t, "min", 0, 1)
        /\ UNCHANGED alive
        /\ \/ UNCHANGED cache
           \/ Inserted(BoundsEntry(p, None, 0, 1, 1, TRUE))
  /\ UNCHANGED <<chunk, fake, reached>>

\* abort_returning_max_bounds
FetchUnknown(p, d, t) ==
  /\ Missed(p, t) /\ ~IsNull(p) /\ Unknown(p)
  /\ FakeCached(FakeEntry(Address(p), d, t))
  /\ fetched' = Result(p, t, "max", 0, 0)
  /\ reached' = MaxOf(reached, MaxOf(Address(p), d) + SizeOf[t])
  /\ UNCHANGED <<chunk, cache, alive>>

FetchKnown(p, t) ==
  LET b == PreciseType(chunk[p.chunk])
      w == WalkTo(SpotOf(b, p.off), SizeOf[t])
      size == chunk[p.chunk].size
      lo == IF w.array = None THEN p.off ELSE w.start
      hi == IF w.array = None THEN p.off + SizeOf[t]
            ELSE IF LenOf[w.array] = 0 THEN size
            ELSE w.start + LenOf[w.array] * SizeOf[t]
  IN /\ Missed(p, t) /\ ~Unknown(p)
     /\ \/ /\ IsChar(t)                                   \* return_alloc_bounds
           /\ Cached(p.chunk, BoundsEntry(p, b, 0, size, SizeOf[b], TRUE))
           /\ fetched' = Result(p, t, "alloc", 0, size)
        \/ ~IsChar(t) /\ (Incomplete(t) \/ ~w.success) /\ MinBounds(p, t)
        \/ /\ ~IsChar(t) /\ ~Incomplete(t) /\ w.success
           /\ Cached(p.chunk, BoundsEntry(p, t, lo, hi,
                                IF w.array = None THEN SizeOf[b] ELSE SizeOf[Of[w.array]],
                                w.size = SizeOf[t] /\ (w.array = None \/ LenOf[w.array] > 0)))
           /\ fetched' = Result(p, t, IF w.size < SizeOf[t] THEN "prefix" ELSE "walk", lo, hi)
     /\ chunk' = Precisified(chunk, p.chunk)
     /\ UNCHANGED <<fake, reached, alive>>

FetchBounds(p, t) ==
  \/ FetchCached(p, t) \/ FetchNull(p, t) \/ FetchKnown(p, t)
  \/ \E d \in Reach : FetchFake(p, d, t) \/ FetchUnknown(p, d, t)

Fetch ==
  /\ Ready
  /\ \E p \in Ptr, t \in PointeeType :
       /\ p.trap => p.off >= SizeOf[t]
       /\ FetchBounds(Untrapped(p, t), t)
  /\ checks' = checks + 1
  /\ UNCHANGED <<mode, cnt, call, last, retyped>>

\* liballocs drops the entries of a chunk that is freed.
Uncached(c) == {e \in cache : e.chunk # c}

\* free, and the chunk allocated again with another type or size.
Recycle ==
  /\ Ready
  /\ \E c \in Heap, i \in InitChunk :
       /\ chunk' = [chunk EXCEPT ![c] = [ty |-> i[c].ty, size |-> i[c].size, typed |-> FALSE,
                                         loose |-> FALSE, special |-> FALSE]]
       /\ cache' = Uncached(c) /\ retyped' = retyped \ {c}
  /\ checks' = checks + 1 /\ fetched' = Nothing /\ last' = NoCheck
  /\ UNCHANGED <<mode, cnt, call, alive, fake, reached>>

IsAFirst ==
  /\ IsA /\ fetched' = Nothing /\ UNCHANGED <<fake, reached>>
  /\ retyped' = retyped \union (IF last'.verdict = "lazy" THEN {last'.p.chunk} ELSE {})

FetchInit == Init /\ fake = {} /\ fetched = Nothing /\ reached = 0 /\ retyped = {}
FetchNext == IsAFirst \/ Fetch \/ Recycle
FetchSpec == FetchInit /\ [][FetchNext]_allvars
-----------------------------------------------------------------------------
(* Properties *)

\* The chunk the last fetch asked about, and what it holds at the pointer.
Target == chunk[fetched.p.chunk]
Answered(hows) == fetched.how \in hows /\ ~IsNull(fetched.p) /\ ~Unknown(fetched.p)

\* Answered from a range that is too wide: one that a type check cached for a
\* sibling (HitIsTrue); one for a pointee larger than what was there, where the
\* comment above the walk says "bounds are only the pointee" and the code gives it
\* a whole array; one of an array of unknown length, up to the chunk's end; one
\* whose period was cut to 16 bits; or one from before a type check gave the chunk
\* another type.
Tainted ==
  /\ fetched.how = "hit"
  /\ \/ \E e \in cache : /\ ~e.array /\ e.chunk = fetched.p.chunk
                         /\ e.lo = fetched.lo /\ e.hi = fetched.hi
     \/ fetched.p.chunk \in retyped

\* What pointer arithmetic at an offset into chunk k in steps of t may range
\* over: the allocation for a char, for an object as large as the chunk's type
\* and beyond that type, else the array or the object of the pointee's size there.
Legal(k, off, t) ==
  LET b == PreciseType(k)
      w == WalkTo(SpotOf(b, off), SizeOf[t])
      whole == IsChar(t) \/ (off = 0 /\ SizeOf[b] = SizeOf[t]) \/ off >= SizeOf[b]
  IN IF whole THEN 0 .. (k.size - 1)
     ELSE IF w.success /\ w.array # None
     THEN w.start .. ((IF LenOf[w.array] = 0 THEN k.size ELSE w.start + SizeOf[w.array]) - 1)
     ELSE off .. (off + SizeOf[t] - 1)

\* Fetched bounds are never wider than the array or object around the pointer,
\* be they walked to or found in the cache, where type checks, fetches for
\* other pointee types and earlier allocations left them.  (The ways to a
\* cached range that is too wide aside: Tainted.)
BoundsWithin ==
  Answered({"hit", "walk", "alloc", "min"}) /\ ~Tainted =>
    fetched.lo .. (fetched.hi - 1) \subseteq Legal(Target, fetched.p.off, fetched.t)

\* A walk for a pointer to an element of an array gives the whole array, so
\* that arithmetic that stays in the array is not stopped.
ElementsExact ==
  Answered({"walk", "min"}) /\ ~Incomplete(fetched.t) =>
    LET a == PreciseType(Target)
        element == /\ IsArray(a) /\ SizeOf[Of[a]] = SizeOf[fetched.t]
                   /\ fetched.p.off % SizeOf[fetched.t] = 0 /\ fetched.p.off < SizeOf[a]
    IN element => fetched.lo = 0 /\ fetched.hi = SizeOf[a]

\* Memory that liballocs knows gets maximal bounds, i.e. no check, only where
\* pointers to unknown memory have been derived up to there.
UncheckedOnlyIfReached ==
  Answered({"max"}) => Address(fetched.p) < reached
=============================================================================
