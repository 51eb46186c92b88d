----------------------------- MODULE TypeCheck -----------------------------
(***************************************************************************)
(* The run-time type checks: __is_aU with its cache, __like_aU,            *)
(* __loosely_like_aU, __named_aU, __is_a_function_refiningU,               *)
(* __is_a_pointer_of_degree, __can_hold_pointer and __check_args_internal, *)
(* and what they do to the types of heap chunks.                           *)
(*                                                                         *)
(* Memory is a set of chunks that lie apart; a pointer is an offset into a *)
(* chunk, trapped or not.  A check never stops the program (it returns 1   *)
(* whatever it finds), so what it found is what it counts: its verdict.    *)
(***************************************************************************)
EXTENDS Uniqtypes, FiniteSets

CONSTANTS
  Chunk,       \* allocations
  Heap,        \* those whose allocator has set_type
  Cacheable,   \* those whose allocator is_cacheable
  InitChunk,   \* the states the chunks may start in
  Ptr,         \* pointers to check: records [chunk, off, trap]
  TestType,    \* types the program casts to, other than functions
  FunType,     \* function types the program casts to
  MaxDegree,   \* bound on the degree asked for
  MaxArgs,     \* bound on the arguments of an indirect call
  CacheSize,   \* LIBALLOCS_MEMRANGE_CACHE_MAX_SIZE
  PeriodMod,   \* 2^16, for the unsigned short that a range's period is
  MaxChecks    \* bound on the number of checks

ASSUME ChunkAssumption ==
  /\ Heap \subseteq Chunk /\ Cacheable \subseteq Chunk
  /\ InitChunk \subseteq [Chunk -> [ty : Type, size : 1 .. MaxOff + 1]]
  /\ Ptr \subseteq [chunk : Chunk \union {None}, off : Offset, trap : BOOLEAN]
  /\ TestType \subseteq Type /\ FunType \subseteq {t \in Type : IsFunction(t)}
  /\ {CacheSize, MaxDegree, MaxArgs, MaxChecks} \subseteq Nat /\ CacheSize > 0

ASSUME PeriodAssumption == PeriodMod \in Nat /\ PeriodMod > 1

\* The types that a check may be asked about: those of casts, and the pointees
\* of a function's arguments.
Asked == TestType \union {Of[t] : t \in {t \in Type : IsPointer(t)}}

\* An object has room for the type it is allocated as.  The array types that
\* the checks may give it exist: get_or_create_array_type makes them.
ASSUME RoomAssumption ==
  \A i \in InitChunk, c \in Chunk :
    /\ SizeOf[i[c].ty] <= i[c].size
    /\ \A a \in Type : IsArray(a) /\ MakePrecise[a] =>
         IsMade(Of[a], i[c].size \div SizeOf[a])
    /\ \A t \in Type : IsPointer(t) => IsMade(t, i[c].size \div SizeOf[t])
    /\ \A t \in Asked, a \in Type :
         /\ IsArray(a) /\ SizeOf[t] <= SizeOf[Of[a]]
         /\ MakePrecise[Of[a]] \/ (IsArray(Of[a]) /\ MakePrecise[Of[Of[a]]])
         => IsMade(t, i[c].size \div SizeOf[t])

VARIABLES
  chunk,    \* type and size of each chunk, and its heap insert: does it hold
            \*   a type (alloc_site_flag), is the type loose; history: has a
            \*   store specialised it
  cache,    \* the entries of __liballocs_ool_cache that checks made
  mode,     \* __currently_allocating, __currently_freeing
  cnt,      \* the counters of the exit summary, and two history counters
  call,     \* the indirect call whose arguments are being checked, or None
  alive,    \* FALSE once the program has been stopped
  last,     \* history: the check made last, and its verdict
  checks    \* history: number of checks

vars == <<chunk, cache, mode, cnt, call, alive, last, checks>>

\* "silent": checks that returned without being counted.  "bare": queries
\* counted as aborted for a check not counted as begun.
Counter == {"begun", "succeeded", "failed", "failed_in_alloc", "is_a_hit_cache",
            "aborted_typestr", "aborted_unknown_storage", "silent", "bare"}

Verdict == {"pass", "hit", "lazy", "specialised", "fail", "abort"}
Check == {"none", "is_a", "like_a", "loosely_like_a", "named_a", "refining",
          "degree", "can_hold", "args"}
Mode == {"none", "allocating", "freeing"}
NoCheck == [check |-> "none", p |-> None, arg |-> None, verdict |-> "pass"]

Init ==
  /\ \E i \in InitChunk :
       chunk = [c \in Chunk |-> [ty |-> i[c].ty, size |-> i[c].size,
                                 typed |-> FALSE, loose |-> FALSE, special |-> FALSE]]
  /\ cache = {} /\ mode = "none" /\ call = None /\ alive = TRUE
  /\ cnt = [k \in Counter |-> 0]
  /\ last = NoCheck /\ checks = 0

-----------------------------------------------------------------------------
(* Queries *)

\* Mutant: one element more than fits.
MutPreciseType(k) ==
  IF IsArray(k.ty) /\ MakePrecise[k.ty]
  THEN ArrayType(Of[k.ty], k.size \div SizeOf[k.ty] + 1)
  ELSE k.ty

\* DO_ARRAY_PRECISIFY: an array of unknown length takes the chunk's length; an
\* abstract type that is no array stays as it is.
PreciseType(k) ==
  LET n == k.size \div SizeOf[k.ty]
  IN IF ~(IsArray(k.ty) /\ MakePrecise[k.ty]) THEN k.ty
     ELSE IF n = 1 THEN Of[k.ty]
     ELSE ArrayType(Of[k.ty], n)

\* allocator->set_type
SetType(k, t) == [k EXCEPT !.ty = t, !.typed = TRUE, !.loose = FALSE]

\* Chunk c, in state ch, after DO_ARRAY_PRECISIFY.
Precisified(ch, c) ==
  IF MakePrecise[ch[c].ty] /\ c \in Heap
  THEN [ch EXCEPT ![c] = SetType(@, PreciseType(@))]
  ELSE ch

\* reinstate_looseness_if_necessary after Precisified: only a chunk with an
\* allocation site has one to keep, and only a pointer type is made loose.
Loosened(ch, c) ==
  LET k == Precisified(ch, c)
  IN IF /\ c \in Heap /\ ~ch[c].typed
        /\ IsPointer(PreciseType(ch[c])) /\ k[c].typed
     THEN [k EXCEPT ![c].loose = TRUE]
     ELSE k

\* The spot p points at once its chunk's type is precise.
At(ch, p) == SpotOf(PreciseType(ch[p.chunk]), p.off)

\* __liballocs_get_alloc_info finds nothing there.
Unknown(p) == p.chunk # None => p.off >= chunk[p.chunk].size

-----------------------------------------------------------------------------
(* Counting.  Each check ends in exactly one of these. *)

Bump(ks) == cnt' = [k \in Counter |-> IF k \in ks THEN cnt[k] + 1 ELSE cnt[k]]

Ends(check, p, arg, verdict) ==
  /\ last' = [check |-> check, p |-> p, arg |-> arg, verdict |-> verdict]
  /\ checks' = checks + 1
  /\ UNCHANGED <<mode, alive>>

Passes(check, p, arg) ==
  /\ Bump({"begun", "succeeded"})
  /\ Ends(check, p, arg, "pass")

\* Mutant: a failure inside an allocation function is not counted.
MutFails(check, p, arg) ==
  /\ Bump({"begun"} \union (IF mode = "none" THEN {"failed"} ELSE {}))
  /\ Ends(check, p, arg, "fail")

Fails(check, p, arg) ==
  /\ Bump({"begun", IF mode = "none" THEN "failed" ELSE "failed_in_alloc"})
  /\ Ends(check, p, arg, "fail")

\* goto out: liballocs has counted the abort.
Aborts(check, p, arg) ==
  /\ Bump({"begun", "aborted_unknown_storage"})
  /\ Ends(check, p, arg, "abort")

Ready == alive /\ checks < MaxChecks

-----------------------------------------------------------------------------
(* __is_aU *)

\* A size as the period of a range: the conversion to unsigned short.
Short(n) == n % PeriodMod

\* The offset d is one of the steps of a range; period 0 is that of a range
\* for its start only.
Steps(d, period) == d = 0 \/ (period # 0 /\ d % period = 0)

\* __liballocs_memrange_cache_lookup
Hits(e, p, t) ==
  /\ e.chunk = p.chunk /\ e.ty = t
  /\ e.lo <= p.off /\ p.off < e.hi /\ Steps(p.off - e.lo, e.period)

\* __liballocs_cache_with_type
Inserted(e) ==
  \E rest \in {cache} \union {cache \ {v} : v \in cache} :
    /\ Cardinality(rest \union {e}) <= CacheSize
    /\ rest = cache \/ Cardinality(cache \union {e}) > CacheSize
    /\ cache' = rest \union {e}

\* Mutant: the cache grows.
MutCached(c, e) == cache' = IF c \in Cacheable THEN cache \union {e} ELSE cache

\* cache_is_a; a full cache may lose any entry.
Cached(c, e) == IF c \in Cacheable THEN Inserted(e) ELSE UNCHANGED cache

\* Mutant: the array's range starts at the element looked at.
MutRangeOf(p, t, r) ==
  [chunk |-> p.chunk, ty |-> t, period |-> Short(SizeOf[t]), array |-> TRUE,
   lo |-> p.off, hi |-> p.off + (IF r.containing = None THEN 1 ELSE SizeOf[r.containing])]

\* The range for which the outcome r of a search is cached: the array around
\* the subobject, or from the chunk's start plus the offset that the search
\* left behind up to the end of the object at p.  The history field array says
\* that it is an array's and that the period is the element's size.
RangeOf(p, t, r) ==
  LET array == r.containing # None /\ IsArray(r.containing) /\ LenOf[r.containing] > 0
      base == r.sum - r.pos
  IN [chunk |-> p.chunk, ty |-> t, period |-> Short(SizeOf[t]),
      array |-> array /\ SizeOf[t] < PeriodMod,
      lo |-> IF array THEN base ELSE r.off,
      hi |-> IF array THEN base + SizeOf[r.containing] ELSE p.off + SizeOf[t]]

\* An array whose elements are smaller than the test type.
TooSmall(k, t) == IsArray(k.ty) /\ SizeOf[Of[k.ty]] < SizeOf[t]

\* Mutant: any element offset will do.
MutFirstElement(k, p, t) == IsArray(k.ty) /\ Of[k.ty] = t

\* The test type's array, at its start.
FirstElement(k, p, t) == IsArray(k.ty) /\ Of[k.ty] = t /\ p.off = 0

\* Mutant: any array of scalars may be retyped.
MutLazilyTyped(c, b) ==
  c \in Heap /\ IsArray(b) /\ Kind[Of[b]] # "composite" /\ mode # "allocating"

\* Lazy heap typing: an array of an abstract type takes the type asked for.
LazilyTyped(c, b) ==
  c \in Heap /\ IsArray(b) /\ MakePrecise[Of[b]] /\ mode # "allocating"

IsACached(p, t) ==
  /\ ~p.trap /\ \E e \in cache : Hits(e, p, t)
  /\ Bump({"begun", "is_a_hit_cache", "succeeded"})
  /\ Ends("is_a", p, t, "hit")
  /\ UNCHANGED <<chunk, cache>>

IsAInternal(p, t) ==
  LET c == p.chunk
      k == chunk[c]
      b == PreciseType(k)
      r == find_matching_subobject(t, SpotOf(b, p.off))
  IN /\ p.trap \/ \A e \in cache : ~Hits(e, p, t)
     /\ \/ Unknown(p) /\ Aborts("is_a", p, t) /\ UNCHANGED <<chunk, cache>>
        \/ /\ ~Unknown(p) /\ TooSmall(k, t)
           /\ Fails("is_a", p, t) /\ UNCHANGED <<chunk, cache>>
        \/ /\ ~Unknown(p) /\ FirstElement(k, p, t)
           /\ Cached(c, [chunk |-> c, ty |-> t, period |-> Short(SizeOf[t]), array |-> FALSE,
                         lo |-> 0, hi |-> SizeOf[t]])
           /\ Passes("is_a", p, t) /\ UNCHANGED chunk
        \/ /\ ~Unknown(p) /\ ~TooSmall(k, t) /\ ~FirstElement(k, p, t)
           /\ \/ /\ r.found
                 /\ Cached(c, RangeOf(p, t, r))
                 /\ chunk' = Precisified(chunk, c)
                 /\ Passes("is_a", p, t)
              \/ /\ ~r.found /\ LazilyTyped(c, b)
                 /\ chunk' = [Precisified(chunk, c) EXCEPT
                                ![c] = SetType(@, ArrayType(t, k.size \div SizeOf[t]))]
                 /\ Cached(c, RangeOf(p, t, r))
                 /\ Bump({"begun", "silent"})
                 /\ Ends("is_a", p, t, "lazy")
              \/ /\ ~r.found /\ ~LazilyTyped(c, b)
                 /\ chunk' = Precisified(chunk, c)
                 /\ Fails("is_a", p, t) /\ UNCHANGED cache

IsAU(p, t) == IsACached(p, t) \/ IsAInternal(p, t)

IsA == /\ Ready /\ call = None
       /\ \E p \in Ptr, t \in TestType : IsAU(p, t)
       /\ UNCHANGED call

-----------------------------------------------------------------------------
(* The checks that search or compare types only *)

\* CHECK_INIT, DO_QUERY, then pass or fail.
Decided(check, p, arg, ok) ==
  \/ Unknown(p) /\ Aborts(check, p, arg)
  \/ ~Unknown(p) /\ ok /\ Passes(check, p, arg)
  \/ ~Unknown(p) /\ ~ok /\ Fails(check, p, arg)

LikeA ==
  /\ Ready /\ call = None
  /\ \E p \in Ptr, t \in TestType :
       /\ Decided("like_a", p, t, like_a(t, At(chunk, p)))
       /\ chunk' = IF Unknown(p) THEN chunk ELSE Precisified(chunk, p.chunk)
  /\ UNCHANGED <<cache, call>>

LooselyLikeA ==
  /\ Ready /\ call = None
  /\ \E p \in Ptr, t \in TestType :
       /\ Decided("loosely_like_a", p, t, loosely_like_a(t, At(chunk, p)))
       /\ chunk' = IF Unknown(p) THEN chunk ELSE Loosened(chunk, p.chunk)
  /\ UNCHANGED <<cache, call>>

\* offset_and_name_match_cb; a type stands for its name.
Named(t, s) == \E w \in Walked[s] : w.start = s.off /\ w.ty = t

NamedA ==
  /\ Ready /\ call = None
  /\ \E p \in Ptr, t \in TestType :
       /\ Decided("named_a", p, t, Named(t, At(chunk, p)))
       /\ chunk' = IF Unknown(p) THEN chunk ELSE Precisified(chunk, p.chunk)
  /\ UNCHANGED <<cache, call>>

IsAFunctionRefining ==
  /\ Ready /\ call = None
  /\ \E p \in Ptr, t \in FunType :
       LET a == chunk[p.chunk].ty
       IN \E ok \in IF Unknown(p) \/ p.off # 0 THEN {FALSE}
                    ELSE IF a = t THEN {TRUE}
                    ELSE IF IsFunction(a) THEN function_refining(a, t)
                    ELSE {FALSE} :
            Decided("refining", p, t, ok)
  /\ UNCHANGED <<chunk, cache, call>>

\* This one counts its failures as failed also inside an allocation function.
IsAPointerOfDegree ==
  /\ Ready /\ call = None
  /\ \E p \in Ptr, d \in 1 .. MaxDegree :
       \/ /\ Unknown(p) /\ Aborts("degree", p, d) /\ UNCHANGED chunk
       \/ /\ ~Unknown(p) /\ holds_pointer_of_degree(At(chunk, p), d)
          /\ Passes("degree", p, d) /\ chunk' = Loosened(chunk, p.chunk)
       \/ /\ ~Unknown(p) /\ ~holds_pointer_of_degree(At(chunk, p), d)
          /\ Bump({"begun", "failed"}) /\ Ends("degree", p, d, "fail")
          /\ chunk' = Loosened(chunk, p.chunk)
  /\ UNCHANGED <<cache, call>>

\* A null uniqtype or name: begun, and aborted for a bad typename.
BadTypename ==
  /\ Ready /\ call = None
  /\ Bump({"begun", "aborted_typestr"})
  /\ last' = NoCheck /\ checks' = checks + 1
  /\ UNCHANGED <<chunk, cache, mode, call, alive>>

-----------------------------------------------------------------------------
(* __can_hold_pointer *)

\* match_pointer_subobj_generic_cb on the root and then on the walk.
GenericMatch(ptrtype, s) ==
  \E w \in Walked[s] \union {[ty |-> s.ty, start |-> 0]} :
    w.start = 0 /\ pointer_has_degree(w.ty, Degree[ptrtype] - 1)

\* Mutant: the offset is not compared.
MutStrictMatch(ptrtype, s) ==
  \E w \in Walked[s] \union {[ty |-> s.ty, start |-> 0]} : w.ty = Of[ptrtype]

\* match_pointer_subobj_strict_cb likewise.
StrictMatch(ptrtype, s) ==
  \E w \in Walked[s] \union {[ty |-> s.ty, start |-> 0]} :
    w.start = s.off /\ w.ty = Of[ptrtype]

\* The object stored to becomes an array of the pointer's type.
Specialised(k, t) ==
  [SetType(k, ArrayType(t, k.size \div SizeOf[t])) EXCEPT !.special = TRUE]

CanHoldPointer ==
  /\ Ready /\ call = None
  /\ \E p \in Ptr, v \in Ptr :
       LET d == Deepest[At(chunk, p)]
           t == d.ty                                  \* type_of_pointer_being_stored_to
           ispointer == d.off = 0 /\ IsPointer(t)
           generic == is_generic_ultimate_pointee(Ultimate[t])
           ch == Precisified(chunk, p.chunk)
           s == At(ch, v)
           match == IF generic THEN GenericMatch(t, s) ELSE StrictMatch(t, s)
           specialises == ~is_abstract_pointer_type(t) /\ is_abstract_pointer_type(s.ty)
       IN \/ Unknown(p) /\ Aborts("can_hold", p, v) /\ UNCHANGED chunk
          \/ /\ ~Unknown(p) /\ ~ispointer
             /\ Fails("can_hold", p, v) /\ chunk' = ch
          \/ /\ ~Unknown(p) /\ ispointer /\ generic /\ Degree[t] = 1
             /\ Passes("can_hold", p, v) /\ chunk' = ch
          \/ /\ ~Unknown(p) /\ ispointer /\ ~(generic /\ Degree[t] = 1)
             /\ \/ (Unknown(v) \/ v.trap) /\ Aborts("can_hold", p, v) /\ chunk' = ch
                \/ /\ ~Unknown(v) /\ ~v.trap /\ match
                   /\ Passes("can_hold", p, v) /\ chunk' = Loosened(ch, v.chunk)
                \/ /\ ~Unknown(v) /\ ~v.trap /\ ~match /\ ~specialises
                   /\ Fails("can_hold", p, v) /\ chunk' = Loosened(ch, v.chunk)
                \/ /\ ~Unknown(v) /\ ~v.trap /\ ~match /\ specialises /\ p.chunk \in Heap
                   /\ chunk' = [Loosened(ch, v.chunk) EXCEPT
                                   ![p.chunk] = Specialised(@, t)]
                   /\ Bump({"begun", "silent"})
                   /\ Ends("can_hold", p, v, "specialised")
                \/ \* set_type is called without a look at whether there is one
                   /\ ~Unknown(v) /\ ~v.trap /\ ~match /\ specialises /\ p.chunk \notin Heap
                   /\ chunk' = Loosened(ch, v.chunk)
                   /\ Bump({"begun", "silent"})
                   /\ alive' = FALSE
                   /\ last' = NoCheck /\ checks' = checks + 1 /\ UNCHANGED mode
  /\ UNCHANGED <<cache, call>>

-----------------------------------------------------------------------------
(* __check_args_internal: an indirect call, one argument at a time *)

CheckArgs ==
  /\ Ready /\ call = None
  /\ \E p \in Ptr, n \in 0 .. MaxArgs :
       \/ /\ Unknown(p) \/ p.trap
          /\ Bump({"aborted_unknown_storage", "bare"})
          /\ Ends("args", p, n, "abort") /\ UNCHANGED call
       \/ /\ ~Unknown(p) /\ ~p.trap
          /\ IsFunction(chunk[p.chunk].ty) /\ p.off = 0
          /\ call' = [p |-> p, nargs |-> n, i |-> 0]
          /\ checks' = checks + 1
          /\ UNCHANGED <<cnt, mode, alive, last>>
       \/ /\ ~Unknown(p) /\ ~p.trap
          /\ ~IsFunction(chunk[p.chunk].ty) \/ p.off # 0
          /\ alive' = FALSE
          /\ checks' = checks + 1
          /\ UNCHANGED <<cnt, mode, call, last>>
  /\ UNCHANGED <<chunk, cache>>

\* The function type of the call under way.
Callee == chunk[call.p.chunk].ty

MoreArgs == call.i < call.nargs /\ call.i < Narg(Callee)

\* One round of the loop; __is_aU always answers 1, so success stays 1.
CheckArg ==
  /\ alive /\ call # None /\ MoreArgs
  /\ LET expected == ArgOf(Callee, call.i + 1)
     IN IF IsPointer(expected)
        THEN \/ \E q \in Ptr : IsAU(q, Of[expected])
             \/ UNCHANGED <<chunk, cache, mode, cnt, alive, last, checks>>  \* a null argument
        ELSE UNCHANGED <<chunk, cache, mode, cnt, alive, last, checks>>
  /\ call' = [call EXCEPT !.i = @ + 1]

\* Mutant: surplus arguments are accepted.
MutArgsAnswer == IF call.i = Narg(Callee) THEN 0 ELSE call.i

\* return success ? 0 : i
ArgsAnswer == IF call.i = call.nargs /\ call.i = Narg(Callee) THEN 0 ELSE call.i

CheckArgsDone ==
  /\ alive /\ call # None /\ ~MoreArgs
  /\ last' = [check |-> "args", p |-> call.p, arg |-> call.nargs,
              verdict |-> IF ArgsAnswer = 0 THEN "pass" ELSE "fail"]
  /\ call' = None
  /\ UNCHANGED <<chunk, cache, mode, cnt, alive, checks>>

-----------------------------------------------------------------------------
\* The program enters and leaves malloc and free.
SwitchMode ==
  /\ alive /\ call = None
  /\ mode' \in Mode \ {mode}
  /\ UNCHANGED <<chunk, cache, cnt, call, alive, last, checks>>

Next == \/ IsA \/ LikeA \/ LooselyLikeA \/ NamedA \/ IsAFunctionRefining
        \/ IsAPointerOfDegree \/ BadTypename \/ CanHoldPointer
        \/ CheckArgs \/ CheckArg \/ CheckArgsDone \/ SwitchMode

Spec == Init /\ [][Next]_vars
-----------------------------------------------------------------------------
(* Properties *)

Entry == [chunk : Cacheable, ty : Type, period : 0 .. MaxOff + 1, array : BOOLEAN,
          lo : Offset, hi : Nat]

\* Types of the variables; the cache stays within its size.
TypeOK ==
  /\ chunk \in [Chunk -> [ty : Type, size : 1 .. MaxOff + 1,
                          typed : BOOLEAN, loose : BOOLEAN, special : BOOLEAN]]
  /\ cache \subseteq Entry /\ Cardinality(cache) <= CacheSize
  /\ mode \in Mode /\ alive \in BOOLEAN /\ checks \in Nat
  /\ cnt \in [Counter -> Nat]
  /\ call = None \/ call \in [p : Ptr, nargs : 0 .. MaxArgs, i : 0 .. MaxArgs]
  /\ last.check \in Check /\ last.verdict \in Verdict

\* The last check was this one and ended so.
Was(check, verdicts) == last.check = check /\ last.verdict \in verdicts

\* The spot it was about, as the chunk is typed now.
LastSpot == At(chunk, last.p)

\* However a chunk got its type (by its length, lazily, or by a store), the
\* type is not empty and not larger than the chunk: alloc_size_bytes divided
\* by the element's size is neither 0 nor too much.
ChunkTypesFit ==
  \A c \in Chunk : chunk[c].typed =>
    0 < SizeOf[chunk[c].ty] /\ SizeOf[chunk[c].ty] <= chunk[c].size

\* __is_a's short cuts agree with its search: it passes exactly when an object
\* of the test type starts at the pointer.  (A test for an array type as a
\* whole is answered by the first short cut and fails.)
IsARight ==
  /\ Was("is_a", {"pass"}) => last.arg \in TypesAt(LastSpot)
  /\ Was("is_a", {"fail"}) => last.arg \notin TypesAt(LastSpot) \/ IsArray(last.arg)

\* What the cache says of an array holds for every element: each address that
\* would hit an entry made for an array holds the entry's type if an object of
\* that type ends within the chunk, whatever was retyped meanwhile.  Excepted are
\* elements of 64KiB and more, whose size does not fit the period, and chunks that
\* a store has specialised, leaving their entries behind.
ArrayEntriesTrue ==
  \A e \in cache : e.array /\ ~chunk[e.chunk].special =>
    \A o \in Offset :
      LET q == [chunk |-> e.chunk, off |-> o, trap |-> FALSE]
      IN Hits(e, q, e.ty) /\ o + SizeOf[e.ty] <= chunk[e.chunk].size =>
           e.ty \in TypesAt(At(chunk, q)) \/ MakePrecise[e.ty]

\* A chunk's type changes only while it is undecided: its length unknown, or
\* its elements abstract.  The exception is a store that specialises it.
DecidedTypeStays ==
  [][\A c \in Chunk :
       chunk'[c].ty # chunk[c].ty =>
         \/ MakePrecise[chunk[c].ty]
         \/ IsArray(chunk[c].ty) /\ MakePrecise[Of[chunk[c].ty]]
         \/ last'.verdict = "specialised"]_vars

\* When __like_a passes for a composite type, the object has each of its
\* members, char arrays aside, at the same offset with the same type.
LikeIsSound ==
  Was("like_a", {"pass"}) /\ Kind[last.arg] = "composite" =>
    \E t \in TypesAt(LastSpot) :
      \/ t = last.arg
      \/ \A m \in Members(last.arg) : CharArray(m.ty) \/ m \in Members(t)

\* When __loosely_like_a passes for a generic pointer, a pointer of at least
\* its degree starts there; for a composite type, the object has at the offset
\* of each member, char arrays aside, the same type, a pointer that the member
\* can hold, or the type of the other signedness.
LooseIsSound ==
  Was("loosely_like_a", {"pass"}) =>
    /\ GenericDegree(last.arg) > 0 =>
         \E t \in TypesAt(LastSpot) : Degree[t] >= GenericDegree(last.arg)
    /\ Kind[last.arg] = "composite" =>
         \E t \in TypesAt(LastSpot) :
           \/ t = last.arg
           \/ \A m \in Members(last.arg) :
                \/ CharArray(m.ty)
                \/ \E n \in Members(t) :
                     /\ n.off = m.off
                     /\ \/ n.ty = m.ty \/ n.ty = Complement[m.ty]
                        \/ GenericDegree(m.ty) \in 1 .. Degree[n.ty]

\* __named_a never passes for a type that does not start at the pointer.
NamedIsSound == Was("named_a", {"pass"}) => last.arg \in TypesAt(LastSpot)

\* A pass of the three structural checks can be relied on.
LikenessIsSound == LikeIsSound /\ LooseIsSound /\ NamedIsSound

\* __is_a_pointer_of_degree passes exactly when a pointer of that degree starts
\* at the address; every verdict also keeps to the chunk's precise type.
DegreeRight ==
  last.check = "degree" /\ last.verdict # "abort" =>
    (last.verdict = "pass" <=>
       \E t \in TypesAt(LastSpot) : IsPointer(t) /\ Degree[t] >= last.arg)

\* The pointer type that the last __can_hold_pointer stored to.
StoredTo == Deepest[LastSpot].ty

\* A store to a pointer that is not generic passes exactly when the value
\* points at the start of an object of the pointee type.
StrictStoresRight ==
  Was("can_hold", {"pass", "fail"}) /\ IsPointer(StoredTo) /\ Deepest[LastSpot].off = 0
    /\ ~is_generic_ultimate_pointee(Ultimate[StoredTo]) =>
    (last.verdict = "pass" <=> Of[StoredTo] \in TypesAt(At(chunk, last.arg)))

\* When both function types have a result, or both have none, a function that
\* passes can be called through the type it is cast to.
RefiningIsSound ==
  Was("refining", {"pass"}) /\ chunk[last.p.chunk].ty # last.arg
    /\ (Nret[last.arg] = 0 <=> Nret[chunk[last.p.chunk].ty] = 0) =>
    SafeToCallAs(chunk[last.p.chunk].ty, last.arg)

\* A call with arguments of a function that takes some is accepted only if it
\* takes that many.
ArgsCounted ==
  LET narg == Narg(chunk[last.p.chunk].ty)
  IN Was("args", {"pass"}) /\ last.arg > 0 /\ narg > 0 => last.arg = narg

\* Every check begun ends in exactly one line of the exit summary, but for the
\* lazily typed and specialised ones; the queries of indirect calls are counted
\* when they abort, and were never begun.
Accounted ==
  /\ cnt["begun"] + cnt["bare"] =
       cnt["succeeded"] + cnt["failed"] + cnt["failed_in_alloc"]
       + cnt["aborted_typestr"] + cnt["aborted_unknown_storage"] + cnt["silent"]
  /\ cnt["is_a_hit_cache"] <= cnt["succeeded"]

-----------------------------------------------------------------------------
(* What the code or its comments say, and the code does not do *)

\* "to assert that p points to a Widget" (README): a cached answer is true.
HitIsTrue ==
  Was("is_a", {"hit"}) => last.arg \in TypesAt(LastSpot) \/ MakePrecise[last.arg]
=============================================================================
