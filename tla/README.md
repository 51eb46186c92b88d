# A TLA+ model of libcrunch

libcrunch checks C programs at run time: casts against the type of the memory
they point to, and pointer arithmetic against the bounds of the object pointed
into.  This directory holds TLA+ modules for the parts of it that keep state or
run a protocol, TLC configurations that check them on small instances, and
TLAPS proofs for what matters most.  Paths below are relative to the repository
(`include/...` is `src/include/...` in `PROJECT.json`).

## 1. Inventory

| Part | Where | State it keeps | Operations |
|---|---|---|---|
| Pointer derivation checks | `include/libcrunch_cil_inlines.h`, `crunchbound.ml` | trap tag in every pointer, a local bounds variable per pointer variable, two memory-range caches, counters | derive (primary and secondary check), fetch bounds, trap, detrap |
| Fault handler | `src/libcrunch.c` (`handle_sigsegv`) | registers of the faulting thread | detrap the operand's register and resume, or exit |
| Bounds stack | inlines, `crunchbound.ml`, `src/shadow.c` | one stack per thread of words: bounds and cookies; a saved stack pointer and a "caller is instrumented" flag per frame | push bounds, push cookie, tweak, peek, push results, clean up |
| Shadow space | inlines, `src/shadow.c`, `src/libcrunch.c` | base and 32-bit size for each word of memory | store, store through `void**`, load, copy, formal's entry |
| Type checks | `src/libcrunch.c` (`__is_a_internal` ...) | the is-a cache, the heap chunks' types, counters | check, lazily assign a heap type, report |
| Subobject bounds | `src/libcrunch.c` (`bounds_cb`, `__fetch_bounds_internal`) | the two memory-range caches, shared with the type checks | find the array around a pointer, cache it |
| Initialisation and reporting | `src/libcrunch.c` | initialised flag, suppression list, seen sites, last failed check and its repeat count | init, report, suppress, summarise repeats, print statistics |
| Shadow layout | `src/shadow.c`, inlines, `kernel/dev-ones` | the process's mappings, two bump pointers | reserve the shadow regions, nudge `mmap` out of them |
| Provenance shadows | `frontend/c/shadow`, `frontend/c/shadowprov` | one byte per pointer, in locals, memory and on a shadow stack; static bytes of some libc wrappers | make, copy, pass, return and test the byte; wrap libc functions |
| Instrumentation passes | `crunchbound.ml`, `trumptr.ml`, `shadow.ml`, `shadowprov.ml`, ... | none at run time | insert the helper calls |
| SoftBound wrappers | `src/softbound-libc-wrappers.c` | the bounds stack and shadow space above | wrap libc calls |
| Stubs, drivers, C++ header, linker plugin | `src/stubs.c`, `frontend/` | none | -- |

How they interact.  The instrumentation passes surround each derivation, call,
return, pointer store and pointer load with inline helpers.  Derivation uses
the local bounds variable and, when it is invalid, calls into `libcrunch.c`,
which asks the caches and then liballocs.  Calls move bounds between local
variables of different functions over the bounds stack; stores and loads move
them between local variables and the shadow space; `memcpy` and friends move
them inside the shadow space.  Uninstrumented code takes part in none of this,
shares all of the memory, and calls and is called freely.  The fault handler
closes the loop: an out-of-bounds pointer is allowed to exist, trapped, and is
detrapped when it is used.  The caches of the derivation checks are the ones that
the type checks fill.  The provenance tool is a second client of the same
instrumentation scheme, with a byte where libcrunch has bounds and a stack of
its own with the same cookies.

What is hard.  (a) A pointer goes through long sequences of legal derivations,
with tags combined by XOR and bounds fetched late and cached.  (b) The bounds
stack has no frames: the only link between a push and a pop is a word that
holds a function's address, and uninstrumented callers, signal handlers and
longjmp come in between.  (c) Base, size and pointer are separate memory
accesses, and a size loses half of its bits.  (d) Most state is lazily filled
and shared, by threads too, and nothing is locked.  (e) Addresses are computed
from addresses, so that memory in the wrong place has no bounds or somebody
else's.  `PROJECT.json` lists the hazards with their lines.

What makes each part correct:

* derivation -- trap tags tell the truth, bounds belong to the pointer's own
  allocation, the cache holds nothing untrue, invalid pointers are reported;
* bounds stack -- a function gets the bounds its own caller passed, or none;
  the same for results; nothing is overwritten while a call is under way, and
  nothing piles up;
* shadow space -- bounds loaded belong to the pointer loaded, and survive the
  32-bit size;
* type checks -- a check succeeds exactly when the memory has the type, the
  cache only repeats what a check found, a chunk's lazy type is assigned once;
* subobject bounds -- never wider than the object around the pointer, whoever
  filled the cache, and as wide as the array for a pointer to its elements;
* fault handler -- an access it lets through goes where the instruction meant,
  it does not resume an instruction for ever, and it gives up none that it could
  have repaired;
* reporting -- every site that fails is told unless suppressed, repeats are
  counted and the count is printed;
* layout -- cells lie in the regions reserved for them, and regions lie outside
  the program's memory;
* provenance -- a pointer keeps the byte of its object through calls, memory and
  libc; the test of the byte neither misses another object nor stops a correct
  program.

## 2. Modules and plan

| Module | Models | State of the work |
|---|---|---|
| `DerivePtr` | derivation, fetching, caches, fault handler | done |
| `DerivePtrProofs` | proofs about it | done |
| `BoundsPassing` | what the bounds stack promises (abstract) | done |
| `BoundsStack` | the bounds stack; implements `BoundsPassing` | done |
| `BoundsStackProofs` | its properties and the refinement | done |
| `ShadowSpace` | the shadow space | done |
| `ShadowSpaceProofs` | proofs about it | done |
| `Uniqtypes` | run-time types as libcrunch sees them; likeness, refinement, degree | done |
| `TypeCheck` | the type checks, the is-a cache, heap chunks' types, counters | done |
| `SubobjectBounds` | fetching of bounds from the type, composed with `TypeCheck` over the shared cache; reuse of chunks | done |
| `TypesProofs` | what the walks through a type compute; proofs about the checks and the fetches | done |
| `TrapHandler` | `handle_sigsegv` on machine words | done |
| `TrapHandlerProofs` | proofs about it | done |
| `FailureReport` | start-up, suppressions, reports and the exit handler, with threads | done |
| `FailureReportProofs` | proofs about it | done |
| `ShadowLayout` | the shadowed ranges, the regions and the nudging of `mmap` | done |
| `ShadowLayoutProofs` | proofs about it | done |
| `ShadowProv` | provenance bytes, the shadow stack and the libc wrappers | done |
| `ShadowProvProofs` | proofs about it | done |
| `MC...` | the instances that TLC checks | done |

The plan is done: every invariant and action property that a run checks is also
stated by a theorem, and the two liveness properties by TLC alone.  The next
component to model would be the SoftBound wrappers, which do for bounds what
`ShadowProv`'s wrappers do for bytes.

The modules model the default build (`bounds-config-p`: trap pointers,
`LIBCRUNCH_CHECK_DERIVE`, split primary/secondary path, long bounds).  The
other letters of `frontend/c/lib/bounds-config-*`, `crunchxcc` and
`crunchbwscc` are not modelled.  `ShadowProv` models the tool of that name in
its default build, where integers have shadows too.

## 3. The modules

### DerivePtr

A pointer is a record of an address and a two-bit tag; `Word` is the machine
word that the code's unsigned subtractions see.  One unit of address is one
element.  Allocations are constants (`Lo`, `Hi`) of three kinds: one whose
array liballocs finds, one of which it only knows the extent, one it does not
know.  Each local pointer variable has a value and a bounds variable.

* `TakeAddress`, `CallUninstrumented`, `Assign` -- where pointers come from:
  with bounds, without, and by copying.
* `DerivePrimary`, `DeriveSecondary` -- `v = s + k`.  The bounds of `v` are the
  copy of `s`'s bounds made before the check, as `boundsDescrForExpr` emits it;
  the secondary check may fetch bounds into `s`'s variable, go back in bounds
  (detrap), make a one-past pointer, or report and trap.  Where the code tells
  the compiler that something is impossible (`__builtin_unreachable`) and it
  happens, the outcome is a nondeterministic choice.
* `fetch_bounds_ool` -- one-past adjustment, then the true cache, the
  fake-bounds cache, liballocs.  It gives the set of outcomes, because a full
  cache may replace any entry.
* `FaultFixup`, `FaultExit` -- the SIGSEGV handler.  It detraps a register,
  which may hold the variable or a copy of it.

`prov` and `clean` are history variables.  A pointer's history is clean while
every derivation started from an in-bounds, untrapped pointer or came back in
bounds, and used bounds other than max bounds; taking a trapped pointer
further out of bounds, deriving from max bounds, or a fixup ends it.  Without
that condition the tag properties are false, for the reasons given in section 6
(items 3 and 4).

### BoundsPassing and BoundsStack

`BoundsStack` has the words of the mapping, the stack pointer and the call
stack.  An instrumented frame goes "run" -> "args" -> "call" -> "wait" ->
"back" -> "run": bounds pushed, cookie pushed, callee entered, callee returned,
results taken and stack pointer reset.  `Enter` is the prologue that `vfunc`
inserts, `Return` the epilogue of `vstmt`.  `PlainCall`, `Signal` and
`LongJump` are the world outside.  `Init` has the three states that
`init_shadow_entries` can leave: the bounds of `argv` and main's cookie; the
bounds and a null cookie, when the address of main is not found
(`shadow.c:318`); nothing, when there is no auxiliary vector (`shadow.c:294`).
A bounds value is two words; reading two words that are not one bounds value
gives `Garbled`.

`BoundsPassing` says the same without a stack: a caller first fixes what it calls
and the bounds it passes (`Pass`); a call is *linked* when both sides are
instrumented and there is something to pass; a linked callee gets, position by
position, the bounds that its caller has passed (`Enter`), and its caller gets its
results' bounds (`Deliver`); an unlinked one gets none.  `Abstract` maps the call
stack of one to that of the other, what each frame calls, has passed and expects
included.

### ShadowSpace

Each thread has one local pointer with bounds (`reg`) and the helper it is in
(`op`).  A store writes base, size and pointer in three steps; a load tests for
null, reads base and size, then the pointer; a copy moves bases, sizes and data.
Sizes go through `SizeStored` (truncation to `SizeMod`) and `SizeLoaded`
(the transformation that restores max bounds).  `Free` leaves out programs that
race on a pointer.  `origin` and `good` are history: whether the pointer in a
word, or in a register, travelled with its bounds all the way.

### Uniqtypes and TypeCheck

`Uniqtypes` has a type's fields as functions (`Kind`, `SizeOf`, `Of`, `Memb`,
`Rel`, ...) and the pure part of the checks as operators.  The walks over
subobjects are liballocs functions; their recursion is a recursive function on
*spots*, a spot being an offset into a type.  How `src/libcrunch.c` uses them
fixes what they do:

* `find_matching_subobject` returns, besides the answer, the offset within the
  subobject tried last, its containing type and the sum of member offsets on the
  way (the caller passes the address of its own target offset for the first);
* `Walked` leaves out the root: `bounds_cb` reads the containing type of every
  subobject it is called for, and `__can_hold_pointer_internal` tries the root
  by hand before it walks;
* a cache lookup wants the same type, an address in the range, and a distance
  from its start that is a multiple of the period (`Steps`), of which 0 leaves the
  start alone;
* a type that is no composite has no members, and an abstract type that is no
  array stays as it is under `make_precise`.

What C and liballocs say of all types is stated as assumptions, which TLC
evaluates and the proofs use: `LayoutAssumption` (members and elements lie within
the whole; an array's size is its length times its element's, or one element or
unbounded when the length is not known), `NestingAssumption` (no type is part of
itself), `PointerAssumption` (no pointer type leads to itself) and `NoUnions`.

`TypeCheck` has the heap chunks with their types, the is-a cache, the
allocation mode and the counters.  There is one action per check (`IsA`, `LikeA`,
`LooselyLikeA`, `NamedA`, `IsAFunctionRefining`, `IsAPointerOfDegree`,
`CanHoldPointer`); the check of a call's arguments is a sequence of steps
(`CheckArgs`, `CheckArg`, `CheckArgsDone`), since each argument is an `__is_aU`
of its own.  All checks return 1 so that the program goes on; what a check
found is what it counts, kept in `last` as its verdict.  `Precisified` is
`DO_ARRAY_PRECISIFY`, part of nearly every check: a chunk of unknown length gets
its type made precise.  `LazilyTyped` is lazy heap typing.  Reading a position
of `related` that a function type does not have gives any outcome.  Where
`set_type` is called although the allocator has none, the program ends.
The period that `cache_is_a`, `cache_bounds` and `cache_fake_bounds` are given is an
`unsigned short`: `Short` takes a size modulo `PeriodMod`, which is 2^16 in the
code, and an entry whose period was cut that way is marked (`array` is FALSE;
section 6, item 24).
`special` is history: a store has specialised the chunk (`Specialised`, section
6, item 10).  `RoomAssumption` says that an object has room for the type it is
allocated as and that the array types which checks ask liballocs for exist.

### SubobjectBounds

Extends `TypeCheck`: the same chunks and types, and the same cache, which
`IsAFirst` (a type check) and `Fetch` both read and fill.  `Fetch` is
`__fetch_bounds_ool`: a one-past pointer is looked up as the element before it
(`Untrapped`), then come the memory-range cache (`FetchCached`), the fake-bounds
cache (`FetchFake`), and `__fetch_bounds_internal` (`FetchNull`, `FetchUnknown`,
`FetchKnown`).  `WalkTo` is the walk with `bounds_cb`, which goes down from spot
to spot and ends with what the callback's variables hold.  `ArrayAssumption`: a
chunk that is an array holds it in full, once its length is known;
`PlaceAssumption`: no chunk is larger than `MaxOff`, the last offset asked about.
`FetchNull` jumps over
the initialisation of the allocator: an entry is made, is not made, or the
program stops.  `Recycle` frees a chunk and allocates it again with another
type; that its cache entries go is liballocs's doing.  The reference
`Legal` is stated over the allocation's type as it is now, so that a stale or
foreign cache entry shows: the whole chunk for a char, for an object of the size
of the chunk's type and beyond that type, otherwise the array around the pointer
or the object there.  `retyped` is history: the chunks that a check has typed
lazily since they were allocated (section 6, item 14).

### TrapHandler

Registers hold words of `LowRange * TagRange` values, so that a negative index
has high bits and a sum carries into the tag.  `Access` executes an instruction
with one or more memory operands; if an address is not mapped the handler runs,
one step per operand (`SawOperand`, i.e. `saw_operand_cb` with
`try_register_fixup` for both registers), and then returns to the instruction
(`Retry`) or exits.  What the decoder of libsystrap cannot tell of an operand is
in `lost`.  `Known` are the registers that the
decoder does tell.  `meant`, `accessed` and `before` (the registers when the
instruction first faulted) are history.

### FailureReport

`EarlyInit` and `Construct` are the two constructors; a check may fail before
either.  A failure goes through `should_report_failure_at` (`Fail`, `Lookup`,
`Add`) and `report_failure` (`Compare`, then `Increment`, or `Summarise`,
`Reset`, `PrintFailure`, `SetSite`, `SetDecider`), one step for each access to
shared state, since nothing is locked.  `Exit`, `ExitSummary`, `ExitReset` and
`ExitEnd` are `exit` with `print_exit_summary`; `Die` is every other end.  Names
are sequences of letters so that prefix patterns mean something.

### ShadowLayout

The 47-bit constants of `src/shadow.c` are written as fractions of a *slice*
(2^44 bytes in the code) and rounded to pages as the code's are.
`InitShadowSpace` checks the mappings, reserves the regions and sets the bump
pointer; `MMap`, `MMapFixed`, `MMapEarly` and `MUnmap` are the program's calls
with the nudge in between, and `Kernel` chooses the place.  The length that the
program asks for need not be a multiple of a page: the kernel rounds it up, and a
hint down (`Rounded`, `KernelMMap`), while the nudge adds it to the bump pointer
as it is.  Cell addresses
(`base_stored_loc`, `size_stored_loc`) are computed as the inline helpers do.
`placed` (the calls that `Wants` describes: any address, a sane length, and room
where the nudge points or at the top of the address space, where the kernel
looks next) and `clobbered` (mappings that a region was mapped over, of which
`Rest` is what remains) are history.  `LayoutAssumption` says what of the code's
numbers matters: pages divide a slice, a slice is one more than a multiple of
three pages, the slack is at most a 32nd of a slice.

### ShadowProv

A pointer is its value, its shadow byte and two history fields: `org`, the
object it was made from, and `clean`, whether it has only been through
instrumented code and exact wrappers.  A call goes "none" -> "called" ->
("in" ->) "back" -> "none" over the shadow stack, whose words are shadows
or cookies; a one-byte result is written with eight bytes, over the cookie
(`PushByte`, `Clobbered`), and leaves the stack pointer odd.  There is one action per
family of wrappers (`WrapAllocating`, `WrapFinding`, `WrapSearching`, ...), chosen
by what the wrapper does for the result's byte, and five for `qsort`: the sort may
exchange words at any time between comparisons (`QsortMoves`), which leaves the
shadows where they were, and the comparator may be instrumented or not and need
not look at its arguments.  `realloc` may free its block (size 0), move it
without its shadows (`Moved`) or fail.  A word that qsort or realloc has moved is
no longer clean.  `Init` has the three outcomes of `init_shadow_entries`, as in
`BoundsStack` (`shadowprov_libc_wrappers.c:435`, `466`).
`Folded` is the exclusive or of the two lowest bytes, bit by bit, with the higher
bits of the shifted word as they are.  `Layout` and `UsedAssumption`: objects are
disjoint and above address 1, and functions with a static byte return addresses
of static memory (`dlopen`'s handle excepted).  `Dependable` are the functions whose static byte is right for everything they
return.  `LibCallsBack`, `LibStores` and `LibReturns` are uninstrumented code.

## 4. What TLC checks

Fairness is stated in two modules.  `TrapHandler` assumes that a handler that
was entered runs on (`SawOperand`, `Return`) and that the kernel resumes the
instruction (`Retry`): the handler has no loop but the one over operands, takes
no lock and waits for nothing.  `FailureReport` assumes that `exit` runs its
handlers to the end.  Nothing is assumed of the program: it need not make
another access, fail another check or exit.  The other modules state safety only; their
code runs inside the checked program and has no progress of its own.

`CHECK_DEADLOCK FALSE` is set in the derivation, stack, shadow-space, type and
subobject runs, where the program may stop by `raw_exit`, by `abort`, or because
a counter has reached its bound.  The other modules have an explicit step for the
program's end (`Exited`, `Stopped`, `Stop`), and there a deadlock would be an error.

| Run | Expected | Shows |
|---|---|---|
| `derive_partial` | pass | adjacent array, opaque and unknown allocation; only the array is cacheable |
| `stack_calls` | pass | calls among instrumented and uninstrumented functions, signals between any two helpers, one longjmp, a two-pointer function, three ways start-up ends |
| `shadow_threads` | pass | two threads, overlapping copies, small and max bounds, an object too large for its size cell |
| `type_casts` | pass | casts on a heap chunk of unknown length, several starting types, one of elements too large for the period |
| `type_memory` | pass | pointer stores among two heap chunks and a static object, function casts and indirect calls |
| `subobject_fetch` | pass | fetches, type checks and reuse of a chunk in any order, with unknown memory around it |
| `trap_fixup` | pass | base and index registers with every mix of tags, negative values, undecodable operands |
| `report` | pass | failures of two threads before, during and after start-up, good and malformed suppressions |
| `layout_nudge` | pass | seven start-up layouts, `mmap` before and after the regions are reserved, up to the end of the range |
| `prov_calls` | pass | six steps (a call counts two) with calls to instrumented, wrapped and uninstrumented functions |
| `type_sibling`, `layout_cells` | violation | see section 6 |

Properties of the derivation runs:
`TagsTellTruth` (a clean untrapped pointer is inside its allocation, one-past
means one past, invalid means outside), `GenuineBounds` (no neighbour's
bounds), `CacheIsTrue` (unconditional: wrong programs cannot poison the cache),
`InvalidIsReported`.  Of the stack runs: `AbstractSpec` (refinement),
`NoStrayCookie`, `InFlightIntact`, and `StackKept` (`Balanced`: nothing piles up;
`MainGetsArgv`: the bounds left by the constructor reach main, and where it left
none or no cookie main takes none).  Of the shadow
run: `LoadedBoundsFit`, `NothingLost`, `ShadowFollowsMemory`.  Of the type
runs: the verdicts against reference definitions that do not use the walks' early
exits (`IsARight`, `DegreeRight`, `StrictStoresRight`, `RefiningIsSound`,
`ArgsCounted`, and `LikenessIsSound`, which is `LikeIsSound`, `LooseIsSound` and
`NamedIsSound`), what the cache says of
arrays that the chunk has room for (`ArrayEntriesTrue`), what checks do to chunks (`ChunkTypesFit`,
`DecidedTypeStays`) and the exit summary (`Accounted`).

Of the newer runs: `BoundsWithin` (fetched bounds are within the array or object
there now, cache hits included, the ranges of section 6, items 14 and 24 excepted), `ElementsExact` (a pointer to an array's element gets
the array), `UncheckedOnlyIfReached` (max bounds for known memory only where
pointers to unknown memory were derived up to it).  `SameAddress`, `ExitJustified` (no
access is given up that fixups could have rescued), and the liveness property `Resolved` (a fault ends in the access or in the
program's exit).  `ReportsRight` (`EverySiteTold`: whatever the threads do to
each other; `QuietWhenAsked`: suppressions work), `CountsAddUp` (no repeat is
lost in a program of one thread), and the liveness property `Flushed` (the
pending count is printed at exit).  `Shadowed` (placement, cells and regions; the
regions overwrite nothing but mappings in the 3s and 4s).
`OwnProvenance` (a clean pointer has its object's byte), `Enforced` (it is let
through to no object with another byte), `NoFalseAlarm` (it is not stopped in its
own live object) and `StackRestored`; words that qsort or realloc moved are not
clean (section 6, item 25).

Each property has a mutant in its module, a plausible slip in the code that
breaks it.

Bounds.  Two pointer variables suffice for derivation, since no helper reads
more than two; the layout is chosen so that one-past of one array is the start
of the next allocation, offsets so that pointers leave on both sides and come back, and a
cache of one entry forces replacement.  The stack run goes to depth 4, enough for
main -> uninstrumented -> instrumented with a
handler above it; the mapping of 12 words is large enough that `Room` seldom binds.  The
shadow run uses four operations, each of up to four steps, over three words with
copies of up to two, so that source and target overlap; sizes have two bits
and words five, so that wrap-around happens.  The type runs make
two checks: the first changes a chunk's type or fills the cache, the second
sees it (no check reads more than the chunk, the cache and the mode); the types
include a struct with two scalars, one with a pointer, a `sockaddr`-like pair
for likeness, an abstract pointer type for lazy typing, and functions with and
without result and without parameters.  `PeriodMod` is 3 in `type_casts` and
`subobject_fetch`, so that the structs `big` (size 4) and `wrap` (size 5) have
periods 1 and 2, and 2^16 elsewhere.  A cache of one entry forces replacement; `MaxOff` is the
largest offset into any type.  The subobject run makes three checks, fetches or
reuses: one to fill the cache, one to make it stale, one to read it.  The fault
handler needs two registers for an operand and the stack pointer, which it
cannot fix; eight values include each tag, a tag that is none, and -1.  The
report run has two threads and three failures: a failure, a repeat, and another
that flushes it; one type name is a prefix of the other.  The layout run's
address space has 2^14 bytes in the code's proportions (an odd power of two of
pages, which decides how thirds are rounded); three `mmap` calls reach the end
of the range that the nudge hands out, and of the lengths some are no
multiple of a page.  The provenance run follows six
steps (make, call, store or sort, use; a call counts two) with one function of nearly
every wrapper family; two objects fold to the same byte.  `SYMMETRY` permutes variables
(`DerivePtr`, `ShadowProv`) or threads (`ShadowSpace`), which no definition tells apart.
`VIEW LiveView` (`MCBoundsStack`) hides the words below the stack pointer: each
push writes the words it allocates before anything reads them, so that two
states with the same view have the same future; the properties read live words
only.

## 5. What is proved

TLAPS proves the following for every value of the constants that satisfies the
named assumptions: any number of variables, threads, chunks, types and
functions, any layout, any depth of calls, any width of words.  `PROJECT.json`
lists the theorems with the run that checks the same property on an instance.

| Module | Theorems | Inductive invariant |
|---|---|---|
| `DerivePtrProofs` | `TypeCorrect`, `TagsCorrect`, `BoundsCorrect`, `CacheCorrect`, `ReportedCorrect` | `TypeOK`, `TagsTellTruth`, `GenuineBounds` and `CacheIsTrue` together |
| `BoundsStackProofs` | `NoStrayCorrect`, `InFlightCorrect`, `StackKeptCorrect`, `TypeCorrect`, `Implements` | `Types`, `EachHolds`, `Chain`, `Apart`, `NoStray`, `ArgvKept`, `MainGetsArgv` |
| `ShadowSpaceProofs` | `TypeCorrect`, `LoadedCorrect`, `NothingLostCorrect`, `FollowsCorrect` | `Types`, `NoRace`, `LoadedBoundsFit`, `Progress` of each thread, `Settled` |
| `TypesProofs` | `FindRight` and the lemmas on the walks | -- |
| | `IsACorrect`, `EntriesCorrect`, `LikenessCorrect`, `StoresCorrect`, `DegreeCorrect`, `RefiningCorrect`, `ArgsCorrect`, `ChunkTypesCorrect`, `DecidedCorrect`, `AccountedCorrect`, `TypeCorrect` | `Good`, `CallKnown`, `Right`; `CacheOK` beside it for the cache |
| | `ElementsCorrect`, `UncheckedCorrect` | `FInv`: `Good`, `Whole`, `Faked`, `MaxReached`, `ElementsExact` |
| | `BoundsCorrect` | `FInv`, `CacheLegal`, `BoundsWithin` |
| `TrapHandlerProofs` | `SameAddressCorrect`, `ExitJustifiedCorrect`, `FixupsDescend` | `Types`, `StillMeant`, `WentThrough`, `Sequences`; `FromBefore`, `NothingToFix` beside them for the exit |
| `FailureReportProofs` | `ReportsRightCorrect`, `CountsCorrect`, `AllToldAtExit` | `Types`, `Decisions`, `Balance`, `Flushing` |
| `ShadowLayoutProofs` | `ShadowReserved` | `LInv` |
| `ShadowProvProofs` | `TypeCorrect`, `ProvenanceKept`, `DerefSound`, `DerefComplete`, `ShadowStackBalanced` | `IInv`: `Memory`, `Control`, `Protocol`, `OwnProvenance`, `CachedRight`, `AccessInv` |

*Derivation.*  The three properties of tags, bounds and cache are not inductive
by themselves.  A derivation's tag is right because the bounds used are the
allocation's own, fetched bounds are the allocation's own because the cache is
true and the pointer looked up lies in the allocation, and it lies there because
its tag tells the truth.  The lemmas need that allocations are disjoint and that
a tagged word is larger than every untagged one (`ObjAssumption`,
`WordAssumption`).

*Bounds stack.*  The invariant says of every frame, not only of the innermost,
what the words between its stack pointer and its callee's are (`EachHolds`), that
stack pointers go down from frame to frame and callees are what their callers
called (`Chain`), and where untweaked cookies may be (`NoStray`).  A longjmp
leaves the stack pointer below where its target had it, so that exact positions
hold only in frames that no longjmp can have come back to (`Steady`).  The hypotheses: `HandlersApart` (handlers
are instrumented, and what they call takes pointers), without which the theorems
are false, as section 6 (item 5) explains; and, for the two theorems about the
bounds that functions get, `~Indirect` (the callee expression means the same
after the call as before, item 5 again).  The run's instance satisfies both.
`Implements` maps a frame to a call of `BoundsPassing` by forgetting words, stack
pointers and cookies, but not what was passed: `BeginCall` is the abstract `Pass`,
`PushCookie` a stutter, and entering a function is the abstract entry because the
word on top is the callee's address exactly when its caller has just pushed
it, and the words below it are then the bounds passed, in their order.
`NoneAssumption` keeps the value for "calls nothing" apart from the functions.

*Shadow space.*  `Progress` says for each line of each helper what has been read
or written so far, and `NoRace` that no other thread is in a helper on the same
word, which `Free` gives.  The size's round trip needs cells of more than two
values (`2 < SizeMod`; 2^32 in the code) and that the word's range is a multiple of
the cell's.

*Types.*  The walks are recursive functions on spots.  That a recursive function
is well defined, and what it computes, is proved by induction on the nesting of
types.  The library's induction theorems take an operator, which no installed
prover can instantiate; `TypesProofs` states induction about a set instead
(the least element of a set of ranks: `RankInduction`, `RankRecursion`).  Given
what the walks compute, a verdict is right because every check answers for the
chunk's precise type and no step changes a precise type under a verdict (`Good`,
`SamePrecise`).  For the cache, each entry made for an array is `Real`: where its
range starts the chunk's precise type has an array of the entry's type, with
every element of the range that the chunk has room for.  Being made precise
and lazy typing keep that, a store that specialises does not.  For elements
whose size `Short` keeps, the multiples of the period are the elements; entries
made for others are not `Real`, and the theorem is not about them.  The
assumptions are those of section 3, and `PeriodAssumption` (`PeriodMod` is
positive).

*Subobject bounds.*  A fetch's walk descends into the outermost array first, and
stops there when the element has the pointee's size; the fake cache never
reaches beyond the furthest derived address (`Faked`).  `BoundsWithin` is not
inductive: a hit returns what any earlier fetch or check left.  `CacheLegal` says
of every entry which is not flagged that at every multiple of its period from
its start its range is legal for every pointee of the period's size.  An entry of
the walk is: if the walk succeeds at the pointer, it succeeds with the same array
at every other element of that array (`WalkWithin`, `WalkArray`, again by
induction on the nesting of types); with no array on the way the period is the size
of the chunk's type, and only the pointer itself is at a multiple of it.  A step that changes no precise type
keeps it (`LegalSame`); lazy typing changes one, and its chunk is in `retyped`
from then on; reuse drops the entries.  The three parts are in one module, but
the proofs about `TypeCheck` use none of the assumptions of `SubobjectBounds`.

*Fault handler.*  The addresses meant are kept modulo the range below the tag
whatever registers have been cleared (`StillMeant`), also when a sum carries into
the tag or a register is used twice; at the access all are mapped, so that they
have no tag left.  For the exit, every register is either as it was at the first
fault or that without its tag (`FromBefore`), and a register that was named and
can be fixed has no tag left once the handler has seen its operand
(`NothingToFix`); so if the handler has changed nothing in a round, the addresses
that fault are those meant.

*Reporting.*  `Decisions` relates each thread's position to what it has read of
the shared state, weakly enough to survive any step of another thread: a site
that is in the list of seen ones, or in `last_failed_check`, was told or some
thread is on its way to tell it.
`Balance` and `Flushing` are about programs of one thread, as `CountsAddUp` is.

*Layout.*  The proofs about cells are arithmetic on thirds of slices rounded to
pages: with a slice of 3k + 1 pages each bound is a multiple of a page that is
written down, and each range is mapped by the cells' formulas into its regions.
That mappings stay clear of regions needs `LInv`: mappings are in the address
space, what `Wants` describes went to a shadowed range, and the bump pointer
never falls below the 2a range, so that what the nudge hands out is in that range
while it lasts, and what the kernel finds free overlaps nothing.  Lengths are
arbitrary; `PagesFacts` says how rounding changes a range.

*Provenance.*  That a pointer keeps its byte is not inductive across a call, when
the byte is a word of the shadow stack.  `Protocol` says for each stage of a call
how many words there are, which of them is the cookie, and that the bytes above
it are those of the pointers passed; `BackInv` that the result's byte is on top
exactly if the callee pushed it, with the cookie below it clobbered.
`CachedRight` says of each static byte that it is the object's if all addresses
which the function returns are in one object.  `Memory` says of every word of
memory, moved ones included, that it holds a pointer and a byte; of a moved word
no more is true.  With these, each wrapper is one
case.  `DerefSound` and `DerefComplete` rest on the disjointness of objects and on
`ShadowFromWord` being 0 for the null word only.

Only model-checked:

* The liveness properties `Resolved` and `Flushed`, since the prover has no
  rules for fairness and `ENABLED`.  Their safety halves are proved:
  `FixupsDescend` is the variant that ends the rounds through the handler, and
  `AllToldAtExit` says what has been printed when the program is gone.

## 6. Where code and text disagree

Checked by a run, with a counterexample:

1. *A member's cached range* (`type_sibling`).  `libcrunch.c:1118` adds the
   target offset to the chunk's start, but the search has overwritten it with
   the offset within the subobject found.  The range of a later member then
   starts at the chunk's start, and a check of an earlier one for the later
   one's type hits it.  `README:104`: "to assert that p points to a Widget".
2. *Size cells of the first page* (`layout_cells`).  The size cell of
   0x2aaaaaaab000 is at 0x1d5555555800, but the region is reserved from
   0x1d5555556000 (`shadow.c:256`); likewise 0x455555555800 against
   0x455555556000 for the 7a range (`shadow.c:264`).  That first page is the one
   the nudge hands out first when nothing is mapped there.  `shadow.c:64`: "okay
   -- we shadow these".

The modules contain the following as well; they are described here only, and the
passing properties name the case they leave out.

Derivation, bounds stack and shadow space:

3. *Re-trapping*.  `trap` is an XOR and the secondary check (inlines:1164)
   applies it to a derived pointer that still carries its source's tag.  Going
   from a one-past pointer to the same one-past address clears the tag.
   `crunchbound.ml:697`: "If it wasn't legit, we created a trapped pointer."
4. *The unreachable hint*.  `libcrunch_cil_inlines.h:1209`: "if it is, primary
   check fails".  It passes for a trapped pointer whose bounds are max bounds.
5. *Callee expression evaluated twice*.  `crunchbound.ml:2869` compares the
   cookie with the callee expression evaluated after the call; if the callee
   changed it, the caller takes bounds nobody pushed (`Indirect = TRUE`).
   inlines:1813: "If the cookie hasn't been tweaked, do nothing."
   *A handler in front of a call*.  Between inlines:1643 and the call the callee's
   address is on top of the stack.  A handler that starts the same function
   without a cookie of its own on top (an uninstrumented handler does, or an
   instrumented one when the call has no pointers to pass or return) looks like
   the interrupted call: the function takes its bounds and tweaks its cookie,
   and the real call gets none.
   *Start-up without bounds*.  Where the constructor finds no auxiliary vector, or
   no address of main (`shadow.c:294`, `318`), main gets invalid bounds for `argv`
   and fetches them later; no doc promises more.
   *Stale bounds of a formal*.  inlines:1724 leaves the shadow of an
   address-taken formal alone when there is no cookie; inlines:1509:
   "otherwise we use invalid bounds."
6. *Copied bounds*.  `crunchbound.ml:700`: "the bounds of the adjusted pointer
   are always identical to the bounds of the pre-adjusted pointer."  The copy
   precedes the fetch, so a derived pointer keeps invalid bounds and fetches
   again.
7. *`envp`*.  `shadow.c:312` leaves the bounds of `argv` for main; with
   `Params["main"] = 2` main reads beyond the mapping (`Garbled`).
8. *Loose likeness*.  With a test type without members the loop over members is
   empty and `__loosely_like_a` passes (`LooselyLike`).  `libcrunch.c:1761`:
   "nothing is like a non-generic pointer".
9. *Names at the root*.  `__named_a` does not look at the chunk's own type
   (`Named`), though `test/hello-incomplete/hello-incomplete.c:6` wants a
   library's complete type found.  This rests on the reading of the walk given
   in section 3; `NamedIsSound` is therefore one direction only.
10. *Which chunk is specialised*.  `libcrunch.c:2147` retypes the object stored
    into, having tested the value's type; it may have no `set_type` at all.
    `libcrunch.c:2120`: "We can only specialise the contract of as-yet-"unused"
    objects."  `DecidedTypeStays` excepts it.  The chunk's cache entries stay as
    they were, so that a check for the old type still hits; `ArrayEntriesTrue`
    excepts such chunks (`special`).
11. *Generic stores*.  `libcrunch.c:1990` compares the subobject's start with 0,
    the strict version with the value's offset (`GenericMatch`, `StrictMatch`).
    `StrictStoresRight` is about the strict one.
12. *Refinement with and without result*.  Both types are indexed with the
    allocation's `nret`.  `trumptr.ml:796`: "This succeeds for distinct function
    pointer types IFF the implicit casts ... would always pass __is_a."
    `RefiningIsSound` holds when both have a result or neither has.
13. *A call without arguments*.  For a callee that expects some, the failing
    index is 0, which is the answer for success (`ArgsAnswer`), and likewise for a
    call with arguments of a function that expects none; `ArgsCounted` is about
    calls with arguments of functions that take some.

Fetching, faults, reporting:

14. *A prefix of the pointee*.  The comment above the walk
    (`__fetch_bounds_internal`) says "bounds are only the pointee" where the
    memory is smaller than the pointee; the code takes the array that was
    descended through, with its length times the pointee's size, and caches
    that (`Tainted`).
    *Ranges that outlive a type*.  When a check types a chunk lazily, ranges
    that fetches cached for its old type stay, and a later fetch hits them
    (`retyped`).  An array without a length is taken up to the chunk's end, also
    where the chunk holds something after it.  A fetch for a char caches the
    whole chunk under the chunk's type with that type's size as period, so that
    a pointer beyond the type, where no object fits, gets the whole chunk.
15. *Arrays of arrays*.  `libcrunch.c:2257`: "we actually want to range over the
    outermost bounds."  `bounds_cb` finds both, and the caller uses the
    innermost.
16. *Names and patterns*.  The variable read is `LIBCRUNCH_SUPPRESSIONS`, a
    comment says `LIBCRUNCH_SUPPRESS` (`libcrunch.c:838`, `842`); a pattern without "*"
    matches every name it is a prefix of; a malformed triple leaves a null
    entry that hides the ones after it; an empty part leaves a null pattern,
    which the assumption of `FailureReport` excludes.
17. *The wrong stream* (`libcrunch.c:754`).  After opening a file the code tests
    `stream_err`, not the stream it opened.
18. *Uncounted errors*.  Soft dereference errors bump none of the counters that
    `print_exit_summary` tests, so that a pending repeat count may not be
    printed (`Flushed` asks for a counted check).  In a program of one thread
    that is not verbose no repeat reaches the counting at all: the filter of
    seen sites drops it first.
19. *`handle_sigbus`* is defined and never installed.

Layout and provenance, and sizes of 64 KiB and more:

20. *The 3s and 4s*.  `check_maps_cb` accepts mappings there although two size
    regions lie there and are mapped with MAP_FIXED over them.  `shadow.c:72`: "we
    assume the 3s and 4s are controlled by us -- HMM".  The layout run starts
    once with such a mapping (`clobbered`); nothing else is ever overwritten.
21. *Hints* to `mmap` are not vetted, and the assertion at the end of the nudge
    aborts a program that maps with MAP_FIXED over its own mapping.
22. *The qsort callback*.  `launder_qsort_cb` passes the base in the parameter
    that is not used, so that the comparator's pointers have null shadows and
    its first dereference aborts, though the comment says it "launders the
    pointers".  A comparator that is not instrumented, or does not dereference,
    goes on.
23. *Static bytes*.  `__errno_location` and `localtime` make the byte from the
    pointer returned, not from its allocation's base, and keep the first one.
24. *Large elements*.  The period of a cached range is an `unsigned short`
    (`libcrunch.c:968`, `975`, `1095`).  An element type of 65540 bytes is
    cached with period 4, so that `__is_a` hits at every fourth byte of the
    array; a fetch for a char in a struct of 65544 bytes caches the chunk with
    period 8, and a fetch for an 8-byte member then gets the whole chunk.
    `libcrunch.c` nowhere states a limit.  `ArrayEntriesTrue` and `BoundsWithin`
    except the entries whose period was cut; without the exception TLC finds both
    violated with the `PeriodMod` of the runs.
25. *Words that libc moves*.  qsort exchanges words and leaves their shadows
    (`shadowprov_libc_wrappers.c:368`: "PROBLEM: qsort does memcpy to copy the
    chunks, and we need to see that"), and so does a realloc that moves its
    block.  A pointer loaded from such a word has the byte of the pointer that
    was there before: it is stopped in its own object, and let through to the
    other's.  The three properties of provenance are about the other pointers.
26. *Unrounded lengths*.  After an `mmap` whose length is no multiple of a page,
    `first_2a_free` points into the last page just mapped (`shadow.c:139`).  The
    next nudged `mmap` fails the assertion at `shadow.c:145` where the page index
    is present; elsewhere the kernel puts the mapping at the top of the address
    space, which is shadowed too.
27. *getcwd(NULL)*.  The wrapper returns null though libc has allocated a
    buffer, which is lost.

## 7. What is not modelled

* The SoftBound wrappers (used by `crunchbwscc` only), the stubs, the C++
  `checked_cast`, the linker plugin and the drivers.
* `trumptr.ml` and the other passes as programs: their output appears as the
  order of helper calls in the actions.
* What `dev_ones` fills the shadow regions with.
* Programs that race on pointers; threads that update the memory-range caches at the
  same time, which nothing locks; the counts that threads lose to each other in
  `report_failure`; threads other than the main one as users of the bounds
  stack, which get no mapping; overflow of the bounds stack, which the code does
  not detect; signal handlers that longjmp or are also called directly; varargs.
* Unions, types looked up by name, and the text of reports in `TypeCheck`; null
  in `DerivePtr` and wrap-around of addresses; logging.
* Calls of `const` or `pure` functions that return pointers, which
  `crunchbound.ml:2679-2766` (and `shadow.ml` likewise) puts into a helper
  function that is not inlined: the helper makes the call that `BoundsStack` and
  `ShadowProv` model, and returns pointer and bounds packed into 128 bits.
* The rounding of `libcrunch.c:2226`, for copies that begin or end within a word:
  `ShadowSpace` copies whole aligned words.
* Elements of 64 KiB and more in `DerivePtr`, whose unit is the element; `TypeCheck`
  and `SubobjectBounds` have them.
* The buffer that `getcwd(NULL)` allocates: the program never has a pointer to it.
* `__ensure_bounds_in_cache`, `__hook_loaded_one_object_meta`, and in
  `ShadowProv` the shadows of the strings in `argv` and `environ` and of stdio.
* Freeing memory in `DerivePtr` and `ShadowSpace`; `SubobjectBounds` (`Recycle`)
  and `ShadowProv` (`Free`) have it.
