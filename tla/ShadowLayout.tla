---------------------------- MODULE ShadowLayout ----------------------------
(***************************************************************************)
(* Where the bounds of pointers in memory are kept.  The cells for the word *)
(* at address a are computed from a alone, so program memory has to lie in  *)
(* four ranges, whose cells init_shadow_space reserves; it checks the       *)
(* mappings that exist when it runs, and afterwards every mmap goes through *)
(* __wrap___liballocs_nudge_mmap.  The code's 47-bit constants are written  *)
(* here as fractions of Slice, 2^44 bytes in the code, rounded up to a page.*)
(***************************************************************************)
EXTENDS Integers, FiniteSets, FiniteSetsExt

CONSTANTS Slice,           \* bytes that share the top three of 47 address bits
          Page,            \* bytes in a page
          Word,            \* bytes in a pointer
          Slack,           \* by how much sizes_region_55 begins early
          BiggestSane,     \* BIGGEST_SANE_USER_ALLOC
          Initial,         \* sets of mappings that may exist at start-up
          Lengths, Hints,  \* of the mmap calls
          MaxMaps          \* bound on the mmap calls of one behaviour

Up(n) == ((n + Page - 1) \div Page) * Page
Down(n) == (n \div Page) * Page
Bytes(lo, hi) == [lo |-> lo, hi |-> hi]          \* hi is the first byte beyond

\* A slice is 2^32 pages in the code, one more than a multiple of three, and the
\* slack 0x2aaab000 bytes; this decides how the thirds are rounded.
ASSUME LayoutAssumption ==
  /\ {Slice, Page, Word, BiggestSane} \subseteq Nat \ {0} /\ {Slack, MaxMaps} \subseteq Nat
  /\ Slice % (32 * Page) = 0 /\ Page % (2 * Word) = 0 /\ Word % 2 = 0
  /\ (Slice \div Page) % 3 = 1 /\ Slack <= Slice \div 32
  /\ \A l \in Lengths : l \in Nat \ {0}
  /\ \A h \in Hints : h \in Nat /\ h % Page = 0
  /\ \A maps \in Initial : \A m \in maps :
       /\ m = Bytes(m.lo, m.hi) /\ {m.lo, m.hi} \subseteq Nat
       /\ m.lo < m.hi /\ m.hi <= 8 * Slice

VARIABLES mem,             \* the program's mappings
          started,         \* __libcrunch_bounds_bases_region_00 is set
          first_2a_free, first_30_free,
          have_pageindex,  \* liballocs's index of pages is there
          aborted,
          calls,           \* history: the number of mmap calls,
          placed,          \* where those that Wants describes went,
          clobbered        \* and the mappings that a region was mapped over

nudgeVars == <<first_2a_free, first_30_free>>
vars == <<mem, started, nudgeVars, have_pageindex, aborted, calls, placed, clobbered>>
-----------------------------------------------------------------------------
In(m, r) == r.lo <= m.lo /\ m.hi <= r.hi         \* is_in_range
Overlap(m, r) == m.lo < r.hi /\ r.lo < m.hi

Start2a == Up((8 * Slice) \div 3)
Range2a == Bytes(Start2a, 3 * Slice)
Range55 == Bytes(Up((16 * Slice) \div 3), Up((16 * Slice) \div 3) + Slice \div 16)
Range7a == Bytes(Up((23 * Slice) \div 3), 8 * Slice)

\* The mappings that check_maps_cb calls okay, "we shadow these".
Shadowable(m) ==
  \/ In(m, Bytes(0, Slice \div 3)) \/ In(m, Range2a)
  \/ In(m, Range55) \/ In(m, Range7a)

\* It also lets through what is in the 3s and 4s.
Ours == Bytes(3 * Slice, 5 * Slice)
Accepted(m) == Shadowable(m) \/ In(m, Ours)

BaseRegions == {Bytes(7 * Slice, Up((22 * Slice) \div 3)),
                Bytes(Up((17 * Slice) \div 3), 6 * Slice),
                Bytes(Up((7 * Slice) \div 3), Up((7 * Slice) \div 3) + Slice \div 16),
                Bytes(Up((2 * Slice) \div 3), Slice)}
Sizes55 == Bytes(Up((19 * Slice) \div 6) - Slack, Up((19 * Slice) \div 6) + Slice \div 32)
SizeRegions == {Bytes(Slice \div 2, Up((2 * Slice) \div 3)),
                Bytes(Up((11 * Slice) \div 6), Up((13 * Slice) \div 6)),
                Sizes55,
                Bytes(Up((13 * Slice) \div 3), 4 * Slice + Slice \div 2)}
Regions == BaseRegions \cup SizeRegions

\* BASE_STORED: the top three bits inverted.  SIZE_STORED: half the address.
base_stored_loc(a) == (7 - a \div Slice) * Slice + (a % Slice)
size_stored_loc(a) == Slice \div 2 + a \div 2

Init ==
  /\ mem \in Initial /\ started = FALSE /\ aborted = FALSE
  /\ first_2a_free = 0 /\ first_30_free = Sizes55.hi
  /\ have_pageindex \in BOOLEAN /\ calls = 0 /\ placed = {} /\ clobbered = {}

\* The kernel, asked for whole pages: a hint is taken if it is free, otherwise the
\* highest hole is.
Taken == mem \cup IF started THEN Regions ELSE {}
Free(r) == r.hi <= 8 * Slice /\ \A m \in Taken : ~Overlap(m, r)
Holes(length) ==       \* right below a mapping, or below the top
  {t \in {m.lo : m \in Taken} \cup {8 * Slice} : t > length /\ Free(Bytes(t - length, t))}
Kernel(addr, length) ==
  IF addr # 0 /\ Free(Bytes(addr, addr + length)) THEN Bytes(addr, addr + length)
  ELSE LET top == Max(Holes(length)) IN Bytes(top - length, top)

\* It takes the page that a hint is in, and rounds a length up.
Rounded(addr, length) == Bytes(Down(addr), Down(addr) + Up(length))
KernelMMap(addr, length) == Kernel(Down(addr), Up(length))
-----------------------------------------------------------------------------
\* What MAP_FIXED leaves of a mapping: it is itself when no region overlaps it.
Rest(m) ==
  {p \in {Bytes(lo, hi) : lo \in {m.lo} \cup {r.hi : r \in Regions},
                         hi \in {m.hi} \cup {r.lo : r \in Regions}} :
     p.lo < p.hi /\ In(p, m) /\ \A r \in Regions : ~Overlap(p, r)}

\* init_shadow_space: the bounds stack, the walk over the maps, the regions.
InitShadowSpace ==
  /\ ~started /\ ~aborted /\ Holes(Page) # {}
  /\ LET all == mem \cup {Kernel(0, Page)}
         ends == {m.hi : m \in {n \in all : In(n, Range2a)}}
     IN  IF \E m \in all : ~Accepted(m)
           THEN aborted' = TRUE /\ UNCHANGED <<mem, started, first_2a_free, clobbered>>
           ELSE /\ started' = TRUE /\ aborted' = aborted
                /\ mem' = UNION {Rest(m) : m \in all}
                /\ clobbered' = {m \in all : \E r \in Regions : Overlap(m, r)}
                /\ first_2a_free' = IF ends = {} THEN Start2a ELSE Max(ends)
  /\ UNCHANGED <<first_30_free, have_pageindex, calls, placed>>

\* Mutant: everything without a hint goes to the 3s.
MutNudge(addr, length) ==
  IF addr = 0
    THEN [to |-> first_30_free, next2a |-> first_2a_free, next30 |-> first_30_free + length]
    ELSE [to |-> addr, next2a |-> first_2a_free, next30 |-> first_30_free]

\* __wrap___liballocs_nudge_mmap of a call without MAP_FIXED; the length is added
\* as it is.
Nudge(addr, length) ==
  IF length > BiggestSane
    THEN [to |-> first_30_free, next2a |-> first_2a_free, next30 |-> first_30_free + length]
  ELSE IF addr = 0
    THEN [to |-> first_2a_free, next2a |-> first_2a_free + length, next30 |-> first_30_free]
  ELSE [to |-> addr, next2a |-> first_2a_free, next30 |-> first_30_free]

\* The assertion at the end of the nudge: the page is in no mapping.
AssertFree(addr) == have_pageindex => \A m \in Taken : ~(m.lo <= addr /\ addr < m.hi)

\* A call of sane size that leaves the address open and finds room: where the
\* nudge points, or, when that is taken, at the top, where the kernel looks.
Wants(addr, length) ==
  LET r == Rounded(first_2a_free, length)
  IN /\ addr = 0 /\ length <= BiggestSane /\ r.hi <= Range2a.hi
     /\ \/ Free(r)
        \/ \E t \in Holes(Up(length)) : In(Bytes(t - Up(length), t), Range7a)

MMap(addr, length) ==
  /\ started /\ ~aborted /\ calls < MaxMaps /\ calls' = calls + 1
  /\ LET n == Nudge(addr, length)
         new == KernelMMap(n.to, length)
     IN  /\ Holes(Up(length)) # {}
         /\ first_2a_free' = n.next2a /\ first_30_free' = n.next30
         /\ IF AssertFree(n.to)
              THEN /\ mem' = mem \cup {new} /\ aborted' = aborted
                   /\ placed' = IF Wants(addr, length) THEN placed \cup {new} ELSE placed
              ELSE aborted' = TRUE /\ UNCHANGED <<mem, placed>>
  /\ UNCHANGED <<started, have_pageindex, clobbered>>

\* MAP_FIXED: let through; a program uses it on a part of its own mappings, as
\* the dynamic linker does.
MMapFixed(m, length) ==
  /\ started /\ ~aborted /\ calls < MaxMaps /\ calls' = calls + 1
  /\ m \in mem /\ m.lo + length <= m.hi
  /\ aborted' = ~AssertFree(m.lo)
  /\ first_2a_free' = IF In(Bytes(m.lo, m.lo + length), Range2a) /\ m.lo + length > first_2a_free
                        THEN m.lo + length ELSE first_2a_free
  /\ UNCHANGED <<mem, started, first_30_free, have_pageindex, placed, clobbered>>

\* Before init_shadow_space the nudge does nothing.
MMapEarly(length) ==
  /\ ~started /\ ~aborted /\ calls < MaxMaps /\ calls' = calls + 1
  /\ Holes(Up(length)) # {} /\ mem' = mem \cup {KernelMMap(0, length)}
  /\ UNCHANGED <<started, nudgeVars, have_pageindex, aborted, placed, clobbered>>

\* What the program was started with stays.
MUnmap(m) ==
  /\ ~aborted /\ m \in mem \ UNION Initial
  /\ mem' = mem \ {m} /\ placed' = placed \ {m}
  /\ UNCHANGED <<started, nudgeVars, have_pageindex, aborted, calls, clobbered>>

\* After an abort, or the bound.
Stopped == (aborted \/ calls = MaxMaps) /\ UNCHANGED vars

Next ==
  \/ InitShadowSpace
  \/ \E length \in Lengths : \/ MMapEarly(length)
                             \/ \E addr \in Hints : MMap(addr, length)
                             \/ \E m \in mem : MMapFixed(m, length)
  \/ \E m \in mem : MUnmap(m)
  \/ Stopped

Spec == Init /\ [][Next]_vars
-----------------------------------------------------------------------------
Words(m) == {a \in m.lo .. (m.hi - 1) : a % Word = 0}
BasesOf(m) == {Bytes(base_stored_loc(a), base_stored_loc(a) + Word) : a \in Words(m)}
SizeOf(a) == Bytes(size_stored_loc(a), size_stored_loc(a) + Word \div 2)
SizesOf(m) == {SizeOf(a) : a \in Words(m)}
Reserved(cell, regions) == \E r \in regions : In(cell, r)

\* The first page of the 2a range and of the 7a range.
FirstPages == {Bytes(Start2a, Start2a + Page), Bytes(Range7a.lo, Range7a.lo + Page)}

\* After init_shadow_space and under the nudge: an mmap of sane size that leaves
\* the address open goes to a shadowed range while the 2a range lasts; a word of a
\* shadowed mapping, outside the first pages, has its base and size cells in
\* regions reserved for bases and for sizes; no mapping is where a region is, and
\* the regions were mapped over nothing, except in the 3s and 4s, where
\* check_maps_cb says "we assume the 3s and 4s are controlled by us -- HMM".
Shadowed ==
  started =>
    /\ \A m \in placed : Shadowable(m)
    /\ \A m \in mem : Shadowable(m) =>
         /\ \A c \in BasesOf(m) : Reserved(c, BaseRegions)
         /\ \A a \in Words(m) : Reserved(SizeOf(a), SizeRegions)
                                \/ \E f \in FirstPages : f.lo <= a /\ a < f.hi
    /\ \A m \in mem, r \in Regions : ~Overlap(m, r)
    /\ \A m \in clobbered : In(m, Ours)

\* "okay -- we shadow these" (check_maps_cb): both cells of every word of such a
\* mapping are in memory that init_shadow_space reserved.
EveryWordShadowed ==
  started => \A m \in mem : Shadowable(m) =>
               \A c \in BasesOf(m) \cup SizesOf(m) : Reserved(c, Regions)
=============================================================================
