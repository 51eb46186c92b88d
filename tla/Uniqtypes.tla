----------------------------- MODULE Uniqtypes -----------------------------
(***************************************************************************)
(* The run-time types of liballocs as libcrunch sees them, and the pure    *)
(* part of its type checks: which subobject starts at an offset, when one  *)
(* type is like another, when one function type refines another, and the   *)
(* degree of a pointer type.  A type is unique, so types are compared by   *)
(* identity; the fields of struct uniqtype are functions.                   *)
(*                                                                         *)
(* Unions are left out: at most one member of a type spans an offset.      *)
(***************************************************************************)
EXTENDS Integers, Sequences

CONSTANTS
  Type,          \* the uniqtypes of the program
  Kind,          \* the fields of each: its kind,
  SizeOf,        \*   pos_maxoff,
  Of,            \*   a pointer's pointee or an array's element type,
  LenOf,         \*   an array's length, 0 if it has no known length,
  Memb,          \*   a composite's members, by offset,
  Rel, Nret,     \*   a function's results and argument types in one sequence,
                 \*   and the number of results,
  MakePrecise,   \*   is there a make_precise function: the type is abstract,
  Complement,    \*   a base type's signedness complement
  None,          \* NULL
  VoidType, SignedChar, UnsignedChar,
  MaxOff         \* bound on the offsets into a type

Offset == 0 .. MaxOff

IsBase(t)     == Kind[t] = "base"
IsPointer(t)  == Kind[t] = "address"
IsArray(t)    == Kind[t] = "array"
IsFunction(t) == Kind[t] = "subprogram"

Members(t) == {Memb[t][i] : i \in 1 .. Len(Memb[t])}
Spans(m, off) == m.off <= off /\ off < m.off + SizeOf[m.ty]

ASSUME TypesAssumption ==
  /\ None \notin Type /\ MaxOff \in Nat
  /\ {VoidType, SignedChar, UnsignedChar} \subseteq Type /\ Kind[VoidType] = "void"
  /\ Kind \in [Type -> {"base", "void", "address", "array", "composite", "subprogram"}]
  /\ SizeOf \in [Type -> 1 .. MaxOff + 1] /\ LenOf \in [Type -> Nat]
  /\ \A t \in Type :
       /\ IsPointer(t) \/ IsArray(t) => Of[t] \in Type
       /\ Memb[t] \in Seq([off : Offset, ty : Type])
       /\ Rel[t] \in Seq(Type) /\ Nret[t] \in 0 .. 1 /\ Nret[t] <= Len(Rel[t])
       /\ MakePrecise[t] \in BOOLEAN
       /\ Complement[t] \in Type \union {None}
       /\ Complement[t] # None => IsBase(t) /\ IsBase(Complement[t])

ASSUME NoUnions ==
  \A t \in Type, off \in Offset :
    \A m, n \in Members(t) : Spans(m, off) /\ Spans(n, off) => m = n

\* The types of which a type consists.
Parts(t) == IF IsArray(t) THEN {Of[t]} ELSE {m.ty : m \in Members(t)}

\* As in C, the elements of an array have a known size, and no parts while they
\* are abstract; parts lie within the whole and only composites have members.  An
\* array of unknown length counts as one element or as unbounded, and one too
\* long for pos_maxoff as unbounded.
ASSUME LayoutAssumption ==
  \A t \in Type :
    /\ IsArray(t) => /\ MakePrecise[Of[t]] => Parts(Of[t]) = {}
                     /\ SizeOf[Of[t]] <= SizeOf[t]
                     /\ LenOf[t] = 0 => SizeOf[t] \in {SizeOf[Of[t]], MaxOff + 1}
                     /\ LenOf[t] > 0 =>
                          /\ ~MakePrecise[t] /\ SizeOf[t] <= LenOf[t] * SizeOf[Of[t]]
                          /\ SizeOf[t] \in {LenOf[t] * SizeOf[Of[t]], MaxOff + 1}
    /\ Kind[t] # "composite" => Memb[t] = <<>>
    /\ \A m \in Members(t) : m.off + SizeOf[m.ty] <= SizeOf[t]

\* No type is a part of itself: every type nests less deeply than the whole.
ASSUME NestingAssumption ==
  LET Nesting[t \in Type] ==
        LET below == {Nesting[u] : u \in Parts(t)}
        IN IF below = {} THEN 0 ELSE 1 + CHOOSE n \in below : \A m \in below : m <= n
  IN \A t \in Type : Nesting[t] \in Nat /\ \A u \in Parts(t) : Nesting[u] < Nesting[t]

\* __liballocs_get_or_create_array_type
ArrayType(t, n) ==
  CHOOSE a \in Type : IsArray(a) /\ Of[a] = t /\ LenOf[a] = n

\* There is such a type.
IsMade(t, n) == \E a \in Type : IsArray(a) /\ Of[a] = t /\ LenOf[a] = n

-----------------------------------------------------------------------------
(* Going down to the subobjects.  A spot is an offset into a type. *)

Spot == [ty : Type, off : Offset]
SpotOf(t, o) == [ty |-> t, off |-> o]

\* __liballocs_first_subobject_spanning: the spots one level below s.
Inside(s) ==
  IF IsArray(s.ty)
  THEN {SpotOf(Of[s.ty], o % SizeOf[Of[s.ty]]) :
          o \in {s.off} \intersect (0 .. SizeOf[s.ty] - 1)}
  ELSE {SpotOf(m.ty, s.off - m.off) : m \in {m \in Members(s.ty) : Spans(m, s.off)}}

Leaf(s) == Inside(s) = {}
Inner(s) == CHOOSE i \in Inside(s) : TRUE

\* un.memb.off of the position one level down; an array's is 0.
PosOff(s) == IF IsArray(s.ty) THEN 0 ELSE s.off - Inner(s).off

\* __liballocs_find_matching_subobject: was a subobject of type u found that
\* starts at the spot; and the subobject tried last: the offset within it, the
\* type around it, the sum of the member offsets on the way and the last one.
find_matching_subobject(u, spot) ==
  LET Find[s \in Spot] ==
        LET here == [found |-> s.off = 0 /\ s.ty = u, off |-> s.off, sum |-> 0,
                     containing |-> None, pos |-> 0]
        IN IF here.found \/ Leaf(s) THEN here
           ELSE LET r == Find[Inner(s)]
                    innermost == r.containing = None
                IN [r EXCEPT !.sum = @ + PosOff(s),
                             !.containing = IF innermost THEN s.ty ELSE @,
                             !.pos = IF innermost THEN PosOff(s) ELSE @]
  IN Find[spot]

\* __liballocs_walk_subobjects_spanning: the subobjects it calls back for,
\* each with its start relative to the walk's.  The root is not one of them:
\* bounds_cb reads the containing type of each.
Walked[s \in Spot] ==
  IF Leaf(s) THEN {}
  ELSE LET i == Inner(s)
           d == s.off - i.off
       IN {[ty |-> i.ty, start |-> d]} \union
          {[w EXCEPT !.start = @ + d] : w \in Walked[i]}

\* while (target_offset_within_uniqtype != 0) first_subobject_spanning(...);
\* the spot stays off zero when that fails.
AtStart[s \in Spot] == IF s.off = 0 \/ Leaf(s) THEN s ELSE AtStart[Inner(s)]

\* while (success) success = first_subobject_spanning(...)
Deepest[s \in Spot] == IF Leaf(s) THEN s ELSE Deepest[Inner(s)]

\* while (IS_ARRAY_TYPE(t)) t = ARRAY_ELEMENT_TYPE(t)
Element[t \in Type] == IF IsArray(t) THEN Element[Of[t]] ELSE t

-----------------------------------------------------------------------------
(* Pointer types *)

\* pointer_degree_and_ultimate_pointee_type
Degree[t \in Type] == IF IsPointer(t) THEN 1 + Degree[Of[t]] ELSE 0

\* No pointer type leads to itself: each pointee has a smaller degree.
ASSUME PointerAssumption ==
  \A t \in Type : Degree[t] \in Nat /\ (IsPointer(t) => Degree[Of[t]] < Degree[t])

Ultimate[t \in Type] == IF IsPointer(t) THEN Ultimate[Of[t]] ELSE t

\* Mutant: one level too few.
MutHasDegree(t, d) == Degree[t] >= d - 1

pointer_has_degree(t, d) == Degree[t] >= d

is_generic_ultimate_pointee(t) == t \in {VoidType, SignedChar, UnsignedChar}

\* is_generic_pointer_type_of_degree_at_least(t, 1)
GenericDegree(t) == IF is_generic_ultimate_pointee(Ultimate[t]) THEN Degree[t] ELSE 0

is_abstract_pointer_type(t) == IsPointer(t) /\ MakePrecise[t]

holds_pointer_of_degree(s, d) ==
  LET x == Deepest[s] IN x.off = 0 /\ IsPointer(x.ty) /\ pointer_has_degree(x.ty, d)

-----------------------------------------------------------------------------
(* Likeness *)

CharArray(t) == IsArray(t) /\ Of[t] \in {SignedChar, UnsignedChar}

OneElementArray(a, t) == IsArray(a) /\ LenOf[a] = 1 /\ Of[a] = t
Complements(s, t) == Complement[s] = t \/ Complement[t] = s

\* Mutant: the types are not compared.
MutSameMember(m, n) == m.off = n.off

SameMember(m, n) == m.off = n.off /\ m.ty = n.ty

\* A member of the test type that is a generic pointer matches any pointer of
\* at least its degree; signedness does not matter.
LooseMember(m, n) ==
  /\ m.off = n.off
  /\ \/ m.ty = n.ty
     \/ GenericDegree(m.ty) # 0 /\ pointer_has_degree(n.ty, GenericDegree(m.ty))
     \/ IsBase(m.ty) /\ IsBase(n.ty) /\ Complement[m.ty] = n.ty

\* Where the object's members go on after the test type's i-th one, a char array.
TargetOff(test, i) ==
  LET m == Memb[test]
  IN IF Len(m) > i THEN m[i + 1].off ELSE m[i].off + SizeOf[m[i].ty]

\* The loop over the members of both types.  A test member that is a char array
\* stands for any members of the object.
MembersMatch(test, obj, loosely) ==
  LET tm == Memb[test]
      om == Memb[obj]
      Go[at \in (1 .. Len(om) + 1) \X (1 .. Len(tm) + 1)] ==
        LET o == at[1]
            i == at[2]
            skipped == {k \in o + 1 .. Len(om) :
                          \A j \in o + 1 .. k : om[j].off < TargetOff(test, i)}
            k == CHOOSE k \in skipped \union {o} : \A j \in skipped : j <= k
        IN IF o > Len(om) \/ i > Len(tm) THEN i > Len(tm)
           ELSE IF CharArray(tm[i].ty)
           THEN ~(k >= Len(om) /\ Len(tm) > i) /\ Go[<<k + 1, i + 1>>]
           ELSE /\ IF loosely THEN LooseMember(tm[i], om[o]) ELSE SameMember(tm[i], om[o])
                /\ Go[<<o + 1, i + 1>>]
  IN Go[<<1, 1>>]

\* __like_a_internal on the type at spot s.
like_a(test, s) ==
  LET at == AtStart[s]
      cur == Element[at.ty]
  IN /\ at.off = 0
     /\ \/ test = cur
        \/ IsArray(test) /\ OneElementArray(test, cur)
        \/ /\ ~IsArray(test)
           /\ \/ ~IsBase(cur) /\ ~IsBase(test) /\ Complements(cur, test)
              \/ MembersMatch(test, cur, FALSE)

\* One round of __loosely_like_a_internal's outer loop.
LooselyLike(test, cur) ==
  \/ test = cur
  \/ /\ GenericDegree(test) # 0
     /\ holds_pointer_of_degree(SpotOf(cur, 0), GenericDegree(test))
  \/ /\ GenericDegree(test) = 0
     /\ IF IsArray(cur) \/ IsArray(test)
        THEN OneElementArray(test, cur) \/ OneElementArray(cur, test)
        ELSE \/ (~IsBase(cur) \/ IsBase(test)) /\ Complements(cur, test)
             \/ MembersMatch(test, cur, TRUE)

\* try_deeper: the same, one level down.
LooseFrom(test, spot) ==
  LET From[s \in Spot] == LooselyLike(test, s.ty) \/ (~Leaf(s) /\ From[Inner(s)])
  IN From[spot]

loosely_like_a(test, s) == AtStart[s].off = 0 /\ LooseFrom(test, AtStart[s])

-----------------------------------------------------------------------------
(* Function types *)

Narg(t) == Len(Rel[t]) - (IF Nret[t] = 0 THEN 0 ELSE 1)

would_always_succeed(from, to) ==
  \/ ~IsPointer(to)
  \/ Of[to] \in {VoidType, SignedChar}
  \/ /\ IsPointer(from)
     /\ find_matching_subobject(Of[to], SpotOf(Of[from], 0)).found

\* Mutant: the arguments are converted the wrong way round.
MutRefining(alloc, test) ==
  {/\ Narg(alloc) = Narg(test)
   /\ \A i \in (1 .. Len(Rel[alloc])) \intersect (1 .. Len(Rel[test])) :
        would_always_succeed(Rel[alloc][i], Rel[test][i])}

\* The outcomes of __is_a_function_refining_internal for two function types:
\* related[0] as the result, whatever nret is, then narg positions from
\* MIN(1, nret of the allocation's) in both.  Reading a position that a type
\* does not have gives anything.
function_refining(alloc, test) ==
  LET first == IF Nret[alloc] = 0 THEN 1 ELSE 2
      read == {1} \union (first .. first + Narg(alloc) - 1)
      present == {i \in read : i <= Len(Rel[alloc]) /\ i <= Len(Rel[test])}
      args == first .. first + Narg(alloc) - 1
      known == /\ 1 \in present => would_always_succeed(Rel[alloc][1], Rel[test][1])
               /\ \A i \in present \intersect args :
                    would_always_succeed(Rel[test][i], Rel[alloc][i])
  IN IF Narg(alloc) # Narg(test) THEN {FALSE}
     ELSE {known} \union (IF present = read THEN {} ELSE {FALSE})

-----------------------------------------------------------------------------
(* What the checks mean, without the walks *)

\* The types whose objects start at spot s.
TypesAt(s) ==
  {w.ty : w \in {w \in Walked[s] \union {[ty |-> s.ty, start |-> 0]} : w.start = s.off}}

ResultOf(f) == IF Nret[f] = 0 THEN VoidType ELSE Rel[f][1]
ArgOf(f, i) == Rel[f][i + (IF Nret[f] = 0 THEN 0 ELSE 1)]

\* A call through test of a function of type alloc only makes casts that
\* always pass.
SafeToCallAs(alloc, test) ==
  /\ Narg(alloc) = Narg(test)
  /\ would_always_succeed(ResultOf(alloc), ResultOf(test))
  /\ \A i \in 1 .. Narg(alloc) : would_always_succeed(ArgOf(test, i), ArgOf(alloc, i))
=============================================================================
