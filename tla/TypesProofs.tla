---------------------------- MODULE TypesProofs ----------------------------
(***************************************************************************)
(* Types, for all types, chunks, pointers and histories, in three parts.    *)
(*                                                                         *)
(* What the walks through a type compute (Uniqtypes).  The walks are       *)
(* recursive functions; that they are well defined, and every fact about   *)
(* them, rests on the nesting of types.  The library's induction theorems  *)
(* have an operator as a parameter.  Here induction is about a set: it     *)
(* comes from the least element of a set of numbers.                       *)
(*                                                                         *)
(* What the type checks find, cache and count (TypeCheck).  These proofs   *)
(* use none of the assumptions of SubobjectBounds.                         *)
(*                                                                         *)
(* Which bounds are fetched (SubobjectBounds).                             *)
(***************************************************************************)
EXTENDS SubobjectBounds, FiniteSetTheorems, NaturalsInduction, WellFoundedInduction, TLAPS

-----------------------------------------------------------------------------
(* Induction and recursion on a rank *)

\* Every set of numbers has a least element.
LEMMA Least ==
  ASSUME NEW T, T \subseteq Nat, T # {}
  PROVE \E x \in T : \A y \in T : x <= y
<1> DEFINE R == {ss \in Nat \X Nat : ss[1] < ss[2]}
<1>1. IsWellFoundedOn(R, Nat)
  BY NatLessThanWellFounded, Zenon DEF OpToRel
<1>2. PICK x \in T : \A y \in T : ~(<<y, x>> \in R)
  BY <1>1, WFMin, Zenon
<1>3. \A y \in T : x <= y
  <2> TAKE y \in T
  <2>1. x \in Nat /\ y \in Nat
    OBVIOUS
  <2>2. y < x => <<y, x>> \in R
    BY <2>1
  <2>3. ~(y < x)
    BY <1>2, <2>2
  <2> HIDE DEF R
  <2> QED BY <2>1, <2>3
<1> QED BY <1>3

\* A set holds everything if it holds whatever has all of lower rank in it.
LEMMA RankInduction ==
  ASSUME NEW S, NEW rank \in [S -> Nat], NEW T,
         \A x \in S : (\A y \in S : rank[y] < rank[x] => y \in T) => x \in T
  PROVE S \subseteq T
<1> SUFFICES ASSUME \E x \in S : x \notin T
             PROVE FALSE
  OBVIOUS
<1> DEFINE B == {rank[x] : x \in {x \in S : x \notin T}}
<1>1. B \subseteq Nat /\ B # {}
  OBVIOUS
<1>2. PICK n \in B : \A m \in B : n <= m
  BY <1>1, Least, Zenon
<1>3. PICK x \in S : x \notin T /\ rank[x] = n
  BY <1>2
<1>4. \A y \in S : rank[y] < rank[x] => y \in T
  <2> TAKE y \in S
  <2>1. y \notin T => rank[y] \in B
    OBVIOUS
  <2>2. rank[y] \in Nat /\ rank[x] \in Nat
    OBVIOUS
  <2> HIDE DEF B
  <2> QED BY <1>2, <1>3, <2>1, <2>2
<1> QED BY <1>3, <1>4

LEMMA Succ ==
  ASSUME NEW a \in Nat
  PROVE /\ a + 1 \in Nat /\ a < a + 1 /\ ~(a < 0)
        /\ a # 0 => a - 1 \in Nat /\ a - 1 < a
OBVIOUS

\* A step of a recursion that only uses values of lower rank.
GoesDown(S, R, rank, step) ==
  \A f, g \in [S -> R], x \in S :
    (\A y \in S : rank[y] < rank[x] => f[y] = g[y]) => step[<<f, x>>] = step[<<g, x>>]

Solves(f, S, step) == \A x \in S : f[x] = step[<<f, x>>]

\* Such a recursion has a solution.
LEMMA RankRecursion ==
  ASSUME NEW S, NEW R, R # {}, NEW rank \in [S -> Nat],
         NEW step \in [[S -> R] \X S -> R], GoesDown(S, R, rank, step)
  PROVE \E f \in [S -> R] : Solves(f, S, step)
<1> USE DEF GoesDown
<1> DEFINE Upto(f, n) == \A x \in S : rank[x] < n => f[x] = step[<<f, x>>]
           Good == {n \in Nat : \E f \in [S -> R] : Upto(f, n)}
           id == [n \in Nat |-> n]
<1>0. ASSUME NEW x \in S
      PROVE rank[x] \in Nat
  OBVIOUS
<1>01. ASSUME NEW a \in Nat, NEW b \in Nat, NEW c \in Nat, a < b
       PROVE /\ a + 1 \in Nat /\ a < a + 1
             /\ b < c => a < c
             /\ b < c => a < c - 1
             /\ c < a + 1 => c < b + 1
  BY ONLY a \in Nat, b \in Nat, c \in Nat, a < b
<1>1. ASSUME NEW n \in Nat, NEW f \in [S -> R], NEW g \in [S -> R], Upto(f, n), Upto(g, n)
      PROVE \A x \in S : rank[x] < n => f[x] = g[x]
  <2> DEFINE T == {x \in S : rank[x] < n => f[x] = g[x]}
  <2>1. ASSUME NEW x \in S, \A y \in S : rank[y] < rank[x] => y \in T
        PROVE x \in T
    <3> SUFFICES ASSUME rank[x] < n PROVE f[x] = g[x]
      OBVIOUS
    <3>1. \A y \in S : rank[y] < rank[x] => f[y] = g[y]
      <4> TAKE y \in S
      <4> HAVE rank[y] < rank[x]
      <4>1. rank[y] < n
        BY <1>0, <1>01
      <4> QED BY <2>1, <4>1
    <3>2. step[<<f, x>>] = step[<<g, x>>]
      BY <3>1
    <3> QED BY <1>1, <3>2
  <2>2. S \subseteq T
    <3> HIDE DEF T
    <3> QED BY <2>1, RankInduction
  <2> QED BY <2>2
<1>2. Nat \subseteq Good
  <2>1. ASSUME NEW n \in Nat, \A m \in Nat : id[m] < id[n] => m \in Good
        PROVE n \in Good
    <3>1. CASE n = 0
      <4>1. PICK r \in R : TRUE
        OBVIOUS
      <4> DEFINE c == [x \in S |-> r]
      <4>2. c \in [S -> R]
        OBVIOUS
      <4>3. Upto(c, 0)
        BY <1>0, Succ
      <4> QED BY <3>1, <4>2, <4>3
    <3>2. CASE n # 0
      <4>0. n - 1 \in Nat /\ n - 1 < n
        BY Succ, <3>2
      <4>1. n - 1 \in Nat /\ id[n - 1] < id[n]
        BY <4>0
      <4>2. PICK f \in [S -> R] : Upto(f, n - 1)
        BY <2>1, <4>1
      <4> DEFINE g == [x \in S |-> step[<<f, x>>]]
      <4>3. g \in [S -> R]
        OBVIOUS
      <4>4. Upto(g, n)
        <5> TAKE x \in S
        <5> HAVE rank[x] < n
        <5>1. \A y \in S : rank[y] < rank[x] => f[y] = g[y]
          <6> TAKE y \in S
          <6> HAVE rank[y] < rank[x]
          <6>1. rank[y] < n - 1
            BY <1>0, <1>01
          <6> QED BY <4>2, <6>1
        <5>2. step[<<f, x>>] = step[<<g, x>>]
          <6> HIDE DEF g
          <6> QED BY <4>3, <5>1
        <5> QED BY <5>2
      <4> HIDE DEF g
      <4> QED BY <4>3, <4>4
    <3> QED BY <3>1, <3>2
  <2>2. id \in [Nat -> Nat]
    OBVIOUS
  <2> HIDE DEF Good, id
  <2> QED BY <2>1, <2>2, RankInduction
<1> DEFINE F == [n \in Nat |-> CHOOSE f \in [S -> R] : Upto(f, n)]
           h == [x \in S |-> F[rank[x] + 1][x]]
<1>3. \A n \in Nat : F[n] \in [S -> R] /\ Upto(F[n], n)
  <2> TAKE n \in Nat
  <2>1. \E f \in [S -> R] : Upto(f, n)
    BY <1>2
  <2> HIDE DEF Upto
  <2> QED BY <2>1
<1>4. h \in [S -> R]
  <2>1. ASSUME NEW x \in S
        PROVE F[rank[x] + 1][x] \in R
    <3>1. rank[x] + 1 \in Nat
      BY <1>0, Succ
    <3> HIDE DEF F
    <3> QED BY <1>3, <3>1
  <2> HIDE DEF F
  <2> QED BY <2>1
<1>5. ASSUME NEW x \in S
      PROVE h[x] = step[<<h, x>>]
  <2> DEFINE g == F[rank[x] + 1]
  <2>1. rank[x] \in Nat /\ rank[x] + 1 \in Nat /\ rank[x] < rank[x] + 1
    BY <1>0, Succ
  <2>2. g \in [S -> R] /\ Upto(g, rank[x] + 1)
    BY <1>3, <2>1
  <2>3. h[x] = g[x]
    OBVIOUS
  <2>4. g[x] = step[<<g, x>>]
    BY <2>1, <2>2
  <2>5. \A y \in S : rank[y] < rank[x] => g[y] = h[y]
    <3> TAKE y \in S
    <3> HAVE rank[y] < rank[x]
    <3>1. rank[y] \in Nat /\ rank[y] + 1 \in Nat /\ rank[y] < rank[y] + 1
      BY <1>0, Succ
    <3>2. F[rank[y] + 1] \in [S -> R] /\ Upto(F[rank[y] + 1], rank[y] + 1)
      BY <1>3, <3>1
    <3>3. Upto(g, rank[y] + 1)
      <4> TAKE z \in S
      <4> HAVE rank[z] < rank[y] + 1
      <4>1. rank[z] < rank[x] + 1
        BY <1>0, <1>01, <2>1, <3>1
      <4> QED BY <2>2, <4>1
    <3>4. h[y] = F[rank[y] + 1][y]
      OBVIOUS
    <3>5. g[y] = F[rank[y] + 1][y]
      <4> HIDE DEF F, h, g, Upto
      <4> QED BY <1>1, <2>2, <3>1, <3>2, <3>3
    <3> QED BY <3>4, <3>5
  <2>6. step[<<g, x>>] = step[<<h, x>>]
    <3> HIDE DEF F, h, g
    <3> QED BY <1>4, <2>2, <2>5
  <2> HIDE DEF F, h, g
  <2> QED BY <2>3, <2>4, <2>6
<1>6. Solves(h, S, step)
  <2> HIDE DEF h
  <2> QED BY <1>5 DEF Solves
<1> HIDE DEF h
<1> QED BY <1>4, <1>6

-----------------------------------------------------------------------------
(* Going down *)

\* Types nest.
LEMMA TypeRank ==
  \E rank \in [Type -> Nat] : \A t \in Type : \A u \in Parts(t) : u \in Type => rank[u] < rank[t]
<1> DEFINE Nesting[t \in Type] ==
      LET below == {Nesting[u] : u \in Parts(t)}
      IN IF below = {} THEN 0 ELSE 1 + CHOOSE n \in below : \A m \in below : m <= n
<1>1. \A t \in Type : Nesting[t] \in Nat /\ \A u \in Parts(t) : Nesting[u] < Nesting[t]
  BY NestingAssumption, Zenon
<1> HIDE DEF Nesting
<1> DEFINE r == [t \in Type |-> Nesting[t]]
<1>2. r \in [Type -> Nat]
  BY <1>1
<1>3. \A t \in Type : \A u \in Parts(t) : u \in Type => r[u] < r[t]
  BY <1>1
<1> HIDE DEF r
<1> QED BY <1>2, <1>3

LEMMA InSeq ==
  ASSUME NEW S, NEW q \in Seq(S), NEW i \in 1 .. Len(q)
  PROVE q[i] \in S
OBVIOUS

LEMMA MemberFacts ==
  ASSUME NEW t \in Type, NEW m \in Members(t)
  PROVE  /\ m \in [off : Offset, ty : Type] /\ m.off \in Nat /\ m.ty \in Type
         /\ m.off + SizeOf[m.ty] <= SizeOf[t]
<1>1. Memb[t] \in Seq([off : Offset, ty : Type]) /\ MaxOff \in Nat
  BY TypesAssumption
<1>2. PICK i \in 1 .. Len(Memb[t]) : m = Memb[t][i]
  BY DEF Members
<1>3. m \in [off : Offset, ty : Type]
  BY ONLY <1>1, <1>2, InSeq
<1>4. m.off \in Nat /\ m.ty \in Type
  BY <1>1, <1>3 DEF Offset
<1> QED BY <1>3, <1>4, LayoutAssumption

\* One level down is a spot of a part, no further from the part's start, and
\* the part is no larger.
LEMMA InnerFacts ==
  ASSUME NEW s \in Spot, ~Leaf(s)
  PROVE  /\ Inner(s) \in Spot /\ Inner(s).ty \in Parts(s.ty)
         /\ Inner(s).off <= s.off
         /\ SizeOf[Inner(s).ty] <= SizeOf[s.ty]
         /\ Inner(s).off < SizeOf[Inner(s).ty]
         /\ IsArray(s.ty) => Inner(s).ty = Of[s.ty] /\ s.off < SizeOf[s.ty]
<1>1. Inner(s) \in Inside(s)
  BY DEF Leaf, Inner
<1>2. s.ty \in Type /\ s.off \in 0 .. MaxOff /\ MaxOff \in Nat
  BY TypesAssumption DEF Spot, Offset
<1>3. CASE IsArray(s.ty)
  <2>1. Of[s.ty] \in Type /\ SizeOf[Of[s.ty]] <= SizeOf[s.ty]
    BY <1>2, <1>3, TypesAssumption, LayoutAssumption
  <2>2. SizeOf[Of[s.ty]] \in 1 .. MaxOff + 1 /\ SizeOf[s.ty] \in 1 .. MaxOff + 1
    BY <1>2, <2>1, TypesAssumption
  <2>3. PICK o \in {s.off} \intersect (0 .. SizeOf[s.ty] - 1) :
          Inner(s) = SpotOf(Of[s.ty], o % SizeOf[Of[s.ty]])
    BY <1>1, <1>3 DEF Inside
  <2>4. o = s.off /\ o \in Nat /\ o < SizeOf[s.ty]
    BY <2>2, <2>3
  <2> DEFINE z == SizeOf[Of[s.ty]]
  <2>5. o % z \in 0 .. z - 1 /\ o % z <= o /\ o % z \in 0 .. MaxOff
    <3>1. z \in Nat /\ z > 0 /\ z <= MaxOff + 1 /\ o \in Nat /\ o <= MaxOff /\ MaxOff \in Nat
      BY <1>2, <2>2, <2>4
    <3> HIDE DEF z
    <3>2. o % z \in 0 .. z - 1
      BY ONLY <3>1
    <3>3. o % z <= o
      <4>1. CASE o < z
        BY ONLY <3>1, <4>1
      <4>2. CASE z <= o
        BY ONLY <3>1, <3>2, <4>2
      <4> QED BY ONLY <3>1, <4>1, <4>2
    <3> QED BY ONLY <3>1, <3>2, <3>3
  <2>6. Inner(s).ty = Of[s.ty] /\ Inner(s).off = o % z
    BY <2>3 DEF SpotOf
  <2>7. Inner(s) \in Spot
    BY <2>1, <2>3, <2>5 DEF SpotOf, Spot, Offset
  <2>8. o % z < z
    BY <2>2, <2>5
  <2> HIDE DEF z
  <2>9. Of[s.ty] \in Parts(s.ty)
    BY <1>3 DEF Parts
  <2> QED BY <2>1, <2>4, <2>5, <2>6, <2>7, <2>8, <2>9 DEF z
<1>4. CASE ~IsArray(s.ty)
  <2>1. PICK m \in Members(s.ty) : Spans(m, s.off) /\ Inner(s) = SpotOf(m.ty, s.off - m.off)
    BY <1>1, <1>4 DEF Inside
  <2>2. m \in [off : Offset, ty : Type]
    <3>1. Memb[s.ty] \in Seq([off : Offset, ty : Type])
      BY <1>2, TypesAssumption
    <3>2. PICK i \in 1 .. Len(Memb[s.ty]) : m = Memb[s.ty][i]
      BY <2>1 DEF Members
    <3> QED BY ONLY <3>1, <3>2, InSeq
  <2>3. /\ m.off \in 0 .. MaxOff /\ m.ty \in Type /\ SizeOf[m.ty] \in 1 .. MaxOff + 1
        /\ SizeOf[s.ty] \in 1 .. MaxOff + 1
    BY <1>2, <2>2, TypesAssumption DEF Offset
  <2>4. m.off <= s.off /\ s.off < m.off + SizeOf[m.ty] /\ m.off + SizeOf[m.ty] <= SizeOf[s.ty]
    BY <1>2, <2>1, LayoutAssumption DEF Spans
  <2>5. /\ s.off - m.off \in 0 .. MaxOff /\ s.off - m.off <= s.off
        /\ s.off - m.off < SizeOf[m.ty] /\ SizeOf[m.ty] <= SizeOf[s.ty]
    BY ONLY <1>2, <2>3, <2>4
  <2>6. Inner(s).ty = m.ty /\ Inner(s).off = s.off - m.off
    BY <2>1 DEF SpotOf
  <2>7. Inner(s) \in Spot
    BY <2>1, <2>3, <2>5 DEF SpotOf, Spot, Offset
  <2>8. m.ty \in Parts(s.ty)
    BY <1>4, <2>1 DEF Parts
  <2> QED BY <1>4, <2>5, <2>6, <2>7, <2>8
<1> QED BY <1>3, <1>4

\* Going down ends.
LEMMA SpotRank ==
  \E rank \in [Spot -> Nat] : \A s \in Spot : ~Leaf(s) => rank[Inner(s)] < rank[s]
<1>1. PICK r \in [Type -> Nat] :
        \A t \in Type : \A u \in Parts(t) : u \in Type => r[u] < r[t]
  BY TypeRank
<1> DEFINE q == [s \in Spot |-> r[s.ty]]
<1>2. \A s \in Spot : s.ty \in Type
  BY DEF Spot
<1>3. q \in [Spot -> Nat]
  BY <1>2
<1>4. \A s \in Spot : ~Leaf(s) => q[Inner(s)] < q[s]
  <2> TAKE s \in Spot
  <2> HAVE ~Leaf(s)
  <2>1. Inner(s) \in Spot /\ Inner(s).ty \in Parts(s.ty)
    BY InnerFacts
  <2>2. r[Inner(s).ty] < r[s.ty]
    BY <1>1, <1>2, <2>1
  <2> QED BY <2>1, <2>2
<1> HIDE DEF q
<1> QED BY <1>3, <1>4

\* A set holds every spot if it holds each one whose inner spot it holds.
LEMMA SpotInduction ==
  ASSUME NEW T, \A s \in Spot : (~Leaf(s) => Inner(s) \in T) => s \in T
  PROVE  Spot \subseteq T
<1>1. PICK rank \in [Spot -> Nat] : \A s \in Spot : ~Leaf(s) => rank[Inner(s)] < rank[s]
  BY SpotRank
<1>2. ASSUME NEW x \in Spot, \A y \in Spot : rank[y] < rank[x] => y \in T
      PROVE x \in T
  BY <1>1, <1>2, InnerFacts
<1> QED BY <1>2, RankInduction

\* f is base at the leaves, and up of what it is one level down elsewhere.
Climbs(f, base, up) ==
  \A s \in Spot : f[s] = IF Leaf(s) THEN base[s] ELSE up[<<s, f[Inner(s)]>>]

\* A recursion that goes down one level has a solution.
LEMMA SpotRecursion ==
  ASSUME NEW R, R # {}, NEW up \in [Spot \X R -> R], NEW base \in [Spot -> R]
  PROVE \E f \in [Spot -> R] : Climbs(f, base, up)
<1>1. PICK rank \in [Spot -> Nat] : \A s \in Spot : ~Leaf(s) => rank[Inner(s)] < rank[s]
  BY SpotRank
<1> DEFINE F == [Spot -> R]
           val(f, s) == IF Leaf(s) THEN base[s] ELSE up[<<s, f[Inner(s)]>>]
           step == [x \in F \X Spot |-> val(x[1], x[2])]
<1>2. ASSUME NEW f \in F, NEW s \in Spot
      PROVE val(f, s) \in R /\ step[<<f, s>>] = val(f, s)
  <2>1. ~Leaf(s) => f[Inner(s)] \in R
    BY InnerFacts
  <2>2. val(f, s) \in R
    BY <2>1
  <2>3. <<f, s>> \in F \X Spot /\ <<f, s>>[1] = f /\ <<f, s>>[2] = s
    OBVIOUS
  <2>4. step[<<f, s>>] = val(f, s)
    <3> HIDE DEF val, F
    <3> QED BY <2>3
  <2> QED BY <2>2, <2>4
<1>3. step \in [F \X Spot -> R]
  <2>1. ASSUME NEW x \in F \X Spot
        PROVE val(x[1], x[2]) \in R
    <3> HIDE DEF val, F
    <3> QED BY <1>2
  <2> HIDE DEF val, F
  <2> QED BY <2>1
<1>4. ASSUME NEW f \in F, NEW g \in F, NEW s \in Spot,
             \A y \in Spot : rank[y] < rank[s] => f[y] = g[y]
      PROVE step[<<f, s>>] = step[<<g, s>>]
  <2>1. ~Leaf(s) => f[Inner(s)] = g[Inner(s)]
    BY <1>1, <1>4, InnerFacts
  <2>2. val(f, s) = val(g, s)
    BY <2>1
  <2> HIDE DEF val, F, step
  <2> QED BY <1>2, <2>2
<1>5. \E f \in F : \A s \in Spot : f[s] = step[<<f, s>>]
  <2>1. GoesDown(Spot, R, rank, step)
    <3> HIDE DEF step
    <3> QED BY <1>4 DEF GoesDown
  <2>2. \E f \in [Spot -> R] : Solves(f, Spot, step)
    <3> HIDE DEF step
    <3> QED BY ONLY <1>3, <2>1, R # {}, rank \in [Spot -> Nat], RankRecursion, Zenon
  <2> HIDE DEF step
  <2> QED BY <2>2 DEF Solves
<1>6. PICK f \in F : \A s \in Spot : f[s] = step[<<f, s>>]
  BY <1>5
<1>7. \A s \in Spot : f[s] = val(f, s)
  <2> HIDE DEF val, F, step
  <2> QED BY <1>2, <1>6
<1>8. Climbs(f, base, up)
  BY <1>7 DEF Climbs
<1> QED BY <1>8

\* Deepest ends at a leaf.
LEMMA DeepestDef ==
  /\ Deepest \in [Spot -> Spot]
  /\ \A s \in Spot : Deepest[s] = IF Leaf(s) THEN s ELSE Deepest[Inner(s)]
<1> DEFINE base == [s \in Spot |-> s]
           up == [x \in Spot \X Spot |-> x[2]]
<1>1. Spot # {}
  <2>1. VoidType \in Type /\ 0 \in Offset
    BY TypesAssumption DEF Offset
  <2>2. SpotOf(VoidType, 0) \in Spot
    BY <2>1 DEF SpotOf, Spot
  <2> QED BY <2>2
<1> QED
  <2>1. base \in [Spot -> Spot] /\ up \in [Spot \X Spot -> Spot]
    OBVIOUS
  <2>2. PICK f \in [Spot -> Spot] : Climbs(f, base, up)
    <3> HIDE DEF base, up
    <3> QED BY ONLY <1>1, <2>1, SpotRecursion, Zenon
  <2>3. \A s \in Spot : (IF Leaf(s) THEN base[s] ELSE up[<<s, f[Inner(s)]>>])
                        = (IF Leaf(s) THEN s ELSE f[Inner(s)])
    BY InnerFacts
  <2>4. f = [s \in Spot |-> IF Leaf(s) THEN s ELSE f[Inner(s)]]
    <3> HIDE DEF base, up
    <3> QED BY <2>2, <2>3 DEF Climbs
  <2>5. \E g : g = [s \in Spot |-> IF Leaf(s) THEN s ELSE g[Inner(s)]]
    BY <2>4
  <2>6. Deepest = [s \in Spot |-> IF Leaf(s) THEN s ELSE Deepest[Inner(s)]]
    BY <2>5 DEF Deepest
  <2>7. Spot \subseteq {s \in Spot : Deepest[s] \in Spot}
    <3> DEFINE T == {s \in Spot : Deepest[s] \in Spot}
    <3>1. \A s \in Spot : (~Leaf(s) => Inner(s) \in T) => s \in T
      BY <2>6
    <3> HIDE DEF T
    <3>2. Spot \subseteq T
      BY <3>1, SpotInduction
    <3> QED BY <3>2 DEF T
  <2> QED BY <2>6, <2>7

Walk == [ty : Type, start : Int]

\* What Walked adds to W, the subobjects below the inner spot of s.
WalkedUp(s, W) ==
  LET i == Inner(s)
      d == s.off - i.off
  IN {[ty |-> i.ty, start |-> d]} \union {[w EXCEPT !.start = @ + d] : w \in W}

\* Walked goes down to a leaf.
LEMMA WalkedDef ==
  /\ Walked \in [Spot -> SUBSET Walk]
  /\ \A s \in Spot : Walked[s] = IF Leaf(s) THEN {} ELSE WalkedUp(s, Walked[Inner(s)])
<1> DEFINE R == SUBSET Walk
           base == [s \in Spot |-> {}]
           up == [x \in Spot \X R |-> IF Leaf(x[1]) THEN {} ELSE WalkedUp(x[1], x[2])]
<1>1. base \in [Spot -> R] /\ R # {}
  OBVIOUS
<1>2. ASSUME NEW s \in Spot, NEW W \in R, ~Leaf(s)
      PROVE WalkedUp(s, W) \in R
  <2>1. Inner(s) \in Spot /\ s \in Spot /\ MaxOff \in Nat
    BY <1>2, InnerFacts, TypesAssumption
  <2>2. Inner(s).ty \in Type /\ s.off - Inner(s).off \in Int
    BY <2>1 DEF Spot, Offset
  <2>3. \A w \in W : [w EXCEPT !.start = @ + (s.off - Inner(s).off)] \in Walk
    BY <2>2 DEF Walk
  <2>4. [ty |-> Inner(s).ty, start |-> s.off - Inner(s).off] \in Walk
    BY <2>2 DEF Walk
  <2> QED BY <2>3, <2>4 DEF WalkedUp
<1>3. up \in [Spot \X R -> R]
  <2>1. ASSUME NEW x \in Spot \X R
        PROVE (IF Leaf(x[1]) THEN {} ELSE WalkedUp(x[1], x[2])) \in R
    <3>1. x[1] \in Spot /\ x[2] \in R
      OBVIOUS
    <3>2. {} \in R
      OBVIOUS
    <3> HIDE DEF R
    <3> QED BY <1>2, <3>1, <3>2
  <2> HIDE DEF R
  <2> QED BY <2>1
<1>4. PICK f \in [Spot -> R] : Climbs(f, base, up)
  <2> HIDE DEF base, up, R
  <2> QED BY ONLY <1>1, <1>3, SpotRecursion, Zenon
<1>5. ASSUME NEW s \in Spot
      PROVE f[s] = IF Leaf(s) THEN {} ELSE WalkedUp(s, f[Inner(s)])
  <2>1. f[s] = IF Leaf(s) THEN base[s] ELSE up[<<s, f[Inner(s)]>>]
    <3> HIDE DEF base, up, R
    <3> QED BY <1>4 DEF Climbs
  <2>2. CASE Leaf(s)
    BY <2>1, <2>2
  <2>3. CASE ~Leaf(s)
    <3>1. Inner(s) \in Spot
      BY <2>3, InnerFacts
    <3>2. f[Inner(s)] \in R
      <4> HIDE DEF R
      <4> QED BY <3>1
    <3>3. <<s, f[Inner(s)]>> \in Spot \X R
      <4> HIDE DEF R
      <4> QED BY <3>2
    <3>4. up[<<s, f[Inner(s)]>>] = WalkedUp(s, f[Inner(s)])
      <4> HIDE DEF R
      <4> QED BY <2>3, <3>3
    <3> HIDE DEF up, base
    <3> QED BY <2>1, <2>3, <3>4
  <2> QED BY <2>2, <2>3
<1> DEFINE body(g) == [s \in Spot |-> IF Leaf(s) THEN {} ELSE WalkedUp(s, g[Inner(s)])]
<1>6. f = body(f)
  <2> HIDE DEF R, base, up
  <2> QED BY <1>5
<1>7. Walked = CHOOSE g : g = body(g)
  BY Zenon DEF Walked, WalkedUp
<1>8. Walked = body(Walked)
  <2> HIDE DEF body
  <2> QED BY <1>6, <1>7
<1>9. ASSUME NEW s \in Spot
      PROVE Walked[s] = IF Leaf(s) THEN {} ELSE WalkedUp(s, Walked[Inner(s)])
  BY <1>8
<1>10. Spot \subseteq {s \in Spot : Walked[s] \in R}
  <2> DEFINE T == {s \in Spot : Walked[s] \in R}
  <2>1. \A s \in Spot : (~Leaf(s) => Inner(s) \in T) => s \in T
    <3> TAKE s \in Spot
    <3> HAVE ~Leaf(s) => Inner(s) \in T
    <3>1. CASE Leaf(s)
      BY <1>9, <3>1
    <3>2. CASE ~Leaf(s)
      <4>1. Walked[Inner(s)] \in R
        BY <3>2
      <4>2. WalkedUp(s, Walked[Inner(s)]) \in R
        <5> HIDE DEF R
        <5> QED BY <1>2, <3>2, <4>1
      <4> QED BY <1>9, <3>2, <4>2
    <3> QED BY <3>1, <3>2
  <2> HIDE DEF T
  <2>2. Spot \subseteq T
    BY <2>1, SpotInduction
  <2> QED BY <2>2 DEF T
<1>11. Walked \in [Spot -> R]
  <2>1. DOMAIN Walked = Spot
    BY <1>8
  <2> HIDE DEF R, body
  <2> QED BY <1>8, <1>10, <2>1 DEF body
<1> QED BY <1>9, <1>11

\* The outcome of a search at a spot, and what going down to it adds.
Found == [found : BOOLEAN, off : Offset, sum : Int, containing : Type \union {None}, pos : Int]

Here(u, s) == [found |-> s.off = 0 /\ s.ty = u, off |-> s.off, sum |-> 0,
               containing |-> None, pos |-> 0]

FindUp(s, r) == [r EXCEPT !.sum = @ + PosOff(s),
                          !.containing = IF r.containing = None THEN s.ty ELSE @,
                          !.pos = IF r.containing = None THEN PosOff(s) ELSE @]

LEMMA FoundFacts ==
  /\ \A u \in Type, s \in Spot : Here(u, s) \in Found
  /\ \A s \in Spot, r \in Found :
       ~Leaf(s) => FindUp(s, r) \in Found /\ FindUp(s, r).found = r.found
<1>1. ASSUME NEW u \in Type, NEW s \in Spot
      PROVE Here(u, s) \in Found
  <2>1. (s.off = 0 /\ s.ty = u) \in BOOLEAN
    OBVIOUS
  <2>2. s.off \in Offset
    BY DEF Spot
  <2> QED BY <2>1, <2>2 DEF Here, Found
<1>2. ASSUME NEW s \in Spot, NEW r \in Found, ~Leaf(s)
      PROVE FindUp(s, r) \in Found /\ FindUp(s, r).found = r.found
  <2>1. Inner(s) \in Spot /\ s \in Spot /\ MaxOff \in Nat
    BY <1>2, InnerFacts, TypesAssumption
  <2>2. PosOff(s) \in Int /\ s.ty \in Type
    BY <2>1 DEF Spot, Offset, PosOff
  <2>3. r.sum + PosOff(s) \in Int
    BY <2>2 DEF Found
  <2> QED BY <2>2, <2>3 DEF FindUp, Found
<1> QED BY <1>1, <1>2

\* A search goes down until it finds its type or reaches a leaf.
LEMMA FindDef ==
  ASSUME NEW u \in Type, NEW s \in Spot
  PROVE  /\ find_matching_subobject(u, s) \in Found
         /\ find_matching_subobject(u, s) =
              IF Here(u, s).found \/ Leaf(s) THEN Here(u, s)
              ELSE FindUp(s, find_matching_subobject(u, Inner(s)))
<1> DEFINE base == [x \in Spot |-> Here(u, x)]
           up == [x \in Spot \X Found |->
                    IF Leaf(x[1]) \/ Here(u, x[1]).found THEN Here(u, x[1])
                    ELSE FindUp(x[1], x[2])]
<1>1. base \in [Spot -> Found] /\ Found # {}
  <2>1. \A x \in Spot : Here(u, x) \in Found
    BY FoundFacts
  <2>2. Here(u, s) \in Found
    BY FoundFacts
  <2> QED BY <2>1, <2>2
<1>2. up \in [Spot \X Found -> Found]
  <2>1. ASSUME NEW x \in Spot \X Found
        PROVE (IF Leaf(x[1]) \/ Here(u, x[1]).found THEN Here(u, x[1])
               ELSE FindUp(x[1], x[2])) \in Found
    <3>1. x[1] \in Spot /\ x[2] \in Found
      OBVIOUS
    <3> QED BY <3>1, FoundFacts
  <2> QED BY <2>1
<1>3. PICK f \in [Spot -> Found] : Climbs(f, base, up)
  <2> HIDE DEF base, up
  <2> QED BY ONLY <1>1, <1>2, SpotRecursion, Zenon
<1> DEFINE val(g, x) == IF Here(u, x).found \/ Leaf(x) THEN Here(u, x)
                        ELSE FindUp(x, g[Inner(x)])
<1>4. ASSUME NEW x \in Spot
      PROVE f[x] = val(f, x)
  <2>1. f[x] = IF Leaf(x) THEN base[x] ELSE up[<<x, f[Inner(x)]>>]
    <3> HIDE DEF base, up
    <3> QED BY <1>3 DEF Climbs
  <2>2. CASE Leaf(x)
    BY <2>1, <2>2
  <2>3. CASE ~Leaf(x)
    <3>1. Inner(x) \in Spot
      BY <2>3, InnerFacts
    <3>2. <<x, f[Inner(x)]>> \in Spot \X Found
      BY <3>1
    <3>3. up[<<x, f[Inner(x)]>>] = val(f, x)
      BY <2>3, <3>2
    <3> HIDE DEF up, base, val
    <3> QED BY <2>1, <2>3, <3>3
  <2> QED BY <2>2, <2>3
<1> DEFINE Find[x \in Spot] ==
      LET here == [found |-> x.off = 0 /\ x.ty = u, off |-> x.off, sum |-> 0,
                   containing |-> None, pos |-> 0]
      IN IF here.found \/ Leaf(x) THEN here
         ELSE LET r == Find[Inner(x)]
                  innermost == r.containing = None
              IN [r EXCEPT !.sum = @ + PosOff(x),
                           !.containing = IF innermost THEN x.ty ELSE @,
                           !.pos = IF innermost THEN PosOff(x) ELSE @]
           body(g) == [x \in Spot |-> val(g, x)]
<1>5. f = body(f)
  <2> HIDE DEF base, up, val
  <2> QED BY <1>4
<1>6. Find = CHOOSE g : g = body(g)
  BY Zenon DEF Here, FindUp
<1>7. \A x : find_matching_subobject(u, x) = Find[x]
  BY Zenon DEF find_matching_subobject
<1> HIDE DEF Find
<1>8. Find = body(Find)
  <2> HIDE DEF body
  <2> QED BY <1>5, <1>6
<1>9. ASSUME NEW x \in Spot
      PROVE Find[x] = val(Find, x)
  <2> HIDE DEF val
  <2> QED BY <1>8
<1>10. Spot \subseteq {x \in Spot : Find[x] \in Found}
  <2> DEFINE T == {x \in Spot : Find[x] \in Found}
  <2>1. \A x \in Spot : (~Leaf(x) => Inner(x) \in T) => x \in T
    BY <1>9, FoundFacts
  <2> HIDE DEF T
  <2>2. Spot \subseteq T
    BY <2>1, SpotInduction
  <2> QED BY <2>2 DEF T
<1> QED BY <1>7, <1>9, <1>10

-----------------------------------------------------------------------------
(* The types at a spot *)

\* An object of type u starts at a spot if the spot is its start, or if one
\* starts there one level down.
LEMMA TypesAtDef ==
  ASSUME NEW s \in Spot, NEW u
  PROVE  u \in TypesAt(s) <=> \/ s.off = 0 /\ u = s.ty
                              \/ ~Leaf(s) /\ u \in TypesAt(Inner(s))
<1> DEFINE root(x) == [ty |-> x.ty, start |-> 0]
           Starts(x) == \E w \in Walked[x] \union {root(x)} : w.start = x.off /\ w.ty = u
<1>1. \A x : u \in TypesAt(x) <=> Starts(x)
  BY DEF TypesAt
<1>2. s.off \in Int
  BY TypesAssumption DEF Spot, Offset
<1>3. root(s).start = s.off <=> s.off = 0
  BY <1>2
<1>4. CASE Leaf(s)
  <2>1. Walked[s] = {}
    BY <1>4, WalkedDef
  <2>2. Starts(s) <=> root(s).start = s.off /\ root(s).ty = u
    <3> HIDE DEF root
    <3> QED BY <2>1
  <2>3. root(s).ty = s.ty
    OBVIOUS
  <2> HIDE DEF Starts, root
  <2> QED BY <1>1, <1>3, <1>4, <2>2, <2>3
<1>5. CASE ~Leaf(s)
  <2> DEFINE i == Inner(s)
             d == s.off - i.off
             ri == [ty |-> i.ty, start |-> d]
             up(w) == [w EXCEPT !.start = @ + d]
  <2>1. i \in Spot /\ i.off \in Int
    BY <1>5, InnerFacts, TypesAssumption DEF Spot, Offset
  <2>2. Walked[s] = {ri} \union {up(w) : w \in Walked[i]}
    BY <1>5, WalkedDef DEF WalkedUp
  <2>3. Walked[i] \subseteq Walk
    BY <2>1, WalkedDef
  <2>4. ASSUME NEW w \in Walk
        PROVE up(w).ty = w.ty /\ (up(w).start = s.off <=> w.start = i.off)
    <3>1. w.start \in Int /\ up(w).ty = w.ty /\ up(w).start = w.start + d
      BY DEF Walk
    <3> QED BY <1>2, <2>1, <3>1
  <2>5. ri.ty = i.ty /\ (ri.start = s.off <=> root(i).start = i.off) /\ root(i).ty = i.ty
    <3>1. ri.ty = i.ty /\ ri.start = d /\ root(i).start = 0 /\ root(i).ty = i.ty
      OBVIOUS
    <3> QED BY <1>2, <2>1, <3>1
  <2>6. root(s).ty = s.ty
    OBVIOUS
  <2>7. (\E w \in Walked[s] : w.start = s.off /\ w.ty = u) <=> Starts(i)
    <3>1. (\E w \in Walked[s] : w.start = s.off /\ w.ty = u) <=>
            \/ ri.start = s.off /\ ri.ty = u
            \/ \E w \in Walked[i] : up(w).start = s.off /\ up(w).ty = u
      <4> HIDE DEF ri, up, i
      <4> QED BY <2>2
    <3>2. (\E w \in Walked[i] : up(w).start = s.off /\ up(w).ty = u) <=>
            \E w \in Walked[i] : w.start = i.off /\ w.ty = u
      <4> HIDE DEF up, i
      <4> QED BY <2>3, <2>4
    <3> HIDE DEF ri, up, i, root
    <3> QED BY <2>5, <3>1, <3>2
  <2>8. Starts(s) <=> (root(s).start = s.off /\ root(s).ty = u) \/ Starts(i)
    <3>1. Starts(s) <=> \/ \E w \in Walked[s] : w.start = s.off /\ w.ty = u
                        \/ root(s).start = s.off /\ root(s).ty = u
      <4> HIDE DEF root
      <4> QED OBVIOUS
    <3> HIDE DEF i, Starts, root
    <3> QED BY <2>7, <3>1
  <2> HIDE DEF Starts
  <2> QED BY <1>1, <1>3, <1>5, <2>6, <2>8
<1> QED BY <1>4, <1>5

\* find_matching_subobject, the search of __is_a_internal, finds a type exactly
\* when an object of that type starts at the spot, for all layouts of types.
THEOREM FindRight ==
  ASSUME NEW u \in Type, NEW s \in Spot
  PROVE  find_matching_subobject(u, s).found <=> u \in TypesAt(s)
<1> DEFINE T == {x \in Spot : find_matching_subobject(u, x).found <=> u \in TypesAt(x)}
<1>1. ASSUME NEW x \in Spot, ~Leaf(x) => Inner(x) \in T
      PROVE x \in T
  <2>1. Here(u, x).found <=> x.off = 0 /\ u = x.ty
    BY DEF Here
  <2>2. CASE Here(u, x).found \/ Leaf(x)
    <3>1. find_matching_subobject(u, x) = Here(u, x)
      BY <2>2, FindDef
    <3> QED BY <2>1, <2>2, <3>1, TypesAtDef
  <2>3. CASE ~(Here(u, x).found \/ Leaf(x))
    <3>1. Inner(x) \in Spot
      BY <2>3, InnerFacts
    <3>2. find_matching_subobject(u, x) = FindUp(x, find_matching_subobject(u, Inner(x)))
      BY <2>3, FindDef
    <3>3. find_matching_subobject(u, Inner(x)) \in Found
      BY <3>1, FindDef
    <3>4. find_matching_subobject(u, x).found = find_matching_subobject(u, Inner(x)).found
      BY <2>3, <3>2, <3>3, FoundFacts
    <3>5. find_matching_subobject(u, Inner(x)).found <=> u \in TypesAt(Inner(x))
      BY <1>1, <2>3
    <3>6. u \in TypesAt(x) <=> u \in TypesAt(Inner(x))
      BY <2>1, <2>3, TypesAtDef
    <3> QED BY <3>4, <3>5, <3>6
  <2> QED BY <2>2, <2>3
<1> HIDE DEF T
<1>2. Spot \subseteq T
  BY <1>1, SpotInduction
<1> QED BY <1>2 DEF T

\* Only types that fit into the element are found inside an array.
LEMMA TypesAtFit ==
  ASSUME NEW s \in Spot, NEW u \in TypesAt(s)
  PROVE  /\ u \in Type /\ SizeOf[u] <= SizeOf[s.ty]
         /\ IsArray(s.ty) => u = s.ty \/ SizeOf[u] <= SizeOf[Of[s.ty]]
<1> DEFINE T == {x \in Spot : \A t \in TypesAt(x) : t \in Type /\ SizeOf[t] <= SizeOf[x.ty]}
<1>0. \A x \in Spot : x.ty \in Type
  BY DEF Spot
<1>00. \A t \in Type : SizeOf[t] \in Int
  <2>1. SizeOf \in [Type -> 1 .. MaxOff + 1] /\ MaxOff \in Nat
    BY TypesAssumption
  <2> QED BY ONLY <2>1
<1>1. ASSUME NEW x \in Spot, ~Leaf(x) => Inner(x) \in T
      PROVE x \in T
  <2> SUFFICES ASSUME NEW t \in TypesAt(x)
               PROVE t \in Type /\ SizeOf[t] <= SizeOf[x.ty]
    OBVIOUS
  <2>1. CASE t = x.ty
    BY <1>0, <1>00, <2>1
  <2>2. CASE ~Leaf(x) /\ t \in TypesAt(Inner(x))
    <3>1. t \in Type /\ SizeOf[t] <= SizeOf[Inner(x).ty]
      BY <1>1, <2>2
    <3>2. SizeOf[Inner(x).ty] <= SizeOf[x.ty] /\ Inner(x) \in Spot
      BY <2>2, InnerFacts
    <3>3. SizeOf[t] \in Int /\ SizeOf[Inner(x).ty] \in Int /\ SizeOf[x.ty] \in Int
      BY <1>0, <1>00, <3>1, <3>2
    <3> QED BY <3>1, <3>2, <3>3
  <2> QED BY <2>1, <2>2, TypesAtDef
<1> HIDE DEF T
<1>2. Spot \subseteq T
  BY <1>1, SpotInduction
<1>3. u \in Type /\ SizeOf[u] <= SizeOf[s.ty]
  BY <1>2 DEF T
<1>4. ASSUME IsArray(s.ty), u # s.ty
      PROVE SizeOf[u] <= SizeOf[Of[s.ty]]
  <2>1. ~Leaf(s) /\ u \in TypesAt(Inner(s))
    BY <1>4, TypesAtDef
  <2>2. Inner(s) \in Spot /\ Inner(s).ty = Of[s.ty]
    BY <1>4, <2>1, InnerFacts
  <2> QED BY <1>2, <2>1, <2>2 DEF T
<1> QED BY <1>3, <1>4

\* A pointer is a leaf; so it starts at a spot exactly when the descent ends at
\* its start.  Nothing the descent ends at is larger than where it began.
LEMMA DeepestRight ==
  ASSUME NEW s \in Spot
  PROVE  /\ \A u \in Type : IsPointer(u) =>
              (u \in TypesAt(s) <=> Deepest[s].off = 0 /\ Deepest[s].ty = u)
         /\ Deepest[s] \in Spot /\ SizeOf[Deepest[s].ty] <= SizeOf[s.ty]
<1> DEFINE T == {x \in Spot :
                   /\ \A u \in Type : IsPointer(u) =>
                        (u \in TypesAt(x) <=> Deepest[x].off = 0 /\ Deepest[x].ty = u)
                   /\ SizeOf[Deepest[x].ty] <= SizeOf[x.ty]}
<1>0. \A x \in Spot : x.ty \in Type /\ SizeOf[x.ty] \in Int
  BY TypesAssumption DEF Spot
<1>1. ASSUME NEW x \in Spot, ~Leaf(x) => Inner(x) \in T
      PROVE x \in T
  <2>1. CASE Leaf(x)
    <3>1. Deepest[x] = x
      BY <2>1, DeepestDef
    <3>2. \A u : u \in TypesAt(x) <=> x.off = 0 /\ u = x.ty
      BY <2>1, TypesAtDef
    <3> QED BY <1>0, <3>1, <3>2
  <2>2. CASE ~Leaf(x)
    <3>1. Deepest[x] = Deepest[Inner(x)]
      BY <2>2, DeepestDef
    <3>2. Inner(x) \in Spot /\ SizeOf[Inner(x).ty] <= SizeOf[x.ty]
      BY <2>2, InnerFacts
    <3>3. Deepest[x] \in Spot
      BY DeepestDef
    <3>4. SizeOf[Deepest[x].ty] <= SizeOf[x.ty]
      <4>1. SizeOf[Deepest[x].ty] <= SizeOf[Inner(x).ty]
        BY <1>1, <2>2, <3>1
      <4> QED BY <1>0, <3>2, <3>3, <4>1
    <3>5. ASSUME NEW u \in Type, IsPointer(u)
          PROVE u \in TypesAt(x) <=> Deepest[x].off = 0 /\ Deepest[x].ty = u
      <4>1. u # x.ty
        <5>1. SUFFICES ASSUME u = x.ty
                       PROVE Leaf(x)
          BY <2>2
        <5>2. Kind[u] # "composite" /\ ~IsArray(u)
          BY <3>5 DEF IsPointer, IsArray
        <5>3. Memb[u] = <<>>
          BY <5>2, LayoutAssumption
        <5>4. Members(u) = {}
          BY <5>3 DEF Members
        <5> QED BY <5>1, <5>2, <5>4 DEF Leaf, Inside
      <4>2. u \in TypesAt(x) <=> u \in TypesAt(Inner(x))
        BY <2>2, <4>1, TypesAtDef
      <4>3. u \in TypesAt(Inner(x)) <=> Deepest[Inner(x)].off = 0 /\ Deepest[Inner(x)].ty = u
        BY <1>1, <2>2, <3>5
      <4> QED BY <3>1, <4>2, <4>3
    <3> QED BY <3>4, <3>5
  <2> QED BY <2>1, <2>2
<1> HIDE DEF T
<1>2. Spot \subseteq T
  BY <1>1, SpotInduction
<1> QED BY <1>2, DeepestDef DEF T

-----------------------------------------------------------------------------
(* Objects within objects *)

LEMMA SizeFacts ==
  /\ MaxOff \in Nat
  /\ \A t \in Type : SizeOf[t] \in Nat /\ SizeOf[t] > 0 /\ SizeOf[t] <= MaxOff + 1
<1>1. SizeOf \in [Type -> 1 .. MaxOff + 1] /\ MaxOff \in Nat
  BY TypesAssumption
<1> QED BY ONLY <1>1

\* A size that fits 16 bits is its own period, any other is cut.
LEMMA ShortFacts ==
  ASSUME NEW n \in Nat
  PROVE  /\ Short(n) \in Nat /\ Short(n) <= n
         /\ n < PeriodMod => Short(n) = n
<1>1. PeriodMod \in Nat /\ PeriodMod > 1
  BY PeriodAssumption
<1>2. \A m \in Nat : m > 1 => n % m \in Nat /\ n % m <= n
  OBVIOUS
<1>3. \A m \in Nat : n < m => n % m = n
  OBVIOUS
<1> QED BY <1>1, <1>2, <1>3 DEF Short

\* The steps of a range whose period is not 0.
LEMMA StepsFacts ==
  ASSUME NEW d \in Nat, NEW period \in Nat, period > 0, Steps(d, period)
  PROVE  d % period = 0
<1>1. CASE d = 0
  BY <1>1
<1> QED BY <1>1 DEF Steps

\* A step within the same element stays at the same distance into it.
LEMMA ModFacts ==
  ASSUME NEW x \in Nat, NEW z \in Nat, z > 0, NEW y \in Int, (x % z) + y \in 0 .. z - 1
  PROVE  /\ (x + y) % z = (x % z) + y
         /\ x + y = z * (x \div z) + ((x % z) + y)
<1>1. x \div z \in Nat /\ x % z \in 0 .. z - 1 /\ x = z * (x \div z) + (x % z)
  OBVIOUS
<1> DEFINE q == x \div z
           m == x % z
<1>2. z * q \in Int
  BY <1>1
<1>3. x + y = z * q + (m + y)
  <2> HIDE DEF q, m
  <2> QED BY <1>1, <1>2 DEF q, m
<1>4. (z * q + (m + y)) % z = m + y
  <2>1. m + y \in 0 .. z - 1 /\ q \in Nat
    BY <1>1
  <2> HIDE DEF q, m
  <2> QED BY ONLY <2>1, z \in Nat, z > 0
<1> QED BY <1>3, <1>4

\* The element of an array at which a spot lies, and how far into it.
LEMMA InnerArray ==
  ASSUME NEW s \in Spot, IsArray(s.ty), s.off < SizeOf[s.ty]
  PROVE  ~Leaf(s) /\ Inner(s) = SpotOf(Of[s.ty], s.off % SizeOf[Of[s.ty]])
<1>1. s.off \in Nat /\ s.ty \in Type
  BY SizeFacts DEF Spot, Offset
<1>2. SizeOf[s.ty] \in Nat
  BY <1>1, SizeFacts
<1>3. {s.off} \intersect (0 .. SizeOf[s.ty] - 1) = {s.off}
  BY <1>1, <1>2
<1>4. Inside(s) = {SpotOf(Of[s.ty], s.off % SizeOf[Of[s.ty]])}
  BY <1>3 DEF Inside
<1> QED BY <1>4 DEF Leaf, Inner

\* The member of a composite at which a spot lies.
LEMMA InnerMember ==
  ASSUME NEW s \in Spot, ~IsArray(s.ty), NEW m \in Members(s.ty), Spans(m, s.off)
  PROVE  ~Leaf(s) /\ Inner(s) = SpotOf(m.ty, s.off - m.off)
<1>1. s.off \in Offset /\ s.ty \in Type
  BY DEF Spot
<1>2. {n \in Members(s.ty) : Spans(n, s.off)} = {m}
  BY <1>1, NoUnions
<1>3. Inside(s) = {SpotOf(m.ty, s.off - m.off)}
  BY <1>2 DEF Inside
<1> QED BY <1>3 DEF Leaf, Inner

\* Spots that lie in the same part go down to spots as far apart.
LEMMA InnerMoves ==
  ASSUME NEW s \in Spot, ~Leaf(s), NEW y \in Int, s.off + y \in Offset,
         Inner(s).off + y \in 0 .. SizeOf[Inner(s).ty] - 1
  PROVE  LET s2 == SpotOf(s.ty, s.off + y)
         IN /\ s2 \in Spot /\ ~Leaf(s2) /\ s2.off < SizeOf[s.ty]
            /\ Inner(s2) = SpotOf(Inner(s).ty, Inner(s).off + y)
<1> DEFINE s2 == SpotOf(s.ty, s.off + y)
<1>1. s2 \in Spot /\ s2.ty = s.ty /\ s2.off = s.off + y
  BY DEF SpotOf, Spot
<1>2. s.ty \in Type /\ s.off \in Nat /\ s.off <= MaxOff /\ MaxOff \in Nat
  BY SizeFacts DEF Spot, Offset
<1>3. SizeOf[s.ty] \in Nat /\ SizeOf[s.ty] > 0
  BY <1>2, SizeFacts
<1>4. CASE IsArray(s.ty)
  <2> DEFINE z == SizeOf[Of[s.ty]]
             x == s.off
             q == x \div z
             n == LenOf[s.ty]
  <2>1. Of[s.ty] \in Type /\ z \in Nat /\ z > 0 /\ n \in Nat
    BY <1>2, <1>4, TypesAssumption, SizeFacts
  <2>2. s.off < SizeOf[s.ty]
    BY <1>4, InnerFacts
  <2>3. Inner(s) = SpotOf(Of[s.ty], x % z)
    BY <1>4, <2>2, InnerArray
  <2>4. Inner(s).ty = Of[s.ty] /\ Inner(s).off = x % z
    BY <2>3 DEF SpotOf
  <2>5. (x % z) + y \in 0 .. z - 1
    BY <2>4
  <2>6. (x + y) % z = (x % z) + y /\ x + y = z * q + ((x % z) + y)
    <3> HIDE DEF z, x
    <3> QED BY <1>2, <2>1, <2>5, ModFacts DEF x, q
  <2>7. x + y < SizeOf[s.ty]
    <3>1. \/ SizeOf[s.ty] = MaxOff + 1 \/ (n > 0 /\ SizeOf[s.ty] = n * z)
          \/ SizeOf[s.ty] = z
      BY <1>2, <1>4, <2>1, LayoutAssumption
    <3>2. CASE SizeOf[s.ty] = MaxOff + 1
      BY <1>2, <3>2 DEF Offset
    <3>3. ASSUME NEW k \in Nat, SizeOf[s.ty] = k * z
          PROVE x + y < SizeOf[s.ty]
      <4>1. x \in Nat /\ x < k * z /\ q = x \div z
        BY <1>2, <2>2, <3>3
      <4> HIDE DEF z, x, q
      <4>2. q \in Nat /\ z * q <= x
        BY ONLY <2>1, <4>1
      <4>3. z * q < k * z
        <5>1. z * q \in Nat /\ k * z \in Nat
          BY ONLY <2>1, <4>2, k \in Nat
        <5> QED BY ONLY <4>1, <4>2, <5>1
      <4>4. q < k
        BY ONLY <2>1, <4>2, <4>3, k \in Nat
      <4>5. z * q + z <= k * z
        BY ONLY <2>1, <4>2, <4>4, k \in Nat
      <4>6. x + y < z * q + z
        <5>1. z * q \in Nat
          BY ONLY <2>1, <4>2
        <5> QED BY ONLY <2>1, <2>5, <2>6, <5>1
      <4> QED BY <2>1, <3>3, <4>1, <4>2, <4>5, <4>6
    <3>4. CASE SizeOf[s.ty] = z
      <4>1. SizeOf[s.ty] = 1 * z
        BY <2>1, <3>4
      <4> QED BY <3>3, <4>1
    <3> HIDE DEF z, x, n
    <3> QED BY <2>1, <3>1, <3>2, <3>3, <3>4
  <2>8. ~Leaf(s2) /\ Inner(s2) = SpotOf(Of[s.ty], (x + y) % z)
    <3>1. IsArray(s2.ty) /\ s2.off < SizeOf[s2.ty]
      BY <1>1, <1>4, <2>7
    <3> HIDE DEF s2
    <3> QED BY <1>1, <3>1, InnerArray
  <2> QED BY <1>1, <2>4, <2>6, <2>7, <2>8
<1>5. CASE ~IsArray(s.ty)
  <2>1. PICK m \in Members(s.ty) : Spans(m, s.off) /\ Inner(s) = SpotOf(m.ty, s.off - m.off)
    <3>1. Inner(s) \in Inside(s)
      BY DEF Leaf, Inner
    <3> QED BY <1>5, <3>1 DEF Inside
  <2>2. Inner(s).ty = m.ty /\ Inner(s).off = s.off - m.off
    BY <2>1 DEF SpotOf
  <2>3. m.off \in Nat /\ m.ty \in Type /\ m.off + SizeOf[m.ty] <= SizeOf[s.ty]
    BY <1>2, MemberFacts
  <2>4. SizeOf[m.ty] \in Nat
    BY <2>3, SizeFacts
  <2>5. Spans(m, s2.off) /\ s2.off < SizeOf[s.ty] /\ s2.off - m.off = Inner(s).off + y
    BY <1>1, <1>2, <1>3, <2>2, <2>3, <2>4 DEF Spans
  <2>6. ~Leaf(s2) /\ Inner(s2) = SpotOf(m.ty, s2.off - m.off)
    <3> HIDE DEF s2
    <3> QED BY <1>1, <1>5, <2>1, <2>5, InnerMember
  <2> QED BY <1>1, <2>2, <2>5, <2>6
<1> QED BY <1>4, <1>5

\* What starts at a spot within an object starts there also as seen from around
\* the object.
LEMMA TypesWithin ==
  ASSUME NEW s \in Spot, NEW u \in TypesAt(s), NEW y \in Nat, y < SizeOf[u], s.off + y \in Offset
  PROVE  /\ s.off + y < SizeOf[s.ty]
         /\ TypesAt(SpotOf(u, y)) \subseteq TypesAt(SpotOf(s.ty, s.off + y))
<1> DEFINE Claim(x, v, w) ==
             /\ x.off + w < SizeOf[x.ty]
             /\ TypesAt(SpotOf(v, w)) \subseteq TypesAt(SpotOf(x.ty, x.off + w))
           T == {x \in Spot : \A v \in TypesAt(x) : \A w \in Nat :
                   w < SizeOf[v] /\ x.off + w \in Offset => Claim(x, v, w)}
<1>1. ASSUME NEW x \in Spot, ~Leaf(x) => Inner(x) \in T
      PROVE x \in T
  <2> SUFFICES ASSUME NEW v \in TypesAt(x), NEW w \in Nat, w < SizeOf[v], x.off + w \in Offset
               PROVE Claim(x, v, w)
    OBVIOUS
  <2>1. x.off \in Nat /\ x.ty \in Type /\ MaxOff \in Nat
    BY SizeFacts DEF Spot, Offset
  <2>2. CASE x.off = 0 /\ v = x.ty
    <3>1. x.off + w = w
      BY <2>2
    <3> QED BY <2>2, <3>1
  <2>3. CASE ~Leaf(x) /\ v \in TypesAt(Inner(x))
    <3> DEFINE i == Inner(x)
    <3>1. i \in Spot /\ i.off <= x.off /\ i.off \in Nat /\ i.ty \in Type
      BY <2>3, InnerFacts, SizeFacts DEF Spot, Offset
    <3> HIDE DEF i
    <3>2. i.off + w \in Offset /\ i.off + w \in Nat
      BY <2>1, <3>1 DEF Offset
    <3>3. /\ i.off + w < SizeOf[i.ty]
          /\ TypesAt(SpotOf(v, w)) \subseteq TypesAt(SpotOf(i.ty, i.off + w))
      <4>1. i \in T
        BY <1>1, <2>3 DEF i
      <4> QED BY <2>3, <3>2, <4>1 DEF i
    <3>4. SizeOf[i.ty] \in Nat
      BY <3>1, SizeFacts
    <3>5. i.off + w \in 0 .. SizeOf[i.ty] - 1
      BY <3>2, <3>3, <3>4
    <3> DEFINE x2 == SpotOf(x.ty, x.off + w)
    <3>6. /\ x2 \in Spot /\ ~Leaf(x2) /\ x2.off < SizeOf[x.ty]
          /\ Inner(x2) = SpotOf(i.ty, i.off + w)
      BY <2>3, <3>5, InnerMoves DEF i
    <3>7. x2.off = x.off + w
      BY DEF SpotOf
    <3>8. TypesAt(Inner(x2)) \subseteq TypesAt(x2)
      <4> HIDE DEF x2
      <4> QED BY <3>6, TypesAtDef
    <3> QED BY <3>3, <3>6, <3>7, <3>8
  <2> QED BY <2>2, <2>3, TypesAtDef
<1> HIDE DEF T
<1>2. Spot \subseteq T
  BY <1>1, SpotInduction
<1> QED BY <1>2 DEF T

-----------------------------------------------------------------------------
(* What a search leaves behind *)

\* The numbers stay within the offset searched.
LEMMA FindRange ==
  ASSUME NEW u \in Type, NEW s \in Spot
  PROVE  LET r == find_matching_subobject(u, s)
         IN /\ r.off \in Nat /\ r.off <= s.off
            /\ r.pos \in Nat /\ r.sum \in Nat /\ r.pos <= r.sum /\ r.sum <= s.off
            /\ r.containing \in Type \union {None}
            /\ r.containing = None => r.sum = 0
<1> DEFINE f(x) == find_matching_subobject(u, x)
           Claim(r, x) ==
             /\ r.off \in Nat /\ r.off <= x.off
             /\ r.pos \in Nat /\ r.sum \in Nat /\ r.pos <= r.sum /\ r.sum <= x.off
             /\ r.containing \in Type \union {None}
             /\ r.containing = None => r.sum = 0
           T == {x \in Spot : Claim(f(x), x)}
<1>1. ASSUME NEW x \in Spot, ~Leaf(x) => Inner(x) \in T
      PROVE x \in T
  <2>0. x.off \in Nat /\ x.ty \in Type
    BY SizeFacts DEF Spot, Offset
  <2>1. CASE Here(u, x).found \/ Leaf(x)
    <3>1. f(x) = Here(u, x)
      BY <2>1, FindDef
    <3>2. Claim(Here(u, x), x)
      BY <2>0 DEF Here
    <3> HIDE DEF f
    <3> QED BY <3>1, <3>2
  <2>2. CASE ~(Here(u, x).found \/ Leaf(x))
    <3> DEFINE i == Inner(x)
               r == f(i)
    <3>1. i \in Spot /\ i.off \in Nat /\ i.off <= x.off
      BY <2>2, InnerFacts, SizeFacts DEF Spot, Offset
    <3>2. f(x) = FindUp(x, r) /\ r \in Found
      <4>1. f(x) = FindUp(x, r)
        BY <2>2, FindDef
      <4> HIDE DEF i
      <4> QED BY <3>1, <4>1, FindDef
    <3>3. Claim(r, i)
      BY <1>1, <2>2
    <3>4. PosOff(x) \in Nat /\ PosOff(x) + i.off <= x.off
      BY <2>0, <3>1 DEF PosOff
    <3> DEFINE g == FindUp(x, r)
    <3>5. /\ g.off = r.off /\ g.sum = r.sum + PosOff(x)
          /\ g.containing = IF r.containing = None THEN x.ty ELSE r.containing
          /\ g.pos = IF r.containing = None THEN PosOff(x) ELSE r.pos
      <4> HIDE DEF r
      <4> QED BY <3>2 DEF FindUp, Found
    <3>6. None \notin Type
      BY TypesAssumption
    <3>7. Claim(g, x)
      <4> HIDE DEF g, r, i, f
      <4> QED BY <2>0, <3>1, <3>3, <3>4, <3>5, <3>6
    <3> HIDE DEF g, f
    <3> QED BY <3>2, <3>7 DEF g
  <2> QED BY <2>1, <2>2
<1> HIDE DEF T
<1>2. Spot \subseteq T
  BY <1>1, SpotInduction
<1> QED BY <1>2 DEF T

\* A type found as the element of an array: the sum of the member offsets is
\* where such an array starts.
LEMMA FindArray ==
  ASSUME NEW u \in Type, NEW s \in Spot,
         find_matching_subobject(u, s).found,
         find_matching_subobject(u, s).containing # None,
         IsArray(find_matching_subobject(u, s).containing)
  PROVE  LET r == find_matching_subobject(u, s)
         IN /\ r.pos = 0 /\ Of[r.containing] = u
            /\ r.containing \in TypesAt(SpotOf(s.ty, r.sum))
<1> DEFINE f(x) == find_matching_subobject(u, x)
           InArray(r, x) ==
             /\ r.pos = 0 /\ Of[r.containing] = u
             /\ r.containing \in TypesAt(SpotOf(x.ty, r.sum)) /\ r.sum < SizeOf[x.ty]
           Claim(r, x) ==
             /\ r.found /\ r.containing = None => x.ty = u
             /\ r.found /\ r.containing # None /\ IsArray(r.containing) => InArray(r, x)
           T == {x \in Spot : Claim(f(x), x)}
<1>1. ASSUME NEW x \in Spot, ~Leaf(x) => Inner(x) \in T
      PROVE x \in T
  <2>0. x.off \in Nat /\ x.ty \in Type /\ None \notin Type
    BY SizeFacts, TypesAssumption DEF Spot, Offset
  <2>00. SizeOf[x.ty] \in Nat /\ SizeOf[x.ty] > 0 /\ SizeOf[x.ty] <= MaxOff + 1 /\ MaxOff \in Nat
    BY <2>0, SizeFacts
  <2>1. CASE Here(u, x).found \/ Leaf(x)
    <3>1. f(x) = Here(u, x)
      BY <2>1, FindDef
    <3>2. Here(u, x).containing = None /\ (Here(u, x).found => x.ty = u)
      BY DEF Here
    <3> HIDE DEF f, InArray
    <3> QED BY <3>1, <3>2
  <2>2. CASE ~(Here(u, x).found \/ Leaf(x))
    <3> DEFINE i == Inner(x)
               r == f(i)
               g == FindUp(x, r)
    <3>1. /\ i \in Spot /\ i.off \in Nat /\ i.ty \in Type
          /\ IsArray(x.ty) => i.ty = Of[x.ty]
          /\ SizeOf[i.ty] <= SizeOf[x.ty] /\ i.off < SizeOf[i.ty] /\ i.off <= x.off
      BY <2>2, InnerFacts, SizeFacts DEF Spot, Offset
    <3>2. f(x) = g /\ r \in Found
      <4>1. f(x) = g
        BY <2>2, FindDef
      <4> HIDE DEF i
      <4> QED BY <3>1, <4>1, FindDef
    <3>3. Claim(r, i)
      BY <1>1, <2>2
    <3>4. r.sum \in Nat /\ (r.containing = None => r.sum = 0)
      <4> HIDE DEF i
      <4> QED BY <3>1, FindRange
    <3>5. /\ g.found = r.found /\ g.sum = r.sum + PosOff(x)
          /\ g.containing = IF r.containing = None THEN x.ty ELSE r.containing
          /\ g.pos = IF r.containing = None THEN PosOff(x) ELSE r.pos
      <4> HIDE DEF r
      <4> QED BY <3>2 DEF FindUp, Found
    <3>6. ASSUME g.found, g.containing # None, IsArray(g.containing)
          PROVE InArray(g, x)
      <4>1. CASE r.containing = None
        <5>1. IsArray(x.ty) /\ g.containing = x.ty /\ PosOff(x) = 0
          <6> HIDE DEF g, r
          <6> QED BY <3>5, <3>6, <4>1 DEF PosOff
        <5>2. g.pos = 0 /\ g.sum = 0 /\ Of[x.ty] = u
          <6> HIDE DEF g, r, f, InArray
          <6> QED BY <3>1, <3>3, <3>4, <3>5, <3>6, <4>1, <5>1
        <5>3. x.ty \in TypesAt(SpotOf(x.ty, 0))
          <6>1. /\ SpotOf(x.ty, 0) \in Spot
                /\ SpotOf(x.ty, 0).ty = x.ty /\ SpotOf(x.ty, 0).off = 0
            BY <2>0, <2>00 DEF SpotOf, Spot, Offset
          <6> QED BY <6>1, TypesAtDef
        <5> HIDE DEF g
        <5> QED BY <2>00, <5>1, <5>2, <5>3
      <4>2. CASE r.containing # None
        <5>1. g.containing = r.containing /\ g.pos = r.pos /\ g.sum = r.sum + PosOff(x)
          <6> HIDE DEF g, r
          <6> QED BY <3>5, <4>2
        <5>2. InArray(r, i)
          <6> HIDE DEF g, r, InArray
          <6> QED BY <3>3, <3>5, <3>6, <4>2, <5>1
        <5> DEFINE x2 == SpotOf(x.ty, g.sum)
        <5>3. SizeOf[i.ty] \in Nat /\ r.sum < SizeOf[i.ty]
          BY <3>1, <5>2, SizeFacts
        <5> HIDE DEF r, i
        <5>4. /\ x2 \in Spot /\ ~Leaf(x2) /\ x2.off < SizeOf[x.ty]
              /\ Inner(x2) = SpotOf(i.ty, r.sum)
          <6>1. CASE IsArray(x.ty)
            <7>1. g.sum = r.sum
              BY <3>4, <5>1, <6>1 DEF PosOff
            <7>2. r.sum < SizeOf[x.ty] /\ r.sum % SizeOf[i.ty] = r.sum
              BY <2>00, <3>1, <3>4, <5>3
            <7>3. x2 \in Spot /\ x2.ty = x.ty /\ x2.off = r.sum
              BY <2>0, <2>00, <3>4, <7>1, <7>2 DEF SpotOf, Spot, Offset
            <7>4. ~Leaf(x2) /\ Inner(x2) = SpotOf(Of[x.ty], r.sum % SizeOf[Of[x.ty]])
              <8> HIDE DEF x2
              <8> QED BY <6>1, <7>2, <7>3, InnerArray
            <7> HIDE DEF x2
            <7> QED BY <3>1, <6>1, <7>2, <7>3, <7>4
          <6>2. CASE ~IsArray(x.ty)
            <7>1. g.sum = r.sum + (x.off - i.off)
              BY <5>1, <6>2 DEF PosOff, i
            <7> DEFINE y == r.sum - i.off
            <7>2. y \in Int /\ g.sum = x.off + y /\ i.off + y = r.sum
              BY <2>0, <3>1, <3>4, <7>1
            <7>3. r.sum \in 0 .. SizeOf[i.ty] - 1
              BY <3>4, <5>3
            <7>4. g.sum \in Offset
              <8>1. PICK m \in Members(x.ty) : Spans(m, x.off) /\ i = SpotOf(m.ty, x.off - m.off)
                <9>1. Inner(x) \in Inside(x)
                  BY <2>2 DEF Leaf, Inner
                <9> QED BY <6>2, <9>1 DEF Inside, i
              <8>2. i.ty = m.ty /\ i.off = x.off - m.off
                BY <8>1 DEF SpotOf
              <8>3. m.off \in Nat /\ m.off + SizeOf[m.ty] <= SizeOf[x.ty]
                BY <2>0, MemberFacts
              <8>4. g.sum = r.sum + m.off
                BY <2>0, <3>4, <7>1, <8>2, <8>3
              <8> QED BY ONLY <2>00, <3>4, <5>3, <8>2, <8>3, <8>4 DEF Offset
            <7> HIDE DEF y, g
            <7>5. x.off + y \in Offset /\ Inner(x).off + y \in 0 .. SizeOf[Inner(x).ty] - 1
              BY <7>2, <7>3, <7>4 DEF i
            <7>6. LET s2 == SpotOf(x.ty, x.off + y)
                  IN /\ s2 \in Spot /\ ~Leaf(s2) /\ s2.off < SizeOf[x.ty]
                     /\ Inner(s2) = SpotOf(Inner(x).ty, Inner(x).off + y)
              BY <2>2, <7>2, <7>5, InnerMoves
            <7> QED BY <7>2, <7>6 DEF i
          <6> QED BY <6>1, <6>2
        <5>5. r.containing \in TypesAt(x2)
          <6> HIDE DEF x2
          <6> QED BY <5>2, <5>4, TypesAtDef
        <5>6. x2.off = g.sum
          BY DEF SpotOf
        <5> HIDE DEF g
        <5> QED BY <5>1, <5>2, <5>4, <5>5, <5>6
      <4> QED BY <4>1, <4>2
    <3>7. g.containing # None
      <4> HIDE DEF g, r
      <4> QED BY <2>0, <3>5
    <3> HIDE DEF g, f, r, InArray
    <3> QED BY <3>2, <3>6, <3>7
  <2> QED BY <2>1, <2>2
<1> HIDE DEF T
<1>2. Spot \subseteq T
  BY <1>1, SpotInduction
<1>3. Claim(f(s), s)
  BY <1>2 DEF T
<1> QED BY <1>3

-----------------------------------------------------------------------------
(* Degrees and likeness *)

\* A pointer of that degree starts at the spot exactly when the descent ends at
\* the start of one.
LEMMA DegreeFacts ==
  ASSUME NEW s \in Spot, NEW d
  PROVE  holds_pointer_of_degree(s, d) <=>
           \E t \in TypesAt(s) : IsPointer(t) /\ Degree[t] >= d
<1>1. Deepest[s] \in Spot /\ Deepest[s].ty \in Type
  BY DeepestRight DEF Spot
<1>2. \A t \in TypesAt(s) : t \in Type
  BY TypesAtFit
<1>3. \A u \in Type : IsPointer(u) =>
        (u \in TypesAt(s) <=> Deepest[s].off = 0 /\ Deepest[s].ty = u)
  BY DeepestRight
<1>4. holds_pointer_of_degree(s, d) <=>
        Deepest[s].off = 0 /\ IsPointer(Deepest[s].ty) /\ Degree[Deepest[s].ty] >= d
  BY DEF holds_pointer_of_degree, pointer_has_degree
<1> QED BY <1>1, <1>2, <1>3, <1>4

\* A type that is no pointer has degree 0.
LEMMA DegreeDef == \A t \in Type : ~IsPointer(t) => Degree[t] = 0
<1> DEFINE rank == [t \in Type |-> Degree[t]]
           val(f, t) == IF IsPointer(t) THEN 1 + f[Of[t]] ELSE 0
           step == [x \in [Type -> Nat] \X Type |-> val(x[1], x[2])]
<1>1. rank \in [Type -> Nat] /\ \A t \in Type : IsPointer(t) => Of[t] \in Type /\ rank[Of[t]] < rank[t]
  BY PointerAssumption, TypesAssumption
<1>2. ASSUME NEW f \in [Type -> Nat], NEW t \in Type
      PROVE val(f, t) \in Nat /\ step[<<f, t>>] = val(f, t)
  <2>1. val(f, t) \in Nat
    <3>1. IsPointer(t) => f[Of[t]] \in Nat
      BY TypesAssumption
    <3> QED BY <3>1
  <2>2. <<f, t>> \in [Type -> Nat] \X Type
    OBVIOUS
  <2> HIDE DEF val
  <2> QED BY <2>1, <2>2
<1>3. step \in [[Type -> Nat] \X Type -> Nat]
  <2>1. ASSUME NEW x \in [Type -> Nat] \X Type
        PROVE val(x[1], x[2]) \in Nat
    <3>1. x[1] \in [Type -> Nat] /\ x[2] \in Type
      OBVIOUS
    <3> HIDE DEF val, step
    <3> QED BY <1>2, <3>1
  <2> HIDE DEF val
  <2> QED BY <2>1
<1> HIDE DEF rank, step
<1>4. GoesDown(Type, Nat, rank, step)
  <2> SUFFICES ASSUME NEW f \in [Type -> Nat], NEW g \in [Type -> Nat], NEW t \in Type,
                      \A u \in Type : rank[u] < rank[t] => f[u] = g[u]
               PROVE step[<<f, t>>] = step[<<g, t>>]
    BY DEF GoesDown
  <2>1. val(f, t) = val(g, t)
    BY <1>1
  <2> HIDE DEF val
  <2> QED BY <1>2, <2>1
<1>5. PICK f \in [Type -> Nat] : Solves(f, Type, step)
  BY ONLY <1>1, <1>3, <1>4, RankRecursion, Zenon
<1>6. f = [t \in Type |-> val(f, t)]
  <2> HIDE DEF val
  <2> QED BY <1>2, <1>5 DEF Solves
<1>7. \E g : g = [t \in Type |-> IF IsPointer(t) THEN 1 + g[Of[t]] ELSE 0]
  BY <1>6
<1>8. Degree = [t \in Type |-> IF IsPointer(t) THEN 1 + Degree[Of[t]] ELSE 0]
  BY <1>7 DEF Degree
<1> QED BY <1>8

\* AtStart goes down until it is at the start of a subobject, or at a leaf.
LEMMA AtStartDef ==
  \A s \in Spot : AtStart[s] = IF s.off = 0 \/ Leaf(s) THEN s ELSE AtStart[Inner(s)]
<1> DEFINE base == [s \in Spot |-> s]
           up == [x \in Spot \X Spot |-> IF x[1].off = 0 THEN x[1] ELSE x[2]]
<1>1. CASE Spot = {}
  BY <1>1
<1>2. CASE Spot # {}
  <2>1. base \in [Spot -> Spot] /\ up \in [Spot \X Spot -> Spot]
    OBVIOUS
  <2>2. PICK f \in [Spot -> Spot] : Climbs(f, base, up)
    <3> HIDE DEF base, up
    <3> QED BY ONLY <1>2, <2>1, SpotRecursion, Zenon
  <2>3. \A s \in Spot : (IF Leaf(s) THEN base[s] ELSE up[<<s, f[Inner(s)]>>])
                        = (IF s.off = 0 \/ Leaf(s) THEN s ELSE f[Inner(s)])
    BY InnerFacts
  <2>4. f = [s \in Spot |-> IF s.off = 0 \/ Leaf(s) THEN s ELSE f[Inner(s)]]
    <3> HIDE DEF base, up
    <3> QED BY <2>2, <2>3 DEF Climbs
  <2>5. \E g : g = [s \in Spot |-> IF s.off = 0 \/ Leaf(s) THEN s ELSE g[Inner(s)]]
    BY <2>4
  <2>6. AtStart = [s \in Spot |-> IF s.off = 0 \/ Leaf(s) THEN s ELSE AtStart[Inner(s)]]
    BY <2>5 DEF AtStart
  <2> QED BY <2>6
<1> QED BY <1>1, <1>2

\* When it ends at a start, the type there is one of those at the spot.
LEMMA AtStartRight ==
  ASSUME NEW s \in Spot
  PROVE  AtStart[s] \in Spot /\ (AtStart[s].off = 0 => AtStart[s].ty \in TypesAt(s))
<1> DEFINE Claim(x) == AtStart[x] \in Spot /\ (AtStart[x].off = 0 => AtStart[x].ty \in TypesAt(x))
           T == {x \in Spot : Claim(x)}
<1>1. ASSUME NEW x \in Spot, ~Leaf(x) => Inner(x) \in T
      PROVE x \in T
  <2>1. CASE x.off = 0 \/ Leaf(x)
    BY <2>1, AtStartDef, TypesAtDef
  <2>2. CASE x.off # 0 /\ ~Leaf(x)
    BY <1>1, <2>2, AtStartDef, TypesAtDef
  <2> QED BY <2>1, <2>2
<1> HIDE DEF T
<1>2. Spot \subseteq T
  BY <1>1, SpotInduction
<1> QED BY <1>2 DEF T

\* What starts at the start of an object of one of the types at a spot starts
\* at the spot.
LEMMA StartWithin ==
  ASSUME NEW s \in Spot, NEW t \in TypesAt(s)
  PROVE  t \in Type /\ SpotOf(t, 0) \in Spot /\ TypesAt(SpotOf(t, 0)) \subseteq TypesAt(s)
<1>1. t \in Type /\ s.off \in Offset /\ s.off \in Nat /\ 0 \in Offset /\ s.ty \in Type
  BY TypesAtFit, SizeFacts DEF Spot, Offset
<1>2. SizeOf[t] \in Nat /\ 0 < SizeOf[t] /\ s.off + 0 = s.off /\ s.off + 0 \in Offset
  BY <1>1, SizeFacts
<1>3. TypesAt(SpotOf(t, 0)) \subseteq TypesAt(SpotOf(s.ty, s.off + 0))
  BY <1>2, TypesWithin
<1>4. SpotOf(s.ty, s.off + 0) = s
  BY <1>2 DEF SpotOf, Spot
<1>5. SpotOf(t, 0) \in Spot
  BY <1>1 DEF SpotOf, Spot
<1> QED BY <1>1, <1>3, <1>4, <1>5

\* So does the first element of an array.
LEMMA ElementWithin ==
  ASSUME NEW s \in Spot, NEW t \in TypesAt(s), IsArray(t)
  PROVE  Of[t] \in TypesAt(s)
<1> DEFINE x == SpotOf(t, 0)
<1>1. t \in Type /\ x \in Spot /\ TypesAt(x) \subseteq TypesAt(s)
  BY StartWithin
<1>2. x.ty = t /\ x.off = 0 /\ 0 < SizeOf[t] /\ Of[t] \in Type
  BY <1>1, SizeFacts, TypesAssumption DEF SpotOf
<1> HIDE DEF x
<1>3. ~Leaf(x) /\ Inner(x) = SpotOf(Of[t], 0 % SizeOf[Of[t]])
  BY <1>1, <1>2, InnerArray
<1>4. 0 % SizeOf[Of[t]] = 0
  BY <1>2, SizeFacts
<1>5. Inner(x) \in Spot /\ Inner(x).off = 0 /\ Inner(x).ty = Of[t]
  BY <1>1, <1>3, <1>4, InnerFacts DEF SpotOf
<1> QED BY <1>1, <1>3, <1>5, TypesAtDef

\* Element goes down to what is no array.
LEMMA ElementDef ==
  \A t \in Type : Element[t] = IF IsArray(t) THEN Element[Of[t]] ELSE t
<1>1. PICK rank \in [Type -> Nat] :
        \A t \in Type : \A u \in Parts(t) : u \in Type => rank[u] < rank[t]
  BY TypeRank
<1> DEFINE val(f, t) == IF IsArray(t) THEN f[Of[t]] ELSE t
           F == [Type -> Type]
           step == [x \in F \X Type |-> val(x[1], x[2])]
<1>2. \A t \in Type : IsArray(t) => Of[t] \in Type /\ rank[Of[t]] < rank[t]
  BY <1>1, TypesAssumption DEF Parts
<1>3. ASSUME NEW f \in F, NEW t \in Type
      PROVE val(f, t) \in Type /\ step[<<f, t>>] = val(f, t)
  <2>1. val(f, t) \in Type
    BY <1>2
  <2>2. <<f, t>> \in F \X Type
    OBVIOUS
  <2> HIDE DEF val, F
  <2> QED BY <2>1, <2>2
<1>4. step \in [F \X Type -> Type]
  <2>1. ASSUME NEW x \in F \X Type
        PROVE val(x[1], x[2]) \in Type
    <3>1. x[1] \in F /\ x[2] \in Type
      OBVIOUS
    <3> HIDE DEF val, step, F
    <3> QED BY <1>3, <3>1
  <2> HIDE DEF val, F
  <2> QED BY <2>1
<1> HIDE DEF step
<1>5. GoesDown(Type, Type, rank, step)
  <2> SUFFICES ASSUME NEW f \in F, NEW g \in F, NEW t \in Type,
                      \A u \in Type : rank[u] < rank[t] => f[u] = g[u]
               PROVE step[<<f, t>>] = step[<<g, t>>]
    BY DEF GoesDown
  <2>1. val(f, t) = val(g, t)
    BY <1>2
  <2> HIDE DEF val, F
  <2> QED BY <1>3, <2>1
<1>6. Type # {}
  BY TypesAssumption
<1>7. PICK f \in [Type -> Type] : Solves(f, Type, step)
  BY ONLY <1>1, <1>4, <1>5, <1>6, RankRecursion, Zenon
<1>8. f = [t \in Type |-> val(f, t)]
  <2>1. f \in F
    OBVIOUS
  <2> HIDE DEF val, F
  <2> QED BY <1>3, <1>7, <2>1 DEF Solves
<1>9. \E g : g = [t \in Type |-> IF IsArray(t) THEN g[Of[t]] ELSE t]
  BY <1>8
<1>10. Element = [t \in Type |-> IF IsArray(t) THEN Element[Of[t]] ELSE t]
  BY <1>9 DEF Element
<1> QED BY <1>10

LEMMA ElementRight ==
  ASSUME NEW s \in Spot, NEW t \in TypesAt(s)
  PROVE  Element[t] \in TypesAt(s)
<1>1. PICK rank \in [Type -> Nat] :
        \A u \in Type : \A v \in Parts(u) : v \in Type => rank[v] < rank[u]
  BY TypeRank
<1> DEFINE T == {u \in Type : u \in TypesAt(s) => Element[u] \in TypesAt(s)}
<1>2. ASSUME NEW u \in Type, \A v \in Type : rank[v] < rank[u] => v \in T
      PROVE u \in T
  <2>1. CASE ~IsArray(u)
    BY <2>1, ElementDef
  <2>2. CASE IsArray(u)
    <3>1. Of[u] \in Type /\ rank[Of[u]] < rank[u]
      BY <1>1, <2>2, TypesAssumption DEF Parts
    <3>2. u \in TypesAt(s) => Of[u] \in TypesAt(s)
      BY <2>2, ElementWithin
    <3> QED BY <1>2, <2>2, <3>1, <3>2, ElementDef
  <2> QED BY <2>1, <2>2
<1> HIDE DEF T
<1>3. Type \subseteq T
  BY <1>2, RankInduction
<1>4. t \in Type
  BY TypesAtFit
<1> QED BY <1>3, <1>4 DEF T

\* try_deeper ends at a level that is loosely like the test type.
LEMMA LooseFromDef ==
  ASSUME NEW test, NEW s \in Spot
  PROVE  LooseFrom(test, s) <=>
           LooselyLike(test, s.ty) \/ (~Leaf(s) /\ LooseFrom(test, Inner(s)))
<1> DEFINE like(x) == LooselyLike(test, x.ty)
           base == [x \in Spot |-> like(x)]
           up == [x \in Spot \X BOOLEAN |-> like(x[1]) \/ x[2]]
<1>0. \A x : like(x) \in BOOLEAN
  BY Zenon DEF LooselyLike
<1> HIDE DEF like
<1>1. base \in [Spot -> BOOLEAN]
  BY <1>0
<1>2. up \in [Spot \X BOOLEAN -> BOOLEAN]
  BY Zenon
<1>3. PICK f \in [Spot -> BOOLEAN] : Climbs(f, base, up)
  <2> HIDE DEF base, up
  <2>1. BOOLEAN # {}
    OBVIOUS
  <2> QED BY ONLY <1>1, <1>2, <2>1, SpotRecursion, Zenon
<1> DEFINE val(g, x) == like(x) \/ (~Leaf(x) /\ g[Inner(x)])
           body(g) == [x \in Spot |-> val(g, x)]
           From[x \in Spot] == LooselyLike(test, x.ty) \/ (~Leaf(x) /\ From[Inner(x)])
<1>4. ASSUME NEW x \in Spot
      PROVE f[x] = val(f, x)
  <2>1. f[x] = IF Leaf(x) THEN base[x] ELSE up[<<x, f[Inner(x)]>>]
    <3> HIDE DEF base, up
    <3> QED BY <1>3 DEF Climbs
  <2>2. CASE Leaf(x)
    BY <1>0, <2>1, <2>2
  <2>3. CASE ~Leaf(x)
    <3>1. Inner(x) \in Spot
      BY <2>3, InnerFacts
    <3>2. f[Inner(x)] \in BOOLEAN
      BY <3>1
    <3>3. up[<<x, f[Inner(x)]>>] = (like(x) \/ f[Inner(x)])
      <4>1. <<x, f[Inner(x)]>> \in Spot \X BOOLEAN
        BY <3>2
      <4> QED BY <4>1
    <3> HIDE DEF up, base
    <3> QED BY <1>0, <2>1, <2>3, <3>2, <3>3
  <2> QED BY <2>2, <2>3
<1>5. f = body(f)
  <2> HIDE DEF base, up, val
  <2> QED BY <1>4
<1>6. From = CHOOSE g : g = body(g)
  BY Zenon DEF like
<1>7. \A x : LooseFrom(test, x) = From[x]
  BY Zenon DEF LooseFrom
<1> HIDE DEF From
<1>8. From = body(From)
  <2> HIDE DEF body
  <2> QED BY <1>5, <1>6
<1>9. From[s] = val(From, s)
  <2> HIDE DEF val
  <2> QED BY <1>8
<1> QED BY <1>7, <1>9, Zenon DEF like

LEMMA LooseFromRight ==
  ASSUME NEW test, NEW s \in Spot, s.off = 0, LooseFrom(test, s)
  PROVE  \E t \in TypesAt(s) : LooselyLike(test, t)
<1> DEFINE T == {x \in Spot : x.off = 0 /\ LooseFrom(test, x) =>
                                \E t \in TypesAt(x) : LooselyLike(test, t)}
<1>1. ASSUME NEW x \in Spot, ~Leaf(x) => Inner(x) \in T
      PROVE x \in T
  <2> SUFFICES ASSUME x.off = 0, LooseFrom(test, x)
               PROVE \E t \in TypesAt(x) : LooselyLike(test, t)
    OBVIOUS
  <2>1. CASE LooselyLike(test, x.ty)
    BY <2>1, TypesAtDef
  <2>2. CASE ~Leaf(x) /\ LooseFrom(test, Inner(x))
    <3>1. Inner(x) \in Spot /\ Inner(x).off = 0
      <4>1. Inner(x) \in Spot /\ Inner(x).off <= 0
        BY <2>2, InnerFacts
      <4>2. Inner(x).off \in Nat
        BY <4>1, TypesAssumption DEF Spot, Offset
      <4> QED BY <4>1, <4>2
    <3>2. PICK t \in TypesAt(Inner(x)) : LooselyLike(test, t)
      BY <1>1, <2>2, <3>1
    <3> QED BY <2>2, <3>2, TypesAtDef
  <2> QED BY <2>1, <2>2, LooseFromDef
<1> HIDE DEF T
<1>2. Spot \subseteq T
  BY <1>1, SpotInduction
<1> QED BY <1>2 DEF T

\* The largest member of a set of numbers up to a bound.
LEMMA Largest ==
  ASSUME NEW b \in Nat, NEW T, T \subseteq 0 .. b, T # {}
  PROVE  \E x \in T : \A y \in T : y <= x
<1> DEFINE U == {b - x : x \in T}
<1>1. U \subseteq Nat /\ U # {}
  <2>1. \A x \in T : x \in 0 .. b /\ b - x \in Nat
    OBVIOUS
  <2> QED BY <2>1
<1>2. PICK u \in U : \A v \in U : u <= v
  <2> HIDE DEF U
  <2> QED BY <1>1, Least
<1>3. PICK x \in T : u = b - x
  OBVIOUS
<1>4. \A y \in T : y \in 0 .. b /\ b - x <= b - y
  BY <1>2, <1>3
<1> QED BY <1>3, <1>4

\* The member of the object that a char array of the test type ends with.
SkippedTo(test, obj, o, i) ==
  LET om == Memb[obj]
      skipped == {k \in o + 1 .. Len(om) : \A j \in o + 1 .. k : om[j].off < TargetOff(test, i)}
  IN CHOOSE k \in skipped \union {o} : \A j \in skipped : j <= k

LEMMA SkippedFacts ==
  ASSUME NEW test \in Type, NEW obj \in Type, NEW o \in 1 .. Len(Memb[obj]), NEW i
  PROVE  SkippedTo(test, obj, o, i) \in o .. Len(Memb[obj])
<1> DEFINE n == Len(Memb[obj])
           skipped == {k \in o + 1 .. n : \A j \in o + 1 .. k : Memb[obj][j].off < TargetOff(test, i)}
           T == skipped \union {o}
<1>1. n \in Nat
  BY TypesAssumption
<1>2. T \subseteq o .. n /\ T \subseteq 0 .. n /\ T # {}
  BY <1>1
<1>3. \E k \in T : \A j \in skipped : j <= k
  <2>1. \E k \in T : \A j \in T : j <= k
    <3> HIDE DEF T, n
    <3> QED BY <1>1, <1>2, Largest
  <2> QED BY <2>1
<1>4. SkippedTo(test, obj, o, i) = CHOOSE k \in T : \A j \in skipped : j <= k
  BY Zenon DEF SkippedTo
<1>5. SkippedTo(test, obj, o, i) \in T
  <2> HIDE DEF T, skipped
  <2> QED BY <1>3, <1>4
<1> HIDE DEF T
<1> QED BY <1>2, <1>5

\* One round of the loop over the members, and the comparison it makes.
Compared(m, n, loosely) == IF loosely THEN LooseMember(m, n) ELSE SameMember(m, n)

Round(test, obj, loosely, g, o, i) ==
  IF o > Len(Memb[obj]) \/ i > Len(Memb[test]) THEN i > Len(Memb[test])
  ELSE IF CharArray(Memb[test][i].ty)
  THEN /\ ~(SkippedTo(test, obj, o, i) >= Len(Memb[obj]) /\ Len(Memb[test]) > i)
       /\ g[<<SkippedTo(test, obj, o, i) + 1, i + 1>>]
  ELSE Compared(Memb[test][i], Memb[obj][o], loosely) /\ g[<<o + 1, i + 1>>]

Places(test, obj) == (1 .. Len(Memb[obj]) + 1) \X (1 .. Len(Memb[test]) + 1)

\* The loop is a function of the place in both types.
LEMMA MatchDef ==
  ASSUME NEW test \in Type, NEW obj \in Type, NEW loosely \in BOOLEAN
  PROVE  \E g \in [Places(test, obj) -> BOOLEAN] :
           /\ MembersMatch(test, obj, loosely) = g[<<1, 1>>]
           /\ \A o \in 1 .. Len(Memb[obj]) + 1, i \in 1 .. Len(Memb[test]) + 1 :
                g[<<o, i>>] = Round(test, obj, loosely, g, o, i)
<1> DEFINE S == Places(test, obj)
           lo == Len(Memb[obj])
           lt == Len(Memb[test])
           F == [S -> BOOLEAN]
           rank == [x \in S |-> lt + 1 - x[2]]
           val(g, x) == Round(test, obj, loosely, g, x[1], x[2])
           step == [x \in F \X S |-> val(x[1], x[2])]
<1>1. lo \in Nat /\ lt \in Nat
  BY TypesAssumption, SMTT(30)
<1>2. \A x \in S : x[1] \in 1 .. lo + 1 /\ x[2] \in 1 .. lt + 1 /\ x = <<x[1], x[2]>>
  BY DEF Places
<1>3. rank \in [S -> Nat] /\ \A x \in S : rank[x] = lt + 1 - x[2]
  <2> HIDE DEF S, lt, lo
  <2> QED BY <1>1, <1>2
<1>4. ASSUME NEW x \in S, x[1] <= lo, x[2] <= lt
      PROVE /\ <<x[1] + 1, x[2] + 1>> \in S /\ rank[<<x[1] + 1, x[2] + 1>>] < rank[x]
            /\ LET k == SkippedTo(test, obj, x[1], x[2])
               IN <<k + 1, x[2] + 1>> \in S /\ rank[<<k + 1, x[2] + 1>>] < rank[x]
  <2> DEFINE k == SkippedTo(test, obj, x[1], x[2])
  <2>1. x[1] \in 1 .. lo /\ x[2] \in 1 .. lt
    BY <1>1, <1>2, <1>4
  <2>2. k \in x[1] .. lo
    BY <2>1, SkippedFacts
  <2>3. ASSUME NEW j \in 1 .. lo
        PROVE <<j + 1, x[2] + 1>> \in S /\ rank[<<j + 1, x[2] + 1>>] < rank[x]
    <3>1. j + 1 \in 1 .. lo + 1 /\ x[2] + 1 \in 1 .. lt + 1
      BY <1>1, <2>1
    <3>2. <<j + 1, x[2] + 1>> \in S
      BY <3>1 DEF Places
    <3>3. <<j + 1, x[2] + 1>>[2] = x[2] + 1
      OBVIOUS
    <3> HIDE DEF rank, S, lt
    <3> QED BY <1>1, <1>3, <2>1, <3>2, <3>3
  <2>4. k \in 1 .. lo
    <3> HIDE DEF k, lo
    <3> QED BY <1>1, <2>1, <2>2
  <2> HIDE DEF rank, S, lo, lt, k
  <2> QED BY <2>1, <2>3, <2>4 DEF k
<1>5. ASSUME NEW g, NEW x \in S
      PROVE val(g, x) \in BOOLEAN
  <2>1. (x[2] > lt) \in BOOLEAN
    <3>1. x[2] \in Int /\ lt \in Int
      <4> HIDE DEF S, lt
      <4> QED BY <1>1, <1>2
    <3> QED BY ONLY <3>1
  <2> HIDE DEF lt, S
  <2> QED BY <2>1, Zenon DEF Round, lt
<1>6. ASSUME NEW g \in F, NEW h \in F, NEW x \in S, \A y \in S : rank[y] < rank[x] => g[y] = h[y]
      PROVE val(g, x) = val(h, x)
  <2>1. CASE x[1] > lo \/ x[2] > lt
    BY <2>1 DEF Round
  <2>2. CASE ~(x[1] > lo \/ x[2] > lt)
    <3>1. x[1] <= lo /\ x[2] <= lt
      <4> HIDE DEF S, lo, lt
      <4> QED BY <1>1, <1>2, <2>2
    <3> DEFINE k == SkippedTo(test, obj, x[1], x[2])
               a == <<x[1] + 1, x[2] + 1>>
               b == <<k + 1, x[2] + 1>>
    <3>2. g[a] = h[a] /\ g[b] = h[b]
      <4>1. a \in S /\ rank[a] < rank[x] /\ b \in S /\ rank[b] < rank[x]
        BY <1>4, <3>1
      <4> HIDE DEF a, b, S, rank
      <4> QED BY <1>6, <4>1
    <3>3. ASSUME NEW f
          PROVE val(f, x) = IF CharArray(Memb[test][x[2]].ty)
                            THEN ~(k >= lo /\ lt > x[2]) /\ f[b]
                            ELSE Compared(Memb[test][x[2]], Memb[obj][x[1]], loosely) /\ f[a]
      BY <2>2 DEF Round
    <3> HIDE DEF val, a, b, k, S, rank
    <3> QED BY <3>2, <3>3
  <2> QED BY <2>1, <2>2
<1> HIDE DEF val, S, rank
<1>7. ASSUME NEW g \in F, NEW x \in S
      PROVE step[<<g, x>>] = val(g, x)
  <2>1. <<g, x>> \in F \X S
    OBVIOUS
  <2> HIDE DEF F
  <2> QED BY <2>1
<1>8. step \in [F \X S -> BOOLEAN]
  BY <1>5
<1> HIDE DEF step
<1>9. GoesDown(S, BOOLEAN, rank, step)
  BY <1>6, <1>7 DEF GoesDown
<1>10. PICK f \in [S -> BOOLEAN] : Solves(f, S, step)
  <2>1. BOOLEAN # {}
    OBVIOUS
  <2> QED BY ONLY <1>3, <1>8, <1>9, <2>1, RankRecursion, Zenon
<1> DEFINE body(g) == [x \in S |-> val(g, x)]
<1>11. f = body(f)
  BY <1>7, <1>10 DEF Solves
<1> DEFINE tm == Memb[test]
           om == Memb[obj]
           Go[at \in (1 .. Len(om) + 1) \X (1 .. Len(tm) + 1)] ==
             LET o == at[1]
                 i == at[2]
                 skipped == {k \in o + 1 .. Len(om) :
                               \A j \in o + 1 .. k : om[j].off < TargetOff(test, i)}
                 k == CHOOSE k \in skipped \union {o} : \A j \in skipped : j <= k
             IN IF o > Len(om) \/ i > Len(tm) THEN i > Len(tm)
                ELSE IF CharArray(tm[i].ty)
                THEN ~(k >= Len(om) /\ Len(tm) > i) /\ Go[<<k + 1, i + 1>>]
                ELSE /\ IF loosely THEN LooseMember(tm[i], om[o]) ELSE SameMember(tm[i], om[o])
                     /\ Go[<<o + 1, i + 1>>]
<1>12. Go = CHOOSE g : g = body(g)
  BY Zenon DEF val, S, Round, Compared, SkippedTo, Places
<1>13. MembersMatch(test, obj, loosely) = Go[<<1, 1>>]
  BY Zenon DEF MembersMatch
<1> HIDE DEF Go
<1>14. Go = body(Go)
  <2> HIDE DEF body
  <2> QED BY <1>11, <1>12
<1>15. Go \in [S -> BOOLEAN] /\ \A x \in S : Go[x] = val(Go, x)
  BY <1>5, <1>14
<1>16. ASSUME NEW o \in 1 .. lo + 1, NEW i \in 1 .. lt + 1
       PROVE Go[<<o, i>>] = Round(test, obj, loosely, Go, o, i)
  <2>1. <<o, i>> \in S
    BY DEF S, Places
  <2>2. Go[<<o, i>>] = val(Go, <<o, i>>)
    BY <1>15, <2>1
  <2>3. <<o, i>>[1] = o /\ <<o, i>>[2] = i
    OBVIOUS
  <2> QED BY <2>2, <2>3 DEF val
<1> QED BY <1>13, <1>15, <1>16 DEF S

\* When the loop succeeds, each member of the test type that is no char array
\* has been compared with a member of the object.
LEMMA MatchRight ==
  ASSUME NEW test \in Type, NEW obj \in Type, NEW loosely \in BOOLEAN,
         MembersMatch(test, obj, loosely), NEW m \in Members(test), ~CharArray(m.ty)
  PROVE  \E n \in Members(obj) : Compared(m, n, loosely)
<1> DEFINE lo == Len(Memb[obj])
           lt == Len(Memb[test])
           Done(i) == \A j \in i .. lt :
                        CharArray(Memb[test][j].ty)
                        \/ \E n \in Members(obj) : Compared(Memb[test][j], n, loosely)
<1>1. lo \in Nat /\ lt \in Nat
  BY TypesAssumption, SMTT(30)
<1>2. PICK g \in [Places(test, obj) -> BOOLEAN] :
        /\ MembersMatch(test, obj, loosely) = g[<<1, 1>>]
        /\ \A o \in 1 .. lo + 1, i \in 1 .. lt + 1 :
             g[<<o, i>>] = Round(test, obj, loosely, g, o, i)
  BY MatchDef
<1> DEFINE S == 1 .. lt + 1
           rank == [i \in S |-> lt + 1 - i]
           T == {i \in S : \A o \in 1 .. lo + 1 : g[<<o, i>>] => Done(i)}
<1>3. rank \in [S -> Nat] /\ \A i \in S : rank[i] = lt + 1 - i
  <2> HIDE DEF lt
  <2> QED BY <1>1
<1>4. ASSUME NEW i \in S, \A j \in S : rank[j] < rank[i] => j \in T
      PROVE i \in T
  <2> SUFFICES ASSUME NEW o \in 1 .. lo + 1, g[<<o, i>>]
               PROVE Done(i)
    OBVIOUS
  <2>1. Round(test, obj, loosely, g, o, i)
    <3> HIDE DEF lo, lt
    <3> QED BY <1>2
  <2>2. CASE i > lt
    <3> HIDE DEF lt
    <3> QED BY <1>1, <2>2
  <2>3. CASE ~(i > lt)
    <3>1. ~(o > lo)
      BY <2>1, <2>3 DEF Round
    <3>2. i \in 1 .. lt /\ i + 1 \in S /\ o \in 1 .. lo /\ o + 1 \in 1 .. lo + 1
      <4> HIDE DEF lo, lt
      <4> QED BY <1>1, <2>3, <3>1
    <3>3. i + 1 \in T
      <4> HIDE DEF T, rank, lt
      <4>1. rank[i + 1] < rank[i]
        BY <1>1, <1>3, <3>2
      <4> QED BY <1>4, <3>2, <4>1
    <3>4. ASSUME NEW o2 \in 1 .. lo + 1, g[<<o2, i + 1>>],
                 CharArray(Memb[test][i].ty)
                 \/ \E n \in Members(obj) : Compared(Memb[test][i], n, loosely)
          PROVE Done(i)
      <4>1. Done(i + 1)
        BY <3>3, <3>4
      <4>2. \A j \in i .. lt : j = i \/ j \in i + 1 .. lt
        <5> HIDE DEF lt
        <5> QED BY <1>1, <3>2
      <4> HIDE DEF lt, lo
      <4> QED BY <3>4, <4>1, <4>2
    <3>5. CASE CharArray(Memb[test][i].ty)
      <4> DEFINE k == SkippedTo(test, obj, o, i)
      <4>1. g[<<k + 1, i + 1>>]
        BY <2>1, <2>3, <3>1, <3>5 DEF Round
      <4>2. k \in o .. lo
        BY <3>2, SkippedFacts
      <4>3. k + 1 \in 1 .. lo + 1
        <5> HIDE DEF k, lo
        <5> QED BY <1>1, <3>2, <4>2
      <4> HIDE DEF k, lo, Done
      <4> QED BY <3>4, <3>5, <4>1, <4>3
    <3>6. CASE ~CharArray(Memb[test][i].ty)
      <4>1. Compared(Memb[test][i], Memb[obj][o], loosely) /\ g[<<o + 1, i + 1>>]
        BY <2>1, <2>3, <3>1, <3>6 DEF Round
      <4>2. Memb[obj][o] \in Members(obj)
        BY <3>2 DEF Members
      <4> HIDE DEF lo, Done
      <4> QED BY <3>2, <3>4, <4>1, <4>2
    <3> QED BY <3>5, <3>6
  <2> QED BY <2>2, <2>3
<1>5. S \subseteq T
  <2> HIDE DEF T, rank, S
  <2> QED BY <1>3, <1>4, RankInduction
<1>6. 1 \in S /\ 1 \in 1 .. lo + 1 /\ g[<<1, 1>>]
  <2>1. g[<<1, 1>>]
    BY <1>2
  <2> HIDE DEF lo, lt
  <2> QED BY <1>1, <2>1
<1>7. Done(1)
  <2> HIDE DEF Done
  <2> QED BY <1>5, <1>6
<1>8. PICK j \in 1 .. lt : m = Memb[test][j]
  BY DEF Members
<1> QED BY <1>7, <1>8

\* __like_a passes for a composite type only where an object of that type
\* starts, or one that has each of its members, char arrays aside.
LEMMA LikeRight ==
  ASSUME NEW test \in Type, Kind[test] = "composite", NEW s \in Spot, like_a(test, s)
  PROVE  \E t \in TypesAt(s) :
           \/ t = test
           \/ \A m \in Members(test) : CharArray(m.ty) \/ m \in Members(t)
<1> DEFINE at == AtStart[s]
           cur == Element[at.ty]
<1>1. at.off = 0 /\ \/ test = cur
                    \/ IsArray(test)
                    \/ ~IsBase(cur) /\ ~IsBase(test) /\ Complements(cur, test)
                    \/ MembersMatch(test, cur, FALSE)
  BY DEF like_a
<1>2. cur \in TypesAt(s) /\ cur \in Type
  <2>1. cur \in TypesAt(s)
    BY <1>1, AtStartRight, ElementRight
  <2> HIDE DEF cur
  <2> QED BY <2>1, TypesAtFit
<1> HIDE DEF cur
<1>3. ~IsArray(test) /\ ~(~IsBase(cur) /\ ~IsBase(test) /\ Complements(cur, test))
  BY <1>2, TypesAssumption DEF IsArray, Complements
<1>4. CASE MembersMatch(test, cur, FALSE)
  <2>1. ASSUME NEW m \in Members(test), ~CharArray(m.ty)
        PROVE m \in Members(cur)
    <3>1. PICK n \in Members(cur) : Compared(m, n, FALSE)
      BY <1>2, <1>4, <2>1, MatchRight
    <3>2. m.off = n.off /\ m.ty = n.ty
      BY <3>1 DEF Compared, SameMember
    <3>3. m \in [off : Offset, ty : Type] /\ n \in [off : Offset, ty : Type]
      BY <1>2, MemberFacts
    <3>4. m = n
      BY <3>2, <3>3
    <3> QED BY <3>4
  <2> QED BY <1>2, <2>1
<1> QED BY <1>1, <1>2, <1>3, <1>4

\* __loosely_like_a passes only where some object starts that is loosely like
\* the test type.
LEMMA LooseRight ==
  ASSUME NEW test \in Type, NEW s \in Spot, loosely_like_a(test, s)
  PROVE  \E t \in TypesAt(s) : LooselyLike(test, t)
<1>1. AtStart[s] \in Spot /\ AtStart[s].off = 0 /\ AtStart[s].ty \in TypesAt(s)
  BY AtStartRight DEF loosely_like_a
<1>2. PICK t \in TypesAt(AtStart[s]) : LooselyLike(test, t)
  BY <1>1, LooseFromRight DEF loosely_like_a
<1>3. SpotOf(AtStart[s].ty, 0) = AtStart[s]
  BY <1>1 DEF SpotOf, Spot
<1>4. t \in TypesAt(s)
  BY <1>1, <1>2, <1>3, StartWithin
<1> QED BY <1>2, <1>4

\* For a generic pointer type that is a pointer of at least its degree.
LEMMA LoosePointer ==
  ASSUME NEW test \in Type, NEW s \in Spot, loosely_like_a(test, s), GenericDegree(test) > 0
  PROVE  \E t \in TypesAt(s) : Degree[t] >= GenericDegree(test)
<1> DEFINE d == GenericDegree(test)
<1>1. Degree[test] \in Nat /\ d \in Nat /\ d # 0
  BY PointerAssumption DEF GenericDegree
<1>2. d = Degree[test]
  BY <1>1 DEF GenericDegree
<1>3. PICK t \in TypesAt(s) : LooselyLike(test, t)
  BY LooseRight
<1>4. CASE t = test
  <2> HIDE DEF d
  <2> QED BY <1>1, <1>2, <1>4 DEF d
<1>5. CASE holds_pointer_of_degree(SpotOf(t, 0), d)
  <2>1. SpotOf(t, 0) \in Spot /\ TypesAt(SpotOf(t, 0)) \subseteq TypesAt(s)
    BY StartWithin
  <2>2. PICK u \in TypesAt(SpotOf(t, 0)) : Degree[u] >= d
    <3> HIDE DEF d
    <3> QED BY <1>5, <2>1, DegreeFacts
  <2> QED BY <2>1, <2>2
<1> QED BY <1>1, <1>3, <1>4, <1>5 DEF LooselyLike

\* For a composite type the object has, char arrays aside, at each member's
\* offset the same type, a pointer that the member can hold, or the type of the
\* other signedness.
LEMMA LooseComposite ==
  ASSUME NEW test \in Type, NEW s \in Spot, loosely_like_a(test, s), Kind[test] = "composite"
  PROVE  \E t \in TypesAt(s) :
           \/ t = test
           \/ \A m \in Members(test) :
                \/ CharArray(m.ty)
                \/ \E n \in Members(t) :
                     /\ n.off = m.off
                     /\ \/ n.ty = m.ty \/ n.ty = Complement[m.ty]
                        \/ GenericDegree(m.ty) \in 1 .. Degree[n.ty]
<1>1. ~IsPointer(test) /\ ~IsArray(test) /\ ~IsBase(test)
  BY DEF IsPointer, IsArray, IsBase
<1>2. GenericDegree(test) = 0
  BY <1>1, DegreeDef DEF GenericDegree
<1>3. PICK t \in TypesAt(s) : LooselyLike(test, t)
  BY LooseRight
<1>4. t \in Type
  BY TypesAtFit
<1>5. CASE OneElementArray(t, test)
  BY <1>5, ElementWithin DEF OneElementArray
<1>6. CASE MembersMatch(test, t, TRUE)
  <2>1. ASSUME NEW m \in Members(test), ~CharArray(m.ty)
        PROVE \E n \in Members(t) :
                /\ n.off = m.off
                /\ \/ n.ty = m.ty \/ n.ty = Complement[m.ty]
                   \/ GenericDegree(m.ty) \in 1 .. Degree[n.ty]
    <3>1. PICK n \in Members(t) : Compared(m, n, TRUE)
      BY <1>4, <1>6, <2>1, MatchRight
    <3>2. m.ty \in Type /\ n.ty \in Type
      BY <1>4, MemberFacts
    <3>3. Degree[m.ty] \in Nat /\ Degree[n.ty] \in Nat
      BY <3>2, PointerAssumption
    <3>4. GenericDegree(m.ty) \in Nat
      BY <3>3 DEF GenericDegree
    <3>5. LooseMember(m, n)
      BY <3>1 DEF Compared
    <3> QED BY <3>3, <3>4, <3>5 DEF LooseMember, pointer_has_degree
  <2> QED BY <2>1
<1>7. ~Complements(t, test) \/ IsBase(test)
  BY <1>4, TypesAssumption DEF Complements
<1> QED BY <1>1, <1>2, <1>3, <1>5, <1>6, <1>7 DEF LooselyLike, OneElementArray

-----------------------------------------------------------------------------
(***************************************************************************)
(* The type checks.  The answers rest on what the searches compute and on   *)
(* chunks whose type, once made precise, stays: a check makes types precise *)
(* on the way, and its answer is about the precise type.                    *)
(***************************************************************************)

-----------------------------------------------------------------------------
(* Chunks and their types *)

ChunkState == [ty : Type, size : 1 .. MaxOff + 1, typed : BOOLEAN, loose : BOOLEAN,
               special : BOOLEAN]

\* The sizes are those of the allocations, and each type fits its chunk.
Good(ch) ==
  /\ ch \in [Chunk -> ChunkState]
  /\ \A c \in Chunk : \E i \in InitChunk : ch[c].size = i[c].size
  /\ \A c \in Chunk : SizeOf[ch[c].ty] <= ch[c].size

\* ch2 has the chunks of ch, each with the same precise type, and only types
\* that were abstract have changed; no store has specialised one.
SamePrecise(ch, ch2) ==
  \A c \in Chunk : /\ PreciseType(ch2[c]) = PreciseType(ch[c]) /\ ch2[c].size = ch[c].size
                   /\ ch2[c].ty # ch[c].ty => MakePrecise[ch[c].ty]
                   /\ ch2[c].special = ch[c].special

LEMMA DivFacts ==
  ASSUME NEW n \in Nat, NEW z \in Nat, z > 0
  PROVE  /\ n \div z \in Nat /\ (n \div z) * z <= n
         /\ z <= n => n \div z > 0
<1>1. n \div z \in Nat /\ (n \div z) * z <= n
  OBVIOUS
<1>2. z <= n => n \div z > 0
  OBVIOUS
<1> QED BY <1>1, <1>2

\* The array type that get_or_create_array_type gives.
LEMMA ArrayTypeFacts ==
  ASSUME NEW t \in Type, NEW n, IsMade(t, n)
  PROVE  /\ ArrayType(t, n) \in Type /\ IsArray(ArrayType(t, n))
         /\ Of[ArrayType(t, n)] = t /\ LenOf[ArrayType(t, n)] = n
BY DEF IsMade, ArrayType

\* The elements of an array are not arrays of unknown length.
LEMMA ElementFacts ==
  ASSUME NEW t \in Type, IsArray(t)
  PROVE  ~(IsArray(Of[t]) /\ MakePrecise[Of[t]])
BY LayoutAssumption DEF Parts

\* An array that holds n elements of a type fits where they do.
LEMMA ArrayFits ==
  ASSUME NEW t \in Type, NEW n \in Nat, NEW z \in Nat, z > 0, SizeOf[t] <= z, z <= n,
         IsMade(t, n \div z)
  PROVE  LET a == ArrayType(t, n \div z)
         IN a \in Type /\ IsArray(a) /\ Of[a] = t /\ ~MakePrecise[a] /\ SizeOf[a] <= n
<1> DEFINE m == n \div z
           a == ArrayType(t, m)
<1>1. m \in Nat /\ m > 0 /\ m * z <= n
  BY DivFacts
<1>2. a \in Type /\ IsArray(a) /\ Of[a] = t /\ LenOf[a] = m
  BY ArrayTypeFacts
<1>3. ~MakePrecise[a] /\ SizeOf[a] <= m * SizeOf[t]
  BY <1>1, <1>2, LayoutAssumption
<1>4. SizeOf[a] \in Nat /\ SizeOf[t] \in Nat
  BY <1>2, SizeFacts
<1>5. m * SizeOf[t] <= m * z
  <2>1. \A u, v, w \in Nat : u <= v => w * u <= w * v
    BY ONLY TRUE
  <2> HIDE DEF m
  <2> QED BY <1>1, <1>4, <2>1
<1>6. m * SizeOf[t] \in Nat /\ m * z \in Nat
  <2> HIDE DEF m
  <2> QED BY <1>1, <1>4
<1>7. SizeOf[a] <= n
  <2>1. \A u, v, w, x \in Nat : u <= v /\ v <= w /\ w <= x => u <= x
    BY ONLY TRUE
  <2> HIDE DEF m, a
  <2> QED BY <1>1, <1>3, <1>4, <1>5, <1>6, <2>1
<1> QED BY <1>2, <1>3, <1>7

\* The precise type fits the chunk, and is precise.
LEMMA PreciseFacts ==
  ASSUME NEW ch, Good(ch), NEW c \in Chunk
  PROVE  LET b == PreciseType(ch[c])
         IN /\ b \in Type /\ SizeOf[b] <= ch[c].size /\ ~(IsArray(b) /\ MakePrecise[b])
            /\ IsArray(b) => IsArray(ch[c].ty)
            /\ IsArray(ch[c].ty) => \/ IsArray(b) /\ Of[b] = Of[ch[c].ty]
                                    \/ b = Of[ch[c].ty]
            /\ ~MakePrecise[ch[c].ty] => b = ch[c].ty
<1> DEFINE k == ch[c]
           b == PreciseType(k)
           n == k.size \div SizeOf[k.ty]
<1>1. k \in ChunkState /\ SizeOf[k.ty] <= k.size
  BY DEF Good
<1>2. /\ k.ty \in Type /\ k.size \in Nat /\ SizeOf[k.ty] \in Nat /\ SizeOf[k.ty] > 0
      /\ MakePrecise[k.ty] \in BOOLEAN
  <2>1. k.ty \in Type /\ k.size \in 1 .. MaxOff + 1
    BY <1>1 DEF ChunkState
  <2> QED BY <2>1, SizeFacts, TypesAssumption
<1>3. CASE ~(IsArray(k.ty) /\ MakePrecise[k.ty])
  BY <1>1, <1>2, <1>3 DEF PreciseType
<1>4. CASE IsArray(k.ty) /\ MakePrecise[k.ty]
  <2>1. PICK i \in InitChunk : ch[c].size = i[c].size
    BY DEF Good
  <2>2. IsMade(Of[k.ty], n)
    BY <1>2, <1>4, <2>1, RoomAssumption
  <2>3. Of[k.ty] \in Type /\ SizeOf[Of[k.ty]] <= SizeOf[k.ty]
        /\ ~(IsArray(Of[k.ty]) /\ MakePrecise[Of[k.ty]])
    BY <1>2, <1>4, TypesAssumption, LayoutAssumption, ElementFacts
  <2>4. CASE n = 1
    <3>1. b = Of[k.ty]
      BY <1>4, <2>4 DEF PreciseType
    <3>2. SizeOf[b] <= k.size
      <4>1. SizeOf[Of[k.ty]] \in Nat
        BY <2>3, SizeFacts
      <4> HIDE DEF b, k
      <4> QED BY <1>1, <1>2, <2>3, <3>1, <4>1
    <3> HIDE DEF b
    <3> QED BY <1>4, <2>3, <3>1, <3>2 DEF b
  <2>5. CASE n # 1
    <3>1. b = ArrayType(Of[k.ty], n)
      BY <1>4, <2>5 DEF PreciseType
    <3>2. LET a == ArrayType(Of[k.ty], n)
          IN a \in Type /\ IsArray(a) /\ Of[a] = Of[k.ty] /\ ~MakePrecise[a] /\ SizeOf[a] <= k.size
      <4> HIDE DEF k
      <4> QED BY <1>1, <1>2, <2>2, <2>3, ArrayFits
    <3> QED BY <1>4, <3>1, <3>2
  <2> QED BY <2>4, <2>5
<1> QED BY <1>3, <1>4

\* Giving a chunk a type that fits keeps the chunks good.
LEMMA SetTypeGood ==
  ASSUME NEW ch, Good(ch), NEW c \in Chunk, NEW t \in Type, SizeOf[t] <= ch[c].size
  PROVE  LET ch2 == [ch EXCEPT ![c] = SetType(@, t)]
         IN /\ Good(ch2) /\ ch2[c].ty = t /\ ch2[c].size = ch[c].size
            /\ ch2[c].special = ch[c].special
            /\ \A x \in Chunk \ {c} : ch2[x] = ch[x]
            /\ ch2 \in [Chunk -> ChunkState]
<1> DEFINE ch2 == [ch EXCEPT ![c] = SetType(@, t)]
<1>1. ch \in [Chunk -> ChunkState]
  BY DEF Good
<1>2. /\ SetType(ch[c], t) \in ChunkState /\ SetType(ch[c], t).ty = t
      /\ SetType(ch[c], t).size = ch[c].size /\ SetType(ch[c], t).special = ch[c].special
  BY <1>1 DEF SetType, ChunkState
<1>3. ch2 \in [Chunk -> ChunkState] /\ ch2[c] = SetType(ch[c], t)
  BY <1>1, <1>2
<1>4. \A x \in Chunk \ {c} : ch2[x] = ch[x]
  BY <1>1
<1> HIDE DEF ch2
<1>5. \A x \in Chunk : ch2[x].size = ch[x].size
  BY <1>2, <1>3, <1>4
<1>6. \A x \in Chunk : SizeOf[ch2[x].ty] <= ch2[x].size
  BY <1>2, <1>3, <1>4 DEF Good
<1>7. Good(ch2)
  BY <1>3, <1>5, <1>6 DEF Good
<1> QED BY <1>2, <1>3, <1>4, <1>7 DEF ch2

\* A type that is precise stays.
LEMMA PreciseOfPrecise ==
  ASSUME NEW k, ~(IsArray(k.ty) /\ MakePrecise[k.ty])
  PROVE  PreciseType(k) = k.ty
BY DEF PreciseType

LEMMA PrecisifiedGood ==
  ASSUME NEW ch, Good(ch), NEW c \in Chunk
  PROVE  Good(Precisified(ch, c)) /\ SamePrecise(ch, Precisified(ch, c))
<1> DEFINE b == PreciseType(ch[c])
           ch2 == [ch EXCEPT ![c] = SetType(@, b)]
<1>1. b \in Type /\ SizeOf[b] <= ch[c].size /\ ~(IsArray(b) /\ MakePrecise[b])
  BY PreciseFacts
<1>2. CASE MakePrecise[ch[c].ty] /\ c \in Heap
  <2>1. Precisified(ch, c) = ch2
    BY <1>2 DEF Precisified
  <2>2. /\ Good(ch2) /\ ch2[c].ty = b /\ \A x \in Chunk \ {c} : ch2[x] = ch[x]
        /\ ch2[c].size = ch[c].size /\ ch2[c].special = ch[c].special
    <3> HIDE DEF b
    <3> QED BY <1>1, SetTypeGood
  <2> HIDE DEF ch2
  <2>3. PreciseType(ch2[c]) = b
    <3> HIDE DEF b
    <3> QED BY <1>1, <2>2, PreciseOfPrecise
  <2>4. SamePrecise(ch, ch2)
    BY <1>2, <2>2, <2>3 DEF SamePrecise
  <2> QED BY <2>1, <2>2, <2>4
<1>3. CASE ~(MakePrecise[ch[c].ty] /\ c \in Heap)
  BY <1>3 DEF Precisified, SamePrecise
<1> QED BY <1>2, <1>3

\* Chunks that differ in nothing but looseness.
LEMMA LooseGood ==
  ASSUME NEW ch, Good(ch), NEW c \in Chunk
  PROVE  Good([ch EXCEPT ![c].loose = TRUE]) /\ SamePrecise(ch, [ch EXCEPT ![c].loose = TRUE])
<1> DEFINE ch2 == [ch EXCEPT ![c].loose = TRUE]
<1>1. ch \in [Chunk -> ChunkState]
  BY DEF Good
<1>2. /\ ch2 \in [Chunk -> ChunkState]
      /\ \A x \in Chunk : /\ ch2[x].ty = ch[x].ty /\ ch2[x].size = ch[x].size
                           /\ ch2[x].special = ch[x].special
  BY <1>1 DEF ChunkState
<1> HIDE DEF ch2
<1>3. Good(ch2)
  BY <1>2 DEF Good
<1>4. SamePrecise(ch, ch2)
  BY <1>2 DEF SamePrecise, PreciseType
<1> QED BY <1>3, <1>4 DEF ch2

LEMMA LoosenedGood ==
  ASSUME NEW ch, Good(ch), NEW c \in Chunk
  PROVE  Good(Loosened(ch, c)) /\ SamePrecise(ch, Loosened(ch, c))
<1> DEFINE k == Precisified(ch, c)
           l == [k EXCEPT ![c].loose = TRUE]
<1>1. Good(k) /\ SamePrecise(ch, k)
  BY PrecisifiedGood
<1>2. Good(l) /\ SamePrecise(k, l) /\ \A x \in Chunk : l[x].ty = k[x].ty
  <2> HIDE DEF k
  <2>1. k \in [Chunk -> ChunkState]
    BY <1>1 DEF Good
  <2> QED BY <1>1, <2>1, LooseGood DEF ChunkState
<1>3. SamePrecise(ch, l)
  <2> HIDE DEF k, l
  <2> QED BY <1>1, <1>2 DEF SamePrecise
<1>4. Loosened(ch, c) = k \/ Loosened(ch, c) = l
  BY DEF Loosened
<1> HIDE DEF k, l
<1> QED BY <1>1, <1>2, <1>3, <1>4

\* Two steps of making types precise are one.
LEMMA SamePreciseTwice ==
  ASSUME NEW ch1, NEW ch2, NEW ch3, SamePrecise(ch1, ch2), SamePrecise(ch2, ch3)
  PROVE  SamePrecise(ch1, ch3)
BY DEF SamePrecise

\* A store makes the chunk an array of the pointer's type.
LEMMA SpecialisedGood ==
  ASSUME NEW ch, Good(ch), NEW c \in Chunk, NEW t \in Type,
         IsMade(t, ch[c].size \div SizeOf[t]), SizeOf[t] <= ch[c].size
  PROVE  LET ch2 == [ch EXCEPT ![c] = Specialised(@, t)]
         IN Good(ch2) /\ ch2[c].special /\ \A x \in Chunk \ {c} : ch2[x] = ch[x]
<1>1. ch[c].size \in Nat /\ SizeOf[t] \in Nat /\ SizeOf[t] > 0 /\ ch[c] \in ChunkState
  <2>1. ch[c].size \in 1 .. MaxOff + 1 /\ ch[c] \in ChunkState
    BY DEF Good, ChunkState
  <2> QED BY <2>1, SizeFacts
<1> DEFINE a == ArrayType(t, ch[c].size \div SizeOf[t])
           k == Specialised(ch[c], t)
           ch2 == [ch EXCEPT ![c] = Specialised(@, t)]
<1>2. a \in Type /\ SizeOf[a] <= ch[c].size
  BY <1>1, ArrayFits
<1>3. k \in ChunkState /\ k.ty = a /\ k.size = ch[c].size /\ k.special
  <2>1. k = [[ch[c] EXCEPT !.ty = a, !.typed = TRUE, !.loose = FALSE] EXCEPT !.special = TRUE]
    BY DEF Specialised, SetType
  <2> HIDE DEF a, k
  <2> QED BY <1>1, <1>2, <2>1 DEF ChunkState
<1>4. ch2 \in [Chunk -> ChunkState] /\ ch2[c] = k /\ \A x \in Chunk \ {c} : ch2[x] = ch[x]
  <2>1. ch2 = [ch EXCEPT ![c] = k] /\ ch \in [Chunk -> ChunkState]
    BY DEF Good
  <2> HIDE DEF k, ch2
  <2> QED BY <1>3, <2>1
<1>5. Good(ch2)
  <2> HIDE DEF k, ch2, a
  <2> QED BY <1>2, <1>3, <1>4 DEF Good
<1> HIDE DEF k, ch2
<1> QED BY <1>3, <1>4, <1>5 DEF ch2

-----------------------------------------------------------------------------
(* __is_a *)

LEMMA AskedFacts == Asked \subseteq Type
BY ChunkAssumption, TypesAssumption DEF Asked

\* A pointer that liballocs knows points into a chunk.
LEMMA KnownFacts ==
  ASSUME Good(chunk), NEW p \in Ptr, ~Unknown(p)
  PROVE  /\ p.chunk \in Chunk /\ p.off \in Offset
         /\ At(chunk, p) \in Spot /\ At(chunk, p).off = p.off
         /\ At(chunk, p).ty = PreciseType(chunk[p.chunk])
<1>1. p.chunk \in Chunk /\ p.off \in Offset
  BY ChunkAssumption DEF Unknown
<1>2. PreciseType(chunk[p.chunk]) \in Type
  BY <1>1, PreciseFacts
<1> QED BY <1>1, <1>2 DEF At, SpotOf, Spot

LEMMA AtSame ==
  ASSUME NEW ch, NEW ch2, SamePrecise(ch, ch2), NEW q, q.chunk \in Chunk
  PROVE  At(ch2, q) = At(ch, q)
BY DEF SamePrecise, At

\* The first short cut is right: no smaller element holds the type.
LEMMA TooSmallRight ==
  ASSUME Good(chunk), NEW p \in Ptr, ~Unknown(p), NEW t \in Type,
         TooSmall(chunk[p.chunk], t)
  PROVE  t \notin TypesAt(At(chunk, p)) \/ IsArray(t)
<1> DEFINE s == At(chunk, p)
           e == Of[chunk[p.chunk].ty]
<1>1. p.chunk \in Chunk /\ s \in Spot /\ s.ty = PreciseType(chunk[p.chunk])
  BY KnownFacts
<1>2. IsArray(chunk[p.chunk].ty) /\ SizeOf[e] < SizeOf[t]
  BY DEF TooSmall
<1>3. (IsArray(s.ty) /\ Of[s.ty] = e) \/ s.ty = e
  BY <1>1, <1>2, PreciseFacts
<1>4. chunk[p.chunk].ty \in Type
  BY <1>1 DEF Good, ChunkState
<1>5. SizeOf[e] \in Nat /\ SizeOf[t] \in Nat
  BY <1>2, <1>4, SizeFacts, TypesAssumption
<1> SUFFICES ASSUME t \in TypesAt(s), ~IsArray(t)
             PROVE FALSE
  OBVIOUS
<1>6. SizeOf[t] <= SizeOf[e]
  <2> HIDE DEF s, e
  <2> QED BY <1>1, <1>3, TypesAtFit
<1> HIDE DEF e
<1> QED BY <1>2, <1>5, <1>6

\* The second short cut is right: an array's first element starts where it does.
LEMMA FirstElementRight ==
  ASSUME Good(chunk), NEW p \in Ptr, ~Unknown(p), NEW t \in Type,
         FirstElement(chunk[p.chunk], p, t)
  PROVE  t \in TypesAt(At(chunk, p))
<1> DEFINE s == At(chunk, p)
<1>1. p.chunk \in Chunk /\ s \in Spot /\ s.ty = PreciseType(chunk[p.chunk]) /\ s.off = p.off
  BY KnownFacts
<1>2. IsArray(chunk[p.chunk].ty) /\ Of[chunk[p.chunk].ty] = t /\ s.off = 0
  BY <1>1 DEF FirstElement
<1>3. (IsArray(s.ty) /\ Of[s.ty] = t) \/ s.ty = t
  BY <1>1, <1>2, PreciseFacts
<1> SUFFICES t \in TypesAt(s)
  OBVIOUS
<1> HIDE DEF s
<1>4. CASE s.ty = t
  BY <1>1, <1>2, <1>4, TypesAtDef
<1>5. CASE IsArray(s.ty) /\ Of[s.ty] = t
  <2>1. s.ty \in Type /\ SizeOf[s.ty] \in Nat /\ SizeOf[s.ty] > 0
    BY <1>1, SizeFacts DEF Spot
  <2>2. 0 \in {s.off} \intersect (0 .. SizeOf[s.ty] - 1)
    BY <1>2, <2>1
  <2>3. ~Leaf(s)
    BY <1>5, <2>2 DEF Leaf, Inside
  <2>4. Inner(s) \in Spot /\ Inner(s).ty = t /\ Inner(s).off <= s.off
    BY <1>1, <1>5, <2>3, InnerFacts
  <2>5. Inner(s).off = 0
    BY <1>2, <2>4, TypesAssumption DEF Spot, Offset
  <2>6. t \in TypesAt(Inner(s))
    BY <2>4, <2>5, TypesAtDef
  <2> QED BY <1>1, <2>3, <2>6, TypesAtDef
<1> QED BY <1>3, <1>4, <1>5

\* The length of the chunk is unknown, or its elements are abstract.
Undecided(c) ==
  MakePrecise[chunk[c].ty] \/ (IsArray(chunk[c].ty) /\ MakePrecise[Of[chunk[c].ty]])

\* Lazy typing gives a chunk that was undecided an array that fits.
LEMMA LazyGood ==
  ASSUME Good(chunk), NEW c \in Chunk, NEW t \in Asked,
         LazilyTyped(c, PreciseType(chunk[c])), ~TooSmall(chunk[c], t)
  PROVE  LET ch2 == [Precisified(chunk, c) EXCEPT
                       ![c] = SetType(@, ArrayType(t, chunk[c].size \div SizeOf[t]))]
         IN /\ Good(ch2) /\ \A x \in Chunk : ch2[x].ty # chunk[x].ty => Undecided(x)
            /\ ch2[c].ty = ArrayType(t, chunk[c].size \div SizeOf[t])
            /\ ch2[c].size = chunk[c].size /\ ch2[c].special = chunk[c].special
            /\ \A x \in Chunk \ {c} : ch2[x] = Precisified(chunk, c)[x]
            /\ SizeOf[t] <= chunk[c].size /\ IsMade(t, chunk[c].size \div SizeOf[t])
<1> DEFINE k == chunk[c]
           b == PreciseType(k)
           ch == Precisified(chunk, c)
           a == ArrayType(t, k.size \div SizeOf[t])
           ch2 == [ch EXCEPT ![c] = SetType(@, a)]
<1>1. IsArray(b) /\ MakePrecise[Of[b]]
  BY DEF LazilyTyped
<1>2. /\ b \in Type /\ IsArray(k.ty) /\ (~MakePrecise[k.ty] => b = k.ty)
      /\ (IsArray(b) /\ Of[b] = Of[k.ty]) \/ b = Of[k.ty]
  <2>1. /\ b \in Type /\ (IsArray(b) => IsArray(k.ty))
        /\ IsArray(k.ty) => (IsArray(b) /\ Of[b] = Of[k.ty]) \/ b = Of[k.ty]
        /\ ~MakePrecise[k.ty] => b = k.ty
    BY PreciseFacts, Zenon
  <2> HIDE DEF k, b
  <2> QED BY ONLY <1>1, <2>1
<1>3. k.ty \in Type /\ k.size \in 1 .. MaxOff + 1 /\ SizeOf[k.ty] <= k.size
  BY DEF Good, ChunkState
<1>4. Of[k.ty] \in Type /\ t \in Type /\ SizeOf[Of[k.ty]] <= SizeOf[k.ty]
  BY <1>2, <1>3, AskedFacts, TypesAssumption, LayoutAssumption
<1>5. /\ SizeOf[t] \in Nat /\ SizeOf[t] > 0 /\ SizeOf[Of[k.ty]] \in Nat /\ SizeOf[k.ty] \in Nat
      /\ k.size \in Nat
  BY <1>3, <1>4, SizeFacts
<1>6. SizeOf[t] <= SizeOf[Of[k.ty]] /\ SizeOf[t] <= k.size
  BY <1>2, <1>3, <1>4, <1>5 DEF TooSmall
<1>7. IsMade(t, k.size \div SizeOf[t])
  <2>1. PICK i \in InitChunk : k.size = i[c].size
    BY DEF Good
  <2>2. MakePrecise[Of[k.ty]] \/ (IsArray(Of[k.ty]) /\ MakePrecise[Of[Of[k.ty]]])
    BY <1>1, <1>2
  <2> QED BY <1>2, <1>3, <1>6, <2>1, <2>2, RoomAssumption
<1>8. a \in Type /\ SizeOf[a] <= k.size
  <2> HIDE DEF k
  <2> QED BY <1>4, <1>5, <1>6, <1>7, ArrayFits
<1>9. /\ Good(ch) /\ SamePrecise(chunk, ch) /\ ch[c].size = k.size
      /\ ch[c].special = k.special
  <2>1. Good(ch) /\ SamePrecise(chunk, ch)
    BY PrecisifiedGood
  <2> HIDE DEF ch
  <2> QED BY <2>1 DEF SamePrecise
<1>10. /\ Good(ch2) /\ \A x \in Chunk \ {c} : ch2[x] = ch[x]
       /\ ch2[c].ty = a /\ ch2[c].size = k.size /\ ch2[c].special = k.special
  <2> HIDE DEF a, ch, k
  <2> QED BY <1>8, <1>9, SetTypeGood
<1>11. Undecided(c)
  BY <1>1, <1>2 DEF Undecided
<1>12. ASSUME NEW x \in Chunk, ch2[x].ty # chunk[x].ty
       PROVE Undecided(x)
  <2> HIDE DEF ch2, ch
  <2> QED BY <1>9, <1>10, <1>11, <1>12 DEF SamePrecise, Undecided
<1> HIDE DEF a, ch2, ch
<1> QED BY <1>6, <1>7, <1>10, <1>12 DEF a, ch2, ch

\* What a check may do to the chunks, and the answer of __is_a.
Stays == Good(chunk') /\ \A x \in Chunk : chunk'[x].ty # chunk[x].ty => Undecided(x)

\* What most of them do: at most make types precise.
Kept == Stays /\ SamePrecise(chunk, chunk')

LEMMA KeptIfPrecise ==
  ASSUME Good(chunk), Good(chunk'), SamePrecise(chunk, chunk')
  PROVE  Kept
BY DEF Kept, Stays, SamePrecise, Undecided

LEMMA KeptIfSame ==
  ASSUME Good(chunk), chunk' = chunk
  PROVE  Kept
BY DEF Kept, Stays, SamePrecise

LEMMA IsAStep ==
  ASSUME Good(chunk), NEW p \in Ptr, NEW t \in Asked, IsAU(p, t)
  PROVE  Stays /\ last'.check = "is_a" /\ IsARight'
<1> DEFINE c == p.chunk
           k == chunk[c]
           b == PreciseType(k)
           s == SpotOf(b, p.off)
           r == find_matching_subobject(t, s)
<1>0. t \in Type
  BY AskedFacts
<1>1. ASSUME NEW v \in Verdict, Ends("is_a", p, t, v), v \notin {"pass", "fail"}
      PROVE last'.check = "is_a" /\ IsARight'
  BY <1>1 DEF Ends, IsARight, Was
<1>2. ASSUME Ends("is_a", p, t, "pass"), t \in TypesAt(At(chunk', p))
      PROVE last'.check = "is_a" /\ IsARight'
  BY <1>2 DEF Ends, IsARight, Was, LastSpot
<1>3. ASSUME Ends("is_a", p, t, "fail"), t \notin TypesAt(At(chunk', p)) \/ IsArray(t)
      PROVE last'.check = "is_a" /\ IsARight'
  BY <1>3 DEF Ends, IsARight, Was, LastSpot
<1>4. CASE IsACached(p, t)
  BY <1>1, <1>4, KeptIfSame DEF IsACached, Verdict, Kept
<1>5. CASE Unknown(p) /\ Aborts("is_a", p, t) /\ UNCHANGED <<chunk, cache>>
  BY <1>1, <1>5, KeptIfSame DEF Aborts, Verdict, Kept
<1>6. CASE ~Unknown(p) /\ TooSmall(k, t) /\ Fails("is_a", p, t) /\ UNCHANGED <<chunk, cache>>
  <2>1. t \notin TypesAt(At(chunk, p)) \/ IsArray(t)
    BY <1>0, <1>6, TooSmallRight
  <2>2. Ends("is_a", p, t, "fail") /\ chunk' = chunk
    BY <1>6 DEF Fails
  <2> QED BY <1>3, <2>1, <2>2, KeptIfSame DEF Kept
<1>7. CASE ~Unknown(p) /\ FirstElement(k, p, t) /\ Passes("is_a", p, t) /\ UNCHANGED chunk
  <2>1. t \in TypesAt(At(chunk, p))
    BY <1>0, <1>7, FirstElementRight
  <2>2. Ends("is_a", p, t, "pass") /\ chunk' = chunk
    BY <1>7 DEF Passes
  <2> QED BY <1>2, <2>1, <2>2, KeptIfSame DEF Kept
<1>8. ASSUME ~Unknown(p)
      PROVE /\ c \in Chunk /\ s = At(chunk, p) /\ s \in Spot
            /\ r.found <=> t \in TypesAt(At(chunk, p))
            /\ chunk' = Precisified(chunk, c) => Kept /\ At(chunk', p) = At(chunk, p)
  <2>1. c \in Chunk /\ s = At(chunk, p) /\ s \in Spot
    BY <1>8, KnownFacts DEF At
  <2>2. r.found <=> t \in TypesAt(s)
    <3> HIDE DEF s
    <3> QED BY <1>0, <2>1, FindRight
  <2>3. ASSUME chunk' = Precisified(chunk, c)
        PROVE Kept /\ At(chunk', p) = At(chunk, p)
    <3>1. Good(chunk') /\ SamePrecise(chunk, chunk')
      BY <2>1, <2>3, PrecisifiedGood
    <3> QED BY <2>1, <3>1, KeptIfPrecise, AtSame
  <2> HIDE DEF r, s
  <2> QED BY <2>1, <2>2, <2>3
<1>9. CASE ~Unknown(p) /\ r.found /\ chunk' = Precisified(chunk, c) /\ Passes("is_a", p, t)
  <2>1. Ends("is_a", p, t, "pass")
    BY <1>9 DEF Passes
  <2> HIDE DEF r, s
  <2> QED BY <1>2, <1>8, <1>9, <2>1 DEF Kept
<1>10. CASE ~Unknown(p) /\ ~r.found /\ chunk' = Precisified(chunk, c) /\ Fails("is_a", p, t)
  <2>1. Ends("is_a", p, t, "fail")
    BY <1>10 DEF Fails
  <2> HIDE DEF r, s
  <2> QED BY <1>3, <1>8, <1>10, <2>1 DEF Kept
<1>11. CASE /\ ~Unknown(p) /\ LazilyTyped(c, b) /\ ~TooSmall(k, t)
            /\ chunk' = [Precisified(chunk, c) EXCEPT
                           ![c] = SetType(@, ArrayType(t, k.size \div SizeOf[t]))]
            /\ Ends("is_a", p, t, "lazy")
  <2>1. c \in Chunk
    BY <1>8, <1>11
  <2>2. Stays
    BY <1>11, <2>1, LazyGood DEF Stays
  <2> QED BY <1>1, <1>11, <2>2 DEF Verdict
<1>12. CASE IsAInternal(p, t)
  <2> HIDE DEF r, s, b, k, c
  <2> QED BY <1>5, <1>6, <1>7, <1>9, <1>10, <1>11, <1>12 DEF IsAInternal, r, s, b, k, c
<1> QED BY <1>4, <1>12 DEF IsAU

-----------------------------------------------------------------------------
(* The other checks *)

\* The answers of the checks whose last answer is right.
Right == IsARight /\ DegreeRight /\ StrictStoresRight /\ RefiningIsSound /\ ArgsCounted

LEMMA RightIfOther ==
  ASSUME last'.check \in {"none", "like_a", "loosely_like_a", "named_a"}
  PROVE  Right'
BY DEF Right, IsARight, DegreeRight, StrictStoresRight, RefiningIsSound, ArgsCounted, Was

LEMMA RightIfAborted ==
  ASSUME last'.verdict \in {"abort", "specialised"}, last'.check # "degree" \/ last'.verdict = "abort"
  PROVE  Right'
BY DEF Right, IsARight, DegreeRight, StrictStoresRight, RefiningIsSound, ArgsCounted, Was

LEMMA RightIfSame ==
  ASSUME Right, last' = last, chunk' = chunk
  PROVE  Right'
<1>1. LastSpot' = LastSpot /\ StoredTo' = StoredTo
  BY DEF LastSpot, StoredTo, At
<1>2. IsARight' /\ DegreeRight'
  BY <1>1 DEF Right, IsARight, DegreeRight, Was
<1>3. StrictStoresRight'
  BY <1>1 DEF Right, StrictStoresRight, Was, At
<1>4. RefiningIsSound' /\ ArgsCounted'
  BY DEF Right, RefiningIsSound, ArgsCounted, Was
<1> QED BY <1>2, <1>3, <1>4 DEF Right

LEMMA RightIfIsA ==
  ASSUME last'.check = "is_a", IsARight'
  PROVE  Right'
BY DEF Right, DegreeRight, StrictStoresRight, RefiningIsSound, ArgsCounted, Was

LEMMA DecidedFacts ==
  ASSUME NEW check, NEW p, NEW arg, NEW ok, Decided(check, p, arg, ok)
  PROVE  /\ last'.check = check /\ last'.p = p /\ last'.arg = arg
         /\ last'.verdict \in {"abort", "pass", "fail"}
         /\ last'.verdict = "abort" <=> Unknown(p)
         /\ last'.verdict = "pass" => ok
BY DEF Decided, Aborts, Passes, Fails, Ends

\* __like_a, __named_a and __loosely_like_a only make types precise.
LEMMA LikeStep ==
  ASSUME Good(chunk), LikeA \/ LooselyLikeA \/ NamedA
  PROVE  Kept /\ Right' /\ call' = call
<1>1. ASSUME NEW p \in Ptr, NEW ch, ~Unknown(p),
             ch \in {Precisified(chunk, p.chunk), Loosened(chunk, p.chunk)}, chunk' = ch
      PROVE Kept
  <2>1. p.chunk \in Chunk
    BY <1>1, KnownFacts
  <2>2. Good(ch) /\ SamePrecise(chunk, ch)
    BY <1>1, <2>1, PrecisifiedGood, LoosenedGood
  <2> QED BY <1>1, <2>2, KeptIfPrecise
<1>2. CASE LikeA
  <2>1. PICK p \in Ptr, t \in TestType :
          /\ Decided("like_a", p, t, like_a(t, At(chunk, p)))
          /\ chunk' = IF Unknown(p) THEN chunk ELSE Precisified(chunk, p.chunk)
    BY <1>2 DEF LikeA
  <2>2. last'.check = "like_a"
    BY <2>1, DecidedFacts
  <2>3. Kept
    BY <1>1, <2>1, KeptIfSame
  <2> QED BY <1>2, <2>2, <2>3, RightIfOther DEF LikeA
<1>3. CASE NamedA
  <2>1. PICK p \in Ptr, t \in TestType :
          /\ Decided("named_a", p, t, Named(t, At(chunk, p)))
          /\ chunk' = IF Unknown(p) THEN chunk ELSE Precisified(chunk, p.chunk)
    BY <1>3 DEF NamedA
  <2>2. last'.check = "named_a"
    BY <2>1, DecidedFacts
  <2>3. Kept
    BY <1>1, <2>1, KeptIfSame
  <2> QED BY <1>3, <2>2, <2>3, RightIfOther DEF NamedA
<1>4. CASE LooselyLikeA
  <2>1. PICK p \in Ptr, t \in TestType :
          /\ Decided("loosely_like_a", p, t, loosely_like_a(t, At(chunk, p)))
          /\ chunk' = IF Unknown(p) THEN chunk ELSE Loosened(chunk, p.chunk)
    BY <1>4 DEF LooselyLikeA
  <2>2. last'.check = "loosely_like_a"
    BY <2>1, DecidedFacts
  <2>3. Kept
    BY <1>1, <2>1, KeptIfSame
  <2> QED BY <1>4, <2>2, <2>3, RightIfOther DEF LooselyLikeA
<1> QED BY <1>2, <1>3, <1>4

LEMMA DegreeStep ==
  ASSUME Good(chunk), IsAPointerOfDegree
  PROVE  Kept /\ Right' /\ call' = call
<1>1. PICK p \in Ptr, d \in 1 .. MaxDegree :
       \/ /\ Unknown(p) /\ Aborts("degree", p, d) /\ UNCHANGED chunk
       \/ /\ ~Unknown(p) /\ holds_pointer_of_degree(At(chunk, p), d)
          /\ Passes("degree", p, d) /\ chunk' = Loosened(chunk, p.chunk)
       \/ /\ ~Unknown(p) /\ ~holds_pointer_of_degree(At(chunk, p), d)
          /\ Bump({"begun", "failed"}) /\ Ends("degree", p, d, "fail")
          /\ chunk' = Loosened(chunk, p.chunk)
  BY DEF IsAPointerOfDegree
<1>2. call' = call
  BY DEF IsAPointerOfDegree
<1>3. CASE Unknown(p)
  <2>1. last'.verdict = "abort" /\ chunk' = chunk
    BY <1>1, <1>3 DEF Aborts, Ends
  <2> QED BY <1>2, <2>1, KeptIfSame, RightIfAborted
<1>4. CASE ~Unknown(p)
  <2>1. p.chunk \in Chunk /\ At(chunk, p) \in Spot
    BY <1>4, KnownFacts
  <2>2. chunk' = Loosened(chunk, p.chunk)
    BY <1>1, <1>4
  <2>3. Good(chunk') /\ SamePrecise(chunk, chunk')
    BY <2>1, <2>2, LoosenedGood
  <2>4. Kept /\ At(chunk', p) = At(chunk, p)
    BY <2>1, <2>3, KeptIfPrecise, AtSame
  <2>5. /\ last'.check = "degree" /\ last'.p = p /\ last'.arg = d
        /\ last'.verdict \in {"pass", "fail"}
        /\ last'.verdict = "pass" <=> holds_pointer_of_degree(At(chunk, p), d)
    BY <1>1, <1>4 DEF Passes, Ends
  <2>6. LastSpot' = At(chunk, p)
    BY <2>4, <2>5 DEF LastSpot
  <2>7. DegreeRight'
    BY <2>1, <2>5, <2>6, DegreeFacts DEF DegreeRight
  <2>8. IsARight' /\ StrictStoresRight' /\ RefiningIsSound' /\ ArgsCounted'
    BY <2>5 DEF IsARight, StrictStoresRight, RefiningIsSound, ArgsCounted, Was
  <2> QED BY <1>2, <2>4, <2>7, <2>8 DEF Right
<1> QED BY <1>3, <1>4

LEMMA FunFacts ==
  ASSUME NEW f \in Type
  PROVE  /\ Len(Rel[f]) \in Nat /\ Nret[f] \in 0 .. 1 /\ Nret[f] <= Len(Rel[f])
         /\ Narg(f) = Len(Rel[f]) - Nret[f] /\ Narg(f) \in Nat
<1>1. Rel[f] \in Seq(Type) /\ Nret[f] \in 0 .. 1 /\ Nret[f] <= Len(Rel[f])
  BY TypesAssumption, Zenon
<1>2. Len(Rel[f]) \in Nat
  BY ONLY <1>1
<1>3. Nret[f] = 0 \/ Nret[f] = 1
  BY <1>1
<1>4. Narg(f) = Len(Rel[f]) - Nret[f]
  BY ONLY <1>2, <1>3 DEF Narg
<1>5. Narg(f) \in Nat
  BY ONLY <1>1, <1>2, <1>3, <1>4
<1> QED BY ONLY <1>1, <1>2, <1>4, <1>5

\* A function type that refines another, with results in both or in neither,
\* makes only casts that pass: the positions compared are those of the results
\* and of the arguments, and both types have them all.
LEMMA RefiningRight ==
  ASSUME NEW a \in Type, NEW t \in Type, TRUE \in function_refining(a, t),
         Nret[t] = 0 <=> Nret[a] = 0
  PROVE  SafeToCallAs(a, t)
<1> DEFINE first == IF Nret[a] = 0 THEN 1 ELSE 2
           args == first .. first + Narg(a) - 1
           read == {1} \union args
           present == {i \in read : i <= Len(Rel[a]) /\ i <= Len(Rel[t])}
           known == /\ 1 \in present => would_always_succeed(Rel[a][1], Rel[t][1])
                    /\ \A i \in present \intersect args :
                         would_always_succeed(Rel[t][i], Rel[a][i])
<1>1. Narg(a) = Narg(t) /\ known
  <2>1. Narg(a) = Narg(t)
    BY DEF function_refining
  <2>2. TRUE \in {known} \union (IF present = read THEN {} ELSE {FALSE})
    BY <2>1, Zenon DEF function_refining
  <2>3. known
    <3> HIDE DEF known, present, read
    <3> QED BY <2>2, Zenon
  <2> QED BY <2>1, <2>3
<1>2. /\ Len(Rel[a]) \in Nat /\ Len(Rel[t]) \in Nat /\ Nret[a] \in 0 .. 1 /\ Nret[t] \in 0 .. 1
      /\ Nret[a] <= Len(Rel[a]) /\ Nret[t] <= Len(Rel[t])
  BY FunFacts
<1>3. Nret[a] = Nret[t]
  BY <1>2
<1>4. Narg(a) = Len(Rel[a]) - Nret[a] /\ Narg(t) = Len(Rel[t]) - Nret[t]
  BY FunFacts
<1>5. Len(Rel[a]) = Len(Rel[t]) /\ Narg(a) \in Nat
  <2>1. Narg(a) = Narg(t)
    BY <1>1
  <2> QED BY ONLY <1>2, <1>3, <1>4, <2>1
<1>6. ASSUME NEW i \in 1 .. Narg(a)
      PROVE would_always_succeed(ArgOf(t, i), ArgOf(a, i))
  <2> DEFINE j == i + (IF Nret[a] = 0 THEN 0 ELSE 1)
  <2>1. j \in args /\ j <= Len(Rel[a]) /\ j <= Len(Rel[t])
    BY <1>2, <1>3, <1>4, <1>5
  <2>2. j \in present \intersect args
    BY <2>1
  <2>3. ArgOf(t, i) = Rel[t][j] /\ ArgOf(a, i) = Rel[a][j]
    BY <1>3 DEF ArgOf
  <2> HIDE DEF j, present, args
  <2> QED BY <1>1, <2>2, <2>3
<1>7. would_always_succeed(ResultOf(a), ResultOf(t))
  <2>1. CASE Nret[a] = 0
    BY <2>1, TypesAssumption DEF ResultOf, would_always_succeed, IsPointer
  <2>2. CASE Nret[a] # 0
    <3>1. 1 \in present
      BY <1>2, <1>3, <2>2
    <3>2. ResultOf(a) = Rel[a][1] /\ ResultOf(t) = Rel[t][1]
      BY <1>3, <2>2 DEF ResultOf
    <3> HIDE DEF present, args
    <3> QED BY <1>1, <3>1, <3>2
  <2> QED BY <2>1, <2>2
<1> HIDE DEF known
<1> QED BY <1>1, <1>6, <1>7 DEF SafeToCallAs

LEMMA RefiningStep ==
  ASSUME Good(chunk), IsAFunctionRefining
  PROVE  Kept /\ Right' /\ call' = call
<1> DEFINE Oks(p, t) == LET a == chunk[p.chunk].ty
                        IN IF Unknown(p) \/ p.off # 0 THEN {FALSE}
                           ELSE IF a = t THEN {TRUE}
                           ELSE IF IsFunction(a) THEN function_refining(a, t)
                           ELSE {FALSE}
<1>1. PICK p \in Ptr, t \in FunType : \E ok \in Oks(p, t) : Decided("refining", p, t, ok)
  BY Zenon DEF IsAFunctionRefining
<1>2. PICK ok \in Oks(p, t) : Decided("refining", p, t, ok)
  BY <1>1
<1>3. chunk' = chunk /\ call' = call
  BY DEF IsAFunctionRefining
<1>4. /\ last'.check = "refining" /\ last'.p = p /\ last'.arg = t
      /\ last'.verdict = "pass" => ok /\ ~Unknown(p)
  <2> HIDE DEF Oks
  <2> QED BY <1>2, DecidedFacts
<1>5. RefiningIsSound'
  <2> DEFINE a == chunk[p.chunk].ty
  <2> SUFFICES ASSUME last'.verdict = "pass", a # t, Nret[t] = 0 <=> Nret[a] = 0
               PROVE SafeToCallAs(a, t)
    BY <1>3, <1>4 DEF RefiningIsSound, Was
  <2>1. ok /\ ~Unknown(p)
    BY <1>4
  <2>2. a \in Type /\ t \in Type
    BY <2>1, KnownFacts, ChunkAssumption DEF Good, ChunkState
  <2>3. ok \in function_refining(a, t)
    BY <1>2, <2>1
  <2>4. ok \in BOOLEAN
    BY <2>3 DEF function_refining
  <2>5. TRUE \in function_refining(a, t)
    <3> HIDE DEF a
    <3>1. ok = TRUE
      BY <2>1, <2>4, Zenon
    <3> QED BY <2>3, <3>1, Zenon
  <2> HIDE DEF a
  <2> QED BY <2>2, <2>5, RefiningRight
<1>6. IsARight' /\ DegreeRight' /\ StrictStoresRight' /\ ArgsCounted'
  BY <1>4 DEF IsARight, DegreeRight, StrictStoresRight, ArgsCounted, Was
<1> QED BY <1>3, <1>5, <1>6, KeptIfSame DEF Right

\* The strict match asks for an object of the pointee type.
LEMMA StrictMatchFacts ==
  ASSUME NEW t, NEW s
  PROVE  StrictMatch(t, s) <=> Of[t] \in TypesAt(s)
BY DEF StrictMatch, TypesAt

\* A store through p of v that keeps the precise types and passes or fails as
\* the strict match says.
LEMMA StoreRight ==
  ASSUME NEW p, NEW v, last'.check = "can_hold", last'.p = p, last'.arg = v,
         LET s == At(chunk', p)
             t == Deepest[s].ty
         IN \/ Deepest[s].off # 0 \/ ~IsPointer(t) \/ is_generic_ultimate_pointee(Ultimate[t])
            \/ last'.verdict = "pass" <=> Of[t] \in TypesAt(At(chunk', v))
  PROVE  Right'
<1>1. StrictStoresRight'
  BY DEF StrictStoresRight, StoredTo, LastSpot, Was
<1>2. IsARight' /\ DegreeRight' /\ RefiningIsSound' /\ ArgsCounted'
  BY DEF IsARight, DegreeRight, RefiningIsSound, ArgsCounted, Was
<1> QED BY <1>1, <1>2 DEF Right

\* A store that specialises a chunk keeps the others.
SpecialisedStep ==
  /\ last'.verdict = "specialised"
  /\ \E c \in Chunk : chunk'[c].special /\
       \A x \in Chunk \ {c} :
         /\ PreciseType(chunk'[x]) = PreciseType(chunk[x]) /\ chunk'[x].size = chunk[x].size
         /\ chunk'[x].special = chunk[x].special

LEMMA CanHoldStep ==
  ASSUME Good(chunk), CanHoldPointer
  PROVE  Good(chunk') /\ (Kept \/ SpecialisedStep) /\ Right' /\ call' = call
<1>0. call' = call
  BY DEF CanHoldPointer
<1> DEFINE d(p) == Deepest[At(chunk, p)]
           t(p) == d(p).ty
           ispointer(p) == d(p).off = 0 /\ IsPointer(t(p))
           generic(p) == is_generic_ultimate_pointee(Ultimate[t(p)])
           ch(p) == Precisified(chunk, p.chunk)
           s(p, v) == At(ch(p), v)
           match(p, v) == IF generic(p) THEN GenericMatch(t(p), s(p, v))
                          ELSE StrictMatch(t(p), s(p, v))
           specialises(p, v) == ~is_abstract_pointer_type(t(p)) /\ is_abstract_pointer_type(s(p, v).ty)
<1>01. PICK p \in Ptr, v \in Ptr :
        \/ Unknown(p) /\ Aborts("can_hold", p, v) /\ UNCHANGED chunk
        \/ ~Unknown(p) /\ ~ispointer(p) /\ Fails("can_hold", p, v) /\ chunk' = ch(p)
        \/ /\ ~Unknown(p) /\ ispointer(p) /\ generic(p) /\ Degree[t(p)] = 1
           /\ Passes("can_hold", p, v) /\ chunk' = ch(p)
        \/ /\ ~Unknown(p) /\ ispointer(p) /\ ~(generic(p) /\ Degree[t(p)] = 1)
           /\ \/ (Unknown(v) \/ v.trap) /\ Aborts("can_hold", p, v) /\ chunk' = ch(p)
              \/ /\ ~Unknown(v) /\ ~v.trap /\ match(p, v)
                 /\ Passes("can_hold", p, v) /\ chunk' = Loosened(ch(p), v.chunk)
              \/ /\ ~Unknown(v) /\ ~v.trap /\ ~match(p, v) /\ ~specialises(p, v)
                 /\ Fails("can_hold", p, v) /\ chunk' = Loosened(ch(p), v.chunk)
              \/ /\ ~Unknown(v) /\ ~v.trap /\ ~match(p, v) /\ specialises(p, v) /\ p.chunk \in Heap
                 /\ chunk' = [Loosened(ch(p), v.chunk) EXCEPT
                      ![p.chunk] = Specialised(@, t(p))]
                 /\ Bump({"begun", "silent"})
                 /\ Ends("can_hold", p, v, "specialised")
              \/ /\ ~Unknown(v) /\ ~v.trap /\ ~match(p, v) /\ specialises(p, v) /\ p.chunk \notin Heap
                 /\ chunk' = Loosened(ch(p), v.chunk)
                 /\ Bump({"begun", "silent"})
                 /\ alive' = FALSE
                 /\ last' = NoCheck /\ checks' = checks + 1 /\ UNCHANGED mode
  BY DEF CanHoldPointer
<1>1. \/ Unknown(p) /\ Aborts("can_hold", p, v) /\ UNCHANGED chunk
      \/ ~Unknown(p) /\ ~ispointer(p) /\ Fails("can_hold", p, v) /\ chunk' = ch(p)
      \/ ~Unknown(p) /\ generic(p) /\ Passes("can_hold", p, v) /\ chunk' = ch(p)
      \/ ~Unknown(p) /\ Aborts("can_hold", p, v) /\ chunk' = ch(p)
      \/ /\ ~Unknown(p) /\ ~Unknown(v) /\ match(p, v)
         /\ Passes("can_hold", p, v) /\ chunk' = Loosened(ch(p), v.chunk)
      \/ /\ ~Unknown(p) /\ ~Unknown(v) /\ ~match(p, v)
         /\ Fails("can_hold", p, v) /\ chunk' = Loosened(ch(p), v.chunk)
      \/ /\ ~Unknown(p) /\ ~Unknown(v) /\ ispointer(p)
         /\ chunk' = [Loosened(ch(p), v.chunk) EXCEPT
              ![p.chunk] = Specialised(@, t(p))]
         /\ Ends("can_hold", p, v, "specialised")
      \/ ~Unknown(p) /\ ~Unknown(v) /\ chunk' = Loosened(ch(p), v.chunk) /\ last' = NoCheck
  <2> HIDE DEF d, t, ispointer, generic, ch, s, match, specialises
  <2> QED BY <1>01
<1>2. CASE Unknown(p)
  <2>1. chunk' = chunk /\ last'.verdict = "abort"
    BY <1>1, <1>2 DEF Aborts, Ends
  <2> QED BY <1>0, <2>1, KeptIfSame, RightIfAborted DEF Kept
<1>3. CASE ~Unknown(p)
  <2>1. p.chunk \in Chunk /\ At(chunk, p) \in Spot /\ At(chunk, p).ty = PreciseType(chunk[p.chunk])
    BY <1>3, KnownFacts
  <2>2. Good(ch(p)) /\ SamePrecise(chunk, ch(p))
    BY <2>1, PrecisifiedGood
  <2>3. ASSUME ~Unknown(v)
        PROVE /\ v.chunk \in Chunk /\ Good(Loosened(ch(p), v.chunk))
              /\ SamePrecise(chunk, Loosened(ch(p), v.chunk))
              /\ At(Loosened(ch(p), v.chunk), v) = s(p, v)
    <3>1. v.chunk \in Chunk
      BY <2>3, KnownFacts
    <3> HIDE DEF ch
    <3>2. Good(Loosened(ch(p), v.chunk)) /\ SamePrecise(ch(p), Loosened(ch(p), v.chunk))
      BY <2>2, <3>1, LoosenedGood
    <3>3. SamePrecise(chunk, Loosened(ch(p), v.chunk))
      BY <2>2, <3>2, SamePreciseTwice
    <3>4. At(Loosened(ch(p), v.chunk), v) = At(ch(p), v)
      BY <3>1, <3>2, AtSame
    <3> QED BY <3>1, <3>2, <3>3, <3>4
  <2>4. ASSUME SamePrecise(chunk, chunk')
        PROVE At(chunk', p) = At(chunk, p)
    BY <2>1, <2>4, AtSame
  <2>5. CASE ~ispointer(p) /\ Fails("can_hold", p, v) /\ chunk' = ch(p)
    <3>1. Good(chunk') /\ Kept /\ At(chunk', p) = At(chunk, p)
      BY <2>2, <2>4, <2>5, KeptIfPrecise
    <3>2. last'.check = "can_hold" /\ last'.p = p /\ last'.arg = v
      BY <2>5 DEF Fails, Ends
    <3>3. Right'
      BY <2>5, <3>1, <3>2, StoreRight
    <3> QED BY <1>0, <3>1, <3>3
  <2>6. CASE generic(p) /\ Passes("can_hold", p, v) /\ chunk' = ch(p)
    <3>1. Good(chunk') /\ Kept /\ At(chunk', p) = At(chunk, p)
      BY <2>2, <2>4, <2>6, KeptIfPrecise
    <3>2. last'.check = "can_hold" /\ last'.p = p /\ last'.arg = v
      BY <2>6 DEF Passes, Ends
    <3>3. Right'
      BY <2>6, <3>1, <3>2, StoreRight
    <3> QED BY <1>0, <3>1, <3>3
  <2>7. CASE Aborts("can_hold", p, v) /\ chunk' = ch(p)
    <3>1. Good(chunk') /\ Kept
      BY <2>2, <2>7, KeptIfPrecise
    <3>2. last'.verdict = "abort"
      BY <2>7 DEF Aborts, Ends
    <3> QED BY <1>0, <3>1, <3>2, RightIfAborted
  <2>8. ASSUME ~Unknown(v), chunk' = Loosened(ch(p), v.chunk),
               last'.check = "can_hold", last'.p = p, last'.arg = v,
               last'.verdict = "pass" <=> match(p, v)
        PROVE Good(chunk') /\ Kept /\ Right'
    <3>1. Good(chunk') /\ Kept /\ At(chunk', p) = At(chunk, p) /\ At(chunk', v) = s(p, v)
      <4> HIDE DEF ch, s
      <4> QED BY <2>3, <2>4, <2>8, KeptIfPrecise
    <3>2. generic(p) \/ (match(p, v) <=> Of[t(p)] \in TypesAt(s(p, v)))
      BY StrictMatchFacts
    <3>3. Right'
      <4>1. LET x == At(chunk', p)
                y == Deepest[x].ty
            IN \/ Deepest[x].off # 0 \/ ~IsPointer(y) \/ is_generic_ultimate_pointee(Ultimate[y])
               \/ last'.verdict = "pass" <=> Of[y] \in TypesAt(At(chunk', v))
        <5> HIDE DEF s, match
        <5> QED BY <2>8, <3>1, <3>2
      <4> QED BY <2>8, <4>1, StoreRight
    <3> QED BY <3>1, <3>3
  <2>9. CASE ~Unknown(v) /\ match(p, v) /\ Passes("can_hold", p, v) /\ chunk' = Loosened(ch(p), v.chunk)
    <3>1. last'.check = "can_hold" /\ last'.p = p /\ last'.arg = v /\ last'.verdict = "pass"
      BY <2>9 DEF Passes, Ends
    <3> HIDE DEF match, ch
    <3> QED BY <1>0, <2>8, <2>9, <3>1
  <2>10. CASE ~Unknown(v) /\ ~match(p, v) /\ Fails("can_hold", p, v) /\ chunk' = Loosened(ch(p), v.chunk)
    <3>1. last'.check = "can_hold" /\ last'.p = p /\ last'.arg = v /\ last'.verdict = "fail"
      BY <2>10 DEF Fails, Ends
    <3> HIDE DEF match, ch
    <3> QED BY <1>0, <2>8, <2>10, <3>1
  <2>11. CASE /\ ~Unknown(v) /\ ispointer(p)
              /\ chunk' = [Loosened(ch(p), v.chunk) EXCEPT
                   ![p.chunk] = Specialised(@, t(p))]
              /\ Ends("can_hold", p, v, "specialised")
    <3> DEFINE l == Loosened(ch(p), v.chunk)
    <3>1. Good(l) /\ SamePrecise(chunk, l)
      BY <2>3, <2>11
    <3>2. t(p) \in Type /\ IsPointer(t(p)) /\ SizeOf[t(p)] <= SizeOf[At(chunk, p).ty]
      BY <2>1, <2>11, DeepestRight DEF Spot
    <3>3. SizeOf[At(chunk, p).ty] <= chunk[p.chunk].size /\ At(chunk, p).ty \in Type
      BY <2>1, PreciseFacts
    <3>4. l[p.chunk].size = chunk[p.chunk].size
      <4> HIDE DEF l
      <4> QED BY <2>1, <3>1 DEF SamePrecise
    <3>5. /\ SizeOf[t(p)] \in Nat /\ SizeOf[At(chunk, p).ty] \in Nat
          /\ chunk[p.chunk].size \in 1 .. MaxOff + 1 /\ MaxOff \in Nat
      BY <2>1, <3>2, <3>3, SizeFacts DEF Good, ChunkState
    <3>6. SizeOf[t(p)] <= l[p.chunk].size
      <4> HIDE DEF l, t
      <4> QED BY <3>2, <3>3, <3>4, <3>5
    <3>7. PICK i \in InitChunk : chunk[p.chunk].size = i[p.chunk].size
      BY <2>1 DEF Good
    <3>8. IsMade(t(p), l[p.chunk].size \div SizeOf[t(p)])
      <4> HIDE DEF l, t
      <4> QED BY <2>1, <3>2, <3>4, <3>7, RoomAssumption
    <3>9. Good(chunk') /\ chunk'[p.chunk].special /\ \A x \in Chunk \ {p.chunk} : chunk'[x] = l[x]
      <4>1. chunk' = [l EXCEPT ![p.chunk] = Specialised(@, t(p))]
        BY <2>11
      <4> HIDE DEF l, t
      <4>2. LET ch2 == [l EXCEPT ![p.chunk] = Specialised(@, t(p))]
            IN Good(ch2) /\ ch2[p.chunk].special /\ \A x \in Chunk \ {p.chunk} : ch2[x] = l[x]
        BY <2>1, <3>1, <3>2, <3>6, <3>8, SpecialisedGood
      <4> QED BY <4>1, <4>2
    <3>10. last'.verdict = "specialised" /\ last'.check = "can_hold"
      BY <2>11 DEF Ends
    <3>11. SpecialisedStep
      <4> HIDE DEF l
      <4> QED BY <2>1, <3>1, <3>9, <3>10 DEF SpecialisedStep, SamePrecise
    <3> QED BY <1>0, <3>9, <3>10, <3>11, RightIfAborted
  <2>12. CASE ~Unknown(v) /\ chunk' = Loosened(ch(p), v.chunk) /\ last' = NoCheck
    <3>1. Good(chunk') /\ Kept
      <4> HIDE DEF ch
      <4> QED BY <2>3, <2>12, KeptIfPrecise
    <3>2. last'.check = "none"
      BY <2>12 DEF NoCheck
    <3> QED BY <1>0, <3>1, <3>2, RightIfOther
  <2> HIDE DEF ch, match, ispointer, generic, t
  <2> QED BY <1>1, <1>3, <2>5, <2>6, <2>7, <2>9, <2>10, <2>11, <2>12
<1> QED BY <1>2, <1>3

-----------------------------------------------------------------------------
(* Indirect calls *)

\* The callee of the call under way is a chunk.
CallKnown ==
  call = None \/ (call \in [p : Ptr, nargs : 0 .. MaxArgs, i : 0 .. MaxArgs] /\ call.p.chunk \in Chunk)

\* The type of the next argument is one the program has, so the check of a
\* pointer argument is a cast to a type that may be asked about.
LEMMA ExpectedFacts ==
  ASSUME Good(chunk), CallKnown, call # None, MoreArgs
  PROVE  LET expected == ArgOf(Callee, call.i + 1)
         IN expected \in Type /\ (IsPointer(expected) => Of[expected] \in Asked)
<1>1. /\ call.p.chunk \in Chunk /\ call.i \in 0 .. MaxArgs /\ MaxArgs \in Nat
  BY ChunkAssumption DEF CallKnown
<1>2. Callee \in Type
  BY <1>1 DEF Callee, Good, ChunkState
<1> DEFINE f == Callee
           j == call.i + 1 + (IF Nret[f] = 0 THEN 0 ELSE 1)
<1>3. call.i < Narg(f)
  BY DEF MoreArgs
<1> HIDE DEF f
<1>4. /\ Len(Rel[f]) \in Nat /\ Nret[f] \in 0 .. 1 /\ Narg(f) = Len(Rel[f]) - Nret[f]
  BY <1>2, FunFacts DEF f
<1>5. call.i \in Nat
  BY <1>1
<1>6. j \in 1 .. Len(Rel[f])
  BY ONLY <1>3, <1>4, <1>5
<1>7. Rel[f] \in Seq(Type)
  BY <1>2, TypesAssumption DEF f
<1>8. Rel[f][j] \in Type
  <2> HIDE DEF j
  <2> QED BY ONLY <1>6, <1>7, InSeq
<1>9. ArgOf(Callee, call.i + 1) = Rel[f][j]
  BY DEF ArgOf, f
<1> HIDE DEF j
<1> QED BY <1>8, <1>9 DEF Asked

LEMMA ArgsStep ==
  ASSUME Good(chunk), CallKnown, Right, CheckArgs \/ CheckArg \/ CheckArgsDone
  PROVE  Stays /\ CallKnown' /\ Right'
<1>1. CASE CheckArgs
  <2>1. chunk' = chunk
    BY <1>1 DEF CheckArgs
  <2>2. PICK p \in Ptr, n \in 0 .. MaxArgs :
       \/ /\ Unknown(p) \/ p.trap
          /\ Bump({"aborted_unknown_storage", "bare"})
          /\ Ends("args", p, n, "abort") /\ UNCHANGED call
       \/ /\ ~Unknown(p) /\ ~p.trap
          /\ IsFunction(chunk[p.chunk].ty) /\ p.off = 0
          /\ call' = [p |-> p, nargs |-> n, i |-> 0]
          /\ checks' = checks + 1
          /\ UNCHANGED <<cnt, mode, alive, last>>
       \/ /\ ~Unknown(p) /\ ~p.trap
          /\ ~IsFunction(chunk[p.chunk].ty) \/ p.off # 0
          /\ alive' = FALSE
          /\ checks' = checks + 1
          /\ UNCHANGED <<cnt, mode, call, last>>
    BY <1>1 DEF CheckArgs
  <2>3. CASE Ends("args", p, n, "abort") /\ UNCHANGED call
    <3>1. last'.verdict = "abort"
      BY <2>3 DEF Ends
    <3> QED BY <2>1, <2>3, <3>1, RightIfAborted, KeptIfSame DEF CallKnown, Kept
  <2>4. CASE ~Unknown(p) /\ call' = [p |-> p, nargs |-> n, i |-> 0] /\ UNCHANGED last
    <3>1. p.chunk \in Chunk
      BY <2>4, KnownFacts
    <3>2. 0 \in 0 .. MaxArgs
      BY ChunkAssumption
    <3>3. CallKnown'
      BY <2>4, <3>1, <3>2 DEF CallKnown
    <3> QED BY <2>1, <2>4, <3>3, RightIfSame, KeptIfSame DEF Kept
  <2>5. CASE UNCHANGED <<call, last>>
    BY <2>1, <2>5, RightIfSame, KeptIfSame DEF CallKnown, Kept
  <2> QED BY <2>2, <2>3, <2>4, <2>5
<1>2. CASE CheckArg
  <2> DEFINE expected == ArgOf(Callee, call.i + 1)
  <2>1. call # None /\ MoreArgs /\ call' = [call EXCEPT !.i = @ + 1]
    BY <1>2 DEF CheckArg
  <2>2. CallKnown'
    <3>1. call \in [p : Ptr, nargs : 0 .. MaxArgs, i : 0 .. MaxArgs] /\ call.p.chunk \in Chunk
      BY <2>1 DEF CallKnown
    <3>2. call.i + 1 \in 0 .. MaxArgs
      BY <2>1, <3>1, ChunkAssumption DEF MoreArgs
    <3> QED BY <2>1, <3>1, <3>2 DEF CallKnown
  <2>3. CASE IsPointer(expected) /\ \E q \in Ptr : IsAU(q, Of[expected])
    <3>1. Of[expected] \in Asked
      BY <2>1, <2>3, ExpectedFacts
    <3>2. PICK q \in Ptr : IsAU(q, Of[expected])
      BY <2>3
    <3>3. Stays /\ last'.check = "is_a" /\ IsARight'
      <4> HIDE DEF expected
      <4> QED BY <3>1, <3>2, IsAStep
    <3> QED BY <2>2, <3>3, RightIfIsA
  <2>4. CASE UNCHANGED <<chunk, last>>
    BY <2>2, <2>4, RightIfSame, KeptIfSame DEF Kept
  <2> HIDE DEF expected
  <2> QED BY <1>2, <2>3, <2>4 DEF CheckArg, expected
<1>3. CASE CheckArgsDone
  <2>1. /\ chunk' = chunk /\ call' = None /\ call # None /\ ~MoreArgs
        /\ last' = [check |-> "args", p |-> call.p, arg |-> call.nargs,
                    verdict |-> IF ArgsAnswer = 0 THEN "pass" ELSE "fail"]
    BY <1>3 DEF CheckArgsDone
  <2>2. /\ call.nargs \in 0 .. MaxArgs /\ call.i \in 0 .. MaxArgs /\ MaxArgs \in Nat
        /\ call.p.chunk \in Chunk
    BY <2>1, ChunkAssumption DEF CallKnown
  <2>3. Callee \in Type
    BY <2>2 DEF Callee, Good, ChunkState
  <2>4. Narg(Callee) \in Nat
    BY <2>3, FunFacts
  <2>5. /\ last'.check = "args" /\ last'.p = call.p /\ last'.arg = call.nargs
        /\ last'.verdict = "pass" => ArgsAnswer = 0
    BY <2>1
  <2>6. ArgsAnswer = 0 /\ call.nargs > 0 /\ Narg(Callee) > 0 => call.nargs = Narg(Callee)
    BY <2>1, <2>2, <2>4 DEF ArgsAnswer, MoreArgs
  <2>7. ArgsCounted'
    BY <2>1, <2>5, <2>6 DEF ArgsCounted, Was, Callee
  <2>8. IsARight' /\ DegreeRight' /\ StrictStoresRight' /\ RefiningIsSound'
    BY <2>5 DEF IsARight, DegreeRight, StrictStoresRight, RefiningIsSound, Was
  <2> QED BY <2>1, <2>7, <2>8, KeptIfSame DEF Right, CallKnown, Kept
<1> QED BY <1>1, <1>2, <1>3
-----------------------------------------------------------------------------
(* The inductive invariant of the type checks *)

IInv == Good(chunk) /\ CallKnown /\ Right

LEMMA InitGood == Init => IInv
<1> SUFFICES ASSUME Init PROVE IInv
  OBVIOUS
<1>1. PICK i \in InitChunk :
        chunk = [c \in Chunk |-> [ty |-> i[c].ty, size |-> i[c].size,
                                  typed |-> FALSE, loose |-> FALSE, special |-> FALSE]]
  BY DEF Init
<1>2. \A c \in Chunk : i[c].ty \in Type /\ i[c].size \in 1 .. MaxOff + 1
  BY ChunkAssumption
<1>3. \A c \in Chunk : SizeOf[i[c].ty] <= i[c].size
  BY RoomAssumption
<1>4. Good(chunk)
  BY <1>1, <1>2, <1>3 DEF Good, ChunkState
<1>5. CallKnown
  BY DEF Init, CallKnown
<1>6. last.check = "none"
  BY DEF Init, NoCheck
<1>7. Right
  BY <1>6 DEF Right, IsARight, DegreeRight, StrictStoresRight, RefiningIsSound, ArgsCounted, Was
<1> QED BY <1>4, <1>5, <1>7 DEF IInv

\* Every step keeps the invariant, and gives a new type only to a chunk that was
\* undecided, or by a store that specialises it.
LEMMA NextGood ==
  ASSUME IInv, [Next]_vars
  PROVE  IInv' /\ (Stays \/ last'.verdict = "specialised")
<1>1. Good(chunk) /\ CallKnown /\ Right
  BY DEF IInv
<1>2. ASSUME Stays, Right', call' = call
      PROVE IInv' /\ (Stays \/ last'.verdict = "specialised")
  BY <1>1, <1>2 DEF IInv, Stays, CallKnown
<1>3. CASE IsA
  <2>1. PICK p \in Ptr, t \in TestType : IsAU(p, t)
    BY <1>3 DEF IsA
  <2>2. t \in Asked
    BY DEF Asked
  <2>3. Stays /\ last'.check = "is_a" /\ IsARight'
    BY <1>1, <2>1, <2>2, IsAStep
  <2>4. call' = call
    BY <1>3 DEF IsA
  <2> QED BY <1>2, <2>3, <2>4, RightIfIsA
<1>4. CASE LikeA \/ LooselyLikeA \/ NamedA
  BY <1>1, <1>2, <1>4, LikeStep DEF Kept
<1>5. CASE IsAFunctionRefining
  BY <1>1, <1>2, <1>5, RefiningStep DEF Kept
<1>6. CASE IsAPointerOfDegree
  BY <1>1, <1>2, <1>6, DegreeStep DEF Kept
<1>7. CASE BadTypename
  <2>1. chunk' = chunk /\ call' = call /\ last'.check = "none"
    BY <1>7 DEF BadTypename, NoCheck
  <2> QED BY <1>1, <1>2, <2>1, KeptIfSame, RightIfOther DEF Kept
<1>8. CASE CanHoldPointer
  <2>1. Good(chunk') /\ (Kept \/ SpecialisedStep) /\ Right' /\ call' = call
    BY <1>1, <1>8, CanHoldStep
  <2> QED BY <1>1, <2>1 DEF IInv, CallKnown, Kept, SpecialisedStep
<1>9. CASE CheckArgs \/ CheckArg \/ CheckArgsDone
  <2>1. Stays /\ CallKnown' /\ Right'
    BY <1>1, <1>9, ArgsStep
  <2> QED BY <2>1 DEF IInv, Stays
<1>10. CASE SwitchMode \/ UNCHANGED vars
  <2>1. chunk' = chunk /\ call' = call /\ last' = last
    BY <1>10 DEF SwitchMode, vars
  <2> QED BY <1>1, <1>2, <2>1, KeptIfSame, RightIfSame DEF Kept
<1> QED BY <1>3, <1>4, <1>5, <1>6, <1>7, <1>8, <1>9, <1>10 DEF Next

LEMMA Invariant == Spec => []IInv
<1>1. IInv /\ [Next]_vars => IInv'
  BY NextGood
<1> QED BY <1>1, InitGood, PTL DEF Spec

-----------------------------------------------------------------------------
(* What is proved of the answers *)

\* __is_a passes only for a type that starts at the pointer and fails only for
\* one that does not, whatever chunks, types and short cuts there are.
THEOREM IsACorrect == Spec => []IsARight
<1>1. IInv => IsARight
  BY DEF IInv, Right
<1> QED BY <1>1, Invariant, PTL

\* __is_a_pointer_of_degree passes exactly when such a pointer starts there.
THEOREM DegreeCorrect == Spec => []DegreeRight
<1>1. IInv => DegreeRight
  BY DEF IInv, Right
<1> QED BY <1>1, Invariant, PTL

\* __can_hold_pointer passes a store to a pointer that is not generic exactly
\* when the value points at an object of the pointee type.
THEOREM StoresCorrect == Spec => []StrictStoresRight
<1>1. IInv => StrictStoresRight
  BY DEF IInv, Right
<1> QED BY <1>1, Invariant, PTL

\* A function that __is_a_function_refining passes, when both types have a
\* result or neither has, can be called through the type it is cast to.
THEOREM RefiningCorrect == Spec => []RefiningIsSound
<1>1. IInv => RefiningIsSound
  BY DEF IInv, Right
<1> QED BY <1>1, Invariant, PTL

\* __check_args_internal accepts a call with arguments, of a function that
\* takes some, only with as many as it takes.
THEOREM ArgsCorrect == Spec => []ArgsCounted
<1>1. IInv => ArgsCounted
  BY DEF IInv, Right
<1> QED BY <1>1, Invariant, PTL

\* The types that the checks give to chunks fit them.
THEOREM ChunkTypesCorrect == Spec => []ChunkTypesFit
<1>1. IInv => ChunkTypesFit
  <2> SUFFICES ASSUME IInv, NEW c \in Chunk
               PROVE 0 < SizeOf[chunk[c].ty] /\ SizeOf[chunk[c].ty] <= chunk[c].size
    BY DEF ChunkTypesFit
  <2>1. chunk[c].ty \in Type /\ SizeOf[chunk[c].ty] <= chunk[c].size
    BY DEF IInv, Good, ChunkState
  <2> QED BY <2>1, SizeFacts
<1> QED BY <1>1, Invariant, PTL

\* A chunk whose type is decided keeps it, but for a store that specialises it.
THEOREM DecidedCorrect == Spec => DecidedTypeStays
<1> DEFINE Step == \A c \in Chunk :
                     chunk'[c].ty # chunk[c].ty =>
                       \/ MakePrecise[chunk[c].ty]
                       \/ IsArray(chunk[c].ty) /\ MakePrecise[Of[chunk[c].ty]]
                       \/ last'.verdict = "specialised"
<1>1. IInv /\ [Next]_vars => [Step]_vars
  <2> SUFFICES ASSUME IInv, [Next]_vars PROVE Step
    OBVIOUS
  <2> QED BY NextGood DEF Stays, Undecided
<1>2. DecidedTypeStays <=> [][Step]_vars
  BY DEF DecidedTypeStays
<1> HIDE DEF Step
<1> QED BY <1>1, <1>2, Invariant, PTL DEF Spec

-----------------------------------------------------------------------------
(* Counting *)

\* The counters that a check may raise together.
Ways == {{"begun", "succeeded"}, {"begun", "failed"}, {"begun", "failed_in_alloc"},
         {"begun", "aborted_unknown_storage"}, {"begun", "is_a_hit_cache", "succeeded"},
         {"begun", "silent"}, {"begun", "aborted_typestr"},
         {"aborted_unknown_storage", "bare"}}

Counts == cnt' = cnt \/ \E ks \in Ways : Bump(ks)

LEMMA EndsCounted ==
  ASSUME NEW check, NEW p, NEW arg,
         Passes(check, p, arg) \/ Fails(check, p, arg) \/ Aborts(check, p, arg)
  PROVE  Counts
<1>1. CASE Passes(check, p, arg)
  BY <1>1 DEF Passes, Counts, Ways
<1>2. CASE Fails(check, p, arg)
  BY <1>2 DEF Fails, Counts, Ways
<1>3. CASE Aborts(check, p, arg)
  BY <1>3 DEF Aborts, Counts, Ways
<1> QED BY <1>1, <1>2, <1>3

LEMMA DecidedCounted ==
  ASSUME NEW check, NEW p, NEW arg, NEW ok, Decided(check, p, arg, ok)
  PROVE  Counts
BY EndsCounted DEF Decided

LEMMA IsACounted ==
  ASSUME NEW p, NEW t, IsAU(p, t)
  PROVE  Counts
<1>1. CASE IsACached(p, t)
  BY <1>1 DEF IsACached, Counts, Ways
<1>2. CASE IsAInternal(p, t)
  <2>1. \/ Passes("is_a", p, t) \/ Fails("is_a", p, t) \/ Aborts("is_a", p, t)
        \/ Bump({"begun", "silent"})
    BY <1>2, Zenon DEF IsAInternal
  <2>2. CASE Bump({"begun", "silent"})
    BY <2>2 DEF Counts, Ways
  <2> QED BY <2>1, <2>2, EndsCounted
<1> QED BY <1>1, <1>2 DEF IsAU

LEMMA StepCounted ==
  ASSUME [Next]_vars
  PROVE  Counts
<1>1. CASE IsA
  BY <1>1, IsACounted DEF IsA
<1>2. CASE LikeA \/ LooselyLikeA \/ NamedA
  BY <1>2, DecidedCounted, Zenon DEF LikeA, LooselyLikeA, NamedA
<1>3. CASE IsAFunctionRefining
  BY <1>3, DecidedCounted, Zenon DEF IsAFunctionRefining
<1>4. CASE IsAPointerOfDegree
  <2>1. PICK p \in Ptr, d \in 1 .. MaxDegree :
          Aborts("degree", p, d) \/ Passes("degree", p, d) \/ Bump({"begun", "failed"})
    BY <1>4, Zenon DEF IsAPointerOfDegree
  <2>2. CASE Bump({"begun", "failed"})
    BY <2>2 DEF Counts, Ways
  <2> QED BY <2>1, <2>2, EndsCounted
<1>5. CASE BadTypename
  BY <1>5 DEF BadTypename, Counts, Ways
<1>6. CASE CanHoldPointer
  <2>1. PICK p \in Ptr, v \in Ptr :
          \/ Aborts("can_hold", p, v) \/ Passes("can_hold", p, v) \/ Fails("can_hold", p, v)
          \/ Bump({"begun", "silent"})
    BY <1>6, SMT DEF CanHoldPointer
  <2>2. CASE Bump({"begun", "silent"})
    BY <2>2 DEF Counts, Ways
  <2> QED BY <2>1, <2>2, EndsCounted
<1>7. CASE CheckArgs
  <2>1. Bump({"aborted_unknown_storage", "bare"}) \/ cnt' = cnt
    BY <1>7 DEF CheckArgs
  <2> QED BY <2>1 DEF Counts, Ways
<1>8. CASE CheckArg
  <2>1. (\E q \in Ptr : IsAU(q, Of[ArgOf(Callee, call.i + 1)])) \/ cnt' = cnt
    BY <1>8, Zenon DEF CheckArg
  <2> QED BY <2>1, IsACounted DEF Counts
<1>9. CASE CheckArgsDone \/ SwitchMode \/ UNCHANGED vars
  BY <1>9 DEF CheckArgsDone, SwitchMode, vars, Counts
<1> QED BY <1>1, <1>2, <1>3, <1>4, <1>5, <1>6, <1>7, <1>8, <1>9 DEF Next

\* Every check begun ends in exactly one line of the exit summary, but for the
\* lazily typed and specialised ones, and the queries of indirect calls.
THEOREM AccountedCorrect == Spec => []Accounted
<1> DEFINE I == cnt \in [Counter -> Nat] /\ Accounted
<1>1. Init => I
  BY DEF Init, Accounted, Counter
<1>2. I /\ [Next]_vars => I'
  <2> SUFFICES ASSUME I, [Next]_vars PROVE I'
    OBVIOUS
  <2>1. CASE cnt' = cnt
    BY <2>1 DEF Accounted
  <2>2. ASSUME NEW ks \in Ways, Bump(ks)
        PROVE I'
    <3>1. cnt' \in [Counter -> Nat]
      BY <2>2 DEF Bump
    <3>2. \A k \in Counter : cnt[k] \in Nat /\ cnt'[k] = IF k \in ks THEN cnt[k] + 1 ELSE cnt[k]
      BY <2>2 DEF Bump
    <3>3. Accounted'
      BY <2>2, <3>2 DEF Accounted, Counter, Ways
    <3> QED BY <3>1, <3>3
  <2> QED BY <2>1, <2>2, StepCounted DEF Counts
<1> QED BY <1>1, <1>2, PTL DEF Spec

-----------------------------------------------------------------------------
(* The cache *)

\* An entry made for an array lies within an array of its type's elements, as
\* far as the chunk has room, as long as no store has specialised the chunk.  An
\* abstract type stands for any.
Real(e, ch) ==
  e.array /\ ~ch[e.chunk].special /\ ~MakePrecise[e.ty] =>
    \E a \in TypesAt(SpotOf(PreciseType(ch[e.chunk]), e.lo)) :
      /\ IsArray(a) /\ Of[a] = e.ty
      /\ \A o \in Offset :
           e.lo <= o /\ o < e.hi /\ (o - e.lo) % e.period = 0 /\ o + SizeOf[e.ty] <= ch[e.chunk].size
           => o - e.lo < SizeOf[a]

CacheOK ==
  /\ cache \subseteq Entry /\ Cardinality(cache) <= CacheSize
  /\ \A e \in cache : (e.array => e.period = SizeOf[e.ty]) /\ Real(e, chunk)

LEMMA EntryFacts ==
  ASSUME NEW e \in Entry
  PROVE  /\ e.chunk \in Chunk /\ e.chunk \in Cacheable /\ e.ty \in Type
         /\ e.lo \in Offset /\ e.lo \in Nat /\ e.hi \in Nat
BY ChunkAssumption, SizeFacts DEF Entry, Offset

LEMMA EntriesAreTrue ==
  ASSUME Good(chunk), CacheOK
  PROVE  ArrayEntriesTrue
<1> DEFINE at(e, o) == [chunk |-> e.chunk, off |-> o, trap |-> FALSE]
<1> HIDE DEF at
<1> SUFFICES ASSUME NEW e \in cache, e.array, ~chunk[e.chunk].special, NEW o \in Offset,
                    Hits(e, at(e, o), e.ty), o + SizeOf[e.ty] <= chunk[e.chunk].size,
                    ~MakePrecise[e.ty]
             PROVE  e.ty \in TypesAt(At(chunk, at(e, o)))
  <2>1. ArrayEntriesTrue <=>
          \A e \in cache : e.array /\ ~chunk[e.chunk].special =>
            \A o \in Offset :
              Hits(e, at(e, o), e.ty) /\ o + SizeOf[e.ty] <= chunk[e.chunk].size =>
                e.ty \in TypesAt(At(chunk, at(e, o))) \/ MakePrecise[e.ty]
    BY DEF ArrayEntriesTrue, at
  <2> QED BY <2>1
<1> DEFINE q == at(e, o)
           b == PreciseType(chunk[e.chunk])
           s == SpotOf(b, e.lo)
           y == o - e.lo
           z == SizeOf[e.ty]
<1>1. /\ e \in Entry /\ e.period = z /\ Real(e, chunk)
  BY DEF CacheOK
<1>2. e.chunk \in Chunk /\ e.ty \in Type /\ e.lo \in Offset /\ e.lo \in Nat /\ e.hi \in Nat
  BY <1>1, EntryFacts
<1>3. o \in Nat /\ z \in Nat /\ z > 0
  BY <1>2, SizeFacts DEF Offset
<1>4. e.lo <= o /\ o < e.hi /\ y % z = 0
  <2>1. q.off = o
    BY DEF at
  <2>2. e.lo <= o /\ o < e.hi /\ Steps(y, z)
    BY <1>1, <2>1 DEF Hits
  <2> QED BY <1>2, <1>3, <2>2, StepsFacts
<1>5. PICK a \in TypesAt(s) : IsArray(a) /\ Of[a] = e.ty /\ y < SizeOf[a]
  BY <1>1, <1>4 DEF Real
<1>6. b \in Type
  BY <1>2, PreciseFacts
<1>7. s \in Spot /\ s.ty = b /\ s.off = e.lo
  BY <1>2, <1>6 DEF SpotOf, Spot
<1>8. y \in Nat /\ e.lo + y = o
  BY <1>2, <1>3, <1>4
<1>9. TypesAt(SpotOf(a, y)) \subseteq TypesAt(SpotOf(b, o))
  <2> HIDE DEF s, y, b
  <2> QED BY <1>5, <1>7, <1>8, TypesWithin
<1>10. e.ty \in TypesAt(SpotOf(a, y))
  <2> DEFINE x == SpotOf(a, y)
  <2>1. a \in Type
    <3> HIDE DEF s
    <3> QED BY <1>5, <1>7, TypesAtFit
  <2>2. x \in Spot /\ x.ty = a /\ x.off = y
    <3>1. y \in Offset
      BY <1>2, <1>3, <1>4, SizeFacts DEF Offset
    <3> HIDE DEF y
    <3> QED BY <2>1, <3>1 DEF SpotOf, Spot
  <2>3. ~Leaf(x) /\ Inner(x) = SpotOf(e.ty, 0)
    <3> HIDE DEF x, y
    <3>1. ~Leaf(x) /\ Inner(x) = SpotOf(Of[a], y % SizeOf[Of[a]])
      BY <1>5, <2>2, InnerArray
    <3> QED BY <1>4, <1>5, <3>1
  <2>4. /\ SpotOf(e.ty, 0) \in Spot
        /\ SpotOf(e.ty, 0).ty = e.ty /\ SpotOf(e.ty, 0).off = 0
    BY <1>2, SizeFacts DEF SpotOf, Spot, Offset
  <2> HIDE DEF x
  <2> QED BY <2>2, <2>3, <2>4, TypesAtDef DEF x
<1>11. At(chunk, q) = SpotOf(b, o)
  BY DEF At, at
<1> QED BY <1>9, <1>10, <1>11

\* What an entry says depends only on the precise type and the size.
LEMMA RealKept ==
  ASSUME NEW e, Real(e, chunk),
         \/ chunk'[e.chunk].special
         \/ /\ PreciseType(chunk'[e.chunk]) = PreciseType(chunk[e.chunk])
            /\ chunk'[e.chunk].size = chunk[e.chunk].size
            /\ chunk'[e.chunk].special = chunk[e.chunk].special
  PROVE  Real(e, chunk')
BY DEF Real

LEMMA CacheKept ==
  ASSUME Good(chunk), CacheOK, cache' = cache, Kept \/ SpecialisedStep
  PROVE  CacheOK'
<1>1. ASSUME NEW e \in cache
      PROVE Real(e, chunk')
  <2>1. e.chunk \in Chunk /\ Real(e, chunk)
    BY EntryFacts DEF CacheOK
  <2> QED BY <2>1, RealKept DEF Kept, SamePrecise, SpecialisedStep
<1> QED BY <1>1 DEF CacheOK, Real

\* The cache after an insertion.
LEMMA CachedFacts ==
  ASSUME CacheOK, NEW c, NEW e, Cached(c, e)
  PROVE  /\ Cardinality(cache') <= CacheSize
         /\ \A x \in cache' : x \in cache \/ (x = e /\ c \in Cacheable)
<1>1. CASE c \in Cacheable
  <2>1. PICK rest \in {cache} \union {cache \ {v} : v \in cache} :
          Cardinality(rest \union {e}) <= CacheSize /\ cache' = rest \union {e}
    BY <1>1 DEF Cached, Inserted
  <2>2. rest \subseteq cache
    BY <2>1
  <2>3. Cardinality(cache') <= CacheSize
    BY <2>1, Zenon
  <2> QED BY <1>1, <2>1, <2>2, <2>3
<1>2. CASE c \notin Cacheable
  BY <1>2 DEF Cached, CacheOK
<1> QED BY <1>1, <1>2

LEMMA CacheGrown ==
  ASSUME CacheOK, NEW c, NEW e, Cached(c, e),
         c \in Cacheable => e \in Entry /\ (e.array => e.period = SizeOf[e.ty]) /\ Real(e, chunk'),
         \A x \in cache : Real(x, chunk')
  PROVE  CacheOK'
<1>1. /\ Cardinality(cache') <= CacheSize
      /\ \A x \in cache' : x \in cache \/ (x = e /\ c \in Cacheable)
  BY CachedFacts
<1>2. \A x \in cache' : x \in Entry /\ (x.array => x.period = SizeOf[x.ty]) /\ Real(x, chunk')
  BY <1>1 DEF CacheOK
<1> QED BY <1>1, <1>2 DEF CacheOK, Real

\* The range that a search leaves is an entry.
LEMMA RangeFacts ==
  ASSUME Good(chunk), NEW p \in Ptr, ~Unknown(p), NEW t \in Type, p.chunk \in Cacheable
  PROVE  LET r == find_matching_subobject(t, At(chunk, p))
             e == RangeOf(p, t, r)
         IN /\ e \in Entry /\ e.ty = t /\ e.chunk = p.chunk
            /\ e.array => r.containing # None /\ IsArray(r.containing) /\ LenOf[r.containing] > 0
            /\ e.array => /\ e.period = SizeOf[e.ty]
                          /\ e.lo = r.sum - r.pos
                          /\ e.hi = r.sum - r.pos + SizeOf[r.containing]
<1> DEFINE r == find_matching_subobject(t, At(chunk, p))
           e == RangeOf(p, t, r)
           array == r.containing # None /\ IsArray(r.containing) /\ LenOf[r.containing] > 0
           base == r.sum - r.pos
<1>1. At(chunk, p) \in Spot /\ At(chunk, p).off = p.off /\ p.off \in Offset
  BY KnownFacts
<1>2. /\ r.off \in Nat /\ r.off <= p.off
      /\ r.pos \in Nat /\ r.sum \in Nat /\ r.pos <= r.sum /\ r.sum <= p.off
      /\ r.containing \in Type \union {None}
  BY <1>1, FindRange
<1> HIDE DEF r
<1>3. SizeOf[t] \in Nat /\ SizeOf[t] \in 1 .. MaxOff + 1 /\ MaxOff \in Nat
  BY SizeFacts
<1>4. array \in BOOLEAN
  OBVIOUS
<1>5. array => SizeOf[r.containing] \in Nat
  BY <1>2, SizeFacts
<1>6. base \in Offset /\ r.off \in Offset /\ base \in Nat /\ p.off \in Nat
  BY <1>1, <1>2, <1>3 DEF Offset
<1> DEFINE period == Short(SizeOf[t])
           short == SizeOf[t] < PeriodMod
<1>p. /\ period \in 0 .. MaxOff + 1 /\ (short => period = SizeOf[t])
      /\ (array /\ short) \in BOOLEAN
  BY <1>3, ShortFacts
<1>7. e = [chunk |-> p.chunk, ty |-> t, period |-> period, array |-> array /\ short,
           lo |-> IF array THEN base ELSE r.off,
           hi |-> IF array THEN base + SizeOf[r.containing] ELSE p.off + SizeOf[t]]
  BY DEF RangeOf
<1> HIDE DEF array, base, e, period, short
<1>8. /\ e.chunk = p.chunk /\ e.ty = t /\ e.period = period /\ e.array = (array /\ short)
      /\ e.lo = IF array THEN base ELSE r.off
      /\ e.hi = IF array THEN base + SizeOf[r.containing] ELSE p.off + SizeOf[t]
  BY <1>7
<1>9. (IF array THEN base ELSE r.off) \in Offset
      /\ (IF array THEN base + SizeOf[r.containing] ELSE p.off + SizeOf[t]) \in Nat
  BY <1>3, <1>4, <1>5, <1>6
<1>10. e \in Entry
  BY <1>3, <1>4, <1>p, <1>7, <1>9 DEF Entry
<1>11. e.array => array /\ e.period = SizeOf[t]
  BY <1>p, <1>8
<1> QED BY <1>8, <1>10, <1>11 DEF array, base, e, r

\* A type found in an array makes an entry that is real.
LEMMA FoundReal ==
  ASSUME Good(chunk), NEW p \in Ptr, ~Unknown(p), NEW t \in Type, p.chunk \in Cacheable,
         find_matching_subobject(t, At(chunk, p)).found
  PROVE  Real(RangeOf(p, t, find_matching_subobject(t, At(chunk, p))), chunk)
<1> DEFINE s == At(chunk, p)
           r == find_matching_subobject(t, s)
           e == RangeOf(p, t, r)
           a == r.containing
<1>1. /\ e.ty = t /\ e.chunk = p.chunk
      /\ e.array => /\ a # None /\ IsArray(a)
                    /\ e.lo = r.sum - r.pos /\ e.hi = r.sum - r.pos + SizeOf[a]
  BY RangeFacts
<1>2. s \in Spot /\ s.ty = PreciseType(chunk[p.chunk])
  BY KnownFacts
<1>3. r.sum \in Nat /\ r.containing \in Type \union {None}
  <2> HIDE DEF s
  <2> QED BY <1>2, FindRange
<1>4. ASSUME e.array
      PROVE r.pos = 0 /\ Of[a] = t /\ a \in TypesAt(SpotOf(s.ty, r.sum))
  <2>1. r.found /\ a # None /\ IsArray(a)
    BY <1>1, <1>4
  <2> HIDE DEF s, e
  <2> QED BY <1>2, <2>1, FindArray
<1> HIDE DEF s, r, e
<1>5. ASSUME e.array
      PROVE /\ e.lo = r.sum /\ e.hi = r.sum + SizeOf[a] /\ SizeOf[a] \in Nat
  BY <1>1, <1>3, <1>4, <1>5, SizeFacts
<1>6. ASSUME e.array, NEW o \in Offset, e.lo <= o, o < e.hi
      PROVE o - e.lo < SizeOf[a]
  BY <1>3, <1>5, <1>6, SizeFacts DEF Offset
<1>7. Real(e, chunk)
  <2> SUFFICES ASSUME e.array
               PROVE \E x \in TypesAt(SpotOf(PreciseType(chunk[e.chunk]), e.lo)) :
                       /\ IsArray(x) /\ Of[x] = e.ty
                       /\ \A o \in Offset : e.lo <= o /\ o < e.hi => o - e.lo < SizeOf[x]
    BY DEF Real
  <2>1. a \in TypesAt(SpotOf(PreciseType(chunk[e.chunk]), e.lo)) /\ IsArray(a) /\ Of[a] = e.ty
    BY <1>1, <1>2, <1>4, <1>5
  <2>2. \A o \in Offset : e.lo <= o /\ o < e.hi => o - e.lo < SizeOf[a]
    BY <1>6
  <2> QED BY <2>1, <2>2
<1> QED BY <1>7 DEF e, r, s

\* Lazy typing: the elements of the chunk are abstract and have no parts, so the
\* array entries that it had are for an abstract type, and the search has left
\* the whole chunk as its range.
LEMMA LazyReal ==
  ASSUME Good(chunk), NEW p \in Ptr, ~Unknown(p), NEW t \in Asked,
         LazilyTyped(p.chunk, PreciseType(chunk[p.chunk])), ~TooSmall(chunk[p.chunk], t),
         ~find_matching_subobject(t, At(chunk, p)).found,
         chunk' = [Precisified(chunk, p.chunk) EXCEPT
                     ![p.chunk] = SetType(@, ArrayType(t, chunk[p.chunk].size \div SizeOf[t]))]
  PROVE  /\ \A e \in Entry : Real(e, chunk) => Real(e, chunk')
         /\ p.chunk \in Cacheable =>
              Real(RangeOf(p, t, find_matching_subobject(t, At(chunk, p))), chunk')
<1> DEFINE c == p.chunk
           k == chunk[c]
           b == PreciseType(k)
           s == At(chunk, p)
           r == find_matching_subobject(t, s)
           e == RangeOf(p, t, r)
           z == SizeOf[t]
           n == k.size \div z
           new == ArrayType(t, n)
<1>1. c \in Chunk /\ s \in Spot /\ s.ty = b /\ t \in Type
  BY KnownFacts, AskedFacts
<1>2. /\ Good(chunk') /\ chunk'[c].ty = new /\ chunk'[c].size = k.size
      /\ chunk'[c].special = k.special
      /\ \A x \in Chunk \ {c} : chunk'[x] = Precisified(chunk, c)[x]
      /\ z <= k.size /\ IsMade(t, n)
  BY <1>1, LazyGood
<1>3. \A x \in Chunk \ {c} :
        /\ PreciseType(chunk'[x]) = PreciseType(chunk[x]) /\ chunk'[x].size = chunk[x].size
        /\ chunk'[x].special = chunk[x].special
  <2>1. SamePrecise(chunk, Precisified(chunk, c))
    BY <1>1, PrecisifiedGood
  <2> QED BY <1>2, <2>1 DEF SamePrecise
<1>4. b \in Type /\ IsArray(b) /\ MakePrecise[Of[b]] /\ Of[b] \in Type /\ Parts(Of[b]) = {}
  <2>1. b \in Type /\ IsArray(b) /\ MakePrecise[Of[b]]
    BY <1>1, PreciseFacts DEF LazilyTyped
  <2> HIDE DEF b
  <2> QED BY <2>1, TypesAssumption, LayoutAssumption
<1>5. ~IsArray(Of[b]) /\ \A x \in Spot : x.ty = Of[b] => Leaf(x)
  <2>1. ~IsArray(Of[b]) /\ Members(Of[b]) = {}
    BY <1>4 DEF Parts
  <2> QED BY <2>1 DEF Leaf, Inside
<1>6. ASSUME NEW x \in Entry, Real(x, chunk)
      PROVE Real(x, chunk')
  <2>1. x.chunk \in Chunk /\ x.ty \in Type /\ x.lo \in Offset
    BY EntryFacts
  <2>2. CASE x.chunk # c
    BY <1>3, <1>6, <2>1, <2>2, RealKept
  <2>3. CASE x.chunk = c
    <3> SUFFICES ASSUME x.array, ~chunk'[c].special, ~MakePrecise[x.ty]
                 PROVE FALSE
      BY <2>3 DEF Real
    <3>1. ~chunk[c].special
      BY <1>2
    <3> DEFINE y == SpotOf(b, x.lo)
    <3>2. PICK a \in TypesAt(y) : IsArray(a) /\ Of[a] = x.ty
      BY <1>6, <2>3, <3>1 DEF Real
    <3>3. y \in Spot /\ y.ty = b
      BY <1>4, <2>1 DEF SpotOf, Spot
    <3>4. a # b
      BY <1>4, <3>2
    <3> HIDE DEF y
    <3>5. ~Leaf(y) /\ a \in TypesAt(Inner(y))
      BY <3>2, <3>3, <3>4, TypesAtDef
    <3>6. Inner(y) \in Spot /\ Inner(y).ty = Of[b]
      BY <1>4, <3>3, <3>5, InnerFacts
    <3>7. a = Of[b]
      BY <1>5, <3>5, <3>6, TypesAtDef, SMTT(30)
    <3> QED BY <1>5, <3>2, <3>7
  <2> QED BY <2>2, <2>3
<1>7. ASSUME c \in Cacheable
      PROVE Real(e, chunk')
  <2> SUFFICES ASSUME e.array
               PROVE Real(e, chunk')
    BY DEF Real
  <2>1. /\ e.ty = t /\ e.chunk = c /\ e.period = z /\ r.containing # None
        /\ e.lo = r.sum - r.pos
    BY <1>1, <1>7, RangeFacts
  <2>2. r.sum = 0 /\ r.pos = 0
    <3> HIDE DEF s, e, b, c
    <3>1. r = IF Here(t, s).found \/ Leaf(s) THEN Here(t, s)
              ELSE FindUp(s, find_matching_subobject(t, Inner(s)))
      BY <1>1, FindDef
    <3>2. Here(t, s).containing = None
      BY DEF Here
    <3>3. ~Leaf(s) /\ r = FindUp(s, find_matching_subobject(t, Inner(s)))
      BY <2>1, <3>1, <3>2
    <3>4. Inner(s) \in Spot /\ Inner(s).ty = Of[b]
      BY <1>1, <1>4, <3>3, InnerFacts
    <3>5. find_matching_subobject(t, Inner(s)) = Here(t, Inner(s))
      BY <1>1, <1>5, <3>4, FindDef
    <3>6. PosOff(s) = 0
      BY <1>1, <1>4 DEF PosOff
    <3>7. r = FindUp(s, Here(t, Inner(s)))
      BY <3>3, <3>5
    <3> HIDE DEF r
    <3> QED BY <3>6, <3>7 DEF FindUp, Here
  <2> DEFINE y == SpotOf(new, 0)
  <2>3. z \in Nat /\ z > 0 /\ k.size \in Nat /\ k.size <= MaxOff + 1 /\ MaxOff \in Nat
    BY <1>1, SizeFacts DEF Good, ChunkState
  <2>4. /\ new \in Type /\ IsArray(new) /\ Of[new] = t /\ LenOf[new] = n
    BY <1>1, <1>2, ArrayTypeFacts
  <2>5. n \in Nat /\ n > 0 /\ n * z <= k.size /\ k.size < n * z + z
    <3>1. z <= k.size
      BY <1>2
    <3> HIDE DEF z, k
    <3> QED BY ONLY <2>3, <3>1 DEF n
  <2>6. ~MakePrecise[new] /\ SizeOf[new] = n * z
    <3> HIDE DEF new, n, z
    <3>1. /\ ~MakePrecise[new] /\ SizeOf[new] <= n * z
          /\ SizeOf[new] \in {n * z, MaxOff + 1}
      BY <2>4, <2>5, LayoutAssumption DEF z
    <3>2. n * z \in Nat
      BY <2>3, <2>5
    <3> QED BY <2>3, <2>5, <3>1, <3>2
  <2>7. PreciseType(chunk'[c]) = new
    BY <1>2, <2>6, PreciseOfPrecise
  <2>8. y \in Spot /\ y.ty = new /\ y.off = 0
    <3> HIDE DEF new
    <3> QED BY <2>3, <2>4 DEF SpotOf, Spot, Offset
  <2>9. new \in TypesAt(SpotOf(PreciseType(chunk'[c]), e.lo))
    <3>1. e.lo = 0
      BY <2>1, <2>2
    <3>2. new \in TypesAt(y)
      <4> HIDE DEF y
      <4> QED BY <2>8, TypesAtDef
    <3> QED BY <2>7, <3>1, <3>2
  <2>10. ASSUME NEW o \in Offset, (o - e.lo) % e.period = 0, o + z <= k.size
         PROVE o - e.lo < SizeOf[new]
    <3>1. o \in Nat /\ o % z = 0 /\ o - e.lo = o
      <4>1. e.lo = 0 /\ o \in Nat
        BY <2>1, <2>2, <2>3 DEF Offset
      <4>2. o - e.lo = o
        BY ONLY <4>1
      <4> QED BY <2>1, <2>10, <4>1, <4>2
    <3> HIDE DEF z, k, n
    <3>2. PICK q \in Nat : o = z * q
      <4>1. o \div z \in Nat /\ o = z * (o \div z) + (o % z)
        BY ONLY <2>3, <3>1
      <4>2. z * (o \div z) \in Nat
        BY ONLY <2>3, <4>1
      <4> QED BY <3>1, <4>1, <4>2
    <3>3. z * q + z < n * z + z
      <4>1. z * q \in Nat /\ n * z \in Nat
        BY <2>3, <2>5, <3>2
      <4> QED BY ONLY <2>3, <2>5, <2>10, <3>2, <4>1
    <3> QED BY <2>3, <2>5, <2>6, <3>1, <3>2, <3>3
  <2> HIDE DEF new, e
  <2> QED BY <1>2, <2>1, <2>4, <2>9, <2>10 DEF Real
<1> QED BY <1>6, <1>7

\* A check of __is_a leaves the cache true.
LEMMA IsACache ==
  ASSUME Good(chunk), CacheOK, NEW p \in Ptr, NEW t \in Asked, IsAU(p, t)
  PROVE  CacheOK'
<1> DEFINE c == p.chunk
           k == chunk[c]
           b == PreciseType(k)
           r == find_matching_subobject(t, SpotOf(b, p.off))
           first == [chunk |-> c, ty |-> t, period |-> Short(SizeOf[t]), array |-> FALSE,
                     lo |-> 0, hi |-> SizeOf[t]]
<1>1. t \in Type
  BY AskedFacts
<1>2. CASE UNCHANGED <<chunk, cache>>
  BY <1>2, CacheKept, KeptIfSame
<1>3. ASSUME ~Unknown(p)
      PROVE /\ c \in Chunk /\ SpotOf(b, p.off) = At(chunk, p)
            /\ chunk' = Precisified(chunk, c) => Kept
  <2>1. c \in Chunk /\ SpotOf(b, p.off) = At(chunk, p)
    BY <1>3, KnownFacts DEF At
  <2>2. ASSUME chunk' = Precisified(chunk, c)
        PROVE Kept
    <3>1. Good(chunk') /\ SamePrecise(chunk, chunk')
      BY <2>1, <2>2, PrecisifiedGood
    <3> QED BY <3>1, KeptIfPrecise
  <2> QED BY <2>1, <2>2
<1>4. CASE ~Unknown(p) /\ Cached(c, first) /\ UNCHANGED chunk
  <2>1. ASSUME c \in Cacheable
        PROVE first \in Entry /\ (first.array => first.period = SizeOf[first.ty]) /\ Real(first, chunk')
    <3>1. SizeOf[t] \in 1 .. MaxOff + 1 /\ SizeOf[t] \in Nat /\ 0 \in Offset
      BY <1>1, SizeFacts DEF Offset
    <3>s. Short(SizeOf[t]) \in 0 .. MaxOff + 1
      BY <3>1, ShortFacts, SizeFacts
    <3>2. first \in Entry
      BY <1>1, <2>1, <3>1, <3>s DEF Entry
    <3> QED BY <3>2 DEF Real
  <2>2. \A x \in cache : Real(x, chunk')
    BY <1>4 DEF CacheOK
  <2>3. Cached(c, first)
    BY <1>4
  <2> HIDE DEF first, c
  <2> QED BY <2>1, <2>2, <2>3, CacheGrown
<1>5. CASE ~Unknown(p) /\ r.found /\ Cached(c, RangeOf(p, t, r)) /\ chunk' = Precisified(chunk, c)
  <2> DEFINE e == RangeOf(p, t, r)
  <2>1. Kept /\ r = find_matching_subobject(t, At(chunk, p)) /\ Cached(c, e)
    BY <1>3, <1>5
  <2>2. \A x \in Entry : Real(x, chunk) => Real(x, chunk')
    BY <2>1, RealKept, EntryFacts DEF Kept, SamePrecise
  <2>3. ASSUME c \in Cacheable
        PROVE e \in Entry /\ (e.array => e.period = SizeOf[e.ty]) /\ Real(e, chunk')
    <3>1. e \in Entry /\ (e.array => e.period = SizeOf[e.ty])
      BY <1>1, <1>5, <2>1, <2>3, RangeFacts
    <3>2. Real(e, chunk)
      BY <1>1, <1>5, <2>1, <2>3, FoundReal
    <3> QED BY <2>2, <3>1, <3>2
  <2>4. \A x \in cache : Real(x, chunk')
    BY <2>2 DEF CacheOK
  <2> HIDE DEF e, c
  <2> QED BY <2>1, <2>3, <2>4, CacheGrown
<1>6. CASE /\ ~Unknown(p) /\ ~TooSmall(k, t) /\ ~r.found /\ LazilyTyped(c, b)
           /\ chunk' = [Precisified(chunk, c) EXCEPT
                          ![c] = SetType(@, ArrayType(t, k.size \div SizeOf[t]))]
           /\ Cached(c, RangeOf(p, t, r))
  <2> DEFINE e == RangeOf(p, t, r)
  <2>1. r = find_matching_subobject(t, At(chunk, p)) /\ Cached(c, e)
    BY <1>3, <1>6
  <2>2. /\ \A x \in Entry : Real(x, chunk) => Real(x, chunk')
        /\ c \in Cacheable => Real(e, chunk')
    BY <1>6, <2>1, LazyReal
  <2>3. ASSUME c \in Cacheable
        PROVE e \in Entry /\ (e.array => e.period = SizeOf[e.ty]) /\ Real(e, chunk')
    BY <1>1, <1>6, <2>1, <2>2, <2>3, RangeFacts
  <2>4. \A x \in cache : Real(x, chunk')
    BY <2>2 DEF CacheOK
  <2> HIDE DEF e, c
  <2> QED BY <2>1, <2>3, <2>4, CacheGrown
<1>7. CASE ~Unknown(p) /\ chunk' = Precisified(chunk, c) /\ UNCHANGED cache
  BY <1>3, <1>7, CacheKept
<1>8. CASE IsACached(p, t)
  BY <1>2, <1>8 DEF IsACached
<1>9. CASE IsAInternal(p, t)
  <2> HIDE DEF r, b, k, c, first
  <2> QED BY <1>2, <1>4, <1>5, <1>6, <1>7, <1>9 DEF IsAInternal, r, b, k, c, first
<1> QED BY <1>8, <1>9 DEF IsAU

\* Every other step leaves the cache alone, and each chunk's precise type unless
\* it specialises the chunk.
LEMMA CacheStep ==
  ASSUME IInv, CacheOK, [Next]_vars
  PROVE  CacheOK'
<1>1. Good(chunk) /\ CallKnown
  BY DEF IInv
<1>2. ASSUME Kept \/ SpecialisedStep, cache' = cache
      PROVE CacheOK'
  BY <1>1, <1>2, CacheKept
<1>3. CASE IsA
  BY <1>1, <1>3, IsACache DEF IsA, Asked
<1>4. CASE LikeA \/ LooselyLikeA \/ NamedA
  <2>1. cache' = cache
    BY <1>4 DEF LikeA, LooselyLikeA, NamedA
  <2> QED BY <1>1, <1>2, <1>4, <2>1, LikeStep
<1>5. CASE IsAFunctionRefining
  <2>1. cache' = cache
    BY <1>5 DEF IsAFunctionRefining
  <2> QED BY <1>1, <1>2, <1>5, <2>1, RefiningStep
<1>6. CASE IsAPointerOfDegree
  <2>1. cache' = cache
    BY <1>6 DEF IsAPointerOfDegree
  <2> QED BY <1>1, <1>2, <1>6, <2>1, DegreeStep
<1>7. CASE CanHoldPointer
  <2>1. cache' = cache
    BY <1>7 DEF CanHoldPointer
  <2> QED BY <1>1, <1>2, <1>7, <2>1, CanHoldStep
<1>8. CASE BadTypename \/ CheckArgs \/ CheckArgsDone \/ SwitchMode \/ UNCHANGED vars
  <2>1. chunk' = chunk /\ cache' = cache
    BY <1>8 DEF BadTypename, CheckArgs, CheckArgsDone, SwitchMode, vars
  <2> QED BY <1>1, <1>2, <2>1, KeptIfSame
<1>9. CASE CheckArg
  <2> DEFINE expected == ArgOf(Callee, call.i + 1)
  <2>1. call # None /\ MoreArgs
    BY <1>9 DEF CheckArg
  <2>2. IsPointer(expected) => Of[expected] \in Asked
    BY <1>1, <2>1, ExpectedFacts
  <2>3. CASE IsPointer(expected) /\ \E q \in Ptr : IsAU(q, Of[expected])
    <3> HIDE DEF expected
    <3> QED BY <1>1, <2>2, <2>3, IsACache
  <2>4. CASE chunk' = chunk /\ cache' = cache
    BY <1>1, <1>2, <2>4, KeptIfSame
  <2> HIDE DEF expected
  <2> QED BY <1>9, <2>3, <2>4 DEF CheckArg, expected
<1> QED BY <1>3, <1>4, <1>5, <1>6, <1>7, <1>8, <1>9 DEF Next

LEMMA CacheInvariant == Spec => []CacheOK
<1>1. Init => CacheOK
  <2>1. ASSUME Init PROVE cache = {}
    BY <2>1 DEF Init
  <2>2. Cardinality({}) <= CacheSize
    BY FS_EmptySet, ChunkAssumption
  <2> QED BY <2>1, <2>2 DEF CacheOK
<1>2. IInv /\ CacheOK /\ [Next]_vars => CacheOK'
  BY CacheStep
<1> QED BY <1>1, <1>2, Invariant, PTL DEF Spec

\* What the cache says of an array holds for every element that the chunk has
\* room for, whatever was retyped by length or lazily meanwhile; a chunk that a
\* store has specialised is the exception.
THEOREM EntriesCorrect == Spec => []ArrayEntriesTrue
<1>1. IInv /\ CacheOK => ArrayEntriesTrue
  BY EntriesAreTrue DEF IInv
<1> QED BY <1>1, Invariant, CacheInvariant, PTL

-----------------------------------------------------------------------------
(* The type invariant *)

\* What a step does to the rest of the state.
Rest ==
  /\ mode \in Mode /\ alive \in BOOLEAN /\ checks \in Nat
  /\ cnt \in [Counter -> Nat]
  /\ last.check \in Check /\ last.verdict \in Verdict

LEMMA EndsRest ==
  ASSUME Rest, NEW check \in Check, NEW p, NEW arg,
         \/ Passes(check, p, arg) \/ Fails(check, p, arg) \/ Aborts(check, p, arg)
         \/ \E v \in Verdict : Ends(check, p, arg, v)
  PROVE  mode' \in Mode /\ alive' \in BOOLEAN /\ checks' \in Nat
         /\ last'.check \in Check /\ last'.verdict \in Verdict
<1>1. PICK v \in Verdict : Ends(check, p, arg, v)
  BY DEF Passes, Fails, Aborts, Verdict
<1> QED BY <1>1 DEF Ends, Rest

LEMMA RestStep ==
  ASSUME Rest, [Next]_vars
  PROVE  Rest'
<1> DEFINE R == mode' \in Mode /\ alive' \in BOOLEAN /\ checks' \in Nat
                /\ last'.check \in Check /\ last'.verdict \in Verdict
<1>1. cnt' \in [Counter -> Nat]
  <2>1. CASE cnt' = cnt
    BY <2>1 DEF Rest
  <2>2. ASSUME NEW ks \in Ways, Bump(ks)
        PROVE cnt' \in [Counter -> Nat]
    BY <2>2 DEF Bump, Rest
  <2> QED BY <2>1, <2>2, StepCounted DEF Counts
<1> SUFFICES R
  BY <1>1 DEF Rest
<1>2. CASE UNCHANGED <<mode, alive, checks, last>>
  BY <1>2 DEF Rest
<1>3. ASSUME NEW check \in Check, NEW p, NEW arg,
             \/ Passes(check, p, arg) \/ Fails(check, p, arg) \/ Aborts(check, p, arg)
             \/ \E v \in Verdict : Ends(check, p, arg, v)
      PROVE R
  BY <1>3, EndsRest
<1>4. CASE last' = NoCheck /\ checks' = checks + 1 /\ mode' = mode /\ alive' \in BOOLEAN
  BY <1>4 DEF Rest, NoCheck, Check, Verdict
<1>5. ASSUME NEW p, NEW t, IsAU(p, t)
      PROVE R
  <2>1. \/ Passes("is_a", p, t) \/ Fails("is_a", p, t) \/ Aborts("is_a", p, t)
        \/ Ends("is_a", p, t, "hit") \/ Ends("is_a", p, t, "lazy")
    BY <1>5, Zenon DEF IsAU, IsACached, IsAInternal
  <2>2. "is_a" \in Check /\ "hit" \in Verdict /\ "lazy" \in Verdict
    BY DEF Check, Verdict
  <2> HIDE DEF R
  <2> QED BY <1>3, <2>1, <2>2
<1>6. ASSUME NEW check \in Check, NEW p, NEW arg, NEW ok, Decided(check, p, arg, ok)
      PROVE R
  <2> HIDE DEF R
  <2> QED BY <1>3, <1>6 DEF Decided
<1>7. CASE IsA
  <2> HIDE DEF R
  <2> QED BY <1>5, <1>7 DEF IsA
<1>8. CASE LikeA \/ LooselyLikeA \/ NamedA \/ IsAFunctionRefining
  <2>1. {"like_a", "loosely_like_a", "named_a", "refining"} \subseteq Check
    BY DEF Check
  <2> HIDE DEF R
  <2>2. PICK check \in {"like_a", "loosely_like_a", "named_a", "refining"} :
          \E p \in Ptr : \E arg, ok : Decided(check, p, arg, ok)
    BY <1>8, Zenon DEF LikeA, LooselyLikeA, NamedA, IsAFunctionRefining
  <2> QED BY <1>6, <2>1, <2>2
<1>9. CASE IsAPointerOfDegree
  <2>1. PICK p \in Ptr, d \in 1 .. MaxDegree :
          Aborts("degree", p, d) \/ Passes("degree", p, d) \/ Ends("degree", p, d, "fail")
    BY <1>9, Zenon DEF IsAPointerOfDegree
  <2>2. "degree" \in Check /\ "fail" \in Verdict
    BY DEF Check, Verdict
  <2> HIDE DEF R
  <2> QED BY <1>3, <2>1, <2>2
<1>10. CASE CanHoldPointer
  <2>1. PICK p \in Ptr, v \in Ptr :
          \/ Aborts("can_hold", p, v) \/ Passes("can_hold", p, v) \/ Fails("can_hold", p, v)
          \/ Ends("can_hold", p, v, "specialised")
          \/ alive' = FALSE /\ last' = NoCheck /\ checks' = checks + 1 /\ UNCHANGED mode
    BY <1>10, SMT DEF CanHoldPointer
  <2>2. "can_hold" \in Check /\ "specialised" \in Verdict
    BY DEF Check, Verdict
  <2>3. CASE alive' = FALSE /\ last' = NoCheck /\ checks' = checks + 1 /\ UNCHANGED mode
    <3>1. alive' \in BOOLEAN /\ mode' = mode
      BY <2>3
    <3> HIDE DEF R
    <3> QED BY <1>4, <2>3, <3>1
  <2> HIDE DEF R
  <2> QED BY <1>3, <2>1, <2>2, <2>3
<1>11. CASE CheckArgs
  <2>1. PICK p \in Ptr, n \in 0 .. MaxArgs :
          \/ Ends("args", p, n, "abort")
          \/ checks' = checks + 1 /\ UNCHANGED <<mode, alive, last>>
          \/ alive' = FALSE /\ checks' = checks + 1 /\ UNCHANGED <<mode, last>>
    BY <1>11 DEF CheckArgs
  <2>2. "args" \in Check /\ "abort" \in Verdict
    BY DEF Check, Verdict
  <2>3. CASE Ends("args", p, n, "abort")
    <3> HIDE DEF R
    <3> QED BY <1>3, <2>2, <2>3
  <2>4. CASE checks' = checks + 1 /\ UNCHANGED <<mode, last>>
             /\ (alive' = alive \/ alive' = FALSE)
    <3>1. alive' \in BOOLEAN
      BY <2>4, Zenon DEF Rest
    <3> QED BY <2>4, <3>1 DEF Rest
  <2> QED BY <2>1, <2>3, <2>4
<1>12. CASE CheckArg
  <2>1. (\E q \in Ptr : IsAU(q, Of[ArgOf(Callee, call.i + 1)]))
        \/ UNCHANGED <<mode, alive, checks, last>>
    BY <1>12, Zenon DEF CheckArg
  <2> QED BY <1>2, <1>5, <2>1 DEF Rest
<1>13. CASE CheckArgsDone
  BY <1>13 DEF CheckArgsDone, Rest, Check, Verdict
<1>14. CASE BadTypename \/ SwitchMode \/ UNCHANGED vars
  <2>1. CASE BadTypename
    BY <1>4, <2>1 DEF BadTypename, Rest
  <2>2. CASE SwitchMode
    BY <2>2 DEF SwitchMode, Rest
  <2> QED BY <1>2, <1>14, <2>1, <2>2 DEF vars, Rest
<1> HIDE DEF R
<1> QED BY <1>7, <1>8, <1>9, <1>10, <1>11, <1>12, <1>13, <1>14 DEF Next

\* Types of the variables; the cache never holds more entries than its size.
THEOREM TypeCorrect == Spec => []TypeOK
<1>1. Init => Rest
  BY DEF Init, Rest, NoCheck, Check, Verdict, Mode, Counter
<1>2. Rest /\ [Next]_vars => Rest'
  BY RestStep
<1>3. IInv /\ CacheOK /\ Rest => TypeOK
  BY DEF IInv, Good, ChunkState, CallKnown, CacheOK, Rest, TypeOK
<1> QED BY <1>1, <1>2, <1>3, Invariant, CacheInvariant, PTL DEF Spec

-----------------------------------------------------------------------------
(* Likeness checks *)

\* A pass at p of one of the three structural checks for t can be relied on.
LikePass(t, s) ==
  Kind[t] = "composite" =>
    \E u \in TypesAt(s) :
      u = t \/ \A m \in Members(t) : CharArray(m.ty) \/ m \in Members(u)

LoosePass(t, s) ==
  /\ GenericDegree(t) > 0 => \E u \in TypesAt(s) : Degree[u] >= GenericDegree(t)
  /\ Kind[t] = "composite" =>
       \E u \in TypesAt(s) :
         \/ u = t
         \/ \A m \in Members(t) :
              \/ CharArray(m.ty)
              \/ \E n \in Members(u) :
                   /\ n.off = m.off
                   /\ \/ n.ty = m.ty \/ n.ty = Complement[m.ty]
                      \/ GenericDegree(m.ty) \in 1 .. Degree[n.ty]

LEMMA NamedRight ==
  ASSUME NEW t, NEW s, Named(t, s)
  PROVE  t \in TypesAt(s)
BY DEF Named, TypesAt

LEMMA LikenessStep ==
  ASSUME IInv, LikenessIsSound, [Next]_vars
  PROVE  LikenessIsSound'
<1> DEFINE of(check) == last'.check = check /\ last'.verdict = "pass"
           s == At(chunk', last'.p)
<1>0. Good(chunk) /\ CallKnown
  BY DEF IInv
<1> SUFFICES /\ of("like_a") => LikePass(last'.arg, s)
             /\ of("loosely_like_a") => LoosePass(last'.arg, s)
             /\ of("named_a") => last'.arg \in TypesAt(s)
  <2>1. /\ Was("like_a", {"pass"})' <=> of("like_a")
        /\ Was("loosely_like_a", {"pass"})' <=> of("loosely_like_a")
        /\ Was("named_a", {"pass"})' <=> of("named_a")
    BY DEF Was
  <2>2. LastSpot' = s
    BY DEF LastSpot
  <2> HIDE DEF s, of
  <2>3. LikeIsSound' <=> (Was("like_a", {"pass"})' => LikePass(last'.arg, LastSpot'))
    BY Zenon DEF LikeIsSound, LikePass
  <2>4. LooseIsSound' <=> (Was("loosely_like_a", {"pass"})' => LoosePass(last'.arg, LastSpot'))
    BY Zenon DEF LooseIsSound, LoosePass
  <2>5. NamedIsSound' <=> (Was("named_a", {"pass"})' => last'.arg \in TypesAt(LastSpot'))
    BY Zenon DEF NamedIsSound
  <2> QED BY <2>1, <2>2, <2>3, <2>4, <2>5 DEF LikenessIsSound
<1>1. ASSUME last'.check \notin {"like_a", "loosely_like_a", "named_a"}
      PROVE ~of("like_a") /\ ~of("loosely_like_a") /\ ~of("named_a")
  BY <1>1
<1>2. CASE last' = last /\ chunk' = chunk
  <2>1. LastSpot = s
    BY <1>2 DEF LastSpot
  <2>2. \A c : Was(c, {"pass"}) <=> of(c)
    BY <1>2 DEF Was
  <2> HIDE DEF s, of
  <2>3. of("like_a") => LikePass(last'.arg, s)
    BY <1>2, <2>1, <2>2, Zenon DEF LikenessIsSound, LikeIsSound, LikePass
  <2>4. of("loosely_like_a") => LoosePass(last'.arg, s)
    BY <1>2, <2>1, <2>2, Zenon DEF LikenessIsSound, LooseIsSound, LoosePass
  <2>5. of("named_a") => last'.arg \in TypesAt(s)
    BY <1>2, <2>1, <2>2, Zenon DEF LikenessIsSound, NamedIsSound
  <2> QED BY <2>3, <2>4, <2>5
<1>3. ASSUME NEW check, NEW p \in Ptr, NEW t \in TestType, NEW ok,
             Decided(check, p, t, ok), of(check), Kept
      PROVE /\ ok /\ last'.arg = t /\ t \in Type
            /\ At(chunk, p) \in Spot /\ s = At(chunk, p)
  <2>1. last'.p = p /\ last'.arg = t /\ ok /\ ~Unknown(p)
    BY <1>3, DecidedFacts
  <2>2. p.chunk \in Chunk /\ At(chunk, p) \in Spot /\ t \in Type
    BY <1>0, <2>1, KnownFacts, ChunkAssumption
  <2>3. At(chunk', p) = At(chunk, p)
    BY <1>3, <2>2, AtSame DEF Kept
  <2> QED BY <2>1, <2>2, <2>3
<1>4. CASE LikeA
  <2>1. PICK p \in Ptr, t \in TestType : Decided("like_a", p, t, like_a(t, At(chunk, p)))
    BY <1>4 DEF LikeA
  <2>2. last'.check = "like_a" /\ Kept
    BY <1>0, <1>4, <2>1, DecidedFacts, LikeStep
  <2>3. ASSUME of("like_a")
        PROVE LikePass(last'.arg, s)
    <3>1. /\ like_a(t, At(chunk, p)) /\ last'.arg = t /\ t \in Type
          /\ At(chunk, p) \in Spot /\ s = At(chunk, p)
      <4> HIDE DEF s, of
      <4> QED BY <1>3, <2>1, <2>2, <2>3
    <3> HIDE DEF s
    <3> QED BY <3>1, LikeRight DEF LikePass
  <2> QED BY <2>2, <2>3
<1>5. CASE LooselyLikeA
  <2>1. PICK p \in Ptr, t \in TestType :
          Decided("loosely_like_a", p, t, loosely_like_a(t, At(chunk, p)))
    BY <1>5 DEF LooselyLikeA
  <2>2. last'.check = "loosely_like_a" /\ Kept
    BY <1>0, <1>5, <2>1, DecidedFacts, LikeStep
  <2>3. ASSUME of("loosely_like_a")
        PROVE LoosePass(last'.arg, s)
    <3>1. /\ loosely_like_a(t, At(chunk, p)) /\ last'.arg = t /\ t \in Type
          /\ At(chunk, p) \in Spot /\ s = At(chunk, p)
      <4> HIDE DEF s, of
      <4> QED BY <1>3, <2>1, <2>2, <2>3
    <3> HIDE DEF s
    <3>2. GenericDegree(t) > 0 => \E u \in TypesAt(s) : Degree[u] >= GenericDegree(t)
      BY <3>1, LoosePointer
    <3> QED BY <3>1, <3>2, LooseComposite DEF LoosePass
  <2> QED BY <2>2, <2>3
<1>6. CASE NamedA
  <2>1. PICK p \in Ptr, t \in TestType : Decided("named_a", p, t, Named(t, At(chunk, p)))
    BY <1>6 DEF NamedA
  <2>2. last'.check = "named_a" /\ Kept
    BY <1>0, <1>6, <2>1, DecidedFacts, LikeStep
  <2>3. ASSUME of("named_a")
        PROVE last'.arg \in TypesAt(s)
    <3>1. Named(t, At(chunk, p)) /\ last'.arg = t /\ s = At(chunk, p)
      <4> HIDE DEF s, of
      <4> QED BY <1>3, <2>1, <2>2, <2>3
    <3> HIDE DEF s
    <3> QED BY <3>1, NamedRight
  <2> QED BY <2>2, <2>3
<1>7. ASSUME NEW p \in Ptr, NEW t, IsAU(p, t)
      PROVE last'.check = "is_a"
  <2>1. \/ Passes("is_a", p, t) \/ Fails("is_a", p, t) \/ Aborts("is_a", p, t)
        \/ Ends("is_a", p, t, "hit") \/ Ends("is_a", p, t, "lazy")
    BY <1>7, Zenon DEF IsAU, IsACached, IsAInternal
  <2> QED BY <2>1 DEF Passes, Fails, Aborts, Ends
<1>8. CASE IsA
  <2>1. last'.check = "is_a"
    BY <1>7, <1>8 DEF IsA
  <2> QED BY <2>1
<1>9. CASE IsAFunctionRefining
  <2>1. \E p \in Ptr, t \in FunType : \E ok : Decided("refining", p, t, ok)
    BY <1>9, Zenon DEF IsAFunctionRefining
  <2>2. last'.check = "refining"
    BY <2>1, DecidedFacts
  <2> QED BY <2>2
<1>10. CASE IsAPointerOfDegree
  <2>1. PICK p \in Ptr, d \in 1 .. MaxDegree :
          Aborts("degree", p, d) \/ Passes("degree", p, d) \/ Ends("degree", p, d, "fail")
    BY <1>10, Zenon DEF IsAPointerOfDegree
  <2>2. last'.check = "degree"
    BY <2>1 DEF Aborts, Passes, Ends
  <2> QED BY <2>2
<1>11. CASE CanHoldPointer
  <2>1. PICK p \in Ptr, v \in Ptr :
          \/ Aborts("can_hold", p, v) \/ Passes("can_hold", p, v) \/ Fails("can_hold", p, v)
          \/ Ends("can_hold", p, v, "specialised") \/ last' = NoCheck
    BY <1>11, SMT DEF CanHoldPointer
  <2>2. last'.check \in {"can_hold", "none"}
    BY <2>1 DEF Aborts, Passes, Fails, Ends, NoCheck
  <2> QED BY <2>2
<1>12. CASE CheckArgs
  <2>1. (\E p \in Ptr, n \in 0 .. MaxArgs : Ends("args", p, n, "abort"))
        \/ (last' = last /\ chunk' = chunk)
    BY <1>12 DEF CheckArgs
  <2>2. CASE \E p \in Ptr, n \in 0 .. MaxArgs : Ends("args", p, n, "abort")
    <3>1. last'.check = "args"
      BY <2>2 DEF Ends
    <3> QED BY <3>1
  <2> HIDE DEF s, of
  <2> QED BY <1>2, <2>1, <2>2
<1>13. CASE CheckArg
  <2>1. (\E q \in Ptr : IsAU(q, Of[ArgOf(Callee, call.i + 1)])) \/ (last' = last /\ chunk' = chunk)
    BY <1>13, Zenon DEF CheckArg
  <2>2. CASE \E q \in Ptr : IsAU(q, Of[ArgOf(Callee, call.i + 1)])
    <3>1. last'.check = "is_a"
      BY <1>7, <2>2
    <3> QED BY <3>1
  <2> HIDE DEF s, of
  <2> QED BY <1>2, <2>1, <2>2
<1>14. CASE CheckArgsDone \/ BadTypename
  <2>1. last'.check \in {"args", "none"}
    BY <1>14 DEF CheckArgsDone, BadTypename, NoCheck
  <2> QED BY <2>1
<1>15. CASE SwitchMode \/ UNCHANGED vars
  <2>1. last' = last /\ chunk' = chunk
    BY <1>15 DEF SwitchMode, vars
  <2> HIDE DEF s, of
  <2> QED BY <1>2, <2>1
<1> HIDE DEF s, of
<1> QED BY <1>4, <1>5, <1>6, <1>8, <1>9, <1>10, <1>11, <1>12, <1>13, <1>14, <1>15 DEF Next

\* A pass of __like_a, __loosely_like_a or __named_a can be relied on: an object
\* of the type named, or one with the members or the pointer asked for, starts
\* at the pointer.
THEOREM LikenessCorrect == Spec => []LikenessIsSound
<1>1. Init => LikenessIsSound
  BY DEF Init, NoCheck, LikenessIsSound, LikeIsSound, LooseIsSound, NamedIsSound, Was
<1>2. IInv /\ LikenessIsSound /\ [Next]_vars => LikenessIsSound'
  BY LikenessStep
<1> QED BY <1>1, <1>2, Invariant, PTL DEF Spec

-----------------------------------------------------------------------------
(***************************************************************************)
(* The fetches: a pointer to an element of an array gets the whole array,   *)
(* no fetch gets more than the array or object around the pointer, and      *)
(* memory that liballocs knows goes unchecked only where pointers to        *)
(* unknown memory have been derived up to there.                            *)
(***************************************************************************)

-----------------------------------------------------------------------------
(* The walk *)

Outcome == [success : BOOLEAN, array : Type \union {None}, start : Int, size : Int]

\* Where the walk stops at s, and what it adds to an outcome from further down.
Missing == [success |-> FALSE, array |-> None, start |-> 0, size |-> 0]
Stop(s) == [success |-> TRUE, array |-> IF IsArray(s.ty) THEN s.ty ELSE None,
            start |-> 0, size |-> SizeOf[Inner(s).ty]]
Moved(s, w) == [w EXCEPT !.start = @ + s.off - Inner(s).off]

LEMMA OutcomeFacts ==
  /\ Missing \in Outcome
  /\ \A s \in Spot : ~Leaf(s) => Stop(s) \in Outcome /\ \A w \in Outcome : Moved(s, w) \in Outcome
<1>1. Missing \in Outcome
  BY DEF Missing, Outcome
<1>2. ASSUME NEW s \in Spot, ~Leaf(s)
      PROVE Stop(s) \in Outcome /\ \A w \in Outcome : Moved(s, w) \in Outcome
  <2>1. Inner(s) \in Spot /\ s.ty \in Type
    BY <1>2, InnerFacts DEF Spot
  <2>2. s.off \in Int /\ Inner(s).off \in Int /\ Inner(s).ty \in Type
    BY <2>1, SizeFacts DEF Spot, Offset
  <2>3. SizeOf[Inner(s).ty] \in Int
    BY <2>2, SizeFacts
  <2>4. Stop(s) \in Outcome
    BY <2>1, <2>3 DEF Stop, Outcome
  <2>5. \A w \in Outcome : Moved(s, w) \in Outcome
    BY <2>2 DEF Moved, Outcome
  <2> QED BY <2>4, <2>5
<1> QED BY <1>1, <1>2

\* The walk goes down until a subobject fits or there is none.
LEMMA WalkToDef ==
  ASSUME NEW n, NEW s \in Spot
  PROVE  WalkTo(s, n) = IF Leaf(s) THEN Missing
                        ELSE IF Fits(Inner(s), n) THEN Stop(s)
                        ELSE Moved(s, WalkTo(Inner(s), n))
<1> DEFINE base == [x \in Spot |-> Missing]
           up == [x \in Spot \X Outcome |->
                    IF Leaf(x[1]) THEN Missing
                    ELSE IF Fits(Inner(x[1]), n) THEN Stop(x[1]) ELSE Moved(x[1], x[2])]
<1>1. base \in [Spot -> Outcome] /\ Outcome # {}
  BY OutcomeFacts
<1>2. up \in [Spot \X Outcome -> Outcome]
  <2>1. ASSUME NEW x \in Spot \X Outcome
        PROVE (IF Leaf(x[1]) THEN Missing
               ELSE IF Fits(Inner(x[1]), n) THEN Stop(x[1]) ELSE Moved(x[1], x[2])) \in Outcome
    <3>1. x[1] \in Spot /\ x[2] \in Outcome
      OBVIOUS
    <3> QED BY <3>1, OutcomeFacts
  <2> QED BY <2>1
<1>3. PICK f \in [Spot -> Outcome] : Climbs(f, base, up)
  <2> HIDE DEF base, up
  <2> QED BY ONLY <1>1, <1>2, SpotRecursion, Zenon
<1> DEFINE val(g, x) == IF Leaf(x) THEN Missing
                        ELSE IF Fits(Inner(x), n) THEN Stop(x) ELSE Moved(x, g[Inner(x)])
<1>4. ASSUME NEW x \in Spot
      PROVE f[x] = val(f, x)
  <2>1. f[x] = IF Leaf(x) THEN base[x] ELSE up[<<x, f[Inner(x)]>>]
    <3> HIDE DEF base, up
    <3> QED BY <1>3 DEF Climbs
  <2>2. CASE Leaf(x)
    BY <2>1, <2>2
  <2>3. CASE ~Leaf(x)
    <3>1. Inner(x) \in Spot
      BY <2>3, InnerFacts
    <3>2. <<x, f[Inner(x)]>> \in Spot \X Outcome
      BY <3>1
    <3>3. up[<<x, f[Inner(x)]>>] = val(f, x)
      BY <2>3, <3>2
    <3> HIDE DEF up, base, val
    <3> QED BY <2>1, <2>3, <3>3
  <2> QED BY <2>2, <2>3
<1> DEFINE To[x \in Spot] ==
      IF Leaf(x) THEN [success |-> FALSE, array |-> None, start |-> 0, size |-> 0]
      ELSE IF Fits(Inner(x), n)
      THEN [success |-> TRUE, array |-> IF IsArray(x.ty) THEN x.ty ELSE None,
            start |-> 0, size |-> SizeOf[Inner(x).ty]]
      ELSE [To[Inner(x)] EXCEPT !.start = @ + x.off - Inner(x).off]
           body(g) == [x \in Spot |-> val(g, x)]
<1>5. f = body(f)
  <2> HIDE DEF base, up, val
  <2> QED BY <1>4
<1>6. To = CHOOSE g : g = body(g)
  BY Zenon DEF Missing, Stop, Moved
<1>7. \A x : WalkTo(x, n) = To[x]
  BY Zenon DEF WalkTo
<1> HIDE DEF To
<1>8. To = body(To)
  <2> HIDE DEF body
  <2> QED BY <1>5, <1>6
<1>9. To[s] = val(To, s)
  <2> HIDE DEF val
  <2> QED BY <1>8
<1> QED BY <1>7, <1>9

\* For a pointee of the size of an array's elements the walk from the array
\* stops at once.
LEMMA WalkToElement ==
  ASSUME NEW b \in Type, IsArray(b), NEW o \in Offset, o < SizeOf[b], o % SizeOf[Of[b]] = 0
  PROVE  LET w == WalkTo(SpotOf(b, o), SizeOf[Of[b]])
         IN w.success /\ w.array = b /\ w.start = 0 /\ w.size = SizeOf[Of[b]]
<1> DEFINE s == SpotOf(b, o)
<1>1. s \in Spot /\ s.ty = b /\ s.off = o
  BY DEF SpotOf, Spot
<1> HIDE DEF s
<1>2. ~Leaf(s) /\ Inner(s) = SpotOf(Of[b], o % SizeOf[Of[b]])
  BY <1>1, InnerArray
<1>3. Inner(s).ty = Of[b] /\ Inner(s).off = 0 /\ Of[b] \in Type
  BY <1>2, TypesAssumption DEF SpotOf
<1>4. Fits(Inner(s), SizeOf[Of[b]])
  BY <1>3, SizeFacts DEF Fits
<1>5. WalkTo(s, SizeOf[Of[b]]) = Stop(s)
  BY <1>1, <1>2, <1>4, WalkToDef
<1> QED BY <1>1, <1>3, <1>5 DEF s, Stop

-----------------------------------------------------------------------------
(* Where the walk ends *)

\* The numbers of a spot and of the one below it.
LEMMA SpotNumbers ==
  ASSUME NEW s \in Spot
  PROVE  /\ s.ty \in Type /\ s.off \in Nat /\ SizeOf[s.ty] \in Nat /\ SizeOf[s.ty] > 0
         /\ MaxOff \in Nat /\ s.off <= MaxOff /\ SpotOf(s.ty, s.off) = s
         /\ ~Leaf(s) => /\ Inner(s) \in Spot /\ Inner(s).ty \in Type
                        /\ Inner(s).off \in Nat /\ SizeOf[Inner(s).ty] \in Nat
                        /\ SizeOf[Inner(s).ty] > 0 /\ SizeOf[Inner(s).ty] <= SizeOf[s.ty]
                        /\ Inner(s).off < SizeOf[Inner(s).ty]
<1>1. /\ s.ty \in Type /\ s.off \in Nat /\ MaxOff \in Nat /\ s.off <= MaxOff
      /\ SpotOf(s.ty, s.off) = s
  BY SizeFacts DEF Spot, Offset, SpotOf
<1>2. SizeOf[s.ty] \in Nat /\ SizeOf[s.ty] > 0
  BY <1>1, SizeFacts
<1>3. ASSUME ~Leaf(s)
      PROVE /\ Inner(s) \in Spot /\ Inner(s).ty \in Type /\ Inner(s).off \in Nat
            /\ SizeOf[Inner(s).ty] <= SizeOf[s.ty] /\ Inner(s).off < SizeOf[Inner(s).ty]
  BY <1>1, <1>3, InnerFacts DEF Spot, Offset
<1>4. ~Leaf(s) => SizeOf[Inner(s).ty] \in Nat /\ SizeOf[Inner(s).ty] > 0
  BY <1>3, SizeFacts
<1> QED BY <1>1, <1>2, <1>3, <1>4

\* An array of bounded size is a whole number of elements.
LEMMA ArraySize ==
  ASSUME NEW t \in Type, IsArray(t), SizeOf[t] <= MaxOff
  PROVE  /\ Of[t] \in Type /\ LenOf[t] \in Nat
         /\ LenOf[t] = 0 => SizeOf[t] = SizeOf[Of[t]]
         /\ LenOf[t] > 0 => SizeOf[t] = LenOf[t] * SizeOf[Of[t]]
         /\ \E k \in Nat : SizeOf[t] = k * SizeOf[Of[t]]
<1>1. Of[t] \in Type /\ LenOf[t] \in Nat
  BY TypesAssumption
<1>2. SizeOf[t] \in Nat /\ SizeOf[Of[t]] \in Nat /\ MaxOff \in Nat
  BY <1>1, SizeFacts
<1>3. SizeOf[t] # MaxOff + 1
  BY <1>2
<1>4. /\ LenOf[t] = 0 => SizeOf[t] = SizeOf[Of[t]]
      /\ LenOf[t] > 0 => SizeOf[t] = LenOf[t] * SizeOf[Of[t]]
  BY <1>3, LayoutAssumption
<1>5. \E k \in Nat : SizeOf[t] = k * SizeOf[Of[t]]
  <2>1. CASE LenOf[t] = 0
    <3>1. SizeOf[t] = 1 * SizeOf[Of[t]]
      BY <1>2, <1>4, <2>1
    <3> QED BY <3>1
  <2>2. CASE LenOf[t] > 0
    BY <1>1, <1>4, <2>2
  <2> QED BY <1>1, <2>1, <2>2
<1> QED BY <1>1, <1>4, <1>5

\* The multiple of z below x and the one above are within any multiple above x.
LEMMA Multiples ==
  ASSUME NEW x \in Nat, NEW z \in Nat, z > 0, NEW k \in Nat, x < k * z
  PROVE  x - (x % z) >= 0 /\ x - (x % z) + z <= k * z
<1> DEFINE q == x \div z
<1>1. q \in Nat /\ x % z \in 0 .. z - 1 /\ x = z * q + (x % z)
  OBVIOUS
<1> HIDE DEF q
<1>2. z * q \in Nat /\ k * z \in Nat
  BY <1>1
<1>3. z * q < k * z
  BY ONLY <1>1, <1>2, x < k * z, x \in Nat, z \in Nat
<1>4. q < k
  BY ONLY <1>1, <1>3, z \in Nat, z > 0, k \in Nat
<1>5. z * q + z <= k * z
  BY ONLY <1>1, <1>4, z \in Nat, z > 0, k \in Nat
<1> QED BY ONLY <1>1, <1>2, <1>5, x \in Nat, z \in Nat

\* A subobject lies within the object around it.
LEMMA InnerWithin ==
  ASSUME NEW s \in Spot, ~Leaf(s), SizeOf[s.ty] <= MaxOff
  PROVE  s.off - Inner(s).off >= 0 /\ s.off - Inner(s).off + SizeOf[Inner(s).ty] <= SizeOf[s.ty]
<1>0. s.ty \in Type /\ s.off \in Nat
  BY SpotNumbers
<1>1. CASE IsArray(s.ty)
  <2> DEFINE z == SizeOf[Of[s.ty]]
             x == s.off
  <2>1. PICK k \in Nat : SizeOf[s.ty] = k * z
    BY <1>0, <1>1, ArraySize
  <2>2. z \in Nat /\ z > 0 /\ x \in Nat
    BY <1>0, <1>1, ArraySize, SizeFacts
  <2>3. x < k * z
    BY <1>1, <2>1, InnerFacts
  <2>4. Inner(s) = SpotOf(Of[s.ty], x % z)
    BY <1>1, InnerArray, InnerFacts
  <2>5. Inner(s).off = x % z /\ Inner(s).ty = Of[s.ty]
    BY <2>4 DEF SpotOf
  <2>6. x - (x % z) >= 0 /\ x - (x % z) + z <= k * z
    <3> HIDE DEF x, z
    <3> QED BY <2>2, <2>3, Multiples
  <2> QED BY <2>1, <2>5, <2>6
<1>2. CASE ~IsArray(s.ty)
  <2>1. Inner(s) \in Inside(s)
    BY DEF Leaf, Inner
  <2>2. PICK m \in Members(s.ty) : Spans(m, s.off) /\ Inner(s) = SpotOf(m.ty, s.off - m.off)
    BY <1>2, <2>1 DEF Inside
  <2>3. m.off \in Nat /\ m.ty \in Type /\ m.off + SizeOf[m.ty] <= SizeOf[s.ty]
    BY <1>0, MemberFacts
  <2>4. Inner(s).off = s.off - m.off /\ Inner(s).ty = m.ty
    BY <2>2 DEF SpotOf
  <2>5. SizeOf[m.ty] \in Nat /\ SizeOf[s.ty] \in Nat
    BY <1>0, <2>3, SizeFacts
  <2> QED BY <1>0, <2>3, <2>4, <2>5
<1> QED BY <1>1, <1>2

LEMMA WalkToOutcome ==
  ASSUME NEW n
  PROVE  \A s \in Spot : WalkTo(s, n) \in Outcome
<1> DEFINE T == {x \in Spot : WalkTo(x, n) \in Outcome}
<1>1. ASSUME NEW x \in Spot, ~Leaf(x) => Inner(x) \in T
      PROVE x \in T
  <2>1. ~Leaf(x) => WalkTo(Inner(x), n) \in Outcome
    BY <1>1
  <2>2. WalkTo(x, n) \in Outcome
    BY <2>1, OutcomeFacts, WalkToDef
  <2> QED BY <2>2
<1> HIDE DEF T
<1>2. Spot \subseteq T
  BY <1>1, SpotInduction
<1> QED BY <1>2 DEF T

\* The three ways a walk may go.
LEMMA WalkCases ==
  ASSUME NEW n, NEW s \in Spot
  PROVE  LET w == WalkTo(s, n)
             v == WalkTo(Inner(s), n)
         IN /\ Leaf(s) => ~w.success
            /\ ~Leaf(s) /\ Fits(Inner(s), n) =>
                 /\ w.success /\ w.array = (IF IsArray(s.ty) THEN s.ty ELSE None)
                 /\ w.start = 0 /\ w.size = SizeOf[Inner(s).ty]
            /\ ~Leaf(s) /\ ~Fits(Inner(s), n) =>
                 /\ w.success = v.success /\ w.array = v.array /\ w.size = v.size
                 /\ w.start = v.start + s.off - Inner(s).off
                 /\ v.start \in Int
<1>1. CASE Leaf(s)
  BY <1>1, WalkToDef DEF Missing
<1>2. CASE ~Leaf(s) /\ Fits(Inner(s), n)
  <2>1. WalkTo(s, n) = Stop(s)
    BY <1>2, WalkToDef
  <2> QED BY <1>2, <2>1 DEF Stop
<1>3. CASE ~Leaf(s) /\ ~Fits(Inner(s), n)
  <2> DEFINE v == WalkTo(Inner(s), n)
             w == WalkTo(s, n)
  <2>1. w = Moved(s, v)
    BY <1>3, WalkToDef
  <2>2. v \in Outcome
    BY <1>3, WalkToOutcome, InnerFacts
  <2> HIDE DEF v, w
  <2>3. /\ w.success = v.success /\ w.array = v.array /\ w.size = v.size
        /\ w.start = v.start + s.off - Inner(s).off /\ v.start \in Int
    BY <2>1, <2>2 DEF Moved, Outcome
  <2> QED BY <1>3, <2>3 DEF v, w
<1> QED BY <1>1, <1>2, <1>3

\* What the walk stops at, and the array around it, lie within the whole.
Within(s, n, w) ==
  /\ w.size \in Nat /\ 0 < w.size /\ w.size <= n /\ s.off + w.size <= SizeOf[s.ty]
  /\ w.array # None =>
       /\ w.array \in Type /\ IsArray(w.array) /\ w.size = SizeOf[Of[w.array]]
       /\ SizeOf[w.array] \in Nat /\ w.size <= SizeOf[w.array]
       /\ w.start \in Nat /\ w.start <= s.off
       /\ s.off + w.size <= w.start + SizeOf[w.array]
       /\ w.start + SizeOf[w.array] <= SizeOf[s.ty]

LEMMA WalkWithin ==
  ASSUME NEW n, NEW s \in Spot, SizeOf[s.ty] <= MaxOff, WalkTo(s, n).success
  PROVE  Within(s, n, WalkTo(s, n))
<1> DEFINE T == {x \in Spot : SizeOf[x.ty] <= MaxOff /\ WalkTo(x, n).success
                                => Within(x, n, WalkTo(x, n))}
<1>1. ASSUME NEW x \in Spot, ~Leaf(x) => Inner(x) \in T
      PROVE x \in T
  <2> SUFFICES ASSUME SizeOf[x.ty] <= MaxOff, WalkTo(x, n).success
               PROVE Within(x, n, WalkTo(x, n))
    OBVIOUS
  <2> DEFINE i == Inner(x)
             w == WalkTo(x, n)
             v == WalkTo(i, n)
  <2>1. ~Leaf(x)
    BY WalkCases
  <2>2. /\ x.ty \in Type /\ x.off \in Nat /\ SizeOf[x.ty] \in Nat /\ MaxOff \in Nat
        /\ i \in Spot /\ i.ty \in Type /\ i.off \in Nat /\ SizeOf[i.ty] \in Nat
        /\ SizeOf[i.ty] > 0 /\ SizeOf[i.ty] <= SizeOf[x.ty]
    BY <2>1, SpotNumbers
  <2>3. x.off - i.off >= 0 /\ x.off - i.off + SizeOf[i.ty] <= SizeOf[x.ty]
    BY <2>1, InnerWithin
  <2>4. CASE Fits(i, n)
    <3>1. /\ w.array = (IF IsArray(x.ty) THEN x.ty ELSE None)
          /\ w.start = 0 /\ w.size = SizeOf[i.ty] /\ i.off = 0 /\ SizeOf[i.ty] <= n
      BY <2>1, <2>4, WalkCases DEF Fits
    <3>2. IsArray(x.ty) => Of[x.ty] = i.ty
      BY <2>1, InnerFacts
    <3> HIDE DEF w, i
    <3>3. Within(x, n, w)
      BY <2>2, <2>3, <3>1, <3>2 DEF Within
    <3> QED BY <3>3 DEF w
  <2>5. CASE ~Fits(i, n)
    <3>1. /\ w.success = v.success /\ w.array = v.array /\ w.size = v.size
          /\ w.start = v.start + x.off - i.off
      BY <2>1, <2>5, WalkCases
    <3>2. Within(i, n, v)
      <4>1. i \in T
        BY <1>1, <2>1
      <4>2. SizeOf[i.ty] <= MaxOff
        <5> HIDE DEF i
        <5> QED BY <2>2
      <4> QED BY <3>1, <4>1, <4>2
    <3> HIDE DEF w, i, v
    <3>3. Within(x, n, w)
      BY <2>2, <2>3, <3>1, <3>2 DEF Within
    <3> QED BY <3>3 DEF w
  <2> HIDE DEF i
  <2> QED BY <2>4, <2>5
<1> HIDE DEF T
<1>2. Spot \subseteq T
  BY <1>1, SpotInduction
<1> QED BY <1>2 DEF T

\* For a larger pointee the walk stops no later: an array that it stops in
\* holds what the walk for the smaller one stops at.
LEMMA WalkNested ==
  ASSUME NEW m \in Nat, NEW n \in Nat, m <= n,
         NEW s \in Spot, SizeOf[s.ty] <= MaxOff, WalkTo(s, m).success
  PROVE  LET w == WalkTo(s, m)
             v == WalkTo(s, n)
         IN /\ v.success
            /\ v.array # None => s.off + w.size <= v.start + SizeOf[v.array]
<1> DEFINE Claim(x) == /\ WalkTo(x, n).success
                       /\ WalkTo(x, n).array # None =>
                            x.off + WalkTo(x, m).size
                              <= WalkTo(x, n).start + SizeOf[WalkTo(x, n).array]
           T == {x \in Spot : SizeOf[x.ty] <= MaxOff /\ WalkTo(x, m).success => Claim(x)}
<1>1. ASSUME NEW x \in Spot, ~Leaf(x) => Inner(x) \in T
      PROVE x \in T
  <2> SUFFICES ASSUME SizeOf[x.ty] <= MaxOff, WalkTo(x, m).success
               PROVE Claim(x)
    OBVIOUS
  <2> DEFINE i == Inner(x)
             w == WalkTo(x, m)
             v == WalkTo(x, n)
  <2>1. ~Leaf(x)
    BY WalkCases
  <2>2. /\ x.ty \in Type /\ x.off \in Nat /\ SizeOf[x.ty] \in Nat /\ MaxOff \in Nat
        /\ i \in Spot /\ i.ty \in Type /\ i.off \in Nat /\ SizeOf[i.ty] \in Nat
        /\ SizeOf[i.ty] <= SizeOf[x.ty]
    BY <2>1, SpotNumbers
  <2>3. w.size \in Nat /\ x.off + w.size <= SizeOf[x.ty]
    BY WalkWithin DEF Within
  <2>4. CASE Fits(i, n)
    <3>1. v.success /\ v.array = (IF IsArray(x.ty) THEN x.ty ELSE None) /\ v.start = 0
      BY <2>1, <2>4, WalkCases
    <3>2. ASSUME v.array # None
          PROVE x.off + w.size <= v.start + SizeOf[v.array]
      <4>1. v.array = x.ty
        BY <3>1, <3>2
      <4> HIDE DEF w, v
      <4> QED BY <2>2, <2>3, <3>1, <4>1
    <3> QED BY <3>1, <3>2
  <2>5. CASE ~Fits(i, n)
    <3>1. ~Fits(i, m)
      BY <2>2, <2>5 DEF Fits
    <3> DEFINE wi == WalkTo(i, m)
               vi == WalkTo(i, n)
    <3>2. /\ w.success = wi.success /\ w.size = wi.size
          /\ v.success = vi.success /\ v.array = vi.array
          /\ v.start = vi.start + x.off - i.off /\ vi.start \in Int
      BY <2>1, <2>5, <3>1, WalkCases
    <3>3. Claim(i)
      <4>1. i \in T
        BY <1>1, <2>1
      <4>2. SizeOf[i.ty] <= MaxOff
        <5> HIDE DEF i
        <5> QED BY <2>2
      <4> QED BY <3>2, <4>1, <4>2
    <3>4. ASSUME v.array # None
          PROVE x.off + w.size <= v.start + SizeOf[v.array]
      <4>1. i.off + wi.size <= vi.start + SizeOf[vi.array] /\ vi.array \in Type
        <5>1. vi \in Outcome
          BY <2>2, WalkToOutcome
        <5> HIDE DEF wi, vi
        <5>2. i.off + wi.size <= vi.start + SizeOf[vi.array]
          BY <3>2, <3>3, <3>4 DEF wi, vi
        <5>3. vi.array \in Type
          BY <3>2, <3>4, <5>1 DEF Outcome
        <5> QED BY <5>2, <5>3
      <4>2. SizeOf[v.array] \in Nat
        BY <3>2, <4>1, SizeFacts
      <4> HIDE DEF w, v, wi, vi, i
      <4> QED BY <2>2, <2>3, <3>2, <4>1, <4>2
    <3> HIDE DEF i
    <3> QED BY <3>2, <3>3, <3>4 DEF i
  <2> HIDE DEF i
  <2> QED BY <2>4, <2>5
<1> HIDE DEF T
<1>2. Spot \subseteq T
  BY <1>1, SpotInduction
<1> QED BY <1>2 DEF T

\* From every element of the array that the walk stops in, the walk stops in
\* that array.
LEMMA WalkArray ==
  ASSUME NEW n \in Nat, NEW s \in Spot, SizeOf[s.ty] <= MaxOff, WalkTo(s, n).success,
         WalkTo(s, n).array # None, WalkTo(s, n).size = n, NEW o \in Offset,
         LET w == WalkTo(s, n)
         IN w.start <= o /\ o < w.start + SizeOf[w.array] /\ (o - w.start) % n = 0
  PROVE  LET w == WalkTo(s, n)
             v == WalkTo(SpotOf(s.ty, o), n)
         IN v.success /\ v.array = w.array /\ v.start = w.start
<1> DEFINE Hyp(x, w) == /\ SizeOf[x.ty] <= MaxOff /\ w.success /\ w.array # None /\ w.size = n
           On(w, p) == w.start <= p /\ p < w.start + SizeOf[w.array] /\ (p - w.start) % n = 0
           Claim(w, v) == v.success /\ v.array = w.array /\ v.start = w.start
           T == {x \in Spot : Hyp(x, WalkTo(x, n)) =>
                   \A p \in Offset : On(WalkTo(x, n), p) =>
                     Claim(WalkTo(x, n), WalkTo(SpotOf(x.ty, p), n))}
<1>1. ASSUME NEW x \in Spot, ~Leaf(x) => Inner(x) \in T
      PROVE x \in T
  <2> SUFFICES ASSUME Hyp(x, WalkTo(x, n)), NEW p \in Offset, On(WalkTo(x, n), p)
               PROVE Claim(WalkTo(x, n), WalkTo(SpotOf(x.ty, p), n))
    OBVIOUS
  <2> DEFINE i == Inner(x)
             w == WalkTo(x, n)
             x2 == SpotOf(x.ty, p)
  <2>1. ~Leaf(x)
    BY WalkCases
  <2>2. /\ x.ty \in Type /\ x.off \in Nat /\ SizeOf[x.ty] \in Nat /\ MaxOff \in Nat
        /\ i \in Spot /\ i.ty \in Type /\ i.off \in Nat /\ SizeOf[i.ty] \in Nat
        /\ SizeOf[i.ty] <= SizeOf[x.ty] /\ p \in Nat /\ x.off <= MaxOff
    BY <2>1, SpotNumbers DEF Offset
  <2>3. Within(x, n, w)
    BY WalkWithin
  <2>4. CASE Fits(i, n)
    <3>1. w.array = x.ty /\ IsArray(x.ty) /\ w.start = 0 /\ n = SizeOf[Of[x.ty]]
      <4>1. w.array = (IF IsArray(x.ty) THEN x.ty ELSE None) /\ w.start = 0
        BY <2>1, <2>4, WalkCases
      <4> HIDE DEF w
      <4> QED BY <2>3, <4>1 DEF Within, w
    <3>2. p < SizeOf[x.ty] /\ p % SizeOf[Of[x.ty]] = 0
      <4>1. p < w.start + SizeOf[w.array] /\ (p - w.start) % n = 0
        OBVIOUS
      <4>2. p - w.start = p /\ w.start + SizeOf[w.array] = SizeOf[x.ty]
        <5> HIDE DEF w
        <5> QED BY <2>2, <3>1
      <4> HIDE DEF w
      <4> QED BY <3>1, <4>1, <4>2
    <3>3. WalkTo(x2, n).success /\ WalkTo(x2, n).array = x.ty /\ WalkTo(x2, n).start = 0
      BY <2>2, <3>1, <3>2, WalkToElement
    <3> QED BY <3>1, <3>3
  <2>5. CASE ~Fits(i, n)
    <3> DEFINE v == WalkTo(i, n)
               y == p - x.off
               j2 == SpotOf(i.ty, i.off + y)
    <3>1. /\ w.success = v.success /\ w.array = v.array /\ w.size = v.size
          /\ w.start = v.start + x.off - i.off
      BY <2>1, <2>5, WalkCases
    <3>2. SizeOf[i.ty] <= MaxOff
      <4> HIDE DEF i
      <4> QED BY <2>2
    <3>3. Within(i, n, v) /\ Hyp(i, v)
      <4>1. Hyp(i, v)
        BY <3>1, <3>2
      <4> QED BY <2>2, <3>2, <4>1, WalkWithin
    <3>4. v.array # None /\ v.size = n /\ On(w, p)
      BY <3>3
    <3> HIDE DEF w, v, i, x2
    <3>5. /\ v.start \in Nat /\ SizeOf[v.array] \in Nat /\ y \in Int
          /\ n <= SizeOf[v.array] /\ i.off + n <= v.start + SizeOf[v.array] /\ v.start <= i.off
          /\ v.start + SizeOf[v.array] <= SizeOf[i.ty]
      BY <2>2, <3>3, <3>4 DEF Within
    <3>6. /\ v.start <= i.off + y /\ i.off + y < v.start + SizeOf[v.array]
          /\ i.off + y \in 0 .. SizeOf[i.ty] - 1 /\ i.off + y \in Offset
          /\ x.off + y = p /\ (i.off + y) - v.start = p - w.start
      <4>1. w.start <= p /\ p < w.start + SizeOf[w.array] /\ w.array = v.array
        BY <3>1, <3>4
      <4> QED BY <2>2, <3>1, <3>2, <3>5, <4>1 DEF Offset
    <3>7. On(v, i.off + y)
      BY <3>4, <3>6
    <3>8. /\ x2 \in Spot /\ ~Leaf(x2) /\ Inner(x2) = j2
          /\ x2.off = x.off + y /\ j2.off = i.off + y /\ j2.ty = i.ty
      <4>1. x2 = SpotOf(x.ty, x.off + y)
        BY <3>6 DEF x2
      <4>2. x.off + y \in Offset
        BY <3>6
      <4>3. x2 \in Spot /\ ~Leaf(x2) /\ Inner(x2) = j2
        BY <2>1, <3>5, <3>6, <4>1, <4>2, InnerMoves DEF i
      <4> QED BY <4>1, <4>3 DEF SpotOf
    <3>9. Claim(v, WalkTo(j2, n))
      <4>1. i \in T
        BY <1>1, <2>1 DEF i
      <4> QED BY <3>3, <3>6, <3>7, <4>1 DEF v
    <3>10. ~Fits(j2, n)
      <4> SUFFICES ASSUME j2.off = 0, SizeOf[j2.ty] <= n
                   PROVE Fits(i, n)
        BY <2>5 DEF Fits
      <4>1. i.off + y = 0 /\ SizeOf[i.ty] <= n
        BY <3>8
      <4>2. v.start <= 0
        BY <3>6, <4>1
      <4>3. i.off = 0
        BY ONLY <2>2, <3>5, <4>1, <4>2, n \in Nat
      <4> QED BY <4>1, <4>3 DEF Fits
    <3> DEFINE v2 == WalkTo(j2, n)
               w2 == WalkTo(x2, n)
    <3>11. /\ w2.success = v2.success /\ w2.array = v2.array
           /\ w2.start = v2.start + x2.off - j2.off
      <4> HIDE DEF j2
      <4> QED BY <3>8, <3>10, WalkCases
    <3> HIDE DEF v2, w2, j2
    <3>12. Claim(w, w2)
      <4>1. v2.success /\ v2.array = v.array /\ v2.start = v.start
        BY <3>9 DEF v2
      <4>2. w2.start = w.start
        BY <2>2, <3>1, <3>5, <3>8, <3>11, <4>1
      <4> QED BY <3>1, <3>3, <3>11, <4>1, <4>2
    <3> QED BY <3>12 DEF w, w2, x2
  <2> HIDE DEF i
  <2> QED BY <2>4, <2>5
<1> HIDE DEF T
<1>2. Spot \subseteq T
  BY <1>1, SpotInduction
<1>3. Hyp(s, WalkTo(s, n)) /\ On(WalkTo(s, n), o)
  OBVIOUS
<1> QED BY <1>2, <1>3 DEF T

\* From every element of an array that starts at a spot, the walk for its
\* elements stops in an array around it, if not at its only element.
LEMMA WalkIn ==
  ASSUME NEW s \in Spot, SizeOf[s.ty] <= MaxOff, NEW a \in TypesAt(s), IsArray(a),
         NEW y \in Nat, y < SizeOf[a], y % SizeOf[Of[a]] = 0
  PROVE  LET n == SizeOf[Of[a]]
             w == WalkTo(SpotOf(s.ty, s.off + y), n)
         IN /\ s.off + y \in Offset /\ s.off + SizeOf[a] <= SizeOf[s.ty] /\ w.success
            /\ w.array # None => /\ w.array \in Type /\ w.start \in Nat /\ w.start <= s.off
                                 /\ s.off + SizeOf[a] <= w.start + SizeOf[w.array]
            /\ w.array = None => SizeOf[a] = n /\ y = 0
<1> DEFINE n == SizeOf[Of[a]]
           Claim(x, w) ==
             /\ x.off + y \in Offset /\ x.off + SizeOf[a] <= SizeOf[x.ty] /\ w.success
             /\ w.array # None => /\ w.array \in Type /\ w.start \in Nat /\ w.start <= x.off
                                  /\ x.off + SizeOf[a] <= w.start + SizeOf[w.array]
             /\ w.array = None => SizeOf[a] = n /\ y = 0
           T == {x \in Spot : SizeOf[x.ty] <= MaxOff /\ a \in TypesAt(x) =>
                   Claim(x, WalkTo(SpotOf(x.ty, x.off + y), n))}
<1>0. /\ a \in Type /\ Of[a] \in Type /\ n \in Nat /\ n > 0 /\ SizeOf[a] \in Nat
      /\ n <= SizeOf[a] /\ a # None /\ MaxOff \in Nat
  BY TypesAtFit, TypesAssumption, LayoutAssumption, SizeFacts
<1>1. ASSUME NEW x \in Spot, ~Leaf(x) => Inner(x) \in T
      PROVE x \in T
  <2> SUFFICES ASSUME SizeOf[x.ty] <= MaxOff, a \in TypesAt(x)
               PROVE Claim(x, WalkTo(SpotOf(x.ty, x.off + y), n))
    OBVIOUS
  <2> DEFINE x2 == SpotOf(x.ty, x.off + y)
             w == WalkTo(x2, n)
  <2>1. x.ty \in Type /\ x.off \in Nat /\ SizeOf[x.ty] \in Nat
    BY SpotNumbers
  <2>2. CASE x.off = 0 /\ a = x.ty
    <3>1. x.off + y = y /\ y \in Offset
      BY <1>0, <2>2 DEF Offset
    <3>2. w.success /\ w.array = a /\ w.start = 0
      <4>1. x2 = SpotOf(a, y)
        BY <2>2, <3>1
      <4> QED BY <1>0, <3>1, <4>1, WalkToElement
    <3> HIDE DEF w, n
    <3>3. Claim(x, w)
      BY <1>0, <2>1, <2>2, <3>1, <3>2
    <3> QED BY <3>3 DEF w
  <2>3. CASE ~Leaf(x) /\ a \in TypesAt(Inner(x))
    <3> DEFINE i == Inner(x)
               j2 == SpotOf(i.ty, i.off + y)
               v == WalkTo(j2, n)
    <3>1. /\ i \in Spot /\ i.ty \in Type /\ i.off \in Nat /\ SizeOf[i.ty] \in Nat
          /\ SizeOf[i.ty] <= SizeOf[x.ty]
      BY <2>3, SpotNumbers
    <3>2. x.off - i.off >= 0 /\ x.off - i.off + SizeOf[i.ty] <= SizeOf[x.ty]
      BY <2>3, InnerWithin
    <3>3. SizeOf[i.ty] <= MaxOff
      <4> HIDE DEF i
      <4> QED BY <1>0, <2>1, <3>1
    <3>4. Claim(i, v)
      BY <1>1, <2>3, <3>3
    <3> HIDE DEF i, n, v, w
    <3>5. /\ i.off + y \in 0 .. SizeOf[i.ty] - 1 /\ x.off + y \in Offset
          /\ x.off + SizeOf[a] <= SizeOf[x.ty]
      BY <1>0, <2>1, <3>1, <3>2, <3>4 DEF Offset
    <3>6. /\ x2 \in Spot /\ ~Leaf(x2) /\ Inner(x2) = j2 /\ x2.ty = x.ty
          /\ x2.off = x.off + y /\ j2.off = i.off + y /\ j2.ty = i.ty
      <4>1. y \in Int
        OBVIOUS
      <4>2. x2 \in Spot /\ ~Leaf(x2) /\ Inner(x2) = j2
        BY <2>3, <3>5, <4>1, InnerMoves DEF i
      <4> QED BY <4>2 DEF SpotOf
    <3> HIDE DEF x2, j2
    <3>7. CASE Fits(j2, n)
      <4>1. /\ w.success /\ w.array = (IF IsArray(x.ty) THEN x.ty ELSE None) /\ w.start = 0
        BY <3>6, <3>7, WalkCases DEF w
      <4>2. SizeOf[i.ty] <= n /\ i.off + y = 0
        BY <3>6, <3>7 DEF Fits
      <4>3. SizeOf[a] = n /\ y = 0
        BY <1>0, <3>1, <3>4, <4>2
      <4>4. Claim(x, w)
        BY <1>0, <2>1, <3>5, <4>1, <4>3
      <4> QED BY <4>4 DEF w, x2
    <3>8. CASE ~Fits(j2, n)
      <4>1. /\ w.success = v.success /\ w.array = v.array
            /\ w.start = v.start + x2.off - j2.off /\ v.start \in Int
        BY <3>6, <3>8, WalkCases DEF v, w
      <4>2. w.array # None => SizeOf[w.array] \in Nat
        BY <3>4, <4>1, SizeFacts
      <4>3. Claim(x, w)
        BY <1>0, <2>1, <3>1, <3>2, <3>4, <3>5, <3>6, <4>1, <4>2
      <4> QED BY <4>3 DEF w, x2
    <3> QED BY <3>7, <3>8
  <2> QED BY <2>2, <2>3, TypesAtDef
<1> HIDE DEF T
<1>2. Spot \subseteq T
  BY <1>1, SpotInduction
<1> QED BY <1>2 DEF T

-----------------------------------------------------------------------------
(* Chunks that are arrays *)

\* A chunk that is an array, once its length is known, holds it in full.
Full(b) == IsArray(b) => LenOf[b] > 0 /\ SizeOf[b] = LenOf[b] * SizeOf[Of[b]]
Whole(ch) == \A c \in Chunk : Full(PreciseType(ch[c]))

LEMMA WholeKept ==
  ASSUME Whole(chunk), SamePrecise(chunk, chunk')
  PROVE  Whole(chunk')
BY DEF Whole, SamePrecise

LEMMA MadeFull ==
  ASSUME NEW t \in Type, NEW k \in ChunkState, SizeOf[t] <= k.size, IsMade(t, k.size \div SizeOf[t])
  PROVE  LET a == ArrayType(t, k.size \div SizeOf[t]) IN Full(a) /\ ~MakePrecise[a]
<1> DEFINE z == SizeOf[t]
           size == k.size
           n == size \div z
           a == ArrayType(t, n)
<1>1. z \in Nat /\ z > 0 /\ size \in Nat /\ size <= MaxOff + 1 /\ MaxOff \in Nat /\ z <= size
  BY SizeFacts DEF ChunkState
<1>2. a \in Type /\ IsArray(a) /\ Of[a] = t /\ LenOf[a] = n
  BY ArrayTypeFacts
<1> HIDE DEF size
<1>3. n \in Nat /\ n > 0 /\ n * z <= size
  <2> HIDE DEF z
  <2> QED BY ONLY <1>1, DivFacts DEF n
<1>4. ~MakePrecise[a] /\ SizeOf[a] = n * z
  <2> HIDE DEF a, n, z
  <2>1. /\ ~MakePrecise[a] /\ SizeOf[a] <= n * z
        /\ SizeOf[a] \in {n * z, MaxOff + 1}
    BY <1>2, <1>3, LayoutAssumption DEF z
  <2>2. n * z \in Nat
    BY <1>1, <1>3
  <2> QED BY <1>1, <1>3, <2>1, <2>2
<1> HIDE DEF n, z, a
<1>5. Full(a) /\ ~MakePrecise[a]
  BY <1>2, <1>3, <1>4 DEF Full, z
<1> QED BY <1>5 DEF a, n, z, size

LEMMA InitWhole ==
  ASSUME NEW i \in InitChunk, NEW c \in Chunk, NEW k \in ChunkState, k.ty = i[c].ty, k.size = i[c].size
  PROVE  Full(PreciseType(k))
<1>1. PreciseType(k) = PreciseType(i[c])
  BY DEF PreciseType
<1> QED BY <1>1, ArrayAssumption DEF Full

\* A check of __is_a leaves every chunk whole.
LEMMA IsAWhole ==
  ASSUME Good(chunk), Whole(chunk), NEW p \in Ptr, NEW t \in Asked, IsAU(p, t)
  PROVE  Whole(chunk')
<1> DEFINE c == p.chunk
           k == chunk[c]
           n == k.size \div SizeOf[t]
<1>0. t \in Type
  BY AskedFacts
<1>1. \/ chunk' = chunk
      \/ ~Unknown(p) /\ chunk' = Precisified(chunk, c)
      \/ /\ ~Unknown(p) /\ LazilyTyped(c, PreciseType(k)) /\ ~TooSmall(k, t)
         /\ chunk' = [Precisified(chunk, c) EXCEPT ![c] = SetType(@, ArrayType(t, n))]
  BY Zenon DEF IsAU, IsACached, IsAInternal
<1>2. CASE chunk' = chunk
  BY <1>2 DEF Whole
<1>3. CASE ~Unknown(p) /\ chunk' = Precisified(chunk, c)
  BY <1>3, KnownFacts, PrecisifiedGood, WholeKept
<1>4. CASE /\ ~Unknown(p) /\ LazilyTyped(c, PreciseType(k)) /\ ~TooSmall(k, t)
           /\ chunk' = [Precisified(chunk, c) EXCEPT ![c] = SetType(@, ArrayType(t, n))]
  <2>1. c \in Chunk
    BY <1>4, KnownFacts
  <2>2. /\ chunk'[c].ty = ArrayType(t, n)
        /\ \A x \in Chunk \ {c} : chunk'[x] = Precisified(chunk, c)[x]
        /\ SizeOf[t] <= k.size /\ IsMade(t, n)
    BY <1>4, <2>1, LazyGood
  <2>3. k \in ChunkState
    BY <2>1 DEF Good
  <2>4. Full(ArrayType(t, n)) /\ ~MakePrecise[ArrayType(t, n)]
    <3> HIDE DEF k
    <3> QED BY <1>0, <2>2, <2>3, MadeFull
  <2>5. PreciseType(chunk'[c]) = ArrayType(t, n)
    BY <2>2, <2>4, PreciseOfPrecise
  <2>6. SamePrecise(chunk, Precisified(chunk, c))
    BY <2>1, PrecisifiedGood
  <2> HIDE DEF n, k, c
  <2> QED BY <2>2, <2>4, <2>5, <2>6 DEF Whole, SamePrecise
<1> QED BY <1>1, <1>2, <1>3, <1>4

\* A chunk that has been freed and allocated again is as good as at the start.
LEMMA RecycleGood ==
  ASSUME Good(chunk), Whole(chunk), Recycle
  PROVE  Good(chunk') /\ Whole(chunk')
<1>1. PICK c \in Heap, i \in InitChunk :
        chunk' = [chunk EXCEPT ![c] = [ty |-> i[c].ty, size |-> i[c].size, typed |-> FALSE,
                                       loose |-> FALSE, special |-> FALSE]]
  BY DEF Recycle
<1> DEFINE k == [ty |-> i[c].ty, size |-> i[c].size, typed |-> FALSE,
                 loose |-> FALSE, special |-> FALSE]
<1>2. c \in Chunk /\ i[c].ty \in Type /\ i[c].size \in 1 .. MaxOff + 1
  BY ChunkAssumption
<1>3. k \in ChunkState /\ k.ty = i[c].ty /\ k.size = i[c].size
  BY <1>2 DEF ChunkState
<1>4. SizeOf[k.ty] <= k.size
  BY <1>2, RoomAssumption
<1>5. Full(PreciseType(k))
  <2> HIDE DEF k
  <2> QED BY <1>2, <1>3, InitWhole
<1> HIDE DEF k
<1>6. chunk' \in [Chunk -> ChunkState] /\ chunk'[c] = k /\ \A x \in Chunk \ {c} : chunk'[x] = chunk[x]
  BY <1>1, <1>2, <1>3 DEF Good, k
<1>7. Good(chunk')
  <2>1. \A x \in Chunk : \E j \in InitChunk : chunk'[x].size = j[x].size
    BY <1>3, <1>6 DEF Good
  <2> QED BY <1>4, <1>6, <2>1 DEF Good
<1> QED BY <1>5, <1>6, <1>7 DEF Whole

-----------------------------------------------------------------------------
(* Fetches *)

\* A pointer as bounds are asked for it.
Asks(p) == p.chunk \in Chunk \union {None} /\ p.off \in Offset

LEMMA UntrappedFacts ==
  ASSUME NEW p \in Ptr, NEW t \in Type, p.trap => p.off >= SizeOf[t]
  PROVE  Asks(Untrapped(p, t))
<1>1. p \in [chunk : Chunk \union {None}, off : Offset, trap : BOOLEAN]
  BY ChunkAssumption
<1>2. SizeOf[t] \in Nat /\ SizeOf[t] > 0 /\ MaxOff \in Nat
  BY SizeFacts
<1>3. CASE p.trap
  <2>1. /\ Untrapped(p, t).chunk = p.chunk /\ Untrapped(p, t).off = p.off - SizeOf[t]
    BY <1>1, <1>3 DEF Untrapped
  <2>2. p.off - SizeOf[t] \in Offset
    BY <1>1, <1>2, <1>3 DEF Offset
  <2> QED BY <1>1, <2>1, <2>2 DEF Asks
<1>4. CASE ~p.trap
  BY <1>1, <1>4 DEF Untrapped, Asks
<1> QED BY <1>3, <1>4

LEMMA AddressFacts ==
  ASSUME NEW p, Asks(p)
  PROVE  Address(p) \in Nat
<1>1. p.off \in Nat
  BY SizeFacts DEF Asks, Offset
<1>2. p.chunk # None => Place[p.chunk] \in Nat
  BY PlaceAssumption DEF Asks
<1> QED BY <1>1, <1>2 DEF Address

\* The fake ranges end where fetches of unknown pointers have reached.
Faked ==
  /\ reached \in Nat
  /\ fake \subseteq [lo : Nat, hi : Nat, period : Nat, size : Nat]
  /\ \A e \in fake : e.hi <= reached

\* Maximal bounds are only given below that.
MaxReached == fetched.how = "max" => Address(fetched.p) < reached

LEMMA MaxOfFacts ==
  ASSUME NEW a \in Nat, NEW b \in Nat
  PROVE  MinOf(a, b) \in Nat /\ MaxOf(a, b) \in Nat /\ a <= MaxOf(a, b) /\ b <= MaxOf(a, b)
         /\ \A z \in Nat : a <= z /\ b <= z => MaxOf(a, b) <= z
BY DEF MaxOf, MinOf

LEMMA FakeStep ==
  ASSUME Faked, NEW p, Asks(p), NEW t \in Type, NEW d \in Reach, FetchFake(p, d, t)
  PROVE  Faked' /\ MaxReached'
<1> DEFINE a == Address(p)
<1>1. PICK e \in fake :
        /\ FakeCovers(e, a, t)
        /\ fake' = (fake \ {e}) \union {[e EXCEPT !.hi = MaxOf(@, d + e.size)]}
        /\ reached' = MaxOf(reached, d + e.size)
  BY DEF FetchFake
<1> DEFINE z == e.size
<1>2. /\ fetched' = Result(p, t, "max", 0, 0) /\ reached' = MaxOf(reached, d + z)
  BY <1>1 DEF FetchFake
<1>3. a \in Nat /\ z \in Nat /\ d \in Nat /\ d + z \in Nat /\ reached \in Nat
  BY AddressFacts, PlaceAssumption DEF Faked
<1>4. /\ e \in [lo : Nat, hi : Nat, period : Nat, size : Nat]
      /\ e.hi <= reached /\ e.size = z /\ a < e.hi
  BY <1>1 DEF Faked, FakeCovers
<1> HIDE DEF a, z
<1>5. reached' \in Nat /\ reached <= reached' /\ d + z <= reached'
  BY <1>2, <1>3, MaxOfFacts
<1> DEFINE f == [e EXCEPT !.hi = MaxOf(@, d + e.size)]
<1>6. MaxOf(e.hi, d + z) \in Nat /\ MaxOf(e.hi, d + z) <= reached'
  <2>1. e.hi \in Nat /\ e.hi <= reached'
    BY <1>3, <1>4, <1>5
  <2> QED BY <1>3, <1>5, <2>1, MaxOfFacts
<1>7. f \in [lo : Nat, hi : Nat, period : Nat, size : Nat] /\ f.hi <= reached'
  BY <1>4, <1>6
<1> HIDE DEF f
<1>8. ASSUME NEW x \in fake'
      PROVE x \in [lo : Nat, hi : Nat, period : Nat, size : Nat] /\ x.hi <= reached'
  <2>1. CASE x = f
    BY <1>7, <2>1
  <2>2. CASE x \in fake
    BY <1>3, <1>5, <2>2 DEF Faked
  <2> QED BY <1>1, <2>1, <2>2 DEF f
<1>9. Faked'
  BY <1>5, <1>8 DEF Faked
<1>10. Address(fetched'.p) < reached'
  BY <1>2, <1>3, <1>4, <1>5 DEF Result, a
<1> QED BY <1>9, <1>10 DEF MaxReached

LEMMA UnknownStep ==
  ASSUME Faked, NEW p, Asks(p), NEW t \in Type, NEW d \in Reach, FetchUnknown(p, d, t)
  PROVE  Faked' /\ MaxReached'
<1> DEFINE a == Address(p)
           z == SizeOf[t]
           f == FakeEntry(a, d, t)
<1>1. /\ FakeCached(f) /\ fetched' = Result(p, t, "max", 0, 0)
      /\ reached' = MaxOf(reached, MaxOf(a, d) + z)
  BY DEF FetchUnknown
<1>2. a \in Nat /\ z \in Nat /\ z > 0 /\ d \in Nat /\ reached \in Nat
  BY AddressFacts, SizeFacts, PlaceAssumption DEF Faked
<1>3. f = [lo |-> MinOf(a, d), hi |-> MaxOf(a, d) + z, period |-> Short(z), size |-> z]
  BY DEF FakeEntry
<1> HIDE DEF a, z, f
<1>4. MinOf(a, d) \in Nat /\ MaxOf(a, d) \in Nat /\ a <= MaxOf(a, d)
  BY <1>2, MaxOfFacts
<1>5. reached' \in Nat /\ reached <= reached' /\ MaxOf(a, d) + z <= reached'
  <2>1. MaxOf(a, d) + z \in Nat
    BY <1>2, <1>4
  <2> QED BY <1>1, <1>2, <2>1, MaxOfFacts
<1>6. f \in [lo : Nat, hi : Nat, period : Nat, size : Nat] /\ f.hi <= reached'
  <2>1. MaxOf(a, d) + z \in Nat /\ Short(z) \in Nat
    BY <1>2, <1>4, ShortFacts
  <2> QED BY <1>2, <1>3, <1>4, <1>5, <2>1
<1>7. \A x \in fake' : x \in fake \/ x = f
  BY <1>1 DEF FakeCached
<1>8. ASSUME NEW x \in fake'
      PROVE x \in [lo : Nat, hi : Nat, period : Nat, size : Nat] /\ x.hi <= reached'
  <2>1. CASE x = f
    BY <1>6, <2>1
  <2>2. CASE x \in fake
    BY <1>2, <1>5, <2>2 DEF Faked
  <2> QED BY <1>7, <2>1, <2>2
<1>9. Faked'
  BY <1>5, <1>8 DEF Faked
<1>10. fetched'.p = p /\ a < reached'
  BY <1>1, <1>2, <1>4, <1>5 DEF Result
<1> QED BY <1>9, <1>10 DEF MaxReached, a

\* A walk for a pointer to an element of an array gives the whole array.
LEMMA KnownStep ==
  ASSUME Good(chunk), Whole(chunk), NEW p, Asks(p), NEW t \in Type, FetchKnown(p, t)
  PROVE  /\ Good(chunk') /\ Whole(chunk') /\ ElementsExact'
         /\ fetched'.how # "max" /\ UNCHANGED <<fake, reached>>
<1> DEFINE c == p.chunk
           b == PreciseType(chunk[c])
           z == SizeOf[t]
           w == WalkTo(SpotOf(b, p.off), z)
           size == chunk[c].size
           lo == IF w.array = None THEN p.off ELSE w.start
           hi == IF w.array = None THEN p.off + z
                 ELSE IF LenOf[w.array] = 0 THEN size
                 ELSE w.start + LenOf[w.array] * z
           element == IsArray(b) /\ SizeOf[Of[b]] = z /\ p.off % z = 0 /\ p.off < SizeOf[b]
<1>1. /\ ~Unknown(p) /\ chunk' = Precisified(chunk, c) /\ UNCHANGED <<fake, reached>>
      /\ \/ fetched' = Result(p, t, "alloc", 0, size)
         \/ ~w.success /\ fetched' = Result(p, t, "min", p.off, p.off + 1)
         \/ Incomplete(t) /\ fetched' = Result(p, t, "min", p.off, p.off + 1)
         \/ w.success /\ fetched' = Result(p, t, IF w.size < z THEN "prefix" ELSE "walk", lo, hi)
  BY Zenon DEF FetchKnown, MinBounds
<1>2. c \in Chunk /\ p.off \in Offset
  BY <1>1 DEF Asks, Unknown
<1>3. Good(chunk') /\ SamePrecise(chunk, chunk') /\ b \in Type
  BY <1>1, <1>2, PrecisifiedGood, PreciseFacts
<1>4. Whole(chunk') /\ Full(b)
  BY <1>2, <1>3, WholeKept DEF Whole
<1>5. PreciseType(chunk'[c]) = b
  BY <1>2, <1>3 DEF SamePrecise
<1>6. ASSUME element
      PROVE w.success /\ w.array = b /\ w.start = 0 /\ lo = 0 /\ hi = SizeOf[b]
  <2>1. b # None /\ Of[b] \in Type /\ z \in Nat
    BY <1>3, <1>6, TypesAssumption, SizeFacts
  <2>2. w.success /\ w.array = b /\ w.start = 0
    <3> HIDE DEF b
    <3>1. p.off % SizeOf[Of[b]] = 0
      BY <1>6
    <3> QED BY <1>2, <1>3, <1>6, <3>1, WalkToElement
  <2>3. LenOf[b] \in Nat /\ LenOf[b] > 0 /\ SizeOf[b] = LenOf[b] * z
    BY <1>3, <1>4, <1>6, TypesAssumption DEF Full
  <2>4. lo = 0
    BY <2>1, <2>2
  <2>5. hi = 0 + LenOf[b] * z
    <3> HIDE DEF b, w
    <3> QED BY <2>1, <2>2, <2>3
  <2>6. LenOf[b] * z \in Nat
    <3> HIDE DEF b, z
    <3> QED BY <2>1, <2>3
  <2> HIDE DEF b, w, hi, lo, z
  <2> QED BY <2>2, <2>3, <2>4, <2>5, <2>6
<1> HIDE DEF w, lo, hi
<1>7. fetched'.p = p /\ fetched'.t = t /\ fetched'.how # "max"
  BY <1>1 DEF Result
<1>8. ASSUME fetched'.how \in {"walk", "min"}, ~Incomplete(t), element
      PROVE fetched'.lo = 0 /\ fetched'.hi = SizeOf[b]
  <2>1. w.success /\ lo = 0 /\ hi = SizeOf[b]
    BY <1>6, <1>8
  <2>2. CASE fetched' = Result(p, t, IF w.size < z THEN "prefix" ELSE "walk", lo, hi)
    BY <2>1, <2>2 DEF Result
  <2>3. fetched' # Result(p, t, "alloc", 0, size)
    BY <1>8 DEF Result
  <2> QED BY <1>1, <1>8, <2>1, <2>2, <2>3
<1>9. ElementsExact'
  <2>1. Target' = chunk'[c]
    BY <1>7 DEF Target
  <2> HIDE DEF b, z, c
  <2>2. ASSUME Answered({"walk", "min"})', ~Incomplete(t)
        PROVE element => fetched'.lo = 0 /\ fetched'.hi = SizeOf[b]
    BY <1>8, <2>2 DEF Answered
  <2>3. (Answered({"walk", "min"}) /\ ~Incomplete(fetched.t))' =>
          Answered({"walk", "min"})' /\ ~Incomplete(t)
    BY <1>7
  <2> QED BY <1>5, <1>7, <2>1, <2>2, <2>3 DEF ElementsExact, z
<1> QED BY <1>1, <1>3, <1>4, <1>7, <1>9

LEMMA ExactIfOther ==
  ASSUME fetched'.how \notin {"walk", "min"} \/ IsNull(fetched'.p)
  PROVE  ElementsExact'
BY DEF ElementsExact, Answered

-----------------------------------------------------------------------------
(* Legal ranges *)

\* A chunk is smaller than an unbounded type and holds its type.
Sound(k) ==
  /\ k.size \in Nat /\ k.size <= MaxOff
  /\ PreciseType(k) \in Type /\ SizeOf[PreciseType(k)] <= k.size

LEMMA SoundChunk ==
  ASSUME NEW ch, Good(ch), NEW c \in Chunk
  PROVE  Sound(ch[c])
<1>1. ch[c].size \in Nat
  BY SizeFacts DEF Good, ChunkState
<1>2. ch[c].size <= MaxOff
  BY PlaceAssumption DEF Good
<1> QED BY <1>1, <1>2, PreciseFacts DEF Sound

\* The numbers of a chunk, and the spot at an offset into it.
LEMMA SoundFacts ==
  ASSUME NEW k, Sound(k), NEW o \in 0 .. k.size - 1
  PROVE  LET b == PreciseType(k)
             s == SpotOf(b, o)
         IN /\ k.size \in Nat /\ k.size <= MaxOff /\ MaxOff \in Nat
            /\ b \in Type /\ SizeOf[b] \in Nat /\ SizeOf[b] > 0 /\ SizeOf[b] <= k.size
            /\ SizeOf[b] <= MaxOff /\ o \in Nat /\ o < k.size /\ o \in Offset
            /\ s \in Spot /\ s.ty = b /\ s.off = o
<1> DEFINE b == PreciseType(k)
           s == SpotOf(b, o)
<1>1. /\ k.size \in Nat /\ k.size <= MaxOff /\ b \in Type /\ SizeOf[b] <= k.size
  BY DEF Sound
<1> HIDE DEF b
<1>2. SizeOf[b] \in Nat /\ SizeOf[b] > 0 /\ MaxOff \in Nat
  BY <1>1, SizeFacts
<1>3. SizeOf[b] <= MaxOff /\ o \in Nat /\ o < k.size /\ o \in Offset
  BY <1>1, <1>2 DEF Offset
<1>4. s \in Spot /\ s.ty = b /\ s.off = o
  BY <1>1, <1>3 DEF SpotOf, Spot
<1> QED BY <1>1, <1>2, <1>3, <1>4 DEF b

\* The bounds that Legal puts on a range.
Bounded(k, o, t, lo, hi) ==
  LET b == PreciseType(k)
      w == WalkTo(SpotOf(b, o), SizeOf[t])
  IN /\ lo \in Int /\ hi \in Int /\ 0 <= lo /\ hi <= k.size
     /\ ~(o >= SizeOf[b]) /\ ~(o = 0 /\ SizeOf[b] = SizeOf[t]) =>
          IF w.success /\ w.array # None
          THEN w.start <= lo /\ (LenOf[w.array] # 0 => hi <= w.start + SizeOf[w.array])
          ELSE o <= lo /\ hi <= o + SizeOf[t]

LEMMA LegalIf ==
  ASSUME NEW k, Sound(k), NEW o \in 0 .. k.size - 1, NEW t \in Type,
         NEW lo, NEW hi, Bounded(k, o, t, lo, hi)
  PROVE  lo .. (hi - 1) \subseteq Legal(k, o, t)
<1> DEFINE b == PreciseType(k)
           w == WalkTo(SpotOf(b, o), SizeOf[t])
           whole == IsChar(t) \/ (o = 0 /\ SizeOf[b] = SizeOf[t]) \/ o >= SizeOf[b]
           top == IF LenOf[w.array] = 0 THEN k.size ELSE w.start + SizeOf[w.array]
<1>0. /\ lo \in Int /\ hi \in Int /\ 0 <= lo /\ hi <= k.size
      /\ ~(o >= SizeOf[b]) /\ ~(o = 0 /\ SizeOf[b] = SizeOf[t]) =>
           IF w.success /\ w.array # None
           THEN w.start <= lo /\ (LenOf[w.array] # 0 => hi <= w.start + SizeOf[w.array])
           ELSE o <= lo /\ hi <= o + SizeOf[t]
  BY DEF Bounded
<1>1. Legal(k, o, t) = IF whole THEN 0 .. (k.size - 1)
                       ELSE IF w.success /\ w.array # None THEN w.start .. (top - 1)
                       ELSE o .. (o + SizeOf[t] - 1)
  BY DEF Legal
<1>2. k.size \in Nat /\ o \in Nat /\ SizeOf[t] \in Nat
  BY SoundFacts, SizeFacts
<1>3. CASE whole
  <2> HIDE DEF whole
  <2> QED BY <1>0, <1>1, <1>2, <1>3
<1>4. CASE ~whole /\ w.success /\ w.array # None
  <2>1. w.start <= lo /\ hi <= top
    BY <1>0, <1>4
  <2>2. w.start \in Int /\ top \in Int
    <3>1. w \in Outcome
      BY SoundFacts, WalkToOutcome
    <3> HIDE DEF w
    <3>2. w.start \in Int /\ w.array \in Type
      BY <1>4, <3>1 DEF Outcome
    <3> QED BY <1>2, <3>2, SizeFacts
  <2> HIDE DEF whole, w, top
  <2> QED BY <1>0, <1>1, <1>4, <2>1, <2>2
<1>5. CASE ~whole /\ ~(w.success /\ w.array # None)
  <2>1. o <= lo /\ hi <= o + SizeOf[t]
    BY <1>0, <1>5
  <2> HIDE DEF whole, w
  <2> QED BY <1>0, <1>1, <1>2, <1>5, <2>1
<1> QED BY <1>3, <1>4, <1>5

\* Every fetch that a cached range answers may have it.
LegalRange(k, lo, hi, d) ==
  \A o \in 0 .. k.size - 1, t \in Type :
    SizeOf[t] = d /\ lo <= o /\ o < hi /\ (o - lo) % d = 0 => lo .. (hi - 1) \subseteq Legal(k, o, t)

\* A multiple of d below d is 0.
LEMMA BelowPeriod ==
  ASSUME NEW x \in Nat, NEW d \in Nat, d > 0, x % d = 0
  PROVE  x = 0 \/ x >= d
OBVIOUS

\* The allocation, in steps of its type.
LEMMA AllocLegal ==
  ASSUME NEW k, Sound(k)
  PROVE  LegalRange(k, 0, k.size, SizeOf[PreciseType(k)])
<1> DEFINE b == PreciseType(k)
<1> SUFFICES ASSUME NEW o \in 0 .. k.size - 1, NEW t \in Type, SizeOf[t] = SizeOf[b],
                    (o - 0) % SizeOf[b] = 0
             PROVE  0 .. (k.size - 1) \subseteq Legal(k, o, t)
  BY Zenon DEF LegalRange
<1>1. /\ k.size \in Nat /\ o \in Nat /\ SizeOf[b] \in Nat /\ SizeOf[b] > 0
  BY SoundFacts
<1>2. o - 0 = o /\ k.size \in Int /\ 0 \in Int /\ 0 <= 0 /\ k.size <= k.size
  BY <1>1
<1>3. o = 0 \/ o >= SizeOf[b]
  <2> HIDE DEF b
  <2> QED BY <1>1, <1>2, BelowPeriod
<1>4. Bounded(k, o, t, 0, k.size)
  BY <1>2, <1>3 DEF Bounded
<1> QED BY <1>4, LegalIf

\* One byte.
LEMMA ByteLegal ==
  ASSUME NEW k, Sound(k), NEW o \in 0 .. k.size - 1
  PROVE  /\ LegalRange(k, o, o + 1, 1)
         /\ \A t \in Type : o .. ((o + 1) - 1) \subseteq Legal(k, o, t)
<1> DEFINE b == PreciseType(k)
           s == SpotOf(b, o)
<1>1. /\ k.size \in Nat /\ o \in Nat /\ o < k.size /\ SizeOf[b] <= MaxOff
      /\ s \in Spot /\ s.ty = b /\ s.off = o
  BY SoundFacts
<1>2. ASSUME NEW t \in Type
      PROVE o .. ((o + 1) - 1) \subseteq Legal(k, o, t)
  <2> DEFINE w == WalkTo(s, SizeOf[t])
  <2>1. SizeOf[t] \in Nat /\ SizeOf[t] > 0
    BY SizeFacts
  <2>2. ASSUME w.success, w.array # None
        PROVE w.start <= o /\ o + 1 <= w.start + SizeOf[w.array]
    <3>1. Within(s, SizeOf[t], w)
      BY <1>1, <2>2, WalkWithin
    <3> HIDE DEF w, s
    <3> QED BY <1>1, <2>2, <3>1 DEF Within
  <2>3. o \in Int /\ o + 1 \in Int /\ 0 <= o /\ o + 1 <= k.size /\ o <= o /\ o + 1 <= o + SizeOf[t]
    BY <1>1, <2>1
  <2>4. Bounded(k, o, t, o, o + 1)
    BY <2>2, <2>3 DEF Bounded
  <2> QED BY <2>4, LegalIf
<1>3. LegalRange(k, o, o + 1, 1)
  <2> SUFFICES ASSUME NEW p \in 0 .. k.size - 1, NEW t \in Type, o <= p, p < o + 1
               PROVE  o .. ((o + 1) - 1) \subseteq Legal(k, p, t)
    BY DEF LegalRange
  <2>1. p = o
    BY <1>1
  <2> QED BY <1>2, <2>1
<1> QED BY <1>2, <1>3

\* The object that a walk stops at, no element of an array.
LEMMA ObjectLegal ==
  ASSUME NEW k, Sound(k), NEW o \in 0 .. k.size - 1, NEW t \in Type,
         LET w == WalkTo(SpotOf(PreciseType(k), o), SizeOf[t])
         IN w.success /\ w.array = None /\ w.size = SizeOf[t]
  PROVE  /\ LegalRange(k, o, o + SizeOf[t], SizeOf[PreciseType(k)])
         /\ o .. ((o + SizeOf[t]) - 1) \subseteq Legal(k, o, t)
<1> DEFINE b == PreciseType(k)
           s == SpotOf(b, o)
           z == SizeOf[t]
           w == WalkTo(s, z)
<1>1. /\ k.size \in Nat /\ o \in Nat /\ o < k.size /\ SizeOf[b] <= MaxOff
      /\ s \in Spot /\ s.ty = b /\ s.off = o /\ SizeOf[b] \in Nat /\ SizeOf[b] > 0
      /\ SizeOf[b] <= k.size
  BY SoundFacts
<1>2. z \in Nat /\ z > 0
  BY SizeFacts
<1>3. w.success /\ w.array = None /\ w.size = z
  OBVIOUS
<1>4. o + z <= SizeOf[b]
  <2>1. Within(s, z, w)
    BY <1>1, <1>3, WalkWithin
  <2> HIDE DEF w, s, b
  <2> QED BY <1>1, <1>3, <2>1 DEF Within
<1>5. o \in Int /\ o + z \in Int /\ 0 <= o /\ o + z <= k.size /\ o <= o /\ o + z <= o + z
  <2> HIDE DEF b, z
  <2> QED BY <1>1, <1>2, <1>4
<1>6. o .. ((o + z) - 1) \subseteq Legal(k, o, t)
  <2>1. Bounded(k, o, t, o, o + z)
    BY <1>3, <1>5 DEF Bounded
  <2> HIDE DEF z
  <2> QED BY <2>1, LegalIf, Zenon
<1>7. ASSUME NEW p \in 0 .. k.size - 1, NEW u \in Type, SizeOf[u] = SizeOf[b],
             o <= p, p < o + z, (p - o) % SizeOf[b] = 0
      PROVE o .. ((o + z) - 1) \subseteq Legal(k, p, u)
  <2>1. p = o
    <3> HIDE DEF b, z
    <3>1. p - o \in Nat /\ p - o < SizeOf[b] /\ p \in Nat
      BY <1>1, <1>2, <1>4, <1>7
    <3>2. p - o = 0
      BY <1>1, <1>7, <3>1, BelowPeriod
    <3> QED BY <1>1, <3>1, <3>2
  <2> DEFINE v == WalkTo(s, SizeOf[u])
  <2>2. ASSUME v.success, v.array # None
        PROVE v.start <= o /\ o + z <= v.start + SizeOf[v.array]
    <3>1. Within(s, SizeOf[u], v)
      BY <1>1, <2>2, WalkWithin
    <3>2. o + w.size <= v.start + SizeOf[v.array]
      <4>1. z <= SizeOf[u] /\ SizeOf[u] \in Nat
        <5> HIDE DEF b, z
        <5> QED BY <1>1, <1>2, <1>4, <1>7
      <4> HIDE DEF s, b, z
      <4> QED BY <1>1, <1>2, <1>3, <2>2, <4>1, WalkNested DEF w
    <3> HIDE DEF v, s
    <3> QED BY <1>1, <1>3, <2>2, <3>1, <3>2 DEF Within
  <2>3. o + z <= o + SizeOf[u]
    <3> HIDE DEF b, z
    <3> QED BY <1>1, <1>2, <1>4, <1>7
  <2>4. Bounded(k, o, u, o, o + z)
    <3> HIDE DEF z
    <3> QED BY <1>5, <2>2, <2>3 DEF Bounded
  <2> HIDE DEF z
  <2>5. o .. ((o + z) - 1) \subseteq Legal(k, o, u)
    BY <2>4, LegalIf, Zenon
  <2> QED BY <2>1, <2>5
<1> HIDE DEF b, z
<1>8. LegalRange(k, o, o + z, SizeOf[b])
  BY <1>7, Zenon DEF LegalRange
<1> QED BY <1>6, <1>8 DEF b, z

\* The array that a walk stops in: up to its end, or the chunk's if its length
\* is not known.
LEMMA ArrayLegal ==
  ASSUME NEW k, Sound(k), NEW o \in 0 .. k.size - 1, NEW t \in Type,
         LET w == WalkTo(SpotOf(PreciseType(k), o), SizeOf[t])
         IN w.success /\ w.array # None /\ w.size = SizeOf[t]
  PROVE  LET w == WalkTo(SpotOf(PreciseType(k), o), SizeOf[t])
             hi == IF LenOf[w.array] = 0 THEN k.size ELSE w.start + LenOf[w.array] * SizeOf[t]
         IN /\ LenOf[w.array] > 0 => LegalRange(k, w.start, hi, SizeOf[Of[w.array]])
            /\ w.start .. (hi - 1) \subseteq Legal(k, o, t)
<1> DEFINE b == PreciseType(k)
           s == SpotOf(b, o)
           z == SizeOf[t]
           w == WalkTo(s, z)
           a == w.array
           hi == IF LenOf[a] = 0 THEN k.size ELSE w.start + LenOf[a] * z
<1>1. /\ k.size \in Nat /\ k.size <= MaxOff /\ o \in Nat /\ o < k.size /\ SizeOf[b] <= MaxOff
      /\ s \in Spot /\ s.ty = b /\ s.off = o /\ SizeOf[b] \in Nat /\ SizeOf[b] > 0
      /\ SizeOf[b] <= k.size /\ MaxOff \in Nat
  BY SoundFacts
<1>2. z \in Nat /\ z > 0
  BY SizeFacts
<1>3. w.success /\ a # None /\ w.size = z
  OBVIOUS
<1>4. Within(s, z, w)
  BY <1>1, <1>3, WalkWithin
<1> HIDE DEF w, s, b, z
<1>5. /\ a \in Type /\ IsArray(a) /\ z = SizeOf[Of[a]] /\ SizeOf[a] \in Nat /\ w.start \in Nat
      /\ w.start + SizeOf[a] <= SizeOf[b] /\ o + z <= w.start + SizeOf[a]
  BY <1>1, <1>3, <1>4 DEF Within
<1>6. SizeOf[a] <= MaxOff
  BY <1>1, <1>5
<1>7. LenOf[a] \in Nat /\ (LenOf[a] > 0 => SizeOf[a] = LenOf[a] * z)
  <2> HIDE DEF a
  <2> QED BY <1>5, <1>6, ArraySize
<1>8. /\ hi \in Int /\ hi <= k.size /\ w.start \in Int /\ 0 <= w.start /\ w.start <= w.start
      /\ LenOf[a] # 0 => hi = w.start + SizeOf[a]
  <2>1. CASE LenOf[a] = 0
    BY <1>1, <1>5, <2>1
  <2>2. CASE LenOf[a] # 0
    <3>1. hi = w.start + SizeOf[a]
      BY <1>7, <2>2
    <3> HIDE DEF hi, a
    <3> QED BY <1>1, <1>5, <2>2, <3>1
  <2> QED BY <2>1, <2>2
<1> HIDE DEF hi
<1>9. w.start .. (hi - 1) \subseteq Legal(k, o, t)
  <2>1. LenOf[a] # 0 => hi <= w.start + SizeOf[a]
    BY <1>5, <1>8
  <2>2. Bounded(k, o, t, w.start, hi)
    BY <1>3, <1>8, <2>1 DEF Bounded, w, s, b, z
  <2> QED BY <2>2, LegalIf
<1>10. ASSUME LenOf[a] > 0, NEW p \in 0 .. k.size - 1, NEW u \in Type, SizeOf[u] = SizeOf[Of[a]],
              w.start <= p, p < hi, (p - w.start) % SizeOf[Of[a]] = 0
       PROVE w.start .. (hi - 1) \subseteq Legal(k, p, u)
  <2> DEFINE v == WalkTo(SpotOf(b, p), SizeOf[u])
  <2>1. hi = w.start + SizeOf[a] /\ p \in Offset /\ SizeOf[u] = z /\ (p - w.start) % z = 0
    <3>1. hi = w.start + SizeOf[a]
      BY <1>7, <1>8, <1>10
    <3>2. p \in Offset
      BY <1>1 DEF Offset
    <3> QED BY <1>5, <1>10, <3>1, <3>2
  <2>2. v.success /\ v.array = a /\ v.start = w.start
    <3>1. w.start <= p /\ p < w.start + SizeOf[w.array] /\ (p - w.start) % z = 0
      BY <1>10, <2>1
    <3>2. SizeOf[s.ty] <= MaxOff /\ w.size = z /\ w.success /\ w.array # None
      BY <1>1, <1>3
    <3>3. LET w2 == WalkTo(s, z)
              v2 == WalkTo(SpotOf(s.ty, p), z)
          IN v2.success /\ v2.array = w2.array /\ v2.start = w2.start
      BY <1>1, <1>2, <2>1, <3>1, <3>2, WalkArray DEF w
    <3> QED BY <1>1, <2>1, <3>3 DEF w
  <2>3. hi <= w.start + SizeOf[a]
    BY <1>5, <1>8, <2>1
  <2>4. Bounded(k, p, u, w.start, hi)
    <3> HIDE DEF a
    <3> QED BY <1>3, <1>8, <2>2, <2>3 DEF Bounded, b
  <2> QED BY <2>4, LegalIf
<1>11. LenOf[a] > 0 => LegalRange(k, w.start, hi, SizeOf[Of[a]])
  <2> HIDE DEF a
  <2> QED BY <1>10, Zenon DEF LegalRange
<1> QED BY <1>9, <1>11 DEF hi, w, s, b, z

\* An array that starts at an offset into the chunk, as the type checks find it.
LEMMA FoundLegal ==
  ASSUME NEW k, Sound(k), NEW base \in Offset,
         NEW a \in TypesAt(SpotOf(PreciseType(k), base)), IsArray(a)
  PROVE  LegalRange(k, base, base + SizeOf[a], SizeOf[Of[a]])
<1> DEFINE b == PreciseType(k)
           s == SpotOf(b, base)
           n == SizeOf[Of[a]]
<1>1. /\ k.size \in Nat /\ k.size <= MaxOff /\ b \in Type /\ SizeOf[b] <= k.size
  BY DEF Sound
<1>2. s \in Spot /\ s.ty = b /\ s.off = base
  BY <1>1 DEF SpotOf, Spot
<1>3. SizeOf[b] \in Nat /\ MaxOff \in Nat /\ base \in Nat
  BY <1>1, SizeFacts DEF Offset
<1>4. a \in Type /\ SizeOf[a] \in Nat
  BY <1>2, TypesAtFit, SizeFacts
<1>5. SizeOf[s.ty] <= MaxOff
  <2> HIDE DEF b, s
  <2> QED BY <1>1, <1>2, <1>3
<1> HIDE DEF n, b
<1>6. ASSUME NEW o \in 0 .. k.size - 1, NEW t \in Type, SizeOf[t] = n,
             base <= o, o < base + SizeOf[a], (o - base) % n = 0
      PROVE base .. ((base + SizeOf[a]) - 1) \subseteq Legal(k, o, t)
  <2> DEFINE y == o - base
             w == WalkTo(SpotOf(b, o), n)
  <2>1. y \in Nat /\ y < SizeOf[a] /\ y % n = 0 /\ s.off + y = o /\ o \in Nat
    BY <1>2, <1>3, <1>4, <1>6
  <2>2. LET v == WalkTo(SpotOf(s.ty, s.off + y), n)
        IN /\ s.off + SizeOf[a] <= SizeOf[s.ty] /\ v.success
           /\ v.array # None => /\ v.array \in Type /\ v.start \in Nat /\ v.start <= s.off
                                /\ s.off + SizeOf[a] <= v.start + SizeOf[v.array]
           /\ v.array = None => SizeOf[a] = n /\ y = 0
    <3>1. y % SizeOf[Of[a]] = 0
      BY <2>1 DEF n
    <3> HIDE DEF y, s
    <3> QED BY <1>2, <1>5, <2>1, <3>1, WalkIn DEF n, s, b
  <2>3. /\ base + SizeOf[a] <= SizeOf[b] /\ w.success
        /\ w.array # None => w.start <= base /\ base + SizeOf[a] <= w.start + SizeOf[w.array]
        /\ w.array = None => SizeOf[a] = n /\ y = 0
    <3> HIDE DEF y, s
    <3> QED BY <1>2, <2>1, <2>2
  <2> HIDE DEF w
  <2>4. /\ base \in Int /\ base + SizeOf[a] \in Int /\ 0 <= base /\ base + SizeOf[a] <= k.size
        /\ w.array = None => o <= base /\ base + SizeOf[a] <= o + n
    BY <1>1, <1>3, <1>4, <1>6, <2>3
  <2>5. Bounded(k, o, t, base, base + SizeOf[a])
    BY <1>6, <2>3, <2>4 DEF Bounded, w, b
  <2> DEFINE hi == base + SizeOf[a]
  <2> HIDE DEF hi
  <2>6. base .. (hi - 1) \subseteq Legal(k, o, t)
    BY <2>5, LegalIf, Zenon DEF hi
  <2> QED BY <2>6 DEF hi
<1> QED BY <1>6, Zenon DEF LegalRange, n

-----------------------------------------------------------------------------
(* The cache holds legal ranges *)

\* A cached range is legal for every fetch that it answers, unless its flag says
\* that it may be too wide or its chunk has had another type since.
CacheLegal ==
  \A e \in cache :
    e.chunk \in Chunk \ {None} /\ e.array /\ e.chunk \notin retyped =>
      LegalRange(chunk[e.chunk], e.lo, e.hi, e.period)

\* What is legal depends on the precise type and the size of a chunk.
LEMMA LegalSame ==
  ASSUME NEW k, NEW j, PreciseType(j) = PreciseType(k), j.size = k.size
  PROVE  /\ \A o, t : Legal(j, o, t) = Legal(k, o, t)
         /\ \A lo, hi, d : LegalRange(k, lo, hi, d) => LegalRange(j, lo, hi, d)
<1>1. \A o, t : Legal(j, o, t) = Legal(k, o, t)
  BY DEF Legal
<1> QED BY <1>1 DEF LegalRange

\* The fields of what a fetch caches: a range to rely on has its true period.
LEMMA EntryFields ==
  ASSUME NEW p, NEW t, NEW lo, NEW hi, NEW period \in Nat, NEW fits
  PROVE  LET e == BoundsEntry(p, t, lo, hi, period, fits)
         IN /\ e.chunk = p.chunk /\ e.lo = lo /\ e.hi = hi
            /\ e.array => fits /\ e.period = period
<1> DEFINE e == BoundsEntry(p, t, lo, hi, period, fits)
<1>1. /\ e.chunk = p.chunk /\ e.lo = lo /\ e.hi = hi /\ e.period = Short(period)
      /\ e.array = (fits /\ period < PeriodMod)
  BY DEF BoundsEntry
<1> HIDE DEF e
<1>2. e.array => fits /\ period < PeriodMod
  BY <1>1, Zenon
<1>3. e.array => e.period = period
  BY <1>1, <1>2, ShortFacts
<1> QED BY <1>1, <1>2, <1>3 DEF e

LEMMA CachedEither ==
  ASSUME NEW c, NEW e, Cached(c, e)
  PROVE  \A x \in cache' : x \in cache \/ x = e
<1>1. CASE c \in Cacheable
  <2>1. PICK rest \in {cache} \union {cache \ {v} : v \in cache} : cache' = rest \union {e}
    BY <1>1 DEF Cached, Inserted
  <2>2. rest \subseteq cache
    BY <2>1
  <2> QED BY <2>1, <2>2
<1>2. CASE c \notin Cacheable
  BY <1>2 DEF Cached
<1> QED BY <1>1, <1>2

\* A step that keeps the precise types of chunks, or notes that one has changed,
\* and caches no range but legal ones.
LEMMA CacheLegalKept ==
  ASSUME CacheLegal, retyped \subseteq retyped',
         \A c \in Chunk : \/ c \in retyped'
                          \/ /\ PreciseType(chunk'[c]) = PreciseType(chunk[c])
                             /\ chunk'[c].size = chunk[c].size,
         \A x \in cache' : \/ x \in cache
                           \/ x.chunk \notin Chunk \ {None} \/ ~x.array \/ x.chunk \in retyped'
                           \/ LegalRange(chunk'[x.chunk], x.lo, x.hi, x.period)
  PROVE  CacheLegal'
<1> SUFFICES ASSUME NEW e \in cache', e.chunk \in Chunk \ {None}, e.array, e.chunk \notin retyped'
             PROVE  LegalRange(chunk'[e.chunk], e.lo, e.hi, e.period)
  BY DEF CacheLegal
<1>1. CASE e \in cache
  <2>1. LegalRange(chunk[e.chunk], e.lo, e.hi, e.period)
    BY <1>1 DEF CacheLegal
  <2> QED BY <2>1, LegalSame
<1> QED BY <1>1

\* The ranges that a fetch of known memory caches and returns.
LEMMA KnownLegal ==
  ASSUME Good(chunk), CacheLegal, NEW p, Asks(p), NEW t \in Type, FetchKnown(p, t),
         retyped' = retyped
  PROVE  CacheLegal' /\ BoundsWithin'
<1> DEFINE c == p.chunk
           k == chunk[c]
           b == PreciseType(k)
           z == SizeOf[t]
           w == WalkTo(SpotOf(b, p.off), z)
           size == k.size
           lo == IF w.array = None THEN p.off ELSE w.start
           hi == IF w.array = None THEN p.off + z
                 ELSE IF LenOf[w.array] = 0 THEN size
                 ELSE w.start + LenOf[w.array] * z
           period == IF w.array = None THEN SizeOf[b] ELSE SizeOf[Of[w.array]]
           flag == w.size = z /\ (w.array = None \/ LenOf[w.array] > 0)
<1>1. ~Unknown(p) /\ chunk' = Precisified(chunk, c)
  BY DEF FetchKnown
<1>2. \/ /\ Cached(c, BoundsEntry(p, b, 0, size, SizeOf[b], TRUE))
         /\ fetched' = Result(p, t, "alloc", 0, size) /\ IsChar(t)
      \/ /\ Cached(c, BoundsEntry(p, None, p.off, p.off + 1, 1, TRUE))
         /\ fetched' = Result(p, t, "min", p.off, p.off + 1)
      \/ /\ w.success /\ Cached(c, BoundsEntry(p, t, lo, hi, period, flag))
         /\ fetched' = Result(p, t, IF w.size < z THEN "prefix" ELSE "walk", lo, hi)
  BY Zenon DEF FetchKnown, MinBounds
<1>3. c \in Chunk /\ p.off \in Offset /\ ~(p.off >= size)
  BY <1>1 DEF Asks, Unknown
<1>4. Sound(k) /\ SamePrecise(chunk, chunk')
  BY <1>1, <1>3, SoundChunk, PrecisifiedGood
<1>5. p.off \in 0 .. size - 1
  BY <1>3, <1>4, SizeFacts DEF Sound, Offset
<1>6. \A x \in Chunk : PreciseType(chunk'[x]) = PreciseType(chunk[x]) /\ chunk'[x].size = chunk[x].size
  BY <1>4 DEF SamePrecise
<1>7. ASSUME NEW e, Cached(c, e), e.chunk = c, e.array => LegalRange(k, e.lo, e.hi, e.period)
      PROVE CacheLegal'
  <2>1. \A x \in cache' : x \in cache \/ x = e
    BY <1>7, CachedEither
  <2>2. e.array => LegalRange(chunk'[e.chunk], e.lo, e.hi, e.period)
    BY <1>3, <1>6, <1>7, LegalSame
  <2> HIDE DEF c, k
  <2>3. \A x \in cache' : \/ x \in cache
                          \/ x.chunk \notin Chunk \ {None} \/ ~x.array \/ x.chunk \in retyped'
                          \/ LegalRange(chunk'[x.chunk], x.lo, x.hi, x.period)
    BY <2>1, <2>2
  <2> QED BY <1>6, <2>3, CacheLegalKept
<1>8. ASSUME NEW l, NEW h, NEW how, fetched' = Result(p, t, how, l, h),
             l .. (h - 1) \subseteq Legal(k, p.off, t)
      PROVE BoundsWithin'
  <2>1. fetched'.p = p /\ fetched'.t = t /\ fetched'.lo = l /\ fetched'.hi = h
    BY <1>8 DEF Result
  <2>2. Legal(chunk'[c], p.off, t) = Legal(k, p.off, t)
    BY <1>3, <1>6, LegalSame
  <2> HIDE DEF k
  <2>3. (fetched.lo .. (fetched.hi - 1) \subseteq Legal(Target, fetched.p.off, fetched.t))'
    BY <1>8, <2>1, <2>2 DEF Target
  <2> QED BY <2>3 DEF BoundsWithin
<1> HIDE DEF k, b, w, size, lo, hi, period, flag, z
<1>9. CASE /\ Cached(c, BoundsEntry(p, b, 0, size, SizeOf[b], TRUE))
           /\ fetched' = Result(p, t, "alloc", 0, size) /\ IsChar(t)
  <2> DEFINE e == BoundsEntry(p, b, 0, size, SizeOf[b], TRUE)
  <2>1. LegalRange(k, 0, size, SizeOf[b])
    BY <1>4, AllocLegal DEF b, size
  <2>2. e.chunk = c /\ e.lo = 0 /\ e.hi = size /\ (e.array => e.period = SizeOf[b])
    <3>1. SizeOf[b] \in Nat
      BY <1>4, <1>5, SoundFacts, SizeFacts DEF size, b
    <3>2. /\ e.chunk = c /\ e.lo = 0 /\ e.hi = size /\ e.period = Short(SizeOf[b])
          /\ e.array => SizeOf[b] < PeriodMod
      BY DEF BoundsEntry
    <3> HIDE DEF e
    <3> QED BY <3>1, <3>2, ShortFacts
  <2>3. 0 .. (size - 1) \subseteq Legal(k, p.off, t)
    BY <1>9 DEF Legal, size
  <2> HIDE DEF e
  <2>4. CacheLegal'
    BY <1>7, <1>9, <2>1, <2>2 DEF e
  <2>5. BoundsWithin'
    BY <1>8, <1>9, <2>3
  <2> QED BY <2>4, <2>5
<1>10. CASE /\ Cached(c, BoundsEntry(p, None, p.off, p.off + 1, 1, TRUE))
            /\ fetched' = Result(p, t, "min", p.off, p.off + 1)
  <2> DEFINE e == BoundsEntry(p, None, p.off, p.off + 1, 1, TRUE)
  <2>1. /\ LegalRange(k, p.off, p.off + 1, 1)
        /\ p.off .. ((p.off + 1) - 1) \subseteq Legal(k, p.off, t)
    BY <1>4, <1>5, ByteLegal DEF size
  <2>2. e.chunk = c /\ e.lo = p.off /\ e.hi = p.off + 1 /\ (e.array => e.period = 1)
    <3>1. Short(1) = 1
      BY ShortFacts, PeriodAssumption
    <3>2. e.chunk = c /\ e.lo = p.off /\ e.hi = p.off + 1 /\ e.period = Short(1)
      BY DEF BoundsEntry
    <3> QED BY <3>1, <3>2
  <2> HIDE DEF e
  <2>3. CacheLegal'
    BY <1>7, <1>10, <2>1, <2>2 DEF e
  <2>4. BoundsWithin'
    BY <1>8, <1>10, <2>1, Zenon
  <2> QED BY <2>3, <2>4
<1>11. CASE /\ w.success /\ Cached(c, BoundsEntry(p, t, lo, hi, period, flag))
            /\ fetched' = Result(p, t, IF w.size < z THEN "prefix" ELSE "walk", lo, hi)
  <2> DEFINE e == BoundsEntry(p, t, lo, hi, period, flag)
  <2>1. w = WalkTo(SpotOf(PreciseType(k), p.off), SizeOf[t]) /\ z = SizeOf[t]
    BY DEF w, b, z
  <2>2. ASSUME w.size = z
        PROVE /\ flag => LegalRange(k, lo, hi, period)
              /\ lo .. (hi - 1) \subseteq Legal(k, p.off, t)
    <3>1. CASE w.array = None
      <4>1. lo = p.off /\ hi = p.off + z /\ period = SizeOf[b]
        BY <3>1 DEF lo, hi, period
      <4>2. /\ LegalRange(k, p.off, p.off + z, SizeOf[b])
            /\ p.off .. ((p.off + z) - 1) \subseteq Legal(k, p.off, t)
        BY <1>4, <1>5, <1>11, <2>1, <2>2, <3>1, ObjectLegal DEF size, b
      <4> QED BY <4>1, <4>2
    <3>2. CASE w.array # None
      <4>1. /\ lo = w.start /\ period = SizeOf[Of[w.array]]
            /\ hi = IF LenOf[w.array] = 0 THEN k.size ELSE w.start + LenOf[w.array] * SizeOf[t]
        BY <3>2 DEF lo, hi, period, z, size
      <4>2. flag => LenOf[w.array] > 0
        BY <3>2, SMTT(30) DEF flag
      <4>3. /\ LenOf[w.array] > 0 => LegalRange(k, lo, hi, SizeOf[Of[w.array]])
            /\ lo .. (hi - 1) \subseteq Legal(k, p.off, t)
        BY <1>4, <1>5, <1>11, <2>1, <2>2, <3>2, <4>1, ArrayLegal DEF size
      <4> QED BY <4>1, <4>2, <4>3
    <3> QED BY <3>1, <3>2
  <2>3. /\ e.chunk = c /\ e.lo = lo /\ e.hi = hi
        /\ e.array => flag /\ e.period = period
    <3>1. period \in Nat
      <4>1. SpotOf(b, p.off) \in Spot /\ SpotOf(b, p.off).ty = b /\ SizeOf[b] <= MaxOff /\ SizeOf[b] \in Nat
        BY <1>4, <1>5, SoundFacts DEF size, b
      <4>2. Within(SpotOf(b, p.off), z, w)
        BY <1>11, <4>1, WalkWithin DEF w
      <4>3. w.array # None => SizeOf[Of[w.array]] \in Nat
        BY <4>2 DEF Within
      <4> QED BY <4>1, <4>3 DEF period
    <3> QED BY <3>1, EntryFields
  <2> HIDE DEF e
  <2>4. e.array => LegalRange(k, e.lo, e.hi, e.period)
    BY <2>2, <2>3 DEF flag
  <2>5. CacheLegal'
    BY <1>7, <1>11, <2>3, <2>4 DEF e
  <2>6. CASE w.size = z
    BY <1>8, <1>11, <2>2, <2>5, <2>6
  <2>7. CASE w.size # z
    <3>1. w.size < z
      <4>1. Within(SpotOf(b, p.off), z, w)
        <5>1. /\ SpotOf(b, p.off) \in Spot /\ SpotOf(b, p.off).ty = b /\ SizeOf[b] <= MaxOff
          BY <1>4, <1>5, SoundFacts DEF size, b
        <5> QED BY <1>11, <5>1, WalkWithin DEF w
      <4> QED BY <2>7, <4>1, SizeFacts DEF Within, z
    <3>2. fetched'.how = "prefix"
      BY <1>11, <3>1 DEF Result
    <3>3. BoundsWithin'
      BY <3>2 DEF BoundsWithin, Answered
    <3> QED BY <2>5, <3>3
  <2> QED BY <2>5, <2>6, <2>7
<1> QED BY <1>2, <1>9, <1>10, <1>11

\* A fetch answered from the cache.
LEMMA HitLegal ==
  ASSUME Good(chunk), CacheLegal, NEW p, Asks(p), NEW t \in Type, FetchCached(p, t),
         retyped' = retyped
  PROVE  CacheLegal' /\ BoundsWithin'
<1>1. PICK e \in cache : Covers(e, p, t) /\ fetched' = Result(p, t, "hit", e.lo, e.hi)
  BY DEF FetchCached
<1>2. chunk' = chunk /\ cache' = cache
  BY DEF FetchCached
<1>3. CacheLegal'
  BY <1>2 DEF CacheLegal
<1> DEFINE c == p.chunk
           k == chunk[c]
<1>4. /\ fetched'.p = p /\ fetched'.t = t /\ fetched'.lo = e.lo /\ fetched'.hi = e.hi
      /\ fetched'.how = "hit"
  BY <1>1 DEF Result
<1>5. ASSUME Answered({"hit", "walk", "alloc", "min"})', ~Tainted'
      PROVE e.lo .. (e.hi - 1) \subseteq Legal(k, p.off, t)
  <2>1. c # None /\ ~(p.off >= k.size)
    BY <1>2, <1>4, <1>5 DEF Answered, Unknown
  <2>2. c \in Chunk \ {None}
    BY <2>1 DEF Asks
  <2>3. /\ e.chunk = c /\ e.period = SizeOf[t]
        /\ e.lo <= p.off /\ p.off < e.hi /\ Steps(p.off - e.lo, e.period)
    BY <1>1 DEF Covers
  <2>4. e.array /\ c \notin retyped
    BY <1>2, <1>4, <1>5, <2>3 DEF Tainted
  <2>5. LegalRange(k, e.lo, e.hi, e.period)
    BY <2>2, <2>3, <2>4 DEF CacheLegal
  <2>6. p.off \in 0 .. k.size - 1
    <3>1. Sound(k)
      BY <2>2, SoundChunk
    <3> HIDE DEF k
    <3> QED BY <2>1, <3>1, SizeFacts DEF Sound, Asks, Offset
  <2> HIDE DEF k
  <2>7. (p.off - e.lo) % e.period = 0
    <3>1. SizeOf[t] \in Nat /\ SizeOf[t] > 0
      BY SizeFacts
    <3>2. CASE p.off - e.lo = 0
      <4>1. 0 % SizeOf[t] = 0
        BY <3>1
      <4> QED BY <2>3, <3>2, <4>1
    <3>3. CASE p.off - e.lo # 0
      BY <2>3, <3>3 DEF Steps
    <3> QED BY <3>2, <3>3
  <2> QED BY <2>3, <2>5, <2>6, <2>7 DEF LegalRange
<1>6. (fetched.lo .. (fetched.hi - 1) \subseteq Legal(Target, fetched.p.off, fetched.t))' <=>
        e.lo .. (e.hi - 1) \subseteq Legal(k, p.off, t)
  BY <1>2, <1>4 DEF Target
<1>7. BoundsWithin'
  BY <1>5, <1>6 DEF BoundsWithin
<1> QED BY <1>3, <1>7

\* Any other fetch: it answers for memory that liballocs does not know.
LEMMA OtherLegal ==
  ASSUME CacheLegal, BoundsWithin, NEW p, Asks(p), NEW t \in Type, retyped' = retyped,
         \/ FetchNull(p, t) \/ \E d \in Reach : FetchFake(p, d, t) \/ FetchUnknown(p, d, t)
  PROVE  CacheLegal' /\ BoundsWithin'
<1>1. CASE \E d \in Reach : FetchFake(p, d, t) \/ FetchUnknown(p, d, t)
  <2>1. chunk' = chunk /\ cache' = cache /\ fetched' = Result(p, t, "max", 0, 0)
    BY <1>1 DEF FetchFake, FetchUnknown
  <2>2. fetched'.how = "max"
    BY <2>1 DEF Result
  <2> QED BY <2>1, <2>2 DEF CacheLegal, BoundsWithin, Answered
<1>2. CASE FetchNull(p, t)
  <2>1. chunk' = chunk /\ IsNull(p)
    BY <1>2 DEF FetchNull
  <2>2. p.chunk \notin Chunk \ {None}
    <3> SUFFICES ASSUME p.chunk \in Chunk, p.chunk # None
                 PROVE FALSE
      OBVIOUS
    <3>1. Place[p.chunk] \in Nat /\ Place[p.chunk] # 0 /\ p.off \in Nat
      BY PlaceAssumption, SizeFacts DEF Asks, Offset
    <3> QED BY <2>1, <3>1 DEF IsNull, Address
  <2>3. \/ fetched' = fetched /\ cache' = cache
        \/ /\ fetched' = Result(p, t, "min", 0, 1)
           /\ cache' = cache \/ Inserted(BoundsEntry(p, None, 0, 1, 1, TRUE))
    BY <1>2 DEF FetchNull
  <2>4. CASE fetched' = fetched /\ cache' = cache
    BY <2>1, <2>4 DEF CacheLegal, BoundsWithin, Answered, Unknown, Target, Tainted
  <2>5. CASE /\ fetched' = Result(p, t, "min", 0, 1)
             /\ cache' = cache \/ Inserted(BoundsEntry(p, None, 0, 1, 1, TRUE))
    <3> DEFINE e == BoundsEntry(p, None, 0, 1, 1, TRUE)
    <3>1. e.chunk = p.chunk
      BY DEF BoundsEntry
    <3> HIDE DEF e
    <3>2. \A x \in cache' : x \in cache \/ x = e
      <4>1. CASE cache' = cache
        BY <4>1
      <4>2. CASE Inserted(e)
        <5>1. PICK rest \in {cache} \union {cache \ {v} : v \in cache} : cache' = rest \union {e}
          BY <4>2 DEF Inserted
        <5>2. rest \subseteq cache
          BY <5>1
        <5> QED BY <5>1, <5>2
      <4> QED BY <2>5, <4>1, <4>2 DEF e
    <3>3. CacheLegal'
      BY <2>1, <2>2, <3>1, <3>2 DEF CacheLegal
    <3>4. fetched'.p = p
      BY <2>5 DEF Result
    <3>5. BoundsWithin'
      BY <2>1, <3>4 DEF BoundsWithin, Answered
    <3> QED BY <3>3, <3>5
  <2> QED BY <2>3, <2>4, <2>5
<1> QED BY <1>1, <1>2

\* What a check of __is_a caches is legal where the search has found the test
\* type; where it types the chunk lazily, that is noted.
LEMMA IsALegal ==
  ASSUME Good(chunk), CacheLegal, NEW p \in Ptr, NEW t \in Asked, IsAU(p, t),
         retyped' = retyped \union (IF last'.verdict = "lazy" THEN {last'.p.chunk} ELSE {})
  PROVE  CacheLegal'
<1> DEFINE c == p.chunk
           k == chunk[c]
           b == PreciseType(k)
           r == find_matching_subobject(t, SpotOf(b, p.off))
           e == RangeOf(p, t, r)
           first == [chunk |-> c, ty |-> t, period |-> Short(SizeOf[t]), array |-> FALSE,
                     lo |-> 0, hi |-> SizeOf[t]]
<1>0. t \in Type /\ retyped \subseteq retyped'
  BY AskedFacts
<1>1. \/ chunk' = chunk /\ cache' = cache
      \/ chunk' = chunk /\ Cached(c, first)
      \/ ~Unknown(p) /\ chunk' = Precisified(chunk, c) /\ cache' = cache
      \/ ~Unknown(p) /\ r.found /\ chunk' = Precisified(chunk, c) /\ Cached(c, e)
      \/ /\ ~Unknown(p) /\ Cached(c, e) /\ Ends("is_a", p, t, "lazy")
         /\ chunk' = [Precisified(chunk, c) EXCEPT
                        ![c] = SetType(@, ArrayType(t, k.size \div SizeOf[t]))]
  BY Zenon DEF IsAU, IsACached, IsAInternal
<1>2. ASSUME chunk' = chunk
      PROVE \A x \in Chunk : \/ x \in retyped'
                             \/ /\ PreciseType(chunk'[x]) = PreciseType(chunk[x])
                                /\ chunk'[x].size = chunk[x].size
  BY <1>2
<1>3. ASSUME ~Unknown(p)
      PROVE /\ c \in Chunk /\ Sound(k) /\ p.off \in Offset /\ SpotOf(b, p.off) \in Spot
            /\ Good(Precisified(chunk, c)) /\ SamePrecise(chunk, Precisified(chunk, c))
  <2>1. c \in Chunk /\ p.off \in Offset /\ At(chunk, p) \in Spot
    BY <1>3, KnownFacts
  <2> QED BY <2>1, SoundChunk, PrecisifiedGood DEF At
<1>4. CASE chunk' = chunk /\ cache' = cache
  BY <1>0, <1>2, <1>4, CacheLegalKept
<1>5. CASE chunk' = chunk /\ Cached(c, first)
  <2>1. ~first.array
    OBVIOUS
  <2> HIDE DEF first
  <2>2. \A x \in cache' : x \in cache \/ ~x.array
    BY <1>5, <2>1, CachedEither
  <2> QED BY <1>0, <1>2, <1>5, <2>2, CacheLegalKept
<1>6. CASE ~Unknown(p) /\ chunk' = Precisified(chunk, c) /\ cache' = cache
  BY <1>0, <1>3, <1>6, CacheLegalKept DEF SamePrecise
<1>7. CASE ~Unknown(p) /\ r.found /\ chunk' = Precisified(chunk, c) /\ Cached(c, e)
  <2>1. \A x \in Chunk : PreciseType(chunk'[x]) = PreciseType(chunk[x]) /\ chunk'[x].size = chunk[x].size
    BY <1>3, <1>7 DEF SamePrecise
  <2>2. ASSUME e.array
        PROVE LegalRange(k, e.lo, e.hi, e.period)
    <3> DEFINE a == r.containing
    <3>1. a # None /\ IsArray(a)
      BY <2>2 DEF RangeOf
    <3>2. r.sum \in Nat /\ r.sum <= p.off /\ r.pos \in Nat
      <4>1. SpotOf(b, p.off).off = p.off
        BY DEF SpotOf
      <4> HIDE DEF b
      <4> QED BY <1>0, <1>3, <1>7, <4>1, FindRange
    <3>3. r.pos = 0 /\ Of[a] = t /\ a \in TypesAt(SpotOf(b, r.sum))
      <4>1. SpotOf(b, p.off).ty = b
        BY DEF SpotOf
      <4> HIDE DEF b
      <4> QED BY <1>0, <1>3, <1>7, <3>1, <4>1, FindArray
    <3>4. e.lo = r.sum /\ e.hi = r.sum + SizeOf[a] /\ e.period = SizeOf[Of[a]]
      <4>1. /\ e.array = /\ r.containing # None /\ IsArray(r.containing) /\ LenOf[r.containing] > 0
                         /\ SizeOf[t] < PeriodMod
            /\ e.period = Short(SizeOf[t])
        BY DEF RangeOf
      <4>2. e.lo = r.sum - r.pos /\ e.hi = (r.sum - r.pos) + SizeOf[a]
        BY <2>2 DEF RangeOf
      <4> HIDE DEF r, e
      <4>3. SizeOf[t] < PeriodMod
        BY <2>2, <4>1
      <4>4. SizeOf[t] \in Nat
        BY <1>0, SizeFacts
      <4>5. e.period = SizeOf[t]
        BY <4>1, <4>3, <4>4, ShortFacts
      <4> QED BY <3>2, <3>3, <4>2, <4>5
    <3>5. r.sum \in Offset
      <4> HIDE DEF r
      <4> QED BY <1>3, <1>7, <3>2, SizeFacts DEF Offset
    <3>6. LegalRange(k, r.sum, r.sum + SizeOf[a], SizeOf[Of[a]])
      <4> HIDE DEF r, k
      <4> QED BY <1>3, <1>7, <3>1, <3>3, <3>5, FoundLegal DEF b
    <3> HIDE DEF r, e, k
    <3> QED BY <3>4, <3>6
  <2>3. e.chunk = c
    BY DEF RangeOf
  <2> HIDE DEF e
  <2>4. \A x \in cache' : x \in cache \/ x = e
    BY <1>7, CachedEither
  <2>5. e.array => LegalRange(chunk'[e.chunk], e.lo, e.hi, e.period)
    BY <1>3, <1>7, <2>1, <2>2, <2>3, LegalSame
  <2> HIDE DEF c, k
  <2>6. \A x \in cache' : \/ x \in cache
                          \/ x.chunk \notin Chunk \ {None} \/ ~x.array \/ x.chunk \in retyped'
                          \/ LegalRange(chunk'[x.chunk], x.lo, x.hi, x.period)
    BY <2>4, <2>5
  <2> QED BY <1>0, <2>1, <2>6, CacheLegalKept
<1>8. CASE /\ ~Unknown(p) /\ Cached(c, e) /\ Ends("is_a", p, t, "lazy")
           /\ chunk' = [Precisified(chunk, c) EXCEPT
                          ![c] = SetType(@, ArrayType(t, k.size \div SizeOf[t]))]
  <2>1. c \in retyped'
    <3>1. last'.verdict = "lazy" /\ last'.p.chunk = c
      BY <1>8 DEF Ends
    <3> QED BY <3>1
  <2>2. e.chunk = c
    BY DEF RangeOf
  <2> HIDE DEF e
  <2>3. \A x \in cache' : x \in cache \/ x.chunk \in retyped'
    BY <1>8, <2>1, <2>2, CachedEither
  <2>4. \A x \in Chunk \ {c} : chunk'[x] = Precisified(chunk, c)[x]
    <3>1. Precisified(chunk, c) \in [Chunk -> ChunkState]
      BY <1>3, <1>8 DEF Good
    <3> DEFINE pc == Precisified(chunk, c)
    <3> HIDE DEF pc
    <3> QED BY <1>8, <3>1 DEF pc
  <2>5. \A x \in Chunk : \/ x \in retyped'
                         \/ /\ PreciseType(chunk'[x]) = PreciseType(chunk[x])
                            /\ chunk'[x].size = chunk[x].size
    BY <1>3, <1>8, <2>1, <2>4 DEF SamePrecise
  <2> QED BY <1>0, <2>3, <2>5, CacheLegalKept
<1> QED BY <1>1, <1>4, <1>5, <1>6, <1>7, <1>8

\* A chunk that is freed takes its ranges with it.
LEMMA RecycleLegal ==
  ASSUME Good(chunk), CacheLegal, Recycle
  PROVE  CacheLegal'
<1>1. PICK c \in Heap, i \in InitChunk :
        /\ chunk' = [chunk EXCEPT ![c] = [ty |-> i[c].ty, size |-> i[c].size, typed |-> FALSE,
                                          loose |-> FALSE, special |-> FALSE]]
        /\ cache' = Uncached(c) /\ retyped' = retyped \ {c}
  BY DEF Recycle
<1>2. \A e \in cache' : e \in cache /\ e.chunk # c /\ (e.chunk \notin retyped' => e.chunk \notin retyped)
  BY <1>1 DEF Uncached
<1>3. \A x \in Chunk \ {c} : chunk'[x] = chunk[x]
  BY <1>1 DEF Good
<1> QED BY <1>2, <1>3 DEF CacheLegal

-----------------------------------------------------------------------------
(* The inductive invariant of the fetches *)

FInv == Good(chunk) /\ Whole(chunk) /\ Faked /\ MaxReached /\ ElementsExact

LEMMA FetchStep ==
  ASSUME FInv, Fetch
  PROVE  FInv'
<1>1. PICK q \in Ptr, t \in PointeeType :
        (q.trap => q.off >= SizeOf[t]) /\ FetchBounds(Untrapped(q, t), t)
  BY DEF Fetch
<1> DEFINE p == Untrapped(q, t)
<1>2. t \in Type
  BY PlaceAssumption
<1>3. Asks(p)
  BY <1>1, <1>2, UntrappedFacts
<1> HIDE DEF p
<1>4. CASE FetchCached(p, t)
  <2>1. /\ UNCHANGED <<chunk, fake, reached>>
        /\ fetched'.how = "hit"
    BY <1>4 DEF FetchCached, Result
  <2>2. Faked' /\ MaxReached'
    BY <2>1 DEF FInv, Faked, MaxReached
  <2> QED BY <2>1, <2>2, ExactIfOther DEF FInv
<1>5. CASE FetchNull(p, t)
  <2>1. /\ UNCHANGED <<chunk, fake, reached>> /\ IsNull(p)
        /\ fetched' = fetched \/ fetched' = Result(p, t, "min", 0, 1)
    BY <1>5 DEF FetchNull
  <2>2. CASE fetched' = fetched
    BY <2>1, <2>2 DEF FInv, Faked, MaxReached, ElementsExact, Answered, Unknown, Target
  <2>3. CASE fetched' = Result(p, t, "min", 0, 1)
    <3>1. fetched'.p = p /\ fetched'.how = "min"
      BY <2>3 DEF Result
    <3>2. Faked' /\ MaxReached'
      BY <2>1, <3>1 DEF FInv, Faked, MaxReached
    <3> QED BY <2>1, <3>1, <3>2, ExactIfOther DEF FInv
  <2> QED BY <2>1, <2>2, <2>3
<1>6. CASE FetchKnown(p, t)
  <2>1. /\ Good(chunk') /\ Whole(chunk') /\ ElementsExact'
        /\ fetched'.how # "max" /\ UNCHANGED <<fake, reached>>
    BY <1>2, <1>3, <1>6, KnownStep DEF FInv
  <2> QED BY <2>1 DEF FInv, Faked, MaxReached
<1>7. ASSUME NEW d \in Reach, FetchFake(p, d, t) \/ FetchUnknown(p, d, t)
      PROVE FInv'
  <2>1. Faked' /\ MaxReached'
    BY <1>2, <1>3, <1>7, FakeStep, UnknownStep DEF FInv
  <2>2. chunk' = chunk /\ fetched'.how = "max"
    BY <1>7 DEF FetchFake, FetchUnknown, Result
  <2> QED BY <2>1, <2>2, ExactIfOther DEF FInv
<1> QED BY <1>1, <1>4, <1>5, <1>6, <1>7 DEF FetchBounds, p

LEMMA FetchInvariant == FetchSpec => []FInv
<1>1. FetchInit => FInv
  <2> SUFFICES ASSUME FetchInit PROVE FInv
    OBVIOUS
  <2>1. Good(chunk)
    BY InitGood DEF FetchInit, IInv
  <2>2. Whole(chunk)
    <3>1. PICK i \in InitChunk :
            chunk = [c \in Chunk |-> [ty |-> i[c].ty, size |-> i[c].size,
                                      typed |-> FALSE, loose |-> FALSE, special |-> FALSE]]
      BY DEF FetchInit, Init
    <3>2. ASSUME NEW c \in Chunk
          PROVE Full(PreciseType(chunk[c]))
      <4>1. chunk[c] \in ChunkState /\ chunk[c].ty = i[c].ty /\ chunk[c].size = i[c].size
        BY <2>1, <3>1 DEF Good
      <4> QED BY <4>1, InitWhole
    <3> QED BY <3>2 DEF Whole
  <2>3. fake = {} /\ reached = 0 /\ fetched.how = "none"
    BY DEF FetchInit, Nothing
  <2> QED BY <2>1, <2>2, <2>3 DEF FInv, Faked, MaxReached, ElementsExact, Answered
<1>2. FInv /\ [FetchNext]_allvars => FInv'
  <2> SUFFICES ASSUME FInv, [FetchNext]_allvars PROVE FInv'
    OBVIOUS
  <2>1. ASSUME Good(chunk'), Whole(chunk'), fetched' = Nothing, UNCHANGED <<fake, reached>>
        PROVE FInv'
    <3>1. fetched'.how = "none"
      BY <2>1 DEF Nothing
    <3>2. Faked' /\ MaxReached'
      BY <2>1, <3>1 DEF FInv, Faked, MaxReached
    <3> QED BY <2>1, <3>1, <3>2, ExactIfOther DEF FInv
  <2>2. CASE IsAFirst
    <3>1. PICK p \in Ptr, t \in TestType : IsAU(p, t)
      BY <2>2 DEF IsAFirst, IsA
    <3>2. t \in Asked
      BY DEF Asked
    <3>3. Good(chunk') /\ Whole(chunk')
      BY <3>1, <3>2, IsAStep, IsAWhole DEF FInv, Stays
    <3> QED BY <2>1, <2>2, <3>3 DEF IsAFirst
  <2>3. CASE Fetch
    BY <2>3, FetchStep
  <2>4. CASE Recycle
    <3>1. fetched' = Nothing /\ UNCHANGED <<fake, reached>>
      BY <2>4 DEF Recycle
    <3> QED BY <2>1, <2>4, <3>1, RecycleGood DEF FInv
  <2>5. CASE UNCHANGED allvars
    <3>1. UNCHANGED <<chunk, fake, reached, fetched>>
      BY <2>5 DEF allvars, vars, bvars
    <3> QED BY <3>1 DEF FInv, Faked, MaxReached, ElementsExact, Answered, Unknown, Target
  <2> QED BY <2>2, <2>3, <2>4, <2>5 DEF FetchNext
<1> QED BY <1>1, <1>2, PTL DEF FetchSpec

\* The ranges in the cache are legal, and so is what a fetch returns.
LEMMA LegalInvariant == FetchSpec => [](CacheLegal /\ BoundsWithin)
<1>1. FetchInit => CacheLegal /\ BoundsWithin
  <2> SUFFICES ASSUME FetchInit PROVE CacheLegal /\ BoundsWithin
    OBVIOUS
  <2>1. cache = {} /\ fetched.how = "none"
    BY DEF FetchInit, Init, Nothing
  <2> QED BY <2>1 DEF CacheLegal, BoundsWithin, Answered
<1>2. FInv /\ CacheLegal /\ BoundsWithin /\ [FetchNext]_allvars => (CacheLegal /\ BoundsWithin)'
  <2> SUFFICES ASSUME FInv, CacheLegal, BoundsWithin, [FetchNext]_allvars
               PROVE CacheLegal' /\ BoundsWithin'
    OBVIOUS
  <2>0. Good(chunk)
    BY DEF FInv
  <2>1. ASSUME fetched' = Nothing
        PROVE BoundsWithin'
    <3>1. fetched'.how = "none"
      BY <2>1 DEF Nothing
    <3> QED BY <3>1 DEF BoundsWithin, Answered
  <2>2. CASE IsAFirst
    <3>1. PICK p \in Ptr, t \in TestType : IsAU(p, t)
      BY <2>2 DEF IsAFirst, IsA
    <3>2. t \in Asked
      BY DEF Asked
    <3>3. /\ retyped' = retyped \union (IF last'.verdict = "lazy" THEN {last'.p.chunk} ELSE {})
          /\ fetched' = Nothing
      BY <2>2 DEF IsAFirst
    <3> QED BY <2>0, <2>1, <3>1, <3>2, <3>3, IsALegal
  <2>3. CASE Fetch
    <3>1. PICK q \in Ptr, t \in PointeeType :
            (q.trap => q.off >= SizeOf[t]) /\ FetchBounds(Untrapped(q, t), t)
      BY <2>3 DEF Fetch
    <3>2. retyped' = retyped /\ t \in Type
      BY <2>3, PlaceAssumption DEF Fetch
    <3> DEFINE p == Untrapped(q, t)
    <3>3. Asks(p)
      BY <3>1, <3>2, UntrappedFacts
    <3> HIDE DEF p
    <3>4. \/ FetchCached(p, t) \/ FetchKnown(p, t)
          \/ FetchNull(p, t) \/ \E d \in Reach : FetchFake(p, d, t) \/ FetchUnknown(p, d, t)
      BY <3>1 DEF FetchBounds, p
    <3>5. CASE FetchCached(p, t)
      BY <2>0, <3>2, <3>3, <3>5, HitLegal
    <3>6. CASE FetchKnown(p, t)
      BY <2>0, <3>2, <3>3, <3>6, KnownLegal
    <3>7. CASE FetchNull(p, t) \/ \E d \in Reach : FetchFake(p, d, t) \/ FetchUnknown(p, d, t)
      BY <3>2, <3>3, <3>7, OtherLegal
    <3> QED BY <3>4, <3>5, <3>6, <3>7
  <2>4. CASE Recycle
    <3>1. fetched' = Nothing
      BY <2>4 DEF Recycle
    <3> QED BY <2>0, <2>1, <2>4, <3>1, RecycleLegal
  <2>5. CASE UNCHANGED allvars
    <3>1. UNCHANGED <<chunk, cache, fetched, retyped>>
      BY <2>5 DEF allvars, vars, bvars
    <3> QED BY <3>1 DEF CacheLegal, BoundsWithin, Answered, Unknown, Target, Tainted
  <2> QED BY <2>2, <2>3, <2>4, <2>5 DEF FetchNext
<1> QED BY <1>1, <1>2, FetchInvariant, PTL DEF FetchSpec

-----------------------------------------------------------------------------
(* What is proved of the fetches *)

\* A walk for a pointer to an element of an array gives the whole array,
\* whatever the chunk's type was made from: its length, a lazy typing, or a
\* second allocation.
THEOREM ElementsCorrect == FetchSpec => []ElementsExact
<1>1. FInv => ElementsExact
  BY DEF FInv
<1> QED BY <1>1, FetchInvariant, PTL

\* Memory that liballocs knows goes unchecked only below the furthest address
\* that a pointer to unknown memory was derived to.
THEOREM UncheckedCorrect == FetchSpec => []UncheckedOnlyIfReached
<1>1. FInv => UncheckedOnlyIfReached
  BY DEF FInv, MaxReached, UncheckedOnlyIfReached, Answered
<1> QED BY <1>1, FetchInvariant, PTL

\* Fetched bounds, walked to or found in the cache, are never wider than the
\* array or object around the pointer (but for the ways of Tainted).
THEOREM BoundsCorrect == FetchSpec => []BoundsWithin
<1>1. CacheLegal /\ BoundsWithin => BoundsWithin
  OBVIOUS
<1> QED BY <1>1, LegalInvariant, PTL
=============================================================================
