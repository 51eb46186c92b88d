-------------------------- MODULE ShadowProvProofs --------------------------
(***************************************************************************)
(* Proofs about ShadowProv: for every layout of objects, every choice of    *)
(* the libc functions that are called and of the addresses their static     *)
(* results lie at, and any number of statements, the shadow byte of a       *)
(* pointer is the byte of the object it was made from, __check_deref uses   *)
(* it soundly, and the shadow stack is balanced.                            *)
(***************************************************************************)
EXTENDS ShadowProv, TLAPS

Names == Wrapped \cup {"user", "lib", "main", "none", "tweaked"}
Word == [c : Names, b : Byte]
Stages == {"none", "called", "in", "sorting", "comparing", "back"}
CallRec == [stage : Stages, f : Names, args : Seq(Pointer),
            dst : Var \cup Slots \cup {none}, base : Nat,
            inst : BOOLEAN, pushed : BOOLEAN, ret : Pointer]
AccessRec == [p : Pointer, res : {"none", "ok", "abort"}, at : Objs \cup {none}]

\* The shape of the state: TypeOK, and what it leaves open.
Memory ==
  /\ live \subseteq Objs /\ Objs \ Heap \subseteq live
  /\ var \in [Var -> Pointer] /\ mem \in [Slots -> Pointer]
  /\ cached \in [DOMAIN StaticAt -> Byte]
Control ==
  /\ stk \in Seq(Word) /\ call \in CallRec /\ formal \in Seq(Pointer)
  /\ odd \in BOOLEAN /\ real_qsort_cb \in {"none", "user", "lib"}
  /\ odd => call.stage = "back"

\* The shadow that was pushed for argument i is the argument's.
Passed(i) == Right([call.args[i] EXCEPT !.sh = stk[1 + i].b])

\* What is on the shadow stack, and what the callee may rely on, in each stage
\* of a call.
CalledInv ==
  /\ Len(stk) = call.base + 3 /\ ~call.pushed
  /\ call.f # "main" => stk[1].c = call.f     \* main's cookie may be missing
  /\ stk[1].c = call.f => Passed(1) /\ Passed(2)
  /\ call.f \in Callee \cup {"main"} /\ call.f \notin {"none", "tweaked"}
  /\ call.f \in (Searching \ {"getcwd"}) \cup Copying \cup {"strstr"} => call.args[1].val # 0
  /\ call.f = "qsort" => ObjAt(call.args[1].val) # none
InInv ==
  /\ Len(stk) = 6 /\ Len(formal) = 2 /\ ~call.pushed
  /\ \/ call.f = "user" /\ call.inst /\ stk[1].c = "tweaked"
     \/ call.f = "lib" /\ ~call.inst /\ stk[1].c = "lib" /\ Passed(1) /\ Passed(2)
SortingInv ==
  /\ call.f = "qsort" /\ Len(stk) = 6 /\ real_qsort_cb \in {"user", "lib"}
  /\ ObjAt(call.args[1].val) # none
ComparingInv ==
  /\ call.f = "qsort" /\ Len(stk) = 9 /\ real_qsort_cb \in {"user", "lib"}
  /\ ObjAt(call.args[1].val) # none
  /\ Len(formal) = 2 /\ ~formal[1].clean /\ ~formal[2].clean
BackInv ==
  /\ call.f # "tweaked" /\ Right(call.ret)
  /\ \/ /\ call.pushed /\ Len(stk) = 7
        /\ stk[1].b = call.ret.sh /\ stk[2].c = "tweaked"
     \/ /\ ~call.pushed /\ Len(stk) = 6
        /\ ~call.ret.clean \/ call.ret.val = 0
        /\ \/ call.f = "lib" /\ stk[1].c = "lib"
           \/ call.f \in Obstack /\ stk[1].c = "tweaked"
Protocol ==
  /\ call.stage = "none" => Len(stk) = 3
  /\ call.stage # "none" => Len(call.args) = 2 /\ call.base = IF call.f = "main" THEN 0 ELSE 3
  /\ call.stage \notin {"none", "called"} => call.f # "main"
  /\ call.stage # "none" /\ call.f # "main" => call.dst \in Var \cup Slots
  /\ call.stage = "called" => CalledInv
  /\ call.stage = "in" => InInv
  /\ call.stage = "sorting" => SortingInv
  /\ call.stage = "comparing" => ComparingInv
  /\ call.stage = "back" => BackInv

\* f, which is not dlopen, only returns addresses for which one static byte
\* does: addresses in o, and o's own if the byte is made from the address.
OneObject(f, o) == /\ StaticAt[f] \subseteq Range(o)
                   /\ f \in FromRet => StaticAt[f] \subseteq {Lo[o]}
CachedRight ==
  \A f \in DOMAIN StaticAt \ {"dlopen"}, o \in Objs \ Heap :
    OneObject(f, o) /\ cached[f] # 0 => cached[f] = ShadowFromWord(Lo[o])

AccessInv == access \in AccessRec /\ Enforced /\ NoFalseAlarm
IInv == Memory /\ Control /\ Protocol /\ OwnProvenance /\ CachedRight /\ AccessInv
-----------------------------------------------------------------------------
(***************************************************************************)
(* Words, objects and bytes.                                                *)
(***************************************************************************)
\* Every address is a number above the lowest page.
LEMMA AddrFacts ==
  /\ \A w \in Addr : w \in Nat /\ 1 < w
  /\ \A o \in Objs : /\ Lo[o] \in Addr /\ Lo[o] \in Range(o) /\ Range(o) \subseteq Addr
                     /\ \A v \in Lo[o] .. Hi[o] : v \in Addr
BY Layout DEF Addr, Range

\* One bit of an exclusive or is a number.
LEMMA XorBitNat ==
  ASSUME NEW a \in Nat, NEW b \in Nat, NEW p \in {1, 2, 4, 8, 16, 32, 64, 128}
  PROVE  XorBit(a, b, p) \in Nat
<1>1. /\ a \div p \in Nat /\ b \div p \in Nat
  OBVIOUS
<1>2. ((a \div p) + (b \div p)) % 2 \in {0, 1}
  BY <1>1
<1> QED
  BY <1>2 DEF XorBit

\* __shadow_from_word folds a word into a byte that is neither 0 nor 255.
LEMMA FoldedByte ==
  /\ \A w \in Addr : ShadowFromWord(w) \in 1..254
  /\ ShadowFromWord(0) = 0
<1>1. ASSUME NEW w \in Addr PROVE ShadowFromWord(w) \in 1..254
  <2> DEFINE a == w \div 256
             b == w % 256
  <2>1. w \in Nat /\ 1 < w
    BY AddrFacts
  <2>2. a \in Nat /\ b \in Nat /\ a \div 256 \in Nat
    BY <2>1
  <2>3. \A p \in {1, 2, 4, 8, 16, 32, 64, 128} : XorBit(a, b, p) \in Nat
    BY <2>2, XorBitNat, ZenonT(40)
  <2>4. Folded[w] = 256 * (a \div 256) + XorBit(a, b, 128) + XorBit(a, b, 64)
                      + XorBit(a, b, 32) + XorBit(a, b, 16) + XorBit(a, b, 8)
                      + XorBit(a, b, 4) + XorBit(a, b, 2) + XorBit(a, b, 1)
    BY DEF Folded
  <2>5. Folded[w] \in Nat
    <3> HIDE DEF a, b
    <3> QED  BY <2>2, <2>3, <2>4
  <2>6. Folded[w] % 254 \in 0..253
    BY <2>5
  <2> QED
    BY <2>1, <2>6 DEF ShadowFromWord
<1> QED
  BY <1>1 DEF ShadowFromWord

\* The same, as far as typing needs it.
LEMMA ByteType == \A w \in Addr \cup {0} : ShadowFromWord(w) \in Byte
BY FoldedByte DEF Byte

\* What __liballocs_get_alloc_base finds for an address in a live object.
LEMMA InObject ==
  ASSUME live \subseteq Objs, NEW o \in live, NEW v \in Range(o)
  PROVE  AllocBase(v) = Lo[o] /\ ObjAt(v) = o
<1>1. \A q \in live : v \in Range(q) => q = o
  BY Layout
<1>2. (CHOOSE q \in live : v \in Range(q)) = o
  BY <1>1
<1> QED
  BY <1>2 DEF AllocBase, ObjAt

\* And in general.
LEMMA BaseFacts ==
  ASSUME live \subseteq Objs, NEW v
  PROVE  /\ AllocBase(v) \in Addr \cup {0} /\ ObjAt(v) \in live \cup {none}
         /\ ObjAt(v) # none => ObjAt(v) \in Objs /\ v \in Range(ObjAt(v)) /\ AllocBase(v) = Lo[ObjAt(v)]
         /\ ObjAt(v) = none => AllocBase(v) = 0
<1>1. CASE \E o \in live : v \in Range(o)
  <2>1. PICK o \in live : v \in Range(o)
    BY <1>1
  <2>2. AllocBase(v) = Lo[o] /\ ObjAt(v) = o
    BY <2>1, InObject
  <2>3. o # none /\ o \in Objs
    BY Layout
  <2> QED
    BY <2>1, <2>2, <2>3, AddrFacts
<1>2. CASE ~\E o \in live : v \in Range(o)
  <2>1. AllocBase(v) = 0 /\ ObjAt(v) = none
    BY <1>2 DEF AllocBase, ObjAt
  <2> QED
    BY <2>1
<1> QED
  BY <1>1, <1>2

\* Bytes fetched are bytes.
LEMMA FetchType ==
  ASSUME live \subseteq Objs, NEW v
  PROVE  FetchShadow(v) \in Byte
BY BaseFacts, ByteType DEF FetchShadow

\* A pointer made from an object it points into carries the object's byte.
LEMMA MadeFacts ==
  ASSUME NEW o \in Objs \cup {none}, NEW v \in Addr \cup {0}, NEW b \in Byte
  PROVE  /\ Made(o, v, b) \in Pointer /\ Stray(v, b) \in Pointer
         /\ Right(Stray(v, b)) /\ ~Stray(v, b).clean
         /\ b = ShadowFromWord(Lo[o]) => Right(Made(o, v, b))
         /\ Made(o, v, b).sh = b /\ Stray(v, b).sh = b
BY DEF Made, Stray, Pointer, Right

\* A pointer that is moved, or given another byte.
LEMMA PointerExcept ==
  ASSUME NEW p \in Pointer, NEW v \in Addr \cup {0}, NEW b \in Byte
  PROVE  /\ [p EXCEPT !.val = v] \in Pointer /\ [p EXCEPT !.sh = b] \in Pointer
         /\ [p EXCEPT !.val = v, !.sh = b] \in Pointer
         /\ [p EXCEPT !.val = v, !.sh = b].sh = b
         /\ Right(p) /\ p.val # 0 => Right([p EXCEPT !.val = v])
         /\ Right([p EXCEPT !.sh = b]) /\ (v # 0 => p.val # 0) => Right([p EXCEPT !.val = v, !.sh = b])
         /\ [p EXCEPT !.sh = p.sh] = p
         /\ ~p.clean \/ p.val = 0 => Right([p EXCEPT !.sh = b])
<1>1. /\ [p EXCEPT !.val = v].val = v /\ [p EXCEPT !.val = v].sh = p.sh
      /\ [p EXCEPT !.val = v].org = p.org /\ [p EXCEPT !.val = v].clean = p.clean
  BY DEF Pointer
<1>7. /\ [p EXCEPT !.sh = b].val = p.val /\ [p EXCEPT !.sh = b].sh = b
      /\ [p EXCEPT !.sh = b].org = p.org /\ [p EXCEPT !.sh = b].clean = p.clean
  BY DEF Pointer
<1>8. /\ [p EXCEPT !.val = v, !.sh = b].val = v /\ [p EXCEPT !.val = v, !.sh = b].sh = b
      /\ [p EXCEPT !.val = v, !.sh = b].org = p.org
      /\ [p EXCEPT !.val = v, !.sh = b].clean = p.clean
  BY DEF Pointer
<1>9. [p EXCEPT !.sh = p.sh] = p
  BY DEF Pointer
<1>2. p.val \in Addr \cup {0} /\ p.sh \in Byte /\ p.org \in Objs \cup {none} /\ p.clean \in BOOLEAN
  BY DEF Pointer
<1>3. /\ [p EXCEPT !.val = v] \in Pointer /\ [p EXCEPT !.sh = b] \in Pointer
      /\ [p EXCEPT !.val = v, !.sh = b] \in Pointer
      /\ [p EXCEPT !.val = v, !.sh = b].sh = b
  BY DEF Pointer
<1>4. Right(p) /\ p.val # 0 => Right([p EXCEPT !.val = v])
  BY <1>1 DEF Right
<1>5. Right([p EXCEPT !.sh = b]) /\ (v # 0 => p.val # 0) => Right([p EXCEPT !.val = v, !.sh = b])
  BY <1>7, <1>8 DEF Right
<1>6. ~p.clean \/ p.val = 0 => Right([p EXCEPT !.sh = b])
  BY <1>7 DEF Right
<1> QED
  BY <1>9, <1>3, <1>4, <1>5, <1>6

\* The null pointer, with any byte.
LEMMA NullFacts == /\ Null \in Pointer /\ Right(Null) /\ Null.val = 0
                   /\ \A b \in Byte : /\ [Null EXCEPT !.sh = b] \in Pointer
                                      /\ Right([Null EXCEPT !.sh = b])
<1>1. Null \in Pointer /\ Right(Null) /\ Null.val = 0
  BY DEF Null, Pointer, Right, Byte
<1>2. ASSUME NEW b \in Byte
      PROVE  [Null EXCEPT !.sh = b] \in Pointer /\ Right([Null EXCEPT !.sh = b])
  BY <1>1, AddrFacts, PointerExcept
<1> QED
  BY <1>1, <1>2
-----------------------------------------------------------------------------
(***************************************************************************)
(* The shadow stack.                                                        *)
(***************************************************************************)
LEMMA NameFacts ==
  /\ Callee \subseteq Names /\ "main" \in Names /\ "none" \in Names /\ "tweaked" \in Names
  /\ "tweaked" \notin Callee /\ "none" \notin Callee /\ "main" \notin Callee
BY UsedAssumption DEF Callee, Names, Wrapped, Allocating, Finding, Searching, Copying,
                      FromRet, FromBase, Counting, Obstack

LEMMA WordFacts ==
  /\ \A b \in Byte : Shadow(b) \in Word /\ Shadow(b).b = b
  /\ \A f \in Names : Cookie(f) \in Word /\ Cookie(f).c = f
  /\ Clobbered \in Word /\ Clobbered.c = "tweaked"
BY NameFacts DEF Shadow, Cookie, Clobbered, Word, Byte, CookieByte

\* __tweak_argument_shadow_cookie changes the cookie and nothing else.
LEMMA TweakedFacts ==
  ASSUME NEW s \in Seq(Word), NEW f, Len(s) >= 1
  PROVE  /\ Tweaked(s, f) \in Seq(Word) /\ Len(Tweaked(s, f)) = Len(s)
         /\ s[1].c = f => Tweaked(s, f)[1].c = "tweaked"
<1>1. s[1] \in Word
  OBVIOUS
<1>2. [c |-> "tweaked", b |-> s[1].b] \in Word
  BY <1>1, NameFacts DEF Word
<1>3. CASE s[1].c = f
  <2>1. Tweaked(s, f) = [s EXCEPT ![1] = [c |-> "tweaked", b |-> s[1].b]]
    BY <1>3 DEF Tweaked
  <2> QED
    BY <1>2, <2>1
<1>4. CASE s[1].c # f
  BY <1>4 DEF Tweaked
<1> QED
  BY <1>3, <1>4

\* A result's shadow is the top of the stack, above a changed cookie.
LEMMA PushFacts ==
  ASSUME NEW s \in Seq(Word), Len(s) >= 1, NEW b \in Byte
  PROVE  /\ PushByte(s, b) \in Seq(Word) /\ Len(PushByte(s, b)) = Len(s) + 1
         /\ PushByte(s, b)[1].b = b /\ PushByte(s, b)[2].c = "tweaked"
         /\ PushWord(s, b) \in Seq(Word) /\ Len(PushWord(s, b)) = Len(s) + 1
         /\ PushWord(s, b)[1].b = b /\ PushWord(s, b)[2] = s[1]
<1>1. /\ Shadow(b) \in Word /\ Shadow(b).b = b /\ Clobbered \in Word /\ Clobbered.c = "tweaked"
  BY WordFacts
<1> DEFINE x == Shadow(b)
           y == Clobbered
<1>2. PushByte(s, b) = <<x, y>> \o Tail(s) /\ PushWord(s, b) = <<x>> \o s
  BY DEF PushByte, PushWord
<1> HIDE DEF x, y
<1>3. x \in Word /\ y \in Word
  BY <1>1 DEF x, y
<1>4. /\ Tail(s) \in Seq(Word) /\ Len(Tail(s)) = Len(s) - 1
      /\ <<x, y>> \in Seq(Word) /\ Len(<<x, y>>) = 2 /\ <<x>> \in Seq(Word) /\ Len(<<x>>) = 1
  BY <1>3
<1>5. /\ <<x, y>> \o Tail(s) \in Seq(Word) /\ Len(<<x, y>> \o Tail(s)) = Len(s) + 1
      /\ (<<x, y>> \o Tail(s))[1] = x /\ (<<x, y>> \o Tail(s))[2] = y
  BY <1>4
<1>6. /\ <<x>> \o s \in Seq(Word) /\ Len(<<x>> \o s) = Len(s) + 1
      /\ (<<x>> \o s)[1] = x /\ (<<x>> \o s)[2] = s[1]
  BY <1>4
<1> QED
  BY <1>1, <1>2, <1>5, <1>6 DEF x, y

\* Restoring __shadow_sp drops what is above the saved one.
LEMMA SuffixFacts ==
  ASSUME NEW s \in Seq(Word), NEW n \in 1..(Len(s) + 1)
  PROVE  SubSeq(s, n, Len(s)) \in Seq(Word) /\ Len(SubSeq(s, n, Len(s))) = Len(s) - n + 1
OBVIOUS

\* The formals of a function with two parameters.
LEMMA PairFacts ==
  ASSUME NEW S, NEW g \in [1..2 -> S]
  PROVE  g \in Seq(S) /\ Len(g) = 2
<1>1. Seq(S) = UNION {[1..n -> S] : n \in Nat}
  OBVIOUS
<1>2. g \in Seq(S)
  BY <1>1
<1>3. DOMAIN g = 1..2 /\ DOMAIN g = 1..Len(g) /\ Len(g) \in Nat
  BY <1>2
<1> QED
  BY <1>2, <1>3

\* The elements of a sequence.
LEMMA ElementFacts ==
  ASSUME NEW S, NEW s \in Seq(S), NEW i \in 1..Len(s)
  PROVE  s[i] \in S
OBVIOUS

\* Three words on top of a stack, as launder_qsort_cb and as a caller push them.
OnTop(x, y, z, s) == <<x, y, z>> \o s
OnTopOf(x, y, z, s) == <<x>> \o <<y, z>> \o s

LEMMA OnTopFacts ==
  ASSUME NEW x \in Word, NEW y \in Word, NEW z \in Word, NEW s \in Seq(Word)
  PROVE  /\ OnTop(x, y, z, s) \in Seq(Word) /\ Len(OnTop(x, y, z, s)) = Len(s) + 3
         /\ OnTop(x, y, z, s)[1] = x /\ OnTop(x, y, z, s)[2] = y /\ OnTop(x, y, z, s)[3] = z
<1>1. <<x, y, z>> \in Seq(Word) /\ Len(<<x, y, z>>) = 3
  OBVIOUS
<1>2. <<x, y, z>> \o s \in Seq(Word) /\ Len(<<x, y, z>> \o s) = Len(s) + 3
  BY <1>1
<1>3. /\ (<<x, y, z>> \o s)[1] = x /\ (<<x, y, z>> \o s)[2] = y
      /\ (<<x, y, z>> \o s)[3] = z
  BY <1>1
<1> QED
  BY <1>2, <1>3 DEF OnTop

\* A sequence on top of another.
LEMMA ConcatFacts ==
  ASSUME NEW S, NEW t \in Seq(S), NEW s \in Seq(S)
  PROVE  /\ t \o s \in Seq(S) /\ Len(t \o s) = Len(t) + Len(s)
         /\ \A i \in 1 .. Len(t) : (t \o s)[i] = t[i]
OBVIOUS

LEMMA OnTopOfFacts ==
  ASSUME NEW x \in Word, NEW y \in Word, NEW z \in Word, NEW s \in Seq(Word)
  PROVE  /\ OnTopOf(x, y, z, s) \in Seq(Word) /\ Len(OnTopOf(x, y, z, s)) = Len(s) + 3
         /\ OnTopOf(x, y, z, s)[1] = x /\ OnTopOf(x, y, z, s)[2] = y /\ OnTopOf(x, y, z, s)[3] = z
<1> DEFINE t == <<x>> \o <<y, z>>
<1>1. t \in Seq(Word) /\ Len(t) = 3 /\ t[1] = x /\ t[2] = y /\ t[3] = z
  OBVIOUS
<1> HIDE DEF t
<1>2. /\ t \o s \in Seq(Word) /\ Len(t \o s) = Len(t) + Len(s)
      /\ \A i \in 1 .. Len(t) : (t \o s)[i] = t[i]
  BY <1>1, ConcatFacts, Zenon
<1>3. 1 \in 1 .. Len(t) /\ 2 \in 1 .. Len(t) /\ 3 \in 1 .. Len(t) /\ Len(t) + Len(s) = Len(s) + 3
  BY <1>1
<1>4. (t \o s)[1] = x /\ (t \o s)[2] = y /\ (t \o s)[3] = z
  BY <1>1, <1>2, <1>3, Zenon
<1>5. OnTopOf(x, y, z, s) = t \o s
  BY DEF OnTopOf, t
<1> QED
  BY <1>2, <1>3, <1>4, <1>5, Zenon
-----------------------------------------------------------------------------
(***************************************************************************)
(* What the groups of actions have in common.                               *)
(***************************************************************************)
LEMMA IdleFacts ==
  /\ Idle \in CallRec /\ Idle.stage = "none" /\ Idle.f = "none"
BY NullFacts, NameFacts DEF Idle, CallRec, Stages

\* Updates of the record of the call in progress.
LEMMA CallExcept ==
  ASSUME call \in CallRec, NEW st \in Stages, NEW bo \in BOOLEAN, NEW r \in Pointer
  PROVE  /\ [call EXCEPT !.stage = st] \in CallRec
         /\ [call EXCEPT !.stage = st, !.inst = bo] \in CallRec
         /\ [call EXCEPT !.stage = st, !.pushed = TRUE, !.ret = r] \in CallRec
         /\ [call EXCEPT !.stage = st, !.ret = r] \in CallRec
BY DEF CallRec

\* The last dereference stays harmless until the next one.
LEMMA AccessKept ==
  ASSUME AccessInv, Running, access' = access \/ Resting
  PROVE  AccessInv'
<1>1. CASE access' = access
  BY <1>1 DEF AccessInv, Running, Enforced, NoFalseAlarm, AccessRec
<1>2. CASE Resting
  <2>1. access' \in AccessRec /\ access'.res = "none"
    BY <1>2, NullFacts DEF Resting, AccessRec
  <2> QED
    BY <2>1 DEF AccessInv, Enforced, NoFalseAlarm
<1> QED
  BY <1>1, <1>2

\* __check_deref on a pointer that has its own byte.
LEMMA AccessedInv ==
  ASSUME Memory, NEW p \in Pointer, Right(p), Accessed(p), live' = live
  PROVE  AccessInv'
<1> DEFINE ok == CheckDeref(p)
<1>1. /\ access'.p = p /\ access'.at = ObjAt(p.val)
      /\ access'.res = IF ok THEN "ok" ELSE "abort"
      /\ access' = [p |-> p, res |-> IF ok THEN "ok" ELSE "abort", at |-> ObjAt(p.val)]
  BY DEF Accessed
<1>2. live \subseteq Objs
  BY DEF Memory
<1>3. access' \in AccessRec
  <2>1. ObjAt(p.val) \in Objs \cup {none}
    BY <1>2, BaseFacts
  <2> HIDE DEF ok
  <2> QED
    BY <1>1, <2>1 DEF AccessRec
<1>4. ASSUME access'.res = "ok", p.clean
      PROVE  /\ ObjAt(p.val) # none
             /\ ShadowFromWord(Lo[ObjAt(p.val)]) = ShadowFromWord(Lo[p.org])
  <2>1. ok
    BY <1>1, <1>4
  <2>2. p.val # 0 /\ p.sh # 0 /\ ShadowFromWord(AllocBase(p.val)) = p.sh
    BY <2>1 DEF CheckDeref
  <2>3. ObjAt(p.val) # none
    BY <2>2, <1>2, BaseFacts, FoldedByte
  <2>4. AllocBase(p.val) = Lo[ObjAt(p.val)]
    BY <2>3, <1>2, BaseFacts
  <2> QED
    BY <2>2, <2>3, <2>4, <1>4 DEF Right
<1>5. Enforced'
  BY <1>1, <1>4 DEF Enforced
<1>6. ASSUME p.clean, p.val # 0, p.org \in live, p.val \in Range(p.org)
      PROVE  ok
  <2>1. AllocBase(p.val) = Lo[p.org]
    BY <1>2, <1>6, InObject
  <2>2. p.sh = ShadowFromWord(Lo[p.org])
    BY <1>6 DEF Right
  <2>3. p.sh \in 1..254
    BY <2>2, <1>2, <1>6, AddrFacts, FoldedByte
  <2> QED
    BY <2>1, <2>2, <2>3, <1>6 DEF CheckDeref
<1>7. NoFalseAlarm'
  BY <1>1, <1>6 DEF NoFalseAlarm
<1> QED
  BY <1>3, <1>5, <1>7 DEF AccessInv

\* Between calls nothing but the length of the stack matters.
LEMMA StatementControl ==
  ASSUME Control, Protocol, call.stage = "none",
         UNCHANGED <<stk, odd, call, formal, real_qsort_cb>>
  PROVE  Control' /\ Protocol'
BY DEF Control, Protocol

\* A wrapper that pushes the byte of the pointer it returns.
LEMMA ReturnsFacts ==
  ASSUME Control, Protocol, call.stage = "called", call.f # "main",
         NEW r \in Pointer, Right(r), NEW wide \in BOOLEAN, Returns(call.f, r, wide)
  PROVE  Control' /\ Protocol'
<1> DEFINE s == Tweaked(stk, call.f)
<1>1. /\ stk \in Seq(Word) /\ Len(stk) = 6 /\ stk[1].c = call.f /\ Len(call.args) = 2
      /\ call.base = 3 /\ call.f \notin {"none", "tweaked"} /\ call.dst \in Var \cup Slots
  <2>1. /\ CalledInv /\ Len(call.args) = 2 /\ call.base = 3 /\ call.dst \in Var \cup Slots
    BY DEF Protocol
  <2>2. stk \in Seq(Word)
    BY DEF Control
  <2> QED
    BY <2>1, <2>2 DEF CalledInv
<1>2. s \in Seq(Word) /\ Len(s) = 6 /\ s[1].c = "tweaked"
  BY <1>1, TweakedFacts, SMTT(30)
<1>3. r.sh \in Byte
  BY DEF Pointer
<1>4. /\ stk' = IF wide THEN PushWord(s, r.sh) ELSE PushByte(s, r.sh)
      /\ odd' = ~wide
      /\ call' = [call EXCEPT !.stage = "back", !.pushed = TRUE, !.ret = r]
      /\ UNCHANGED <<formal, real_qsort_cb>>
  BY DEF Returns
<1> HIDE DEF s
<1>5. stk' \in Seq(Word) /\ Len(stk') = 7 /\ stk'[1].b = r.sh /\ stk'[2].c = "tweaked"
  <2> DEFINE pw == PushWord(s, r.sh)
             pb == PushByte(s, r.sh)
  <2>1. /\ pw \in Seq(Word) /\ Len(pw) = 7 /\ pw[1].b = r.sh /\ pw[2].c = "tweaked"
        /\ pb \in Seq(Word) /\ Len(pb) = 7 /\ pb[1].b = r.sh /\ pb[2].c = "tweaked"
    <3>1. Len(s) >= 1 /\ Len(s) + 1 = 7
      BY <1>2
    <3>2. /\ pw \in Seq(Word) /\ Len(pw) = Len(s) + 1 /\ pw[1].b = r.sh /\ pw[2] = s[1]
          /\ pb \in Seq(Word) /\ Len(pb) = Len(s) + 1 /\ pb[1].b = r.sh /\ pb[2].c = "tweaked"
      BY <3>1, <1>2, <1>3, PushFacts, Zenon
    <3> QED
      BY <3>1, <3>2, <1>2
  <2>2. stk' = pw \/ stk' = pb
    BY <1>4
  <2> HIDE DEF pw, pb
  <2> QED
    BY <2>1, <2>2
<1>6. /\ call'.stage = "back" /\ call'.pushed = TRUE /\ call'.ret = r /\ call'.f = call.f
      /\ call'.args = call.args /\ call'.base = call.base /\ call'.dst = call.dst
  BY <1>4 DEF Control, CallRec
<1>7. call' \in CallRec
  BY <1>4, CallExcept DEF Control, Stages
<1>8. Control'
  BY <1>4, <1>5, <1>6, <1>7 DEF Control
<1>9. BackInv'
  BY <1>1, <1>5, <1>6 DEF BackInv
<1>10. Protocol'
  BY <1>1, <1>6, <1>9 DEF Protocol
<1> QED
  BY <1>8, <1>10

\* And the whole of the wrapper's step.
LEMMA WrapperDone ==
  ASSUME IInv, Running, call.stage = "called", call.f # "main",
         NEW r \in Pointer, Right(r), NEW wide \in BOOLEAN, Returns(call.f, r, wide),
         Memory', \A o \in Slots : Right(mem'[o]), CachedRight'
  PROVE  IInv'
<1>1. Control' /\ Protocol'
  BY ReturnsFacts DEF IInv
<1>2. UNCHANGED <<var, formal, access>>
  BY DEF Returns
<1>3. OwnProvenance'
  BY <1>2 DEF OwnProvenance, IInv
<1>4. AccessInv'
  BY <1>2, AccessKept DEF IInv
<1> QED
  BY <1>1, <1>3, <1>4 DEF IInv

LEMMA InitIInv == Init => IInv
<1> SUFFICES ASSUME Init PROVE IInv
  OBVIOUS
<1>1. Memory
  BY NullFacts, Layout DEF Init, Memory, Byte
<1>2. /\ ShadowFromWord(Lo[Argv]) \in Byte /\ 0 \in Byte /\ Lo[Argv] \in Addr
  BY ByteType, AddrFacts, Layout DEF Byte
<1>3. Made(Argv, Lo[Argv], 0) \in Pointer
  BY <1>2, MadeFacts, Layout
<1> DEFINE c1 == Cookie("main")
           c2 == Shadow(0)
           c3 == Shadow(ShadowFromWord(Lo[Argv]))
           a2 == Made(Argv, Lo[Argv], 0)
<1>4. c1 \in Word /\ c2 \in Word /\ c3 \in Word /\ c1.c = "main" /\ c2.b = 0
      /\ c3.b = ShadowFromWord(Lo[Argv])
  BY <1>2, WordFacts, NameFacts
<1>5. /\ stk \in {<<c1, c2, c3>>, <<c2, c2, c3>>, <<c2, c2, c2>>}
      /\ call = [Idle EXCEPT !.stage = "called", !.f = "main", !.args = <<Null, a2>>]
  BY DEF Init
<1>6. /\ call.stage = "called" /\ call.f = "main" /\ call.args = <<Null, a2>>
      /\ call.base = 0 /\ call.pushed = FALSE
  BY <1>5 DEF Idle
<1>7. call \in CallRec
  <2> HIDE DEF a2
  <2>1. <<Null, a2>> \in Seq(Pointer)
    BY <1>3, NullFacts DEF a2
  <2> QED
    BY <1>5, <2>1, IdleFacts, NameFacts DEF CallRec, Stages
<1>8. Control
  <2> HIDE DEF a2, c1, c2, c3
  <2>3. <<c1, c2, c3>> \in Seq(Word) /\ <<c2, c2, c3>> \in Seq(Word) /\ <<c2, c2, c2>> \in Seq(Word)
    BY <1>4
  <2>1. stk \in Seq(Word)
    BY <1>5, <2>3
  <2>2. formal \in Seq(Pointer) /\ odd = FALSE /\ real_qsort_cb = "none"
    BY DEF Init
  <2> QED
    BY <2>1, <2>2, <1>7 DEF Control
<1>9. stk[1].c = "main" => Passed(1) /\ Passed(2)
  <2>1. c2.c = "none"
    BY DEF Shadow
  <2>2. Right([Null EXCEPT !.sh = c2.b])
    BY <1>4, <1>2, NullFacts
  <2>3. [a2 EXCEPT !.sh = c3.b].sh = c3.b /\ [a2 EXCEPT !.sh = c3.b].org = Argv
    BY DEF Made
  <2>4. Right([a2 EXCEPT !.sh = c3.b])
    BY <2>3, <1>4 DEF Right
  <2> HIDE DEF a2, c1, c2, c3
  <2>5. CASE stk = <<c1, c2, c3>>
    <3>1. stk[2] = c2 /\ stk[3] = c3 /\ call.args[1] = Null /\ call.args[2] = a2
      BY <1>6, <2>5
    <3> QED
      BY <2>2, <2>4, <3>1 DEF Passed
  <2>6. CASE stk # <<c1, c2, c3>>
    BY <1>5, <2>1, <2>6
  <2> QED
    BY <2>5, <2>6
<1>10. Protocol
  <2> HIDE DEF a2, c1, c2, c3
  <2>1. Len(stk) = 3 /\ Len(call.args) = 2
    BY <1>5, <1>6
  <2>2. CalledInv
    BY <1>6, <1>9, <2>1 DEF CalledInv, Searching, Copying
  <2> QED
    BY <1>6, <2>1, <2>2 DEF Protocol
<1>11. OwnProvenance /\ CachedRight
  BY NullFacts DEF Init, OwnProvenance, CachedRight
<1>12. AccessInv
  BY NullFacts DEF Init, AccessInv, Enforced, NoFalseAlarm, AccessRec
<1> QED
  BY <1>1, <1>8, <1>10, <1>11, <1>12 DEF IInv
-----------------------------------------------------------------------------
(***************************************************************************)
(* One step of each action.                                                 *)
(***************************************************************************)
\* A statement between calls leaves the stack and the call alone.
LEMMA StatementDone ==
  ASSUME IInv, Running, call.stage = "none",
         UNCHANGED <<stk, odd, call, formal, cached, real_qsort_cb>>,
         Memory', \A x \in Var : Right(var'[x]), \A o \in Slots : Right(mem'[o]),
         AccessInv'
  PROVE  IInv'
<1>1. Control' /\ Protocol'
  BY StatementControl DEF IInv
<1>2. OwnProvenance' /\ CachedRight'
  BY DEF IInv, OwnProvenance, CachedRight
<1> QED
  BY <1>1, <1>2 DEF IInv

LEMMA AddrOfStep ==
  ASSUME IInv, NEW x \in Var, NEW o \in Objs, AddrOf(x, o)
  PROVE  IInv'
<1> DEFINE p == Made(o, Lo[o], ShadowFromWord(Lo[o]))
<1>1. p \in Pointer /\ Right(p)
  BY AddrFacts, ByteType, MadeFacts
<1>2. /\ Running /\ call.stage = "none" /\ Resting /\ var' = [var EXCEPT ![x] = p]
      /\ UNCHANGED <<live, mem, stk, odd, call, formal, cached, real_qsort_cb>>
  BY DEF AddrOf, Statement
<1> HIDE DEF p
<1>3. Memory' /\ \A y \in Var : Right(var'[y])
  BY <1>1, <1>2 DEF IInv, Memory, OwnProvenance
<1>4. \A q \in Slots : Right(mem'[q])
  BY <1>2 DEF IInv, OwnProvenance
<1>5. AccessInv'
  BY <1>2, AccessKept DEF IInv
<1> QED
  BY <1>2, <1>3, <1>4, <1>5, StatementDone

LEMMA ArithStep ==
  ASSUME IInv, NEW x \in Var, Arith(x)
  PROVE  IInv'
<1> DEFINE p == [var[x] EXCEPT !.val = var[x].val + 1]
<1>1. var[x] \in Pointer /\ Right(var[x]) /\ var[x].val \in Addr \cup {0}
  BY DEF IInv, Memory, OwnProvenance, Pointer
<1>2. /\ Running /\ call.stage = "none" /\ Resting /\ var' = [var EXCEPT ![x] = p]
      /\ UNCHANGED <<live, mem, stk, odd, call, formal, cached, real_qsort_cb>>
      /\ var[x].val + 1 \in Addr
  BY DEF Arith, Statement
<1>3. var[x].val # 0
  BY <1>2, AddrFacts
<1>4. p \in Pointer /\ Right(p)
  <2> DEFINE w == var[x].val + 1
  <2> HIDE DEF w
  <2> SUFFICES [var[x] EXCEPT !.val = w] \in Pointer /\ Right([var[x] EXCEPT !.val = w])
    BY DEF w
  <2>1. w \in Addr \cup {0} /\ 0 \in Byte
    BY <1>2 DEF w, Byte
  <2> QED
    BY <1>1, <1>3, <2>1, PointerExcept
<1> HIDE DEF p
<1>5. Memory' /\ \A y \in Var : Right(var'[y])
  BY <1>4, <1>2 DEF IInv, Memory, OwnProvenance
<1>6. \A q \in Slots : Right(mem'[q])
  BY <1>2 DEF IInv, OwnProvenance
<1>7. AccessInv'
  BY <1>2, AccessKept DEF IInv
<1> QED
  BY <1>2, <1>5, <1>6, <1>7, StatementDone

LEMMA LoadStep ==
  ASSUME IInv, NEW x \in Var, NEW y \in Var, Load(x, y)
  PROVE  IInv'
<1>1. /\ Running /\ call.stage = "none" /\ Accessed(var[y])
      /\ UNCHANGED <<live, mem, stk, odd, call, formal, cached, real_qsort_cb>>
      /\ \/ var' = var
         \/ \E q \in Slots : var' = [var EXCEPT ![x] = mem[q]]
  BY DEF Load, Statement
<1>2. /\ \A z \in Var : var[z] \in Pointer /\ Right(var[z])
      /\ \A q \in Slots : mem[q] \in Pointer /\ Right(mem[q])
      /\ var \in [Var -> Pointer]
  BY DEF IInv, Memory, OwnProvenance
<1>3. var' \in [Var -> Pointer] /\ \A z \in Var : Right(var'[z])
  BY <1>1, <1>2
<1>4. Memory'
  BY <1>1, <1>3 DEF IInv, Memory
<1>5. AccessInv'
  BY <1>1, <1>2, AccessedInv DEF IInv
<1>6. \A q \in Slots : Right(mem'[q])
  BY <1>1, <1>2
<1> QED
  BY <1>1, <1>3, <1>4, <1>5, <1>6, StatementDone

LEMMA StoreStep ==
  ASSUME IInv, NEW x \in Var, NEW y \in Var, Store(x, y)
  PROVE  IInv'
<1>1. /\ Running /\ call.stage = "none" /\ Accessed(var[y])
      /\ UNCHANGED <<live, var, stk, odd, call, formal, cached, real_qsort_cb>>
      /\ \/ mem' = mem
         \/ \E q \in Slots : mem' = [mem EXCEPT ![q] = var[x]]
  BY DEF Store, Statement
<1>2. /\ \A z \in Var : var[z] \in Pointer /\ Right(var[z])
      /\ \A q \in Slots : mem[q] \in Pointer /\ Right(mem[q])
      /\ mem \in [Slots -> Pointer]
  BY DEF IInv, Memory, OwnProvenance
<1>3. mem' \in [Slots -> Pointer] /\ \A q \in Slots : Right(mem'[q])
  BY <1>1, <1>2
<1>4. Memory'
  BY <1>1, <1>3 DEF IInv, Memory
<1>5. AccessInv'
  BY <1>1, <1>2, AccessedInv DEF IInv
<1>6. \A z \in Var : Right(var'[z])
  BY <1>1, <1>2
<1> QED
  BY <1>1, <1>3, <1>4, <1>5, <1>6, StatementDone

LEMMA FreeStep ==
  ASSUME IInv, NEW x \in Var, Free(x)
  PROVE  IInv'
<1>1. /\ Running /\ call.stage = "none" /\ Resting
      /\ UNCHANGED <<var, mem, stk, odd, call, formal, cached, real_qsort_cb>>
      /\ \E o \in live \cap Heap : live' = live \ {o}
  BY DEF Free, Statement
<1>2. Memory'
  BY <1>1 DEF IInv, Memory
<1>3. (\A z \in Var : Right(var'[z])) /\ (\A q \in Slots : Right(mem'[q]))
  BY <1>1 DEF IInv, OwnProvenance
<1>4. AccessInv'
  BY <1>1, AccessKept DEF IInv
<1> QED
  BY <1>1, <1>2, <1>3, <1>4, StatementDone

\* The caller pushes the shadows of its arguments and the cookie.
LEMMA CallStep ==
  ASSUME IInv, NEW f \in Callee, NEW x \in Var, NEW y \in Var,
         NEW d \in {x} \cup (LiveSlots), Call(f, x, y, d)
  PROVE  IInv'
<1> DEFINE args == Args(f, var[x], var[y])
<1>1. /\ Running /\ call.stage = "none" /\ ~odd /\ Legal(f, var[x]) /\ Resting
      /\ stk' = <<Cookie(f)>> \o ArgWords(args) \o stk
      /\ call' = [Idle EXCEPT !.stage = "called", !.f = f, !.args = args,
                              !.dst = d, !.base = Len(stk)]
      /\ UNCHANGED <<live, var, mem, odd, formal, cached, real_qsort_cb>>
  BY DEF Call, Statement
<1>2. PICK q \in Pointer : args = <<var[x], q>> /\ Right(q)
  BY NullFacts DEF Args, IInv, Memory, OwnProvenance
<1>3. var[x] \in Pointer /\ Right(var[x])
  BY DEF IInv, Memory, OwnProvenance
<1>4. stk \in Seq(Word) /\ Len(stk) = 3 /\ f \in Names /\ f \notin {"main", "tweaked", "none"}
  BY <1>1, NameFacts DEF IInv, Control, Protocol
<1> DEFINE c1 == Cookie(f)
           c2 == Shadow(var[x].sh)
           c3 == Shadow(q.sh)
<1>5. c1 \in Word /\ c1.c = f /\ c2 \in Word /\ c2.b = var[x].sh /\ c3 \in Word /\ c3.b = q.sh
  <2>1. var[x].sh \in Byte /\ q.sh \in Byte
    BY <1>3 DEF Pointer
  <2> QED
    BY <1>4, <2>1, WordFacts
<1>6. ArgWords(args) = <<c2, c3>>
  <2>1. /\ Len(<<var[x], q>>) = 2 /\ <<var[x], q>>[1] = var[x] /\ <<var[x], q>>[2] = q
    OBVIOUS
  <2>2. ArgWords(args) = [i \in 1..2 |-> Shadow(<<var[x], q>>[i].sh)]
    BY <1>2, <2>1 DEF ArgWords
  <2>3. ArgWords(args) = [i \in 1..2 |-> IF i = 1 THEN c2 ELSE c3]
    BY <2>1, <2>2
  <2> HIDE DEF c2, c3
  <2> QED
    BY <2>3
<1> HIDE DEF args, c1, c2, c3
<1>7. stk' = <<c1>> \o <<c2, c3>> \o stk
  BY <1>1, <1>6 DEF c1
<1>8. stk' \in Seq(Word) /\ Len(stk') = 6 /\ stk'[1] = c1 /\ stk'[2] = c2 /\ stk'[3] = c3
  <2>1. stk' = OnTopOf(c1, c2, c3, stk)
    BY <1>7 DEF OnTopOf
  <2>2. stk \in Seq(Word) /\ c1 \in Word /\ c2 \in Word /\ c3 \in Word
    BY <1>4, <1>5
  <2> DEFINE t == OnTopOf(c1, c2, c3, stk)
  <2>3. t \in Seq(Word) /\ Len(t) = Len(stk) + 3 /\ t[1] = c1 /\ t[2] = c2 /\ t[3] = c3
    BY <2>2, OnTopOfFacts, SMTT(20)
  <2> QED
    BY <1>4, <2>1, <2>3 DEF t
<1>9. /\ call'.stage = "called" /\ call'.f = f /\ call'.args = <<var[x], q>> /\ call'.dst = d
      /\ call'.base = 3 /\ call'.pushed = FALSE
  BY <1>1, <1>2, <1>4 DEF Idle
<1>10. Len(call'.args) = 2 /\ call'.args[1] = var[x] /\ call'.args[2] = q
  BY <1>9
<1>11. call' \in CallRec
  <2>1. <<var[x], q>> \in Seq(Pointer)
    BY <1>3
  <2>2. args \in Seq(Pointer)
    BY <1>2, <2>1
  <2>3. d \in Var \cup Slots \cup {none} /\ Len(stk) \in Nat
    BY <1>4 DEF LiveSlots
  <2>4. call' = [stage |-> "called", f |-> f, args |-> args, dst |-> d, base |-> Len(stk),
                 inst |-> FALSE, pushed |-> FALSE, ret |-> Null]
    BY <1>1 DEF Idle
  <2> QED
    BY <1>4, <2>2, <2>3, <2>4, NullFacts DEF CallRec, Stages
<1>12. Control'
  BY <1>1, <1>8, <1>11 DEF IInv, Control
<1>13. Passed(1)' /\ Passed(2)'
  <2>1. [var[x] EXCEPT !.sh = var[x].sh] = var[x] /\ [q EXCEPT !.sh = q.sh] = q
    BY <1>3 DEF Pointer
  <2>2. stk'[2].b = var[x].sh /\ stk'[3].b = q.sh
    BY <1>5, <1>8
  <2> QED
    BY <1>2, <1>3, <1>10, <2>1, <2>2 DEF Passed
<1>14. CalledInv'
  <2>1. f = "qsort" => ObjAt(call.args[1].val)' # none
    BY <1>1, <1>10 DEF Legal, ObjAt
  <2>2. f \in (Searching \ {"getcwd"}) \cup Copying \cup {"strstr"} => call'.args[1].val # 0
    BY <1>1, <1>10 DEF Legal
  <2>3. Len(stk') = call'.base + 3 /\ stk'[1].c = call'.f /\ ~call'.pushed
        /\ call'.f \in Callee \cup {"main"} /\ call'.f \notin {"none", "tweaked"}
    BY <1>4, <1>5, <1>8, <1>9
  <2> QED
    BY <1>9, <1>13, <2>1, <2>2, <2>3 DEF CalledInv
<1>15. Protocol'
  BY <1>4, <1>9, <1>10, <1>14 DEF Protocol, LiveSlots
<1>16. Memory' /\ OwnProvenance' /\ CachedRight'
  BY <1>1 DEF IInv, Memory, OwnProvenance, CachedRight
<1>17. AccessInv'
  BY <1>1, AccessKept DEF IInv
<1> QED
  BY <1>12, <1>15, <1>16, <1>17 DEF IInv
-----------------------------------------------------------------------------
(***************************************************************************)
(* The wrappers.                                                            *)
(***************************************************************************)
\* What is known while a wrapper runs.
LEMMA InWrapperFacts ==
  ASSUME IInv, NEW fs, InWrapper(fs)
  PROVE  /\ Running /\ call.stage = "called" /\ call.f \in fs /\ CalledInv
         /\ call.args \in Seq(Pointer) /\ Len(call.args) = 2
         /\ call.args[1] \in Pointer /\ call.args[2] \in Pointer
         /\ stk \in Seq(Word) /\ Len(stk) >= 3 /\ stk[2].b \in Byte /\ stk[3].b \in Byte
         /\ live \subseteq Objs
<1>1. Running /\ call.stage = "called" /\ call.f \in fs
  BY DEF InWrapper
<1>2. CalledInv /\ Len(call.args) = 2
  BY <1>1 DEF IInv, Protocol
<1>3. call.args \in Seq(Pointer) /\ call.base \in Nat /\ stk \in Seq(Word) /\ live \subseteq Objs
  BY DEF IInv, Control, CallRec, Memory
<1>4. call.args[1] \in Pointer /\ call.args[2] \in Pointer
  BY <1>2, <1>3
<1>5. Len(stk) >= 3
  BY <1>2, <1>3 DEF CalledInv
<1>6. stk[2] \in Word /\ stk[3] \in Word
  BY <1>3, <1>5
<1> QED
  BY <1>1, <1>2, <1>3, <1>4, <1>5, <1>6 DEF Word

\* The prologue of a callee.
LEMMA TweakedInCall ==
  ASSUME CalledInv, stk \in Seq(Word), call.base = 3, call.f # "main",
         stk' = Tweaked(stk, call.f)
  PROVE  stk' \in Seq(Word) /\ Len(stk') = 6 /\ stk'[1].c = "tweaked"
<1>1. Len(stk) = 6 /\ Len(stk) >= 1 /\ stk[1].c = call.f
  BY DEF CalledInv
<1>2. /\ Tweaked(stk, call.f) \in Seq(Word) /\ Len(Tweaked(stk, call.f)) = Len(stk)
      /\ Tweaked(stk, call.f)[1].c = "tweaked"
  BY <1>1, TweakedFacts, Zenon
<1> QED
  BY <1>1, <1>2

\* The names of the wrappers' functions are neither main's nor a callee's.
LEMMA WrappedNames ==
  /\ "main" \notin Wrapped /\ "user" \notin Wrapped /\ "lib" \notin Wrapped
  /\ Allocating \subseteq Wrapped /\ Finding \subseteq Wrapped /\ Searching \subseteq Wrapped
  /\ Copying \subseteq Wrapped /\ FromRet \subseteq Wrapped /\ FromBase \subseteq Wrapped
  /\ Counting \subseteq Wrapped /\ Obstack \subseteq Wrapped
  /\ {"strstr", "realloc", "qsort"} \subseteq Wrapped
BY DEF Wrapped, Allocating, Finding, Searching, Copying, FromRet, FromBase, Counting, Obstack

\* The shadow of argument 0, on a pointer derived from argument 0.
LEMMA ArgShadowFacts ==
  ASSUME IInv, NEW fs, InWrapper(fs), call.f # "main",
         NEW v \in Addr \cup {0}, v # 0 => call.args[1].val # 0
  PROVE  ArgShadow(v) \in Pointer /\ Right(ArgShadow(v))
<1>1. call.args[1] \in Pointer /\ stk[2].b \in Byte /\ Passed(1)
  BY InWrapperFacts DEF CalledInv
<1>2. Right([call.args[1] EXCEPT !.sh = stk[2].b])
  BY <1>1 DEF Passed
<1> DEFINE b == stk[2].b
           p == call.args[1]
<1>3. ArgShadow(v) = [p EXCEPT !.val = v, !.sh = b]
  BY DEF ArgShadow, PeekArgument
<1>4. p \in Pointer /\ b \in Byte /\ Right([p EXCEPT !.sh = b]) /\ (v # 0 => p.val # 0)
  BY <1>1, <1>2
<1> HIDE DEF p, b
<1>5. [p EXCEPT !.val = v, !.sh = b] \in Pointer
  BY <1>4 DEF Pointer
<1>6. Right([p EXCEPT !.val = v, !.sh = b])
  BY <1>4, PointerExcept
<1> QED
  BY <1>3, <1>5, <1>6

\* A wrapper that returns, and changes neither memory nor its static byte.
LEMMA WrapperKept ==
  ASSUME IInv, NEW fs, InWrapper(fs), call.f # "main", NEW r \in Pointer, Right(r),
         NEW wide \in BOOLEAN, Returns(call.f, r, wide), UNCHANGED <<live, mem, cached>>
  PROVE  IInv'
<1>1. Memory' /\ CachedRight' /\ \A o \in Slots : Right(mem'[o])
  BY DEF IInv, Memory, CachedRight, OwnProvenance, Returns
<1>2. Running /\ call.stage = "called"
  BY DEF InWrapper
<1> QED
  BY <1>1, <1>2, WrapperDone

\* A fresh block: its words are null, with whatever shadows were there; and a
\* block that libc moves: its words have lost their shadows.
LEMMA FreshMem ==
  ASSUME mem \in [Slots -> Pointer], \A q \in Slots : Right(mem[q]), NEW n
  PROVE  /\ Cleared(n) \in [Slots -> Pointer] /\ \A q \in Slots : Right(Cleared(n)[q])
         /\ \A o : /\ Moved(o, n) \in [Slots -> Pointer]
                   /\ \A q \in Slots : Right(Moved(o, n)[q])
<1> DEFINE n0(q) == [Null EXCEPT !.sh = mem[q].sh]
           st(t, q) == Stray(mem[t].val, mem[q].sh)
<1>1. \A q \in Slots : mem[q].sh \in Byte /\ mem[q].val \in Addr \cup {0} /\ mem[q] \in Pointer
  BY DEF Pointer
<1>2. \A q \in Slots : n0(q) \in Pointer /\ Right(n0(q))
  BY <1>1, NullFacts
<1>3. \A t, q \in Slots : st(t, q) \in Pointer /\ Right(st(t, q))
  BY <1>1, MadeFacts
<1>4. Cleared(n) = [q \in Slots |-> IF q \in Range(n) THEN n0(q) ELSE mem[q]]
  BY DEF Cleared
<1> HIDE DEF n0
<1>5. Cleared(n) \in [Slots -> Pointer] /\ \A q \in Slots : Right(Cleared(n)[q])
  BY <1>1, <1>2, <1>4
<1>6. ASSUME NEW o
      PROVE  /\ Moved(o, n) \in [Slots -> Pointer]
             /\ \A q \in Slots : Right(Moved(o, n)[q])
  <2> DEFINE t(q) == q - Lo[n] + Lo[o]
             m(q) == IF q \notin Range(n) THEN mem[q]
                     ELSE IF t(q) \in Slots \cap Range(o) THEN st(t(q), q) ELSE n0(q)
  <2>1. Moved(o, n) = [q \in Slots |-> m(q)]
    BY DEF Moved, n0
  <2> HIDE DEF t, st
  <2>2. \A q \in Slots : m(q) \in Pointer /\ Right(m(q))
    BY <1>1, <1>2, <1>3
  <2> HIDE DEF m
  <2> QED
    BY <2>1, <2>2
<1> QED
  BY <1>5, <1>6

\* The block malloc hands out is not in use.
LEMMA FreshPointer ==
  ASSUME NEW o \in Heap
  PROVE  LET p == Made(o, Lo[o], ShadowFromWord(Lo[o])) IN p \in Pointer /\ Right(p)
BY Layout, AddrFacts, ByteType, MadeFacts

LEMMA WrapAllocatingStep ==
  ASSUME IInv, WrapAllocating
  PROVE  IInv'
<1>1. InWrapper(Allocating) /\ cached' = cached
  BY DEF WrapAllocating
<1>2. Running /\ call.stage = "called" /\ call.f # "main"
  BY <1>1, InWrapperFacts, WrappedNames
<1>3. CASE RetNull(call.f) /\ UNCHANGED <<live, mem>>
  BY <1>1, <1>2, <1>3, NullFacts, WrapperKept DEF RetNull
<1>4. ASSUME NEW o \in Heap \ live, live' = live \cup {o}, mem' = Cleared(o),
             Returns(call.f, Made(o, Lo[o], ShadowFromWord(Lo[o])), FALSE)
      PROVE  IInv'
  <2>1. mem' \in [Slots -> Pointer] /\ \A q \in Slots : Right(mem'[q])
    BY <1>4, FreshMem DEF IInv, Memory, OwnProvenance
  <2>2. var' = var
    BY <1>4 DEF Returns
  <2>3. Memory' /\ CachedRight'
    BY <1>1, <1>4, <2>1, <2>2, Layout DEF IInv, Memory, CachedRight
  <2> DEFINE r == Made(o, Lo[o], ShadowFromWord(Lo[o]))
  <2>4. r \in Pointer /\ Right(r) /\ Returns(call.f, r, FALSE)
    BY <1>4, FreshPointer
  <2> HIDE DEF r
  <2> QED
    BY <1>2, <2>1, <2>3, <2>4, WrapperDone
<1> QED
  BY <1>1, <1>3, <1>4 DEF WrapAllocating

LEMMA WrapFindingStep ==
  ASSUME IInv, WrapFinding
  PROVE  IInv'
<1>1. InWrapper(Finding) /\ UNCHANGED <<live, mem, cached>>
  BY DEF WrapFinding
<1>2. call.f # "main" /\ live \subseteq Objs
  BY <1>1, InWrapperFacts, WrappedNames
<1>3. CASE RetNull(call.f)
  BY <1>1, <1>2, <1>3, NullFacts, WrapperKept DEF RetNull
<1>4. ASSUME NEW o \in live \ Heap, NEW v \in Range(o),
             Returns(call.f, Made(o, v, FetchShadow(v)), FALSE)
      PROVE  IInv'
  <2>1. FetchShadow(v) = ShadowFromWord(Lo[o]) /\ FetchShadow(v) \in Byte
    BY <1>2, InObject, FetchType DEF FetchShadow
  <2>2. v \in Addr /\ o \in Objs
    BY <1>2, AddrFacts
  <2> DEFINE r == Made(o, v, FetchShadow(v))
  <2>3. r \in Pointer /\ Right(r) /\ Returns(call.f, r, FALSE)
    BY <1>4, <2>1, <2>2, MadeFacts
  <2> HIDE DEF r
  <2> QED
    BY <1>1, <1>2, <2>3, WrapperKept
<1> QED
  BY <1>3, <1>4 DEF WrapFinding

LEMMA WrapSearchingStep ==
  ASSUME IInv, WrapSearching
  PROVE  IInv'
<1>1. InWrapper(Searching) /\ UNCHANGED <<live, mem, cached>>
  BY DEF WrapSearching
<1>2. /\ call.f # "main" /\ call.args[1].val \in Addr \cup {0}
      /\ call.f = "getcwd" \/ call.args[1].val # 0
  BY <1>1, InWrapperFacts, WrappedNames DEF CalledInv, Pointer
<1>3. CASE RetNull(call.f)
  BY <1>1, <1>2, <1>3, NullFacts, WrapperKept DEF RetNull
<1>4. ASSUME NEW k \in IF call.f \in {"fgets", "getcwd"} THEN {0} ELSE {0, 1}, NEW v,
             v = call.args[1].val + k, v \in Addr \cup {0}, Returns(call.f, ArgShadow(v), TRUE)
      PROVE  IInv'
  <2>2. v # 0 => call.args[1].val # 0
    BY <1>2, <1>4
  <2>1. ArgShadow(v) \in Pointer /\ Right(ArgShadow(v))
    BY <1>1, <1>2, <1>4, <2>2, ArgShadowFacts
  <2> QED
    BY <1>1, <1>2, <1>4, <2>1, WrapperKept
<1> QED
  BY <1>1, <1>3, <1>4 DEF WrapSearching

LEMMA WrapCopyingStep ==
  ASSUME IInv, WrapCopying
  PROVE  IInv'
<1> DEFINE v == call.args[1].val
<1>1. /\ InWrapper(Copying) /\ UNCHANGED <<live, mem, cached>> /\ Returns(call.f, ArgShadow(v), TRUE)
  BY DEF WrapCopying
<1>2. call.f # "main" /\ v \in Addr \cup {0}
  BY <1>1, InWrapperFacts, WrappedNames DEF Pointer
<1>3. ArgShadow(v) \in Pointer /\ Right(ArgShadow(v))
  BY <1>1, <1>2, ArgShadowFacts
<1> QED
  BY <1>1, <1>2, <1>3, WrapperKept

LEMMA WrapStrstrStep ==
  ASSUME IInv, WrapStrstr
  PROVE  IInv'
<1>1. InWrapper({"strstr"}) /\ UNCHANGED <<live, mem, cached>>
  BY DEF WrapStrstr
<1>2. call.f = "strstr" /\ call.args[1].val # 0
  BY <1>1, InWrapperFacts DEF CalledInv
<1>3. PICK v \in Addr \cup {0} : Returns("strstr", ArgShadow(v), TRUE)
  BY DEF WrapStrstr
<1>4. ArgShadow(v) \in Pointer /\ Right(ArgShadow(v))
  BY <1>1, <1>2, ArgShadowFacts
<1> QED
  BY <1>1, <1>2, <1>3, <1>4, WrapperKept

LEMMA WrapCountingStep ==
  ASSUME IInv, WrapCounting
  PROVE  IInv'
<1>1. InWrapper(Counting) /\ UNCHANGED <<live, mem, cached>> /\ Returns(call.f, Null, FALSE)
  BY DEF WrapCounting, RetNull
<1>2. call.f # "main"
  BY <1>1, InWrapperFacts, WrappedNames
<1> QED
  BY <1>1, <1>2, NullFacts, WrapperKept

LEMMA WrapStaticStep ==
  ASSUME IInv, WrapStatic
  PROVE  IInv'
<1> DEFINE f == call.f
<1>1. InWrapper(FromRet \cup FromBase) /\ UNCHANGED <<live, mem>>
  BY DEF WrapStatic
<1>2. /\ f \in FromRet \cup FromBase /\ f # "main" /\ live \subseteq Objs
      /\ Running /\ call.stage = "called" /\ f \in Callee \cup {"main"}
  BY <1>1, InWrapperFacts, WrappedNames DEF CalledInv
<1>3. f \in DOMAIN StaticAt
  <2>1. f \in Used
    BY <1>2, WrappedNames DEF Callee
  <2> QED
    BY <2>1, <1>2, UsedAssumption
<1>4. CASE RetNull(f) /\ UNCHANGED cached
  BY <1>1, <1>2, <1>4, NullFacts, WrapperKept DEF RetNull
<1>5. ASSUME NEW a \in StaticAt[f], NEW made, NEW b,
             made = ShadowFromWord(IF f \in FromRet THEN a ELSE AllocBase(a)),
             b = IF cached[f] # 0 /\ f # "dlopen" THEN cached[f] ELSE made,
             cached' = [cached EXCEPT ![f] = b],
             Returns(f, IF Dependable(f) THEN Made(ObjAt(a), a, b) ELSE Stray(a, b), FALSE)
      PROVE  IInv'
  <2>1. a \in Addr /\ cached[f] \in Byte /\ cached \in [DOMAIN StaticAt -> Byte]
    BY <1>3, UsedAssumption DEF IInv, Memory
  <2>2. made \in Byte
    BY <1>2, <1>5, <2>1, BaseFacts, ByteType
  <2>3. b \in Byte
    BY <1>5, <2>1, <2>2
  <2>4. ObjAt(a) \in Objs \cup {none}
    BY <1>2, BaseFacts
  <2>5. ASSUME f # "dlopen", NEW o \in Objs \ Heap, a \in Range(o), OneObject(f, o)
        PROVE  b = ShadowFromWord(Lo[o])
    <3>1. o \in live
      BY DEF IInv, Memory
    <3>2. made = ShadowFromWord(Lo[o])
      BY <3>1, <2>5, <1>2, <1>5, InObject DEF OneObject
    <3>3. cached[f] # 0 => cached[f] = ShadowFromWord(Lo[o])
      BY <2>5, <1>3 DEF IInv, CachedRight
    <3> QED
      BY <3>2, <3>3, <1>5
  <2>6. ASSUME Dependable(f)
        PROVE  b = ShadowFromWord(Lo[ObjAt(a)])
    <3>1. CASE f = "dlopen"
      <4>1. f \in FromRet
        BY <3>1 DEF FromRet
      <4>2. AllocBase(a) = a
        BY <4>1, <2>6 DEF Dependable
      <4>3. a # 0
        BY <2>1, AddrFacts
      <4>4. Lo[ObjAt(a)] = a
        BY <4>2, <4>3, <1>2, BaseFacts
      <4>5. b = ShadowFromWord(a)
        BY <4>1, <3>1, <1>5
      <4> QED
        BY <4>4, <4>5
    <3>2. CASE f # "dlopen"
      <4>1. \A c \in StaticAt[f] : \E o \in Objs \ Heap : c \in Range(o) /\ o \in live
        BY <3>2, <1>3, UsedAssumption DEF IInv, Memory
      <4>2. PICK o \in Objs \ Heap : a \in Range(o) /\ o \in live
        BY <4>1
      <4>3. ObjAt(a) = o
        BY <4>2, <1>2, InObject
      <4>4. ASSUME NEW c \in StaticAt[f]
            PROVE  c \in Range(o) /\ (f \in FromRet => c = Lo[o])
        <5>1. PICK oc \in Objs \ Heap : c \in Range(oc) /\ oc \in live
          BY <4>1
        <5>2. ObjAt(c) = oc /\ AllocBase(c) = Lo[oc]
          BY <5>1, <1>2, InObject
        <5>3. oc = o
          BY <5>2, <4>3, <2>6 DEF Dependable
        <5> QED
          BY <5>1, <5>2, <5>3, <2>6 DEF Dependable
      <4>5. OneObject(f, o)
        BY <4>4 DEF OneObject
      <4> QED
        BY <4>2, <4>3, <4>5, <3>2, <2>5
    <3> QED
      BY <3>1, <3>2
  <2>7. CachedRight'
    <3> SUFFICES ASSUME NEW g \in DOMAIN StaticAt \ {"dlopen"}, NEW o \in Objs \ Heap,
                        OneObject(g, o), cached'[g] # 0
                 PROVE  cached'[g] = ShadowFromWord(Lo[o])
      BY DEF CachedRight
    <3>1. CASE g = f
      BY <3>1, <2>1, <1>3, <1>5, <2>5 DEF OneObject
    <3>2. CASE g # f
      BY <3>2, <2>1, <1>5 DEF IInv, CachedRight
    <3> QED
      BY <3>1, <3>2
  <2>8. var' = var
    BY <1>5 DEF Returns
  <2>9. Memory' /\ \A q \in Slots : Right(mem'[q])
    <3>1. cached' \in [DOMAIN StaticAt -> Byte]
      BY <1>5, <2>1, <2>3
    <3> QED
      BY <3>1, <1>1, <2>8 DEF IInv, Memory, OwnProvenance
  <2>10. /\ Made(ObjAt(a), a, b) \in Pointer /\ Stray(a, b) \in Pointer
         /\ Right(Stray(a, b)) /\ (Dependable(f) => Right(Made(ObjAt(a), a, b)))
    BY <2>1, <2>3, <2>4, <2>6, MadeFacts
  <2> DEFINE r == IF Dependable(f) THEN Made(ObjAt(a), a, b) ELSE Stray(a, b)
  <2>11. r \in Pointer /\ Right(r) /\ Returns(call.f, r, FALSE)
    BY <2>10, <1>5
  <2> HIDE DEF r
  <2> QED
    BY <1>2, <2>7, <2>9, <2>11, WrapperDone
<1> QED
  BY <1>4, <1>5 DEF WrapStatic

LEMMA WrapReallocStep ==
  ASSUME IInv, WrapRealloc
  PROVE  IInv'
<1> DEFINE p == call.args[1]
<1>1. InWrapper({"realloc"}) /\ cached' = cached
  BY DEF WrapRealloc
<1>2. /\ Running /\ call.stage = "called" /\ call.f = "realloc" /\ live \subseteq Objs
      /\ p \in Pointer /\ p.val \in Addr \cup {0}
  BY <1>1, InWrapperFacts DEF Pointer
<1>3. mem \in [Slots -> Pointer] /\ \A q \in Slots : Right(mem[q])
  BY DEF IInv, Memory, OwnProvenance
<1>4. CASE Returns("realloc", ArgShadow(p.val), TRUE) /\ UNCHANGED <<live, mem>>
  <2>1. ArgShadow(p.val) \in Pointer /\ Right(ArgShadow(p.val))
    BY <1>1, <1>2, ArgShadowFacts
  <2> QED
    BY <1>1, <1>2, <1>4, <2>1, WrapperKept
<1>5. CASE RetNull("realloc") /\ UNCHANGED <<live, mem>>
  BY <1>1, <1>2, <1>5, NullFacts, WrapperKept DEF RetNull
<1>6. ASSUME NEW n \in Heap \ live, Returns("realloc", Made(n, Lo[n], ShadowFromWord(Lo[n])), FALSE),
             live' \subseteq Objs, Objs \ Heap \subseteq live',
             mem' \in [Slots -> Pointer], \A q \in Slots : Right(mem'[q])
      PROVE  IInv'
  <2>1. var' = var
    BY <1>6 DEF Returns
  <2>2. Memory' /\ CachedRight'
    BY <1>1, <1>6, <2>1 DEF IInv, Memory, CachedRight
  <2> DEFINE r == Made(n, Lo[n], ShadowFromWord(Lo[n]))
  <2>3. r \in Pointer /\ Right(r) /\ Returns(call.f, r, FALSE)
    BY <1>2, <1>6, FreshPointer
  <2> HIDE DEF r
  <2> QED
    BY <1>2, <1>6, <2>2, <2>3, WrapperDone
<1>7. Objs \ Heap \subseteq live /\ Heap \subseteq Objs
  BY Layout DEF IInv, Memory
<1>8. ASSUME NEW n \in Heap \ live, live' = live \cup {n}, mem' = Cleared(n),
             Returns("realloc", Made(n, Lo[n], ShadowFromWord(Lo[n])), FALSE)
      PROVE  IInv'
  <2>1. mem' \in [Slots -> Pointer] /\ \A q \in Slots : Right(mem'[q])
    BY <1>3, <1>8, FreshMem
  <2>2. live' \subseteq Objs /\ Objs \ Heap \subseteq live'
    BY <1>2, <1>7, <1>8
  <2> QED
    BY <1>6, <1>8, <2>1, <2>2
<1>9. ASSUME NEW n \in Heap \ live, NEW o \in live \cap Heap, live' = (live \ {o}) \cup {n},
             mem' = Moved(o, n),
             Returns("realloc", Made(n, Lo[n], ShadowFromWord(Lo[n])), FALSE)
      PROVE  IInv'
  <2>1. mem' \in [Slots -> Pointer] /\ \A q \in Slots : Right(mem'[q])
    BY <1>3, <1>9, FreshMem
  <2>2. live' \subseteq Objs /\ Objs \ Heap \subseteq live'
    BY <1>2, <1>7, <1>9
  <2> QED
    BY <1>6, <1>9, <2>1, <2>2
<1>10. ASSUME NEW o \in live \cap Heap, live' = live \ {o}, mem' = mem, RetNull("realloc")
       PROVE  IInv'
  <2>1. Returns(call.f, Null, FALSE) /\ var' = var
    BY <1>2, <1>10 DEF RetNull, Returns
  <2>2. Memory' /\ CachedRight' /\ \A q \in Slots : Right(mem'[q])
    BY <1>1, <1>2, <1>3, <1>7, <1>10, <2>1 DEF IInv, Memory, CachedRight
  <2> QED
    BY <1>2, <2>1, <2>2, NullFacts, WrapperDone
<1> QED
  BY <1>1, <1>4, <1>5, <1>8, <1>9, <1>10 DEF WrapRealloc

LEMMA WrapObstackStep ==
  ASSUME IInv, WrapObstack
  PROVE  IInv'
<1>1. /\ InWrapper(Obstack) /\ stk' = Tweaked(stk, call.f)
      /\ call' = [call EXCEPT !.stage = "back", !.ret = Null]
      /\ UNCHANGED <<var, odd, formal, cached, real_qsort_cb, access, ops>>
  BY DEF WrapObstack
<1>2. /\ Running /\ call.stage = "called" /\ call.f \in Obstack /\ live \subseteq Objs
      /\ CalledInv /\ stk \in Seq(Word) /\ Len(stk) >= 3 /\ Len(call.args) = 2
      /\ call.f # "main" /\ call.f # "tweaked"
  BY <1>1, InWrapperFacts, WrappedNames DEF CalledInv
<1>3. /\ call.base = 3 /\ call.dst \in Var \cup Slots /\ call \in CallRec
  BY <1>2 DEF IInv, Protocol, Control
<1>4. stk' \in Seq(Word) /\ Len(stk') = 6 /\ stk'[1].c = "tweaked"
  BY <1>1, <1>2, <1>3, TweakedInCall
<1>5. /\ call'.stage = "back" /\ call'.pushed = FALSE /\ call'.ret = Null /\ call'.f = call.f
      /\ call'.args = call.args /\ call'.base = call.base /\ call'.dst = call.dst
  BY <1>1, <1>2, <1>3 DEF CallRec, CalledInv
<1>6. call' \in CallRec
  BY <1>1, <1>3, NullFacts, CallExcept DEF Stages
<1>7. Control'
  BY <1>1, <1>4, <1>5, <1>6 DEF IInv, Control
<1>8. BackInv'
  BY <1>2, <1>4, <1>5, NullFacts DEF BackInv
<1>9. Protocol'
  BY <1>2, <1>3, <1>5, <1>8 DEF Protocol
<1>10. PICK c \in Heap \ live : \E q \in Slots : \E v \in Lo[c] .. Hi[c] :
         /\ live' = live \cup {c}
         /\ mem' = [mem EXCEPT ![q] =
              IF v \in Range(c) THEN Made(c, v, ShadowFromWord(Lo[c])) ELSE Stray(v, FetchShadow(v))]
  BY DEF WrapObstack
<1>11. PICK q \in Slots, r \in Pointer :
         live' = live \cup {c} /\ mem' = [mem EXCEPT ![q] = r] /\ Right(r)
  <2>1. PICK q \in Slots, v \in Lo[c] .. Hi[c] :
         /\ live' = live \cup {c}
         /\ mem' = [mem EXCEPT ![q] =
              IF v \in Range(c) THEN Made(c, v, ShadowFromWord(Lo[c])) ELSE Stray(v, FetchShadow(v))]
    BY <1>10
  <2>2. c \in Objs /\ v \in Addr /\ Lo[c] \in Addr
    BY Layout, AddrFacts
  <2>3. ShadowFromWord(Lo[c]) \in Byte /\ FetchShadow(v) \in Byte
    BY <1>2, <2>2, ByteType, FetchType
  <2>4. /\ Made(c, v, ShadowFromWord(Lo[c])) \in Pointer /\ Right(Made(c, v, ShadowFromWord(Lo[c])))
        /\ Stray(v, FetchShadow(v)) \in Pointer /\ Right(Stray(v, FetchShadow(v)))
    BY <2>2, <2>3, MadeFacts
  <2> QED
    BY <2>1, <2>4
<1>12. mem' \in [Slots -> Pointer] /\ \A t \in Slots : Right(mem'[t])
  BY <1>11 DEF IInv, Memory, OwnProvenance
<1>13. Memory'
  BY <1>1, <1>11, <1>12, Layout DEF IInv, Memory
<1>14. OwnProvenance' /\ CachedRight'
  BY <1>1, <1>12 DEF IInv, OwnProvenance, CachedRight
<1>15. AccessInv'
  BY <1>1, <1>2, AccessKept DEF IInv
<1> QED
  BY <1>7, <1>9, <1>13, <1>14, <1>15 DEF IInv
-----------------------------------------------------------------------------
(***************************************************************************)
(* qsort and its comparator.                                                *)
(***************************************************************************)
LEMMA QsortBeginStep ==
  ASSUME IInv, QsortBegin
  PROVE  IInv'
<1>1. /\ InWrapper({"qsort"}) /\ stk' = Tweaked(stk, "qsort") /\ real_qsort_cb' \in {"user", "lib"}
      /\ call' = [call EXCEPT !.stage = "sorting"]
      /\ UNCHANGED <<live, var, mem, odd, formal, cached, access, ops>>
  BY DEF QsortBegin
<1>2. /\ Running /\ call.stage = "called" /\ call.f = "qsort" /\ CalledInv
      /\ stk \in Seq(Word) /\ Len(call.args) = 2
  BY <1>1, InWrapperFacts
<1>3. call.base = 3 /\ call.dst \in Var \cup Slots /\ call \in CallRec
  BY <1>2 DEF IInv, Protocol, Control
<1>4. stk' \in Seq(Word) /\ Len(stk') = 6
  BY <1>1, <1>2, <1>3, TweakedInCall
<1>5. /\ call'.stage = "sorting" /\ call'.f = call.f /\ call'.dst = call.dst
      /\ call'.args = call.args /\ call'.base = call.base
  BY <1>1, <1>3 DEF CallRec
<1>6. call' \in CallRec
  BY <1>1, <1>3, NullFacts, CallExcept DEF Stages
<1>7. odd' => call'.stage = "back"
  BY <1>1, <1>2 DEF IInv, Control
<1>8. Control'
  BY <1>1, <1>4, <1>6, <1>7 DEF IInv, Control
<1>9. ObjAt(call.args[1].val)' # none
  BY <1>1, <1>2, <1>5 DEF CalledInv, ObjAt
<1>10. SortingInv'
  BY <1>1, <1>2, <1>4, <1>5, <1>9 DEF SortingInv
<1>11. Protocol'
  BY <1>2, <1>3, <1>5, <1>10 DEF Protocol
<1>12. Memory' /\ OwnProvenance' /\ CachedRight'
  BY <1>1 DEF IInv, Memory, OwnProvenance, CachedRight
<1>13. AccessInv'
  BY <1>1, <1>2, AccessKept DEF IInv
<1> QED
  BY <1>8, <1>11, <1>12, <1>13 DEF IInv

LEMMA LaunderStep ==
  ASSUME IInv, LaunderQsortCb
  PROVE  IInv'
<1> DEFINE o == ObjAt(call.args[1].val)
<1>1. PICK v \in Range(o), w \in Range(o) :
        /\ stk' = <<Cookie(real_qsort_cb), Shadow(LaunderShadow(v)), Shadow(LaunderShadow(w))>> \o stk
        /\ call' = [call EXCEPT !.stage = "comparing"]
        /\ formal' = <<Stray(v, 0), Stray(w, 0)>>
  BY DEF LaunderQsortCb
<1>2. /\ Running /\ call.stage = "sorting"
      /\ UNCHANGED <<live, var, mem, odd, cached, real_qsort_cb, access, ops>>
  BY DEF LaunderQsortCb
<1>3. SortingInv /\ Len(call.args) = 2 /\ call.base = 3 /\ call.f = "qsort"
      /\ call.dst \in Var \cup Slots
  BY <1>2 DEF IInv, Protocol, SortingInv
<1>4. stk \in Seq(Word) /\ Len(stk) = 6 /\ call \in CallRec /\ live \subseteq Objs
  BY <1>3 DEF IInv, Control, SortingInv, Memory
<1>5. o # none /\ o \in Objs
  BY <1>3, <1>4, BaseFacts DEF SortingInv
<1>6. v \in Addr /\ w \in Addr /\ 0 \in Byte
  BY <1>5, AddrFacts DEF Byte
<1> DEFINE x == Cookie(real_qsort_cb)
           y == Shadow(LaunderShadow(v))
           z == Shadow(LaunderShadow(w))
           f1 == Stray(v, 0)
           f2 == Stray(w, 0)
<1>7. x \in Word /\ y \in Word /\ z \in Word
  <2>1. real_qsort_cb \in Names
    BY <1>3, NameFacts DEF SortingInv, Names
  <2>2. LaunderShadow(v) \in Byte /\ LaunderShadow(w) \in Byte
    BY ByteType DEF LaunderShadow
  <2> QED
    BY <2>1, <2>2, WordFacts
<1>8. /\ f1 \in Pointer /\ f2 \in Pointer /\ Right(f1) /\ Right(f2) /\ ~f1.clean /\ ~f2.clean
  BY <1>6, MadeFacts
<1>9. stk' = <<x, y, z>> \o stk /\ formal' = <<f1, f2>>
  BY <1>1
<1> HIDE DEF x, y, z, f1, f2, o
<1>10. stk' \in Seq(Word) /\ Len(stk') = 9
  <2>1. stk' = OnTop(x, y, z, stk)
    BY <1>9 DEF OnTop
  <2>2. stk \in Seq(Word) /\ x \in Word /\ y \in Word /\ z \in Word
    BY <1>4, <1>7
  <2>3. OnTop(x, y, z, stk) \in Seq(Word) /\ Len(OnTop(x, y, z, stk)) = Len(stk) + 3
    BY <2>2, OnTopFacts, SMTT(20)
  <2> QED
    BY <1>4, <2>1, <2>3
<1>11. formal' \in Seq(Pointer) /\ Len(formal') = 2 /\ formal'[1] = f1 /\ formal'[2] = f2
  BY <1>8, <1>9
<1>12. /\ call'.stage = "comparing" /\ call'.f = call.f /\ call'.dst = call.dst
       /\ call'.args = call.args /\ call'.base = call.base
  BY <1>1, <1>4 DEF CallRec
<1>13. call' \in CallRec
  BY <1>1, <1>4, NullFacts, CallExcept DEF Stages
<1>14. Control'
  BY <1>2, <1>10, <1>11, <1>13 DEF IInv, Control
<1>15. ObjAt(call.args[1].val)' # none
  BY <1>2, <1>3, <1>12 DEF SortingInv, ObjAt
<1>16. ComparingInv'
  BY <1>2, <1>3, <1>8, <1>10, <1>11, <1>12, <1>15 DEF ComparingInv, SortingInv
<1>17. Protocol'
  BY <1>3, <1>12, <1>16 DEF Protocol
<1>18. Memory' /\ CachedRight'
  BY <1>2 DEF IInv, Memory, CachedRight
<1>19. OwnProvenance'
  <2>1. \A i \in 1..Len(formal') : Right(formal'[i])
    BY <1>8, <1>11
  <2> QED
    BY <1>2, <2>1 DEF IInv, OwnProvenance
<1>20. AccessInv'
  BY <1>2, AccessKept DEF IInv
<1> QED
  BY <1>14, <1>17, <1>18, <1>19, <1>20 DEF IInv

LEMMA CompareStep ==
  ASSUME IInv, Compare
  PROVE  IInv'
<1> DEFINE b(i) == PeekArgument(stk[1].c = "user", i - 1)
<1>1. /\ Running /\ call.stage = "comparing" /\ formal' = <<>>
      /\ stk' = SubSeq(stk, 4, Len(stk)) /\ call' = [call EXCEPT !.stage = "sorting"]
      /\ UNCHANGED <<live, var, mem, odd, cached, real_qsort_cb, ops>>
      /\ access' = access \/ \E i \in 1..2 : Accessed([formal[i] EXCEPT !.sh = b(i)])
  BY DEF Compare
<1>2. ComparingInv /\ Len(call.args) = 2 /\ call.base = 3 /\ call.f = "qsort"
      /\ call.dst \in Var \cup Slots
  BY <1>1 DEF IInv, Protocol, ComparingInv
<1>3. /\ stk \in Seq(Word) /\ Len(stk) = 9 /\ call \in CallRec /\ formal \in Seq(Pointer)
      /\ Len(formal) = 2 /\ ~formal[1].clean /\ ~formal[2].clean
  BY <1>2 DEF IInv, Control, ComparingInv
<1>4. formal[1] \in Pointer /\ formal[2] \in Pointer /\ stk[2] \in Word /\ stk[3] \in Word
  <2>1. formal \in Seq(Pointer) /\ Len(formal) = 2 /\ stk \in Seq(Word) /\ Len(stk) = 9
    BY <1>3
  <2>2. 1 \in 1..Len(formal) /\ 2 \in 1..Len(formal) /\ 2 \in 1..Len(stk) /\ 3 \in 1..Len(stk)
    BY <2>1
  <2>3. formal[1] \in Pointer /\ formal[2] \in Pointer
    BY <2>1, <2>2, ElementFacts, Zenon
  <2>4. stk[2] \in Word /\ stk[3] \in Word
    BY <2>1, <2>2, ElementFacts, Zenon
  <2> QED
    BY <2>3, <2>4
<1>5. b(1) \in Byte /\ b(2) \in Byte
  BY <1>4 DEF PeekArgument, Word, Byte
<1> HIDE DEF b
<1>6. ASSUME NEW i \in 1..2
      PROVE  [formal[i] EXCEPT !.sh = b(i)] \in Pointer /\ Right([formal[i] EXCEPT !.sh = b(i)])
  <2>1. formal[i] \in Pointer /\ ~formal[i].clean /\ b(i) \in Byte
    <3>1. CASE i = 1
      BY <3>1, <1>3, <1>4, <1>5
    <3>2. CASE i = 2
      BY <3>2, <1>3, <1>4, <1>5
    <3> QED
      BY <3>1, <3>2
  <2> QED
    BY <2>1, AddrFacts, PointerExcept
<1>8. stk' \in Seq(Word) /\ Len(stk') = 6
  <2>1. stk \in Seq(Word) /\ Len(stk) = 9 /\ 4 \in 1..(Len(stk) + 1) /\ Len(stk) - 4 + 1 = 6
    BY <1>3
  <2>2. SubSeq(stk, 4, Len(stk)) \in Seq(Word) /\ Len(SubSeq(stk, 4, Len(stk))) = Len(stk) - 4 + 1
    BY <2>1, SuffixFacts, Zenon
  <2> QED
    BY <1>1, <2>1, <2>2
<1>9. /\ call'.stage = "sorting" /\ call'.f = call.f /\ call'.dst = call.dst
      /\ call'.args = call.args /\ call'.base = call.base
  BY <1>1, <1>3 DEF CallRec
<1>10. call' \in CallRec
  BY <1>1, <1>3, NullFacts, CallExcept DEF Stages
<1>11. Control'
  <2>1. formal' \in Seq(Pointer)
    BY <1>1
  <2> QED
    BY <2>1, <1>1, <1>8, <1>10 DEF IInv, Control
<1>12. ObjAt(call.args[1].val)' # none
  BY <1>1, <1>2, <1>9 DEF ComparingInv, ObjAt
<1>13. SortingInv'
  BY <1>1, <1>2, <1>8, <1>9, <1>12 DEF ComparingInv, SortingInv
<1>14. Protocol'
  BY <1>2, <1>9, <1>13 DEF Protocol
<1>15. Memory' /\ CachedRight'
  BY <1>1 DEF IInv, Memory, CachedRight
<1>16. OwnProvenance'
  <2>1. Len(formal') = 0
    BY <1>1
  <2> QED
    BY <1>1, <2>1 DEF IInv, OwnProvenance
<1>17. AccessInv'
  <2>1. CASE access' = access
    BY <1>1, <2>1, AccessKept DEF IInv
  <2>2. ASSUME NEW i \in 1..2, Accessed([formal[i] EXCEPT !.sh = b(i)])
        PROVE  AccessInv'
    BY <1>1, <1>6, <2>2, AccessedInv DEF IInv
  <2> QED
    BY <1>1, <2>1, <2>2
<1> QED
  BY <1>11, <1>14, <1>15, <1>16, <1>17 DEF IInv

LEMMA QsortMovesStep ==
  ASSUME IInv, QsortMoves
  PROVE  IInv'
<1>1. /\ Running
      /\ UNCHANGED <<live, var, stk, odd, call, formal, cached, real_qsort_cb, access, ops>>
  BY DEF QsortMoves
<1>2. PICK s \in Slots, t \in Slots :
        mem' = [mem EXCEPT ![s] = Stray(mem[t].val, mem[s].sh), ![t] = Stray(mem[s].val, mem[t].sh)]
  BY DEF QsortMoves
<1>3. mem \in [Slots -> Pointer] /\ \A q \in Slots : Right(mem[q])
  BY DEF IInv, Memory, OwnProvenance
<1>4. /\ mem[s].sh \in Byte /\ mem[t].sh \in Byte
      /\ mem[s].val \in Addr \cup {0} /\ mem[t].val \in Addr \cup {0}
  BY <1>3 DEF Pointer
<1> DEFINE r == Stray(mem[t].val, mem[s].sh)
           u == Stray(mem[s].val, mem[t].sh)
<1>5. r \in Pointer /\ Right(r) /\ u \in Pointer /\ Right(u)
  BY <1>4, MadeFacts
<1>6. mem' = [mem EXCEPT ![s] = r, ![t] = u]
  BY <1>2
<1> HIDE DEF r, u
<1>7. mem' \in [Slots -> Pointer] /\ \A q \in Slots : Right(mem'[q])
  BY <1>3, <1>5, <1>6
<1>8. Memory' /\ OwnProvenance' /\ CachedRight'
  BY <1>1, <1>7 DEF IInv, Memory, OwnProvenance, CachedRight
<1>9. Control'
  BY <1>1 DEF IInv, Control
<1>10. Protocol'
  BY <1>1 DEF IInv, Protocol, CalledInv, InInv, SortingInv, ComparingInv, BackInv, Passed, ObjAt
<1>11. AccessInv'
  BY <1>1, AccessKept DEF IInv
<1> QED
  BY <1>8, <1>9, <1>10, <1>11 DEF IInv

LEMMA QsortEndStep ==
  ASSUME IInv, QsortEnd
  PROVE  IInv'
<1>1. /\ Running /\ call.stage = "sorting" /\ real_qsort_cb' = "none" /\ formal' = formal
      /\ stk' = PushByte(stk, 0) /\ odd' = TRUE
      /\ call' = [call EXCEPT !.stage = "back", !.pushed = TRUE, !.ret = Null]
      /\ UNCHANGED <<live, var, mem, cached, access, ops>>
  BY DEF QsortEnd
<1>2. SortingInv /\ Len(call.args) = 2 /\ call.base = 3 /\ call.f = "qsort"
      /\ call.dst \in Var \cup Slots
  BY <1>1 DEF IInv, Protocol, SortingInv
<1>3. stk \in Seq(Word) /\ Len(stk) = 6 /\ call \in CallRec
  BY <1>2 DEF IInv, Control, SortingInv
<1>4. stk' \in Seq(Word) /\ Len(stk') = 7 /\ stk'[1].b = 0 /\ stk'[2].c = "tweaked"
  <2>1. 0 \in Byte /\ Len(stk) >= 1 /\ Len(stk) + 1 = 7
    BY <1>3 DEF Byte
  <2>2. /\ PushByte(stk, 0) \in Seq(Word) /\ Len(PushByte(stk, 0)) = Len(stk) + 1
        /\ PushByte(stk, 0)[1].b = 0 /\ PushByte(stk, 0)[2].c = "tweaked"
    BY <1>3, <2>1, PushFacts, Zenon
  <2> QED
    BY <1>1, <2>1, <2>2
<1>5. /\ call'.stage = "back" /\ call'.pushed = TRUE /\ call'.ret = Null /\ call'.f = call.f
      /\ call'.args = call.args /\ call'.base = call.base /\ call'.dst = call.dst
  BY <1>1, <1>3 DEF CallRec
<1>6. call' \in CallRec
  BY <1>1, <1>3, NullFacts, CallExcept DEF Stages
<1>7. Control'
  <2>1. formal' \in Seq(Pointer)
    BY <1>1 DEF IInv, Control
  <2> QED
    BY <1>1, <1>4, <1>5, <1>6, <2>1 DEF Control
<1>8. BackInv'
  <2>1. Null.sh = 0
    BY DEF Null
  <2> QED
    BY <1>2, <1>4, <1>5, <2>1, NullFacts DEF BackInv
<1>9. Protocol'
  BY <1>2, <1>5, <1>8, <1>1 DEF Protocol, IInv
<1>10. Memory' /\ OwnProvenance' /\ CachedRight'
  BY <1>1 DEF IInv, Memory, OwnProvenance, CachedRight
<1>11. AccessInv'
  BY <1>1, AccessKept DEF IInv
<1> QED
  BY <1>7, <1>9, <1>10, <1>11 DEF IInv
-----------------------------------------------------------------------------
(***************************************************************************)
(* Instrumented and uninstrumented callees, and the return.                 *)
(***************************************************************************)
\* A callee's formals have the shadows that its caller pushed, or none.
LEMMA FormalsFacts ==
  ASSUME IInv, NEW fs, InWrapper(fs), NEW really \in BOOLEAN, really => stk[1].c = call.f
  PROVE  /\ Formals(really, call.args) \in Seq(Pointer) /\ Len(Formals(really, call.args)) = 2
         /\ \A i \in 1..2 : Right(Formals(really, call.args)[i])
<1> DEFINE a1 == call.args[1]
           a2 == call.args[2]
           f(i) == IF really THEN [call.args[i] EXCEPT !.sh = PeekArgument(TRUE, i - 1)]
                             ELSE Stray(call.args[i].val, PeekArgument(FALSE, i - 1))
<1>1. /\ a1 \in Pointer /\ a2 \in Pointer /\ stk[2].b \in Byte /\ stk[3].b \in Byte
      /\ (really => Passed(1) /\ Passed(2)) /\ Len(call.args) = 2
  BY InWrapperFacts DEF CalledInv
<1>2. really => Right([a1 EXCEPT !.sh = stk[2].b]) /\ Right([a2 EXCEPT !.sh = stk[3].b])
  BY <1>1 DEF Passed
<1>3. [a1 EXCEPT !.sh = stk[2].b] \in Pointer /\ [a2 EXCEPT !.sh = stk[3].b] \in Pointer
  BY <1>1 DEF Pointer
<1>4. /\ Stray(a1.val, 0) \in Pointer /\ Right(Stray(a1.val, 0))
      /\ Stray(a2.val, 0) \in Pointer /\ Right(Stray(a2.val, 0))
  <2>1. a1.val \in Addr \cup {0} /\ a2.val \in Addr \cup {0} /\ 0 \in Byte
    BY <1>1 DEF Pointer, Byte
  <2> QED
    BY <2>1, MadeFacts
<1>5. /\ f(1) = IF really THEN [a1 EXCEPT !.sh = stk[2].b] ELSE Stray(a1.val, 0)
      /\ f(2) = IF really THEN [a2 EXCEPT !.sh = stk[3].b] ELSE Stray(a2.val, 0)
  BY DEF PeekArgument
<1>6. f(1) \in Pointer /\ Right(f(1)) /\ f(2) \in Pointer /\ Right(f(2))
  <2> HIDE DEF a1, a2, f
  <2>1. CASE really
    BY <2>1, <1>2, <1>3, <1>5
  <2>2. CASE ~really
    BY <2>2, <1>4, <1>5
  <2> QED
    BY <2>1, <2>2
<1>7. Formals(really, call.args) = [i \in 1..2 |-> f(i)]
  BY <1>1 DEF Formals
<1> HIDE DEF f, a1, a2
<1> DEFINE g == [i \in 1..2 |-> f(i)]
<1>8. \A i \in 1..2 : f(i) \in Pointer /\ Right(f(i))
  BY <1>6
<1>9. g \in [1..2 -> Pointer] /\ \A i \in 1..2 : Right(g[i])
  BY <1>8
<1> HIDE DEF g
<1>10. g \in Seq(Pointer) /\ Len(g) = 2
  BY <1>9, PairFacts
<1> QED
  BY <1>7, <1>9, <1>10 DEF g

LEMMA EnterStep ==
  ASSUME IInv, Enter
  PROVE  IInv'
<1> DEFINE really == stk[1].c = "user"
<1>1. /\ InWrapper({"user"}) /\ stk' = Tweaked(stk, "user") /\ formal' = Formals(really, call.args)
      /\ call' = [call EXCEPT !.stage = "in", !.inst = really]
      /\ UNCHANGED <<live, var, mem, odd, cached, real_qsort_cb, access, ops>>
  BY DEF Enter
<1>2. /\ Running /\ call.stage = "called" /\ call.f = "user" /\ CalledInv
      /\ stk \in Seq(Word) /\ Len(call.args) = 2
  BY <1>1, InWrapperFacts
<1>3. call.base = 3 /\ call.dst \in Var \cup Slots /\ call \in CallRec
  BY <1>2 DEF IInv, Protocol, Control
<1>4. really = TRUE /\ ~call.pushed
  BY <1>2 DEF CalledInv
<1>5. stk' \in Seq(Word) /\ Len(stk') = 6 /\ stk'[1].c = "tweaked"
  BY <1>1, <1>2, <1>3, TweakedInCall
<1>6. call' = [call EXCEPT !.stage = "in", !.inst = TRUE]
  BY <1>1, <1>4
<1>7. /\ call'.stage = "in" /\ call'.f = "user" /\ call'.inst = TRUE /\ call'.pushed = call.pushed
      /\ call'.args = call.args /\ call'.base = call.base /\ call'.dst = call.dst
  BY <1>2, <1>3, <1>6 DEF CallRec
<1>8. call' \in CallRec
  BY <1>3, <1>6, NullFacts, CallExcept DEF Stages
<1>9. formal' \in Seq(Pointer) /\ Len(formal') = 2 /\ \A i \in 1..2 : Right(formal'[i])
  BY <1>1, <1>2, <1>4, FormalsFacts
<1>10. odd' => call'.stage = "back"
  BY <1>1, <1>2 DEF IInv, Control
<1>11. Control'
  BY <1>1, <1>5, <1>8, <1>9, <1>10 DEF IInv, Control
<1>12. InInv'
  BY <1>4, <1>5, <1>7, <1>9 DEF InInv
<1>13. Protocol'
  BY <1>2, <1>3, <1>7, <1>12 DEF Protocol
<1>14. Memory' /\ CachedRight'
  BY <1>1 DEF IInv, Memory, CachedRight
<1>15. OwnProvenance'
  BY <1>1, <1>9 DEF IInv, OwnProvenance
<1>16. AccessInv'
  BY <1>1, <1>2, AccessKept DEF IInv
<1> QED
  BY <1>11, <1>13, <1>14, <1>15, <1>16 DEF IInv

LEMMA EnterMainStep ==
  ASSUME IInv, EnterMain
  PROVE  IInv'
<1>1. /\ InWrapper({"main"}) /\ stk' = Tweaked(stk, "main") /\ call' = Idle
      /\ UNCHANGED <<live, mem, odd, formal, cached, real_qsort_cb, access, ops>>
  BY DEF EnterMain
<1>2. /\ Running /\ call.stage = "called" /\ call.f = "main" /\ CalledInv
      /\ stk \in Seq(Word) /\ call.args[2] \in Pointer /\ stk[3].b \in Byte
  BY <1>1, InWrapperFacts
<1>3. call.base = 0
  BY <1>2 DEF IInv, Protocol
<1>4. Len(stk) = 3
  BY <1>2, <1>3 DEF CalledInv
<1> DEFINE really == stk[1].c = "main"
           r == Formals(really, call.args)[2]
<1>5. r \in Pointer /\ Right(r)
  <2>1. really \in BOOLEAN /\ (really => stk[1].c = call.f)
    BY <1>2
  <2> HIDE DEF really
  <2>2. /\ Formals(really, call.args) \in Seq(Pointer) /\ Len(Formals(really, call.args)) = 2
        /\ \A i \in 1..2 : Right(Formals(really, call.args)[i])
    BY <1>1, <2>1, FormalsFacts
  <2>3. 2 \in 1..Len(Formals(really, call.args)) /\ 2 \in 1..2
    BY <2>2
  <2> QED
    BY <2>2, <2>3, ElementFacts, Zenon
<1>6. PICK x \in Var : var' = [var EXCEPT ![x] = r]
  BY DEF EnterMain
<1> HIDE DEF r, really
<1>7. stk' \in Seq(Word) /\ Len(stk') = 3
  <2>1. Len(stk) >= 1
    BY <1>4
  <2>2. Tweaked(stk, "main") \in Seq(Word) /\ Len(Tweaked(stk, "main")) = Len(stk)
    BY <1>2, <2>1, TweakedFacts, Zenon
  <2> QED
    BY <1>1, <1>4, <2>2
<1>8. call' \in CallRec /\ call'.stage = "none"
  BY <1>1, IdleFacts
<1>9. ~odd'
  BY <1>1, <1>2 DEF IInv, Control
<1>10. Control'
  BY <1>1, <1>7, <1>8, <1>9 DEF IInv, Control
<1>11. Protocol'
  BY <1>7, <1>8 DEF Protocol
<1>12. Memory' /\ \A y \in Var : Right(var'[y])
  BY <1>1, <1>5, <1>6 DEF IInv, Memory, OwnProvenance
<1>13. OwnProvenance' /\ CachedRight'
  BY <1>1, <1>12 DEF IInv, OwnProvenance, CachedRight
<1>14. AccessInv'
  BY <1>1, <1>2, AccessKept DEF IInv
<1> QED
  BY <1>10, <1>11, <1>12, <1>13, <1>14 DEF IInv

LEMMA ReturnWithStep ==
  ASSUME IInv, Running, call.stage = "in", NEW r \in Pointer, Right(r), NEW wide \in BOOLEAN,
         ReturnWith(r, wide), formal' = <<>>,
         UNCHANGED <<live, var, mem, cached, real_qsort_cb, access, ops>>
  PROVE  IInv'
<1>1. InInv /\ Len(call.args) = 2 /\ call.base = 3 /\ call.dst \in Var \cup Slots /\ call.f # "main"
  BY DEF IInv, Protocol
<1>2. stk \in Seq(Word) /\ Len(stk) = 6 /\ call \in CallRec /\ formal' \in Seq(Pointer) /\ ~odd
  BY <1>1 DEF IInv, Control, InInv
<1>3. Memory' /\ CachedRight'
  BY DEF IInv, Memory, CachedRight
<1>4. OwnProvenance'
  BY DEF IInv, OwnProvenance
<1>5. AccessInv'
  BY AccessKept DEF IInv
<1>6. Control' /\ Protocol'
  <2>1. CASE call.inst
    <3>1. call.f = "user" /\ stk[1].c = "tweaked"
      BY <1>1, <2>1 DEF InInv
    <3>2. /\ stk' = IF wide THEN PushWord(stk, r.sh) ELSE PushByte(stk, r.sh)
          /\ odd' = ~wide
          /\ call' = [call EXCEPT !.stage = "back", !.pushed = TRUE, !.ret = r]
      BY <2>1 DEF ReturnWith
    <3>3. stk' \in Seq(Word) /\ Len(stk') = 7 /\ stk'[1].b = r.sh /\ stk'[2].c = "tweaked"
      <4> DEFINE pw == PushWord(stk, r.sh)
                 pb == PushByte(stk, r.sh)
      <4>1. Len(stk) >= 1 /\ Len(stk) + 1 = 7 /\ r.sh \in Byte
        BY <1>2 DEF Pointer
      <4>2. /\ pw \in Seq(Word) /\ Len(pw) = Len(stk) + 1 /\ pw[1].b = r.sh /\ pw[2] = stk[1]
            /\ pb \in Seq(Word) /\ Len(pb) = Len(stk) + 1 /\ pb[1].b = r.sh /\ pb[2].c = "tweaked"
        BY <1>2, <4>1, PushFacts, Zenon
      <4>3. stk' = pw \/ stk' = pb
        BY <3>2
      <4> HIDE DEF pw, pb
      <4> QED
        BY <3>1, <4>1, <4>2, <4>3
    <3>4. /\ call'.stage = "back" /\ call'.pushed = TRUE /\ call'.ret = r /\ call'.f = call.f
          /\ call'.args = call.args /\ call'.base = call.base /\ call'.dst = call.dst
      BY <1>2, <3>2 DEF CallRec
    <3>5. call' \in CallRec
      BY <1>2, <3>2, CallExcept DEF Stages
    <3>6. Control'
      BY <1>2, <3>2, <3>3, <3>4, <3>5 DEF IInv, Control
    <3>7. BackInv'
      BY <3>1, <3>3, <3>4 DEF BackInv
    <3> QED
      BY <1>1, <3>1, <3>4, <3>6, <3>7 DEF Protocol
  <2>2. CASE ~call.inst
    <3>1. call.f = "lib" /\ stk[1].c = "lib" /\ Passed(1) /\ Passed(2) /\ ~call.pushed
      BY <1>1, <2>2 DEF InInv
    <3>2. stk' = stk /\ odd' = odd /\ call' = [call EXCEPT !.stage = "called", !.ret = r]
      BY <2>2, <3>1 DEF ReturnWith
    <3>3. /\ call'.stage = "called" /\ call'.pushed = call.pushed /\ call'.f = call.f
          /\ call'.args = call.args /\ call'.base = call.base /\ call'.dst = call.dst
      BY <1>2, <3>2 DEF CallRec
    <3>4. call' \in CallRec
      BY <1>2, <3>2, CallExcept DEF Stages
    <3>5. Control'
      BY <1>2, <3>2, <3>3, <3>4 DEF IInv, Control
    <3>6. Passed(1)' /\ Passed(2)'
      BY <3>1, <3>2, <3>3 DEF Passed
    <3>7. "lib" \in Callee /\ "lib" \notin (Searching \ {"getcwd"}) \cup Copying \cup {"strstr"}
      BY WrappedNames DEF Callee, Searching, Copying
    <3>8. CalledInv'
      BY <1>1, <1>2, <3>1, <3>2, <3>3, <3>6, <3>7 DEF CalledInv
    <3> QED
      BY <1>1, <3>1, <3>3, <3>5, <3>8 DEF Protocol
  <2> QED
    BY <2>1, <2>2
<1> QED
  BY <1>3, <1>4, <1>5, <1>6 DEF IInv

LEMMA ReturnStep ==
  ASSUME IInv, Return
  PROVE  IInv'
<1>1. /\ Running /\ call.stage = "in" /\ formal' = <<>>
      /\ UNCHANGED <<live, var, mem, cached, real_qsort_cb, access, ops>>
  BY DEF Return
<1>2. ASSUME NEW i \in 1..2, ReturnWith(formal[i], TRUE)
      PROVE  IInv'
  <2>1. formal \in Seq(Pointer) /\ Len(formal) = 2
    BY <1>1 DEF IInv, Control, Protocol, InInv
  <2>2. i \in 1..Len(formal)
    BY <2>1
  <2>3. formal[i] \in Pointer
    BY <2>1, <2>2, ElementFacts, Zenon
  <2>4. Right(formal[i])
    BY <2>2 DEF IInv, OwnProvenance
  <2> QED
    BY <1>1, <1>2, <2>3, <2>4, ReturnWithStep
<1>3. ASSUME NEW s \in LiveSlots, ReturnWith(mem[s], TRUE)
      PROVE  IInv'
  <2>1. mem[s] \in Pointer /\ Right(mem[s])
    BY DEF IInv, Memory, OwnProvenance, LiveSlots
  <2> QED
    BY <1>1, <1>3, <2>1, ReturnWithStep
<1>4. ASSUME NEW o \in live \ Heap, ReturnWith(Made(o, Lo[o], ShadowFromWord(Lo[o])), FALSE)
      PROVE  IInv'
  <2>1. o \in Objs /\ Lo[o] \in Addr /\ ShadowFromWord(Lo[o]) \in Byte
    BY AddrFacts, ByteType DEF IInv, Memory
  <2> DEFINE r == Made(o, Lo[o], ShadowFromWord(Lo[o]))
  <2>2. r \in Pointer /\ Right(r) /\ ReturnWith(r, FALSE)
    BY <1>4, <2>1, MadeFacts
  <2> HIDE DEF r
  <2> QED
    BY <1>1, <2>2, ReturnWithStep
<1> QED
  BY <1>2, <1>3, <1>4 DEF Return

LEMMA LibCallsBackStep ==
  ASSUME IInv, LibCallsBack
  PROVE  IInv'
<1> DEFINE really == stk[1].c = "user"
<1>1. /\ InWrapper({"lib"}) /\ formal' = Formals(really, call.args)
      /\ call' = [call EXCEPT !.stage = "in", !.inst = really]
      /\ UNCHANGED <<live, var, mem, stk, odd, cached, real_qsort_cb, access, ops>>
  BY DEF LibCallsBack
<1>2. /\ Running /\ call.stage = "called" /\ call.f = "lib" /\ CalledInv
      /\ stk \in Seq(Word) /\ Len(call.args) = 2
  BY <1>1, InWrapperFacts
<1>3. call.base = 3 /\ call.dst \in Var \cup Slots /\ call \in CallRec
  BY <1>2 DEF IInv, Protocol, Control
<1>4. really = FALSE /\ ~call.pushed /\ Len(stk) = 6 /\ stk[1].c = "lib" /\ Passed(1) /\ Passed(2)
  BY <1>2, <1>3 DEF CalledInv
<1>5. call' = [call EXCEPT !.stage = "in", !.inst = FALSE]
  BY <1>1, <1>4
<1>6. /\ call'.stage = "in" /\ call'.f = "lib" /\ call'.inst = FALSE /\ call'.pushed = call.pushed
      /\ call'.args = call.args /\ call'.base = call.base /\ call'.dst = call.dst
  BY <1>2, <1>3, <1>5 DEF CallRec
<1>7. call' \in CallRec
  BY <1>3, <1>5, NullFacts, CallExcept DEF Stages
<1>8. formal' \in Seq(Pointer) /\ Len(formal') = 2 /\ \A i \in 1..2 : Right(formal'[i])
  BY <1>1, <1>4, FormalsFacts
<1>9. odd' => call'.stage = "back"
  BY <1>1, <1>2 DEF IInv, Control
<1>10. Control'
  BY <1>1, <1>2, <1>7, <1>8, <1>9 DEF IInv, Control
<1>11. Passed(1)' /\ Passed(2)'
  BY <1>1, <1>4, <1>6 DEF Passed
<1>12. InInv'
  BY <1>1, <1>4, <1>6, <1>8, <1>11 DEF InInv
<1>13. Protocol'
  BY <1>2, <1>3, <1>6, <1>12 DEF Protocol
<1>14. Memory' /\ CachedRight'
  BY <1>1 DEF IInv, Memory, CachedRight
<1>15. OwnProvenance'
  BY <1>1, <1>8 DEF IInv, OwnProvenance
<1>16. AccessInv'
  BY <1>1, <1>2, AccessKept DEF IInv
<1> QED
  BY <1>10, <1>13, <1>14, <1>15, <1>16 DEF IInv

LEMMA LibStoresStep ==
  ASSUME IInv, LibStores
  PROVE  IInv'
<1> DEFINE v == call.args[1].val
<1>1. /\ InWrapper({"lib"})
      /\ UNCHANGED <<live, var, stk, odd, call, formal, cached, real_qsort_cb, access, ops>>
  BY DEF LibStores
<1>2. PICK o \in Slots : mem' = [mem EXCEPT ![o] = Stray(v, mem[o].sh)]
  BY DEF LibStores, LiveSlots
<1>3. Running /\ v \in Addr \cup {0}
  BY <1>1, InWrapperFacts DEF Pointer
<1>4. mem \in [Slots -> Pointer] /\ mem[o].sh \in Byte
  BY DEF IInv, Memory, Pointer
<1> DEFINE r == Stray(v, mem[o].sh)
<1>5. r \in Pointer /\ Right(r)
  BY <1>3, <1>4, MadeFacts
<1> HIDE DEF r
<1>6. mem' \in [Slots -> Pointer] /\ \A q \in Slots : Right(mem'[q])
  BY <1>2, <1>4, <1>5 DEF IInv, OwnProvenance, r
<1>7. Memory' /\ OwnProvenance' /\ CachedRight'
  BY <1>1, <1>6 DEF IInv, Memory, OwnProvenance, CachedRight
<1>8. Control'
  BY <1>1 DEF IInv, Control
<1>9. Protocol'
  BY <1>1 DEF IInv, Protocol, CalledInv, InInv, SortingInv, ComparingInv, BackInv, Passed, ObjAt
<1>10. AccessInv'
  BY <1>1, <1>3, AccessKept DEF IInv
<1> QED
  BY <1>7, <1>8, <1>9, <1>10 DEF IInv

LEMMA LibReturnsStep ==
  ASSUME IInv, LibReturns
  PROVE  IInv'
<1>1. /\ InWrapper({"lib"})
      /\ UNCHANGED <<live, var, mem, stk, odd, formal, cached, real_qsort_cb, access, ops>>
  BY DEF LibReturns
<1>2. PICK v \in {0, call.args[1].val} : call' = [call EXCEPT !.stage = "back", !.ret = Stray(v, 0)]
  BY DEF LibReturns
<1>3. /\ Running /\ call.stage = "called" /\ call.f = "lib" /\ CalledInv
      /\ stk \in Seq(Word) /\ Len(call.args) = 2 /\ v \in Addr \cup {0}
  BY <1>1, InWrapperFacts DEF Pointer
<1>4. call.base = 3 /\ call.dst \in Var \cup Slots /\ call \in CallRec
  BY <1>3 DEF IInv, Protocol, Control
<1>5. ~call.pushed /\ Len(stk) = 6 /\ stk[1].c = "lib"
  BY <1>3, <1>4 DEF CalledInv
<1> DEFINE r == Stray(v, 0)
<1>6. r \in Pointer /\ Right(r) /\ ~r.clean
  <2>1. 0 \in Byte
    BY DEF Byte
  <2> QED
    BY <1>3, <2>1, MadeFacts
<1>7. call' = [call EXCEPT !.stage = "back", !.ret = r]
  BY <1>2
<1> HIDE DEF r
<1>8. /\ call'.stage = "back" /\ call'.f = "lib" /\ call'.ret = r /\ call'.pushed = call.pushed
      /\ call'.args = call.args /\ call'.base = call.base /\ call'.dst = call.dst
  BY <1>3, <1>4, <1>7 DEF CallRec
<1>9. call' \in CallRec
  BY <1>4, <1>6, <1>7, CallExcept DEF Stages
<1>10. Control'
  BY <1>1, <1>8, <1>9 DEF IInv, Control
<1>11. BackInv'
  BY <1>1, <1>5, <1>6, <1>8 DEF BackInv
<1>12. Protocol'
  BY <1>3, <1>4, <1>8, <1>11 DEF Protocol
<1>13. Memory' /\ OwnProvenance' /\ CachedRight'
  BY <1>1 DEF IInv, Memory, OwnProvenance, CachedRight
<1>14. AccessInv'
  BY <1>1, <1>3, AccessKept DEF IInv
<1> QED
  BY <1>10, <1>12, <1>13, <1>14 DEF IInv

\* The caller takes the result's shadow only if the cookie has been changed.
LEMMA BackFacts ==
  ASSUME IInv, call.stage = "back"
  PROVE  /\ CookieWord.c # call.f => call.pushed \/ call.f \in Obstack
         /\ call.pushed => CookieWord.c # call.f
         /\ LET r == [call.ret EXCEPT !.sh = PeekResult(CookieWord.c # call.f)]
            IN  r \in Pointer /\ Right(r)
<1>1. BackInv /\ Len(call.args) = 2 /\ call.base = 3
  BY DEF IInv, Protocol
<1>2. stk \in Seq(Word) /\ call.ret \in Pointer /\ call.pushed \in BOOLEAN /\ call.f # "tweaked"
  BY <1>1 DEF IInv, Control, CallRec, BackInv
<1>3. CASE call.pushed
  <2>1. Len(stk) = 7 /\ stk[1].b = call.ret.sh /\ stk[2].c = "tweaked" /\ Right(call.ret)
    BY <1>1, <1>3 DEF BackInv
  <2>2. CookieWord = stk[2]
    BY <1>1, <2>1 DEF CookieWord
  <2>3. CookieWord.c # call.f
    BY <1>2, <2>1, <2>2
  <2>4. PeekResult(CookieWord.c # call.f) = call.ret.sh
    BY <2>1, <2>3 DEF PeekResult
  <2>5. [call.ret EXCEPT !.sh = call.ret.sh] = call.ret
    BY <1>2 DEF Pointer
  <2> QED
    BY <1>2, <1>3, <2>1, <2>3, <2>4, <2>5
<1>4. CASE ~call.pushed
  <2>1. /\ Len(stk) = 6 /\ (~call.ret.clean \/ call.ret.val = 0)
        /\ \/ call.f = "lib" /\ stk[1].c = "lib"
           \/ call.f \in Obstack /\ stk[1].c = "tweaked"
    BY <1>1, <1>4 DEF BackInv
  <2>2. CookieWord = stk[1]
    BY <1>1, <2>1 DEF CookieWord
  <2>3. stk[1] \in Word
    BY <1>2, <2>1
  <2> DEFINE b == PeekResult(CookieWord.c # call.f)
  <2>4. b \in Byte
    BY <2>3 DEF PeekResult, Word, Byte
  <2> HIDE DEF b
  <2>5. [call.ret EXCEPT !.sh = b] \in Pointer
    BY <1>2, <2>4 DEF Pointer
  <2>6. Right([call.ret EXCEPT !.sh = b])
    BY <1>2, <2>1, <2>4, AddrFacts, PointerExcept
  <2> QED
    BY <1>4, <2>1, <2>2, <2>5, <2>6 DEF b
<1> QED
  BY <1>2, <1>3, <1>4

LEMMA BackStep ==
  ASSUME IInv, Back
  PROVE  IInv'
<1> DEFINE r == [call.ret EXCEPT !.sh = PeekResult(CookieWord.c # call.f)]
<1>1. /\ Running /\ call.stage = "back" /\ Assigned(r)
      /\ stk' = SubSeq(stk, Len(stk) - call.base + 1, Len(stk))
      /\ odd' = FALSE /\ call' = Idle /\ Resting
      /\ UNCHANGED <<live, formal, cached, real_qsort_cb>>
  BY DEF Back
<1>2. r \in Pointer /\ Right(r)
  BY <1>1, BackFacts
<1> HIDE DEF r
<1>3. BackInv /\ call.base = 3 /\ call.dst \in Var \cup Slots
  BY <1>1 DEF IInv, Protocol
<1>4. stk \in Seq(Word) /\ Len(stk) \in {6, 7}
  BY <1>3 DEF IInv, Control, BackInv
<1>5. stk' \in Seq(Word) /\ Len(stk') = 3
  <2> DEFINE n == Len(stk) - 3 + 1
  <2>1. n \in 1..(Len(stk) + 1) /\ Len(stk) - n + 1 = 3
    <3>1. CASE Len(stk) = 6
      BY <3>1
    <3>2. CASE Len(stk) = 7
      BY <3>2
    <3> QED
      BY <1>4, <3>1, <3>2
  <2>2. stk' = SubSeq(stk, n, Len(stk))
    BY <1>1, <1>3
  <2> HIDE DEF n
  <2>3. SubSeq(stk, n, Len(stk)) \in Seq(Word) /\ Len(SubSeq(stk, n, Len(stk))) = Len(stk) - n + 1
    BY <1>4, <2>1, SuffixFacts, Zenon
  <2> QED
    BY <2>1, <2>2, <2>3
<1>6. call' \in CallRec /\ call'.stage = "none"
  BY <1>1, IdleFacts
<1>7. Control'
  BY <1>1, <1>5, <1>6 DEF IInv, Control
<1>8. Protocol'
  BY <1>5, <1>6 DEF Protocol
<1>9. /\ var' \in [Var -> Pointer] /\ \A x \in Var : Right(var'[x])
      /\ mem' \in [Slots -> Pointer] /\ \A o \in Slots : Right(mem'[o])
  <2>1. /\ var \in [Var -> Pointer] /\ \A x \in Var : Right(var[x])
        /\ mem \in [Slots -> Pointer] /\ \A o \in Slots : Right(mem[o])
    BY DEF IInv, Memory, OwnProvenance
  <2>2. CASE call.dst \in Var
    <3>1. var' = [var EXCEPT ![call.dst] = r] /\ mem' = mem
      BY <1>1, <2>2 DEF Assigned
    <3> QED
      BY <1>2, <2>1, <2>2, <3>1
  <2>3. CASE call.dst \notin Var
    <3>1. var' = var /\ mem' = [mem EXCEPT ![call.dst] = r] /\ call.dst \in Slots
      BY <1>1, <1>3, <2>3 DEF Assigned
    <3> QED
      BY <1>2, <2>1, <3>1
  <2> QED
    BY <2>2, <2>3
<1>10. Memory' /\ OwnProvenance' /\ CachedRight'
  BY <1>1, <1>9 DEF IInv, Memory, OwnProvenance, CachedRight
<1>11. AccessInv'
  BY <1>1, AccessKept DEF IInv
<1> QED
  BY <1>7, <1>8, <1>10, <1>11 DEF IInv
-----------------------------------------------------------------------------
(***************************************************************************)
(* The theorems.                                                            *)
(***************************************************************************)
LEMMA Stutter == IInv /\ UNCHANGED vars => IInv'
<1> SUFFICES ASSUME IInv, UNCHANGED vars PROVE IInv'
  OBVIOUS
<1>1. UNCHANGED <<live, var, mem, stk, odd, call, formal, cached, real_qsort_cb, access>>
  BY DEF vars
<1>2. Memory' /\ Control' /\ CachedRight'
  BY <1>1 DEF IInv, Memory, Control, CachedRight
<1>3. Protocol'
  BY <1>1 DEF IInv, Protocol, CalledInv, InInv, SortingInv, ComparingInv, BackInv, Passed, ObjAt
<1>4. OwnProvenance' /\ AccessInv'
  BY <1>1 DEF IInv, OwnProvenance, AccessInv, Enforced, NoFalseAlarm
<1> QED
  BY <1>2, <1>3, <1>4 DEF IInv

LEMMA NextIInv == IInv /\ [Next]_vars => IInv'
<1> SUFFICES ASSUME IInv, [Next]_vars PROVE IInv'
  OBVIOUS
<1>1. CASE Between
  BY <1>1, AddrOfStep, ArithStep, LoadStep, StoreStep, FreeStep DEF Between
<1>2. ASSUME NEW f \in Callee, NEW x \in Var, NEW y \in Var,
             NEW d \in {x} \cup (LiveSlots), Call(f, x, y, d)
      PROVE  IInv'
  BY <1>2, CallStep
<1>3. CASE Wrappers
  BY <1>3, WrapAllocatingStep, WrapFindingStep, WrapSearchingStep, WrapCopyingStep,
     WrapStrstrStep, WrapStaticStep, WrapCountingStep, WrapReallocStep, WrapObstackStep,
     QsortBeginStep, LaunderStep, CompareStep, QsortMovesStep, QsortEndStep DEF Wrappers
<1>4. CASE Enter \/ EnterMain \/ Return \/ LibCallsBack \/ LibStores \/ LibReturns \/ Back
  BY <1>4, EnterStep, EnterMainStep, ReturnStep, LibCallsBackStep, LibStoresStep,
     LibReturnsStep, BackStep
<1>5. CASE Stop \/ UNCHANGED vars
  BY <1>5, Stutter DEF Stop
<1> QED
  BY <1>1, <1>2, <1>3, <1>4, <1>5 DEF Next

\* The inductive invariant: the protocol of the shadow stack in every stage of
\* a call, and the byte of every pointer.
THEOREM ProvenanceInvariant == Spec => []IInv
BY InitIInv, NextIInv, PTL DEF Spec

\* The state always has the shape of the code's data, and __shadow_sp is off a
\* word boundary only while a one-byte result waits for its caller.
THEOREM TypeCorrect == Spec => []TypeOK
<1>1. IInv => TypeOK
  <2> SUFFICES ASSUME IInv PROVE TypeOK
    OBVIOUS
  <2>1. /\ live \subseteq Objs /\ var \in [Var -> Pointer] /\ mem \in [Slots -> Pointer]
        /\ cached \in [DOMAIN StaticAt -> Byte] /\ (odd => call.stage = "back")
        /\ stk \in Seq(Word) /\ formal \in Seq(Pointer)
    BY DEF IInv, Memory, Control
  <2>2. ASSUME NEW i \in 1..Len(stk) PROVE stk[i].b \in Byte
    <3>1. stk[i] \in Word
      BY <2>1, ElementFacts
    <3> QED
      BY <3>1 DEF Word
  <2>3. ASSUME NEW i \in 1..Len(formal) PROVE formal[i] \in Pointer
    BY <2>1, ElementFacts
  <2> QED
    BY <2>1, <2>2, <2>3 DEF TypeOK
<1> QED
  BY <1>1, ProvenanceInvariant, PTL

\* A pointer that only instrumented code and exact wrappers handled carries the
\* byte of its own object, whatever callees, callbacks and libc did in between.
\* A word that uninstrumented code stored, or that qsort or realloc moved, is not
\* such a pointer: it lies beside the shadow of the word that was there before.
THEOREM ProvenanceKept == Spec => []OwnProvenance
<1>1. IInv => OwnProvenance
  BY DEF IInv
<1> QED
  BY <1>1, ProvenanceInvariant, PTL

\* __check_deref lets such a pointer through only to an object with its byte.
THEOREM DerefSound == Spec => []Enforced
<1>1. IInv => Enforced
  BY DEF IInv, AccessInv
<1> QED
  BY <1>1, ProvenanceInvariant, PTL

\* And it does not abort an access inside the live object the pointer is for.
THEOREM DerefComplete == Spec => []NoFalseAlarm
<1>1. IInv => NoFalseAlarm
  BY DEF IInv, AccessInv
<1> QED
  BY <1>1, ProvenanceInvariant, PTL

\* Every call leaves __shadow_sp where it was, and its caller takes a word for
\* the result's shadow exactly if the callee pushed one.
THEOREM ShadowStackBalanced == Spec => []StackRestored
<1>1. IInv => StackRestored
  <2> SUFFICES ASSUME IInv PROVE StackRestored
    OBVIOUS
  <2>1. call.stage = "none" => Len(stk) = 3 /\ ~odd
    BY DEF IInv, Protocol, Control
  <2>2. ASSUME call.stage = "back", call.f \notin Obstack
        PROVE  (CookieWord.c # call.f) = call.pushed
    <3>1. call.pushed \in BOOLEAN
      BY DEF IInv, Control, CallRec
    <3> QED
      BY <2>2, <3>1, BackFacts
  <2> QED
    BY <2>1, <2>2 DEF StackRestored
<1> QED
  BY <1>1, ProvenanceInvariant, PTL
=============================================================================
