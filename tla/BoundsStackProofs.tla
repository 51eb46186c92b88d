------------------------- MODULE BoundsStackProofs -------------------------
(***************************************************************************)
(* Proofs about BoundsStack, for every program, every depth of calls and   *)
(* every number of longjmps: the bounds stack keeps what was pushed on it, *)
(* and implements BoundsPassing.                                           *)
(***************************************************************************)
EXTENDS BoundsStack, TLAPS

\* A handler may run between the push of a cookie and the call, when the
\* address of the callee is on top of the stack.  It must not start that very
\* function without passing bounds, neither itself nor through uninstrumented
\* code: handlers are instrumented and what they call takes pointers.
HandlersApart ==
  /\ Handler \subseteq Inst
  /\ Handler # {} => \A f \in Callable : Params[f] > 0

-----------------------------------------------------------------------------
(* The inductive invariant *)

Word == {"zero", "cookie", "tweaked", "base", "size"} \X (Fn \union Bound \union {None})

\* What a peek may find in words that hold no bounds.
Any == Fn \union Bound \union {None, Invalid, Garbled}

Frame ==
  [fn : Fn, sig : BOOLEAN, really : BOOLEAN, got : Seq(Any), res : Seq(Any), pc : {"run", "args", "call", "wait", "back"},
   callee : Callable \union {None}, sent : Seq(Bound), want : BOOLEAN, saved : Addr,
   cookie : Addr, owed : {None} \union [from : Fn, bs : Seq(Bound)], base : Addr]

Types ==
  /\ mem \in [Addr -> Word] /\ sp \in Addr
  /\ frames \in Seq(Frame) /\ Depth > 0
  /\ argv \in BOOLEAN /\ jumps \in 0 .. MaxJumps

\* The stack pointer where frame i left it.
Left(i) == IF i = Depth THEN sp ELSE frames[i + 1].base

\* No longjmp can have lowered the stack pointer under frame i: there was none,
\* or the frame is a handler's or above one.
Steady(i) == jumps = 0 \/ \E k \in 1 .. i : frames[k].sig

Uses(fr) == UsesStack(fr.callee, fr.want)

\* What frame fr, that left the stack pointer at a, has on the stack m.
Running(fr, a, steady) ==
  fr.pc = "run" => a <= fr.base /\ (steady => a = fr.base) /\ fr.owed = None /\ fr.callee = None

Calling(fr, a, steady) ==
  fr.pc # "run" =>
    /\ fr.fn \in Inst /\ fr.callee \in Callable
    /\ fr.sent \in BoundSeqs(Params[fr.callee]) /\ (fr.want => Results[fr.callee] > 0)
    /\ a <= fr.saved /\ fr.saved <= fr.base /\ (steady => fr.saved = fr.base)
    /\ fr.pc # "back" => fr.owed = None

ArgsPushed(fr, a, m) ==
  fr.pc = "args" => /\ Uses(fr) /\ a + 2 * Len(fr.sent) = fr.saved
                    /\ Peeked(m, a, Len(fr.sent)) = fr.sent

CookiePushed(fr, a, m) ==
  fr.pc \in {"call", "wait", "back"} /\ Uses(fr) =>
    /\ a <= fr.cookie /\ (fr.pc # "back" => a = fr.cookie)
    /\ fr.saved = fr.cookie + 1 + 2 * Len(fr.sent)
    /\ Peeked(m, fr.cookie + 1, Len(fr.sent)) = fr.sent
    /\ m[fr.cookie] = IF fr.pc # "call" /\ fr.callee \in Inst THEN Tweaked(fr.callee)
                                                              ELSE Cookie(fr.callee)

NothingPushed(fr, a, steady) ==
  fr.pc \in {"call", "wait", "back"} /\ ~Uses(fr) => (fr.pc # "back" \/ steady => a = fr.saved)

ResultsPushed(fr, a, m) ==
  fr.pc = "back" =>
    /\ fr.owed # None /\ fr.owed.from = fr.callee
    /\ IF Uses(fr) /\ fr.callee \in Inst
       THEN /\ fr.owed.bs \in BoundSeqs(Results[fr.callee])
            /\ a + 2 * Len(fr.owed.bs) <= fr.cookie
            /\ Peeked(m, a, Len(fr.owed.bs)) = fr.owed.bs
       ELSE fr.owed.bs = <<>>

Holds(fr, a, m, steady) ==
  /\ Running(fr, a, steady) /\ Calling(fr, a, steady) /\ ArgsPushed(fr, a, m)
  /\ CookiePushed(fr, a, m) /\ NothingPushed(fr, a, steady) /\ ResultsPushed(fr, a, m)

EachHolds == \A i \in 1 .. Depth : Holds(frames[i], Left(i), mem, Steady(i))

\* How frame fr was started by the frame cl below it.
StartedBy(cl, fr) ==
  /\ fr.sig => fr.fn \in Handler /\ ~fr.really /\ cl.pc # "wait"
  /\ ~fr.sig =>
       /\ fr.fn \in Callable \union {Main}
       /\ cl.fn \in Inst => /\ cl.pc = "wait" /\ cl.callee = fr.fn
                            /\ fr.really <=> fr.fn \in Inst /\ Uses(cl)
       /\ cl.fn \notin Inst => (fr.really => fr.fn = Main)
  /\ fr.base <= cl.base

Chain ==
  /\ frames[1].fn = Start /\ ~frames[1].sig /\ ~frames[1].really
  /\ frames[1].sent # <<>> => frames[1].sent = <<ArgvBound>> /\ frames[1].base = StackTop - 3
  /\ frames[Depth].pc # "wait"
  /\ \A i \in 1 .. Depth - 1 : StartedBy(frames[i], frames[i + 1])
  /\ \A i, j \in 1 .. Depth : i <= j => frames[j].base <= frames[i].base
  /\ \A i \in 2 .. Depth : frames[i].fn # Start
  /\ \A i \in 1 .. Depth : /\ frames[i].fn \notin Inst => frames[i].res = <<>>
                           /\ frames[i].got \in Seq(AnyBounds)
                           /\ ~Indirect => frames[i].res \in Seq(AnyBounds)

\* A frame above one that is about to call, a handler's or one that a handler
\* started, is instrumented or has the callee's address well above it.
Apart ==
  \A j, i \in 1 .. Depth :
    j < i /\ frames[j].pc = "call" /\ Uses(frames[j]) =>
      frames[i].base < frames[j].cookie \/ frames[i].fn \in Inst

\* NoStrayCookie, with calls that push a cookie.
NoStray ==
  \A a \in sp .. StackTop, f \in Inst :
    mem[a] = Cookie(f) =>
      \/ f = Main /\ a = StackTop - 3 /\ frames[1].sent # <<>>
      \/ \E i \in 1 .. Depth : /\ frames[i].pc = "call" /\ frames[i].callee = f
                               /\ frames[i].cookie = a /\ Uses(frames[i])

\* The bounds of argv.
ArgvKept ==
  /\ argv /\ frames[1].sent # <<>> =>
       mem[StackTop - 3] = Cookie(Main) /\ Peeked(mem, StackTop - 2, 1) = <<ArgvBound>>
  /\ \A i \in 1 .. Depth : frames[i].fn = Main => ~argv

IInv == Types /\ EachHolds /\ Chain /\ Apart /\ NoStray /\ ArgvKept /\ MainGetsArgv

-----------------------------------------------------------------------------
(* Words and bounds *)

\* Sequences of n bounds are sequences.
LEMMA BoundSeqFacts ==
  ASSUME NEW n \in Nat, NEW bs \in BoundSeqs(n)
  PROVE  bs \in Seq(Bound) /\ Len(bs) = n
BY DEF BoundSeqs

\* Bounds take two words each, neither of them a cookie.
LEMMA WordsFacts ==
  ASSUME NEW bs \in Seq(Bound)
  PROVE  /\ Words(bs) \in Seq(Word) /\ Len(Words(bs)) = 2 * Len(bs)
         /\ \A k \in 1 .. Len(bs) : /\ Words(bs)[2 * k - 1] = <<"base", bs[k]>>
                                    /\ Words(bs)[2 * k] = <<"size", bs[k]>>
         /\ \A x \in 1 .. 2 * Len(bs), f \in Inst : Words(bs)[x] # Cookie(f)
<1>1. \A i \in 1 .. 2 * Len(bs) : (i + 1) \div 2 \in 1 .. Len(bs)
  OBVIOUS
<1>2. \A i \in 1 .. 2 * Len(bs) : Words(bs)[i] \in Word
  BY <1>1 DEF Words, Word
<1>3. Words(bs) \in Seq(Word) /\ Len(Words(bs)) = 2 * Len(bs)
  <2>1. Words(bs) \in [1 .. 2 * Len(bs) -> Word]
    BY <1>2 DEF Words
  <2> QED BY <2>1
<1>4. \A k \in 1 .. Len(bs) : /\ 2 * k - 1 \in 1 .. 2 * Len(bs) /\ (2 * k - 1) % 2 = 1
                              /\ ((2 * k - 1) + 1) \div 2 = k
                              /\ 2 * k \in 1 .. 2 * Len(bs) /\ (2 * k) % 2 = 0
                              /\ (2 * k + 1) \div 2 = k
  OBVIOUS
<1>5. \A k \in 1 .. Len(bs) : /\ Words(bs)[2 * k - 1] = <<"base", bs[k]>>
                              /\ Words(bs)[2 * k] = <<"size", bs[k]>>
  BY <1>4, SMTT(30) DEF Words
<1>6. \A x \in 1 .. 2 * Len(bs), f \in Inst : Words(bs)[x] # Cookie(f)
  BY DEF Words, Cookie
<1> QED BY <1>3, <1>5, <1>6

\* A push writes below the stack pointer and nowhere else.
LEMMA PushedFacts ==
  ASSUME NEW m \in [Addr -> Word], NEW a \in Addr, NEW ws \in Seq(Word), Len(ws) <= a
  PROVE  /\ Pushed(m, a, ws) \in [Addr -> Word]
         /\ \A x \in a .. StackTop : Pushed(m, a, ws)[x] = m[x]
         /\ \A x \in a - Len(ws) .. a - 1 : Pushed(m, a, ws)[x] = ws[x - (a - Len(ws)) + 1]
<1> USE StackAssumption
<1>1. \A x \in Addr : a - Len(ws) <= x /\ x < a => x - (a - Len(ws)) + 1 \in 1 .. Len(ws)
  BY DEF Addr
<1>2. \A x \in Addr : a - Len(ws) <= x /\ x < a => ws[x - (a - Len(ws)) + 1] \in Word
  BY <1>1
<1>3. Pushed(m, a, ws) \in [Addr -> Word]
  BY <1>2 DEF Pushed
<1> QED BY <1>3 DEF Pushed, Addr

LEMMA PushedOne ==
  ASSUME NEW m \in [Addr -> Word], NEW a \in Addr, NEW w \in Word, a >= 1
  PROVE  /\ Pushed(m, a, <<w>>) \in [Addr -> Word]
         /\ \A x \in a .. StackTop : Pushed(m, a, <<w>>)[x] = m[x]
         /\ Pushed(m, a, <<w>>)[a - 1] = w
<1> USE StackAssumption
<1>0. <<w>> \in Seq(Word) /\ Len(<<w>>) = 1 /\ <<w>>[1] = w
  OBVIOUS
<1>1. PICK ws \in Seq(Word) : ws = <<w>> /\ Len(ws) = 1 /\ ws[1] = w
  BY <1>0, Zenon
<1>2. /\ Pushed(m, a, ws) \in [Addr -> Word]
      /\ \A x \in a .. StackTop : Pushed(m, a, ws)[x] = m[x]
      /\ \A x \in a - Len(ws) .. a - 1 : Pushed(m, a, ws)[x] = ws[x - (a - Len(ws)) + 1]
  BY <1>1, PushedFacts
<1>3. a - 1 \in a - Len(ws) .. a - 1 /\ (a - 1) - (a - Len(ws)) + 1 = 1
  BY <1>1 DEF Addr
<1>4. Pushed(m, a, ws)[a - 1] = ws[1]
  BY <1>2, <1>3
<1> QED BY <1>1, <1>2, <1>4

\* A peek depends only on the words from its address up.
LEMMA PeekKept ==
  ASSUME NEW m, NEW m2, NEW a \in Nat, \A x \in a .. StackTop : m2[x] = m[x], NEW n \in Nat
  PROVE  Peeked(m2, a, n) = Peeked(m, a, n)
<1> USE StackAssumption
<1>1. \A b \in Nat : a <= b => BoundsAt(m2, b) = BoundsAt(m, b)
  BY DEF BoundsAt
<1>2. \A i \in 1 .. n : a + 2 * (i - 1) \in Nat /\ a <= a + 2 * (i - 1)
  OBVIOUS
<1> QED BY <1>1, <1>2 DEF Peeked

\* What was pushed is what is peeked.
LEMMA PeekPushed ==
  ASSUME NEW m \in [Addr -> Word], NEW a \in Addr, NEW bs \in Seq(Bound), 2 * Len(bs) <= a
  PROVE  Peeked(Pushed(m, a, Words(bs)), a - 2 * Len(bs), Len(bs)) = bs
<1> DEFINE m2 == Pushed(m, a, Words(bs))
           b == a - 2 * Len(bs)
<1> USE StackAssumption
<1>1. ASSUME NEW i \in 1 .. Len(bs) PROVE BoundsAt(m2, b + 2 * (i - 1)) = bs[i]
  <2>1. \A x \in b .. a - 1 : m2[x] = Words(bs)[x - b + 1]
    <3>1. Words(bs) \in Seq(Word) /\ Len(Words(bs)) = 2 * Len(bs) /\ Len(Words(bs)) <= a
      BY WordsFacts
    <3> DEFINE ws == Words(bs)
    <3> HIDE DEF ws
    <3>2. \A x \in a - Len(ws) .. a - 1 : Pushed(m, a, ws)[x] = ws[x - (a - Len(ws)) + 1]
      BY <3>1, PushedFacts DEF ws
    <3>3. a - Len(ws) = b
      BY <3>1 DEF ws
    <3> QED BY <3>2, <3>3 DEF ws
  <2> DEFINE y == b + 2 * (i - 1)
  <2>2. /\ y \in b .. a - 1 /\ y + 1 \in b .. a - 1 /\ y + 1 <= StackTop
        /\ y - b + 1 = 2 * i - 1 /\ (y + 1) - b + 1 = 2 * i
    BY DEF Addr
  <2> HIDE DEF m2, b, y
  <2>3. m2[y] = Words(bs)[2 * i - 1] /\ m2[y + 1] = Words(bs)[2 * i]
    BY <2>1, <2>2
  <2>4. m2[y] = <<"base", bs[i]>> /\ m2[y + 1] = <<"size", bs[i]>>
    BY <2>3, WordsFacts
  <2>5. BoundsAt(m2, y) = bs[i]
    BY <2>2, <2>4 DEF BoundsAt
  <2> QED BY <2>5 DEF y
<1> HIDE DEF m2, b
<1>2. Peeked(m2, b, Len(bs)) = [i \in 1 .. Len(bs) |-> bs[i]]
  BY <1>1 DEF Peeked
<1>3. bs = [i \in 1 .. Len(bs) |-> bs[i]]
  OBVIOUS
<1> QED BY <1>2, <1>3 DEF m2, b

\* Whatever a peek finds.
LEMMA PeekType ==
  ASSUME NEW m \in [Addr -> Word], NEW a \in Nat, NEW n \in Nat
  PROVE  Peeked(m, a, n) \in Seq(Any) /\ Len(Peeked(m, a, n)) = n
<1> USE StackAssumption
<1>1. \A b \in Nat : BoundsAt(m, b) \in Any
  <2> TAKE b \in Nat
  <2>1. CASE b + 1 <= StackTop
    <3>1. b \in Addr /\ m[b] \in Word
      BY <2>1 DEF Addr
    <3>2. m[b][2] \in Any
      BY <3>1 DEF Word, Any
    <3> QED BY <3>2 DEF BoundsAt, Any
  <2>2. CASE ~(b + 1 <= StackTop)
    BY <2>2 DEF BoundsAt, Any
  <2> QED BY <2>1, <2>2
<1>2. \A i \in 1 .. n : a + 2 * (i - 1) \in Nat
  OBVIOUS
<1>3. Peeked(m, a, n) \in [1 .. n -> Any]
  BY <1>1, <1>2 DEF Peeked
<1> QED BY <1>3

LEMMA InvalidType ==
  ASSUME NEW n \in Nat
  PROVE  AllInvalid(n) \in Seq(AnyBounds) /\ AllInvalid(n) \in Seq(Any)
<1>1. AllInvalid(n) \in [1 .. n -> AnyBounds] /\ AllInvalid(n) \in [1 .. n -> Any]
  BY DEF AllInvalid, AnyBounds, Any
<1> QED BY <1>1

-----------------------------------------------------------------------------
(* What a step has to show *)

\* Fields of a frame.
LEMMA FrameFields ==
  ASSUME NEW fr \in Frame
  PROVE  /\ fr.base \in Nat /\ fr.saved \in Nat /\ fr.cookie \in Nat
         /\ fr.base <= StackTop /\ fr.saved <= StackTop /\ fr.cookie <= StackTop
         /\ fr.sent \in Seq(Bound) /\ Len(fr.sent) \in Nat
         /\ fr.owed # None => fr.owed.bs \in Seq(Bound) /\ Len(fr.owed.bs) \in Nat
         /\ fr.pc \in {"run", "args", "call", "wait", "back"}
         /\ fr.fn \in Fn
BY StackAssumption DEF Frame, Addr

\* What a frame has on the stack depends only on the words from where it left
\* the stack pointer up.
LEMMA HoldsKept ==
  ASSUME NEW fr \in Frame, NEW a \in Nat, NEW m, NEW m2, NEW s \in BOOLEAN, NEW s2 \in BOOLEAN,
         \A x \in a .. StackTop : m2[x] = m[x], s2 => s, Holds(fr, a, m, s)
  PROVE  Holds(fr, a, m2, s2)
<1>1. Running(fr, a, s2) /\ Calling(fr, a, s2) /\ NothingPushed(fr, a, s2)
  BY DEF Holds, Running, Calling, NothingPushed
<1>2. ArgsPushed(fr, a, m2)
  <2>1. Len(fr.sent) \in Nat
    BY FrameFields
  <2>2. Peeked(m2, a, Len(fr.sent)) = Peeked(m, a, Len(fr.sent))
    BY <2>1, PeekKept
  <2> QED BY <2>2 DEF Holds, ArgsPushed
<1>3. CookiePushed(fr, a, m2)
  <2> SUFFICES ASSUME fr.pc \in {"call", "wait", "back"}, Uses(fr)
               PROVE  CookiePushed(fr, a, m2)
    BY DEF CookiePushed
  <2>1. CookiePushed(fr, a, m) /\ a <= fr.cookie
    BY DEF Holds, CookiePushed
  <2>2. /\ m2[fr.cookie] = m[fr.cookie] /\ fr.cookie + 1 \in Nat /\ a <= fr.cookie + 1
        /\ Len(fr.sent) \in Nat
    BY <2>1, FrameFields
  <2>3. Peeked(m2, fr.cookie + 1, Len(fr.sent)) = Peeked(m, fr.cookie + 1, Len(fr.sent))
    <3> DEFINE c == fr.cookie + 1
    <3> HIDE DEF c
    <3>1. c \in Nat /\ a <= c /\ Len(fr.sent) \in Nat
      BY <2>2 DEF c
    <3>2. \A x \in c .. StackTop : m2[x] = m[x]
      BY <3>1
    <3>3. Peeked(m2, c, Len(fr.sent)) = Peeked(m, c, Len(fr.sent))
      BY <3>1, <3>2, PeekKept, ZenonT(40)
    <3> QED BY <3>3 DEF c
  <2> QED BY <2>1, <2>2, <2>3 DEF CookiePushed
<1>4. ResultsPushed(fr, a, m2)
  <2> SUFFICES ASSUME fr.pc = "back" PROVE ResultsPushed(fr, a, m2)
    BY DEF ResultsPushed
  <2>1. ResultsPushed(fr, a, m) /\ fr.owed # None
    BY DEF Holds, ResultsPushed
  <2>2. Len(fr.owed.bs) \in Nat
    BY <2>1, FrameFields
  <2>3. Peeked(m2, a, Len(fr.owed.bs)) = Peeked(m, a, Len(fr.owed.bs))
    BY <2>2, PeekKept
  <2> QED BY <2>1, <2>3 DEF ResultsPushed
<1> QED BY <1>1, <1>2, <1>3, <1>4 DEF Holds

\* A frame leaves the stack pointer below where it found it.
LEMMA HoldsBelow ==
  ASSUME NEW fr \in Frame, NEW a \in Nat, NEW m, NEW s, Holds(fr, a, m, s)
  PROVE  a <= fr.base
BY FrameFields DEF Holds, Running, Calling

LEMMA LeftFacts ==
  ASSUME IInv
  PROVE  /\ Depth \in Nat /\ Depth > 0 /\ Top \in Frame /\ sp \in Nat /\ sp <= Top.base
         /\ Top = frames[Depth] /\ sp \in Addr /\ mem \in [Addr -> Word]
         /\ Holds(Top, sp, mem, Steady(Depth))
         /\ \A i \in 1 .. Depth : Steady(i) \in BOOLEAN /\ frames[i] \in Frame
         /\ \A i \in 1 .. Depth - 1 : /\ Left(i) \in Nat /\ Left(i) <= StackTop
                                      /\ Left(i) = frames[i + 1].base
                                      /\ Top.base <= Left(i) /\ sp <= Left(i)
         /\ sp <= StackTop /\ (frames[1].sent # <<>> => sp <= StackTop - 3)
<1>1. /\ Depth \in Nat /\ Depth > 0 /\ Top \in Frame /\ sp \in Nat /\ Left(Depth) = sp
      /\ \A i \in 1 .. Depth : frames[i] \in Frame
  BY DEF IInv, Types, Depth, Top, Left
<1>2. Holds(Top, sp, mem, Steady(Depth))
  BY <1>1 DEF IInv, EachHolds, Top
<1>3. sp <= Top.base
  BY <1>1, <1>2, HoldsBelow
<1>4. ASSUME NEW i \in 1 .. Depth - 1
      PROVE  /\ Left(i) \in Nat /\ Left(i) <= StackTop
             /\ Left(i) = frames[i + 1].base /\ Top.base <= Left(i)
  <2>1. Left(i) = frames[i + 1].base
    BY <1>1 DEF Left
  <2>2. frames[i + 1] \in Frame
    BY <1>1
  <2>3. Top.base <= frames[i + 1].base
    BY <1>1 DEF IInv, Chain, Top
  <2> QED BY <2>1, <2>2, <2>3, FrameFields
<1>5. \A i \in 1 .. Depth - 1 : sp <= Left(i)
  BY <1>1, <1>3, <1>4, FrameFields
<1>6. \A i \in 1 .. Depth : Steady(i) \in BOOLEAN
  BY DEF Steady
<1>7. Top = frames[Depth] /\ sp \in Addr /\ mem \in [Addr -> Word]
  BY DEF Top, IInv, Types
<1>8. sp <= StackTop /\ (frames[1].sent # <<>> => sp <= StackTop - 3)
  <2>1. frames[1] \in Frame /\ Top.base <= frames[1].base
    BY <1>1 DEF IInv, Chain, Top
  <2>2. sp <= frames[1].base /\ frames[1].base <= StackTop
    BY <1>1, <1>3, <2>1, FrameFields
  <2>3. frames[1].sent # <<>> => frames[1].base = StackTop - 3
    BY DEF IInv, Chain
  <2> QED BY <1>7, <2>2, <2>3 DEF Addr
<1> QED BY <1>1, <1>2, <1>3, <1>4, <1>5, <1>6, <1>7, <1>8

\* A step that drops the frames above frame n and puts fr2 in its place.
LEMMA Replace ==
  ASSUME IInv, NEW n \in 1 .. Depth, NEW fr2 \in Frame,
         frames' \in Seq(Frame), Len(frames') = n, frames'[n] = fr2,
         \A i \in 1 .. n - 1 : frames'[i] = frames[i],
         fr2.fn = frames[n].fn, fr2.sig = frames[n].sig, fr2.really = frames[n].really,
         fr2.got = frames[n].got, fr2.base = frames[n].base, fr2.pc # "wait",
         fr2.fn \notin Inst => fr2.res = <<>>, ~Indirect => fr2.res \in Seq(AnyBounds),
         sp' \in Addr,
         mem' \in [Addr -> Word], \A x \in sp .. StackTop : mem'[x] = mem[x],
         argv' = argv, jumps' \in 0 .. MaxJumps,
         jumps' = jumps \/ (jumps' # 0 /\ \A i \in 1 .. n : ~frames[i].sig),
         NEW s \in BOOLEAN, jumps' = jumps => s = Steady(n), Holds(fr2, sp', mem', s),
         n = 1 => fr2.sent = frames[1].sent
  PROVE  Types' /\ EachHolds' /\ Chain' /\ Apart' /\ ArgvKept' /\ MainGetsArgv'
<1> USE StackAssumption
<1>0. /\ Depth' = n /\ n \in Nat /\ n > 0 /\ n <= Depth /\ Depth \in Nat
      /\ \A i \in 1 .. Depth : frames[i] \in Frame
  BY LeftFacts DEF Depth
<1>1. Types'
  BY <1>0 DEF IInv, Types, Depth
<1>2. EachHolds'
  <2> SUFFICES ASSUME NEW i \in 1 .. n
               PROVE  Holds(frames'[i], Left(i)', mem', Steady(i)')
    BY <1>0 DEF EachHolds
  <2>0. Steady(i)' \in BOOLEAN
    BY DEF Steady
  <2>1. CASE i = n
    <3>1. Left(i)' = sp' /\ frames'[i] = fr2
      BY <1>0, <2>1 DEF Left
    <3>2. sp' \in Nat /\ (Steady(i)' => s)
      <4>1. \A k \in 1 .. n : frames'[k].sig = frames[k].sig
        BY <1>0
      <4>2. sp' \in Nat
        BY DEF Addr
      <4> QED BY <2>1, <4>1, <4>2 DEF Steady
    <3>3. Holds(fr2, sp', mem', Steady(i)')
      BY <2>0, <3>2, HoldsKept
    <3> QED BY <3>1, <3>3
  <2>2. CASE i # n
    <3>1. /\ Left(i) \in Nat /\ sp <= Left(i) /\ sp \in Nat /\ Left(i) = frames[i + 1].base
          /\ Steady(i) \in BOOLEAN
      BY <1>0, <2>2, LeftFacts
    <3>2. Left(i)' = Left(i) /\ frames'[i] = frames[i]
      <4>1. i + 1 \in 1 .. n /\ frames'[i + 1].base = frames[i + 1].base
        BY <1>0, <2>2
      <4>2. Left(i)' = frames'[i + 1].base
        BY <1>0, <2>2 DEF Left
      <4> QED BY <2>2, <3>1, <4>1, <4>2
    <3>3. Steady(i)' => Steady(i)
      <4>1. \A k \in 1 .. i : frames'[k] = frames[k]
        BY <1>0, <2>2
      <4> QED BY <1>0, <2>2, <4>1 DEF Steady
    <3>4. \A x \in Left(i) .. StackTop : mem'[x] = mem[x]
      BY <3>1
    <3>5. Holds(frames[i], Left(i), mem, Steady(i)) /\ frames[i] \in Frame
      BY <1>0 DEF IInv, EachHolds
    <3>6. Holds(frames[i], Left(i), mem', Steady(i)')
      BY <2>0, <3>1, <3>3, <3>4, <3>5, HoldsKept
    <3> QED BY <3>2, <3>6
  <2> QED BY <2>1, <2>2
<1>3. \A i \in 1 .. n : /\ frames'[i].fn = frames[i].fn /\ frames'[i].sig = frames[i].sig
                        /\ frames'[i].really = frames[i].really
                        /\ frames'[i].got = frames[i].got /\ frames'[i].base = frames[i].base
                        /\ i < n => frames'[i] = frames[i]
  BY <1>0
<1>30. frames'[1].sent = frames[1].sent
  <2>1. CASE n = 1
    BY <2>1
  <2>2. CASE n # 1
    BY <1>0, <1>3, <2>2
  <2> QED BY <2>1, <2>2
<1>4. Chain'
  <2>1. /\ frames'[1].fn = Start /\ ~frames'[1].sig /\ ~frames'[1].really
        /\ frames'[1].sent # <<>> =>
             frames'[1].sent = <<ArgvBound>> /\ frames'[1].base = StackTop - 3
        /\ frames'[n].pc # "wait"
    <3>1. 1 \in 1 .. n
      BY <1>0
    <3>2. /\ frames'[1].fn = frames[1].fn /\ frames'[1].sig = frames[1].sig
          /\ frames'[1].really = frames[1].really /\ frames'[1].base = frames[1].base
      BY <1>3, <3>1
    <3> QED BY <1>30, <3>2 DEF IInv, Chain
  <2>2. \A i \in 1 .. n - 1 : StartedBy(frames'[i], frames'[i + 1])
    <3> TAKE i \in 1 .. n - 1
    <3>1. StartedBy(frames[i], frames[i + 1]) /\ i \in 1 .. n /\ i + 1 \in 1 .. n /\ i < n
      BY <1>0 DEF IInv, Chain
    <3> QED BY <1>3, <3>1 DEF StartedBy
  <2>3. \A i, j \in 1 .. n : i <= j => frames'[j].base <= frames'[i].base
    <3>1. \A i, j \in 1 .. Depth : i <= j => frames[j].base <= frames[i].base
      BY DEF IInv, Chain
    <3> QED BY <1>0, <1>3, <3>1
  <2>4. \A i \in 2 .. n : frames'[i].fn # Start
    <3> TAKE i \in 2 .. n
    <3>1. \A k \in 2 .. Depth : frames[k].fn # Start
      BY DEF IInv, Chain
    <3>2. i \in 1 .. n /\ i \in 2 .. Depth
      BY <1>0
    <3>3. frames'[i].fn = frames[i].fn
      BY <1>3, <3>2
    <3> QED BY <3>1, <3>2, <3>3
  <2>5. \A i \in 1 .. n : /\ frames'[i].fn \notin Inst => frames'[i].res = <<>>
                          /\ frames'[i].got \in Seq(AnyBounds)
                          /\ ~Indirect => frames'[i].res \in Seq(AnyBounds)
    <3> TAKE i \in 1 .. n
    <3>1. CASE i = n
      BY <1>0, <1>3, <3>1 DEF IInv, Chain
    <3>2. CASE i < n
      <4>1. frames'[i] = frames[i] /\ i \in 1 .. Depth
        BY <1>0, <1>3, <3>2
      <4> QED BY <4>1 DEF IInv, Chain
    <3> QED BY <3>1, <3>2
  <2> QED BY <1>0, <2>1, <2>2, <2>3, <2>4, <2>5 DEF Chain
<1>5. Apart'
  <2> SUFFICES ASSUME NEW j \in 1 .. n, NEW i \in 1 .. n, j < i, frames'[j].pc = "call",
                      Uses(frames'[j])
               PROVE  frames'[i].base < frames'[j].cookie \/ frames'[i].fn \in Inst
    BY <1>0 DEF Apart, Uses
  <2>1. frames'[j] = frames[j] /\ j \in 1 .. Depth /\ i \in 1 .. Depth
    BY <1>0, <1>3
  <2> QED BY <1>3, <2>1 DEF IInv, Apart
<1>6. ArgvKept'
  <2>0. \A i \in 1 .. n : frames'[i].fn = Main => ~argv'
    BY <1>0, <1>3 DEF IInv, ArgvKept
  <2> SUFFICES ASSUME argv, frames[1].sent # <<>>
               PROVE  mem'[StackTop - 3] = Cookie(Main) /\ Peeked(mem', StackTop - 2, 1) = <<ArgvBound>>
    BY <1>0, <1>30, <2>0 DEF ArgvKept, Cookie
  <2>1. sp \in Nat /\ sp <= StackTop - 3 /\ StackTop - 3 \in Nat /\ StackTop - 2 \in Nat
    BY LeftFacts
  <2>2. mem'[StackTop - 3] = mem[StackTop - 3]
    BY <2>1
  <2>3. Peeked(mem', StackTop - 2, 1) = Peeked(mem, StackTop - 2, 1)
    <3> DEFINE b == StackTop - 2
               n1 == 1
    <3> HIDE DEF b, n1
    <3>1. b \in Nat /\ sp <= b /\ n1 \in Nat
      BY <2>1 DEF b, n1
    <3>2. \A x \in b .. StackTop : mem'[x] = mem[x]
      BY <2>1, <3>1
    <3>3. Peeked(mem', b, n1) = Peeked(mem, b, n1)
      BY ONLY <3>1, <3>2, PeekKept
    <3> QED BY <3>3 DEF b, n1
  <2> QED BY <2>2, <2>3 DEF IInv, ArgvKept
<1>7. MainGetsArgv'
  BY <1>0, <1>3, <1>30 DEF IInv, MainGetsArgv, Types
<1> QED BY <1>1, <1>2, <1>4, <1>5, <1>6, <1>7

\* A step that starts frame nf, and turns the frame it starts it from into top2.
LEMMA Push ==
  ASSUME IInv, NEW top2 \in Frame, NEW nf \in Frame,
         frames' \in Seq(Frame), Len(frames') = Depth + 1,
         frames'[Depth] = top2, frames'[Depth + 1] = nf,
         \A i \in 1 .. Depth - 1 : frames'[i] = frames[i],
         top2.fn = Top.fn, top2.sig = Top.sig, top2.really = Top.really,
         top2.got = Top.got, top2.base = Top.base,
         top2.res = Top.res \/ top2.res = <<>>, Depth = 1 => top2.sent = Top.sent,
         nf.pc = "run", nf.base = sp, nf.owed = None, nf.callee = None, nf.res = <<>>,
         nf.got \in Seq(AnyBounds), nf.fn # Start, StartedBy(top2, nf),
         sp' = sp, mem' \in [Addr -> Word],
         \A i \in 1 .. Depth - 1 : \A x \in Left(i) .. StackTop : mem'[x] = mem[x],
         jumps' = jumps, argv' \in BOOLEAN, Holds(top2, sp, mem', Steady(Depth)),
         \A j \in 1 .. Depth : frames'[j].pc = "call" /\ Uses(frames'[j]) =>
                                 sp < frames'[j].cookie \/ nf.fn \in Inst
  PROVE  Types' /\ EachHolds' /\ Chain' /\ Apart'
<1> USE StackAssumption
<1> DEFINE d == Depth
<1>0. /\ d \in Nat /\ d > 0 /\ Depth' = d + 1 /\ \A i \in 1 .. d : frames[i] \in Frame
      /\ frames[d] = Top /\ sp \in Nat /\ sp <= Top.base
  BY LeftFacts DEF Depth, Top
<1>00. /\ frames'[d] = top2 /\ frames'[d + 1] = nf
       /\ \A i \in 1 .. d - 1 : frames'[i] = frames[i] /\ Left(i) = frames[i + 1].base
       /\ frames[d].pc # "wait"
  BY LeftFacts DEF IInv, Chain
<1>1. Types'
  BY <1>0 DEF IInv, Types, Depth
<1>2. \A i \in 1 .. d : /\ frames'[i].fn = frames[i].fn /\ frames'[i].sig = frames[i].sig
                        /\ frames'[i].really = frames[i].really
                        /\ frames'[i].got = frames[i].got /\ frames'[i].base = frames[i].base
                        /\ i < d => frames'[i] = frames[i]
                        /\ frames'[i].res = frames[i].res \/ frames'[i].res = <<>>
  <2> TAKE i \in 1 .. d
  <2>1. CASE i = d
    BY <1>0, <1>00, <2>1
  <2>2. CASE i < d
    BY <1>0, <1>00, <2>2
  <2> HIDE DEF d
  <2> QED BY <1>0, <2>1, <2>2
<1>3. EachHolds'
  <2> SUFFICES ASSUME NEW i \in 1 .. d + 1
               PROVE  Holds(frames'[i], Left(i)', mem', Steady(i)')
    BY <1>0 DEF EachHolds
  <2>0. Steady(i)' \in BOOLEAN
    BY DEF Steady
  <2>00. i <= d => (Steady(i)' => Steady(i)) /\ Steady(i) \in BOOLEAN
    <3>1. i <= d => \A k \in 1 .. i : frames'[k].sig = frames[k].sig
      BY <1>0, <1>2
    <3> QED BY <3>1 DEF Steady
  <2>1. CASE i = d + 1
    <3>1. frames'[i] = nf /\ Left(i)' = sp
      BY <1>0, <1>00, <2>1 DEF Left
    <3>2. Holds(nf, sp, mem', Steady(i)')
      BY <1>0 DEF Holds, Running, Calling, ArgsPushed, CookiePushed, NothingPushed, ResultsPushed
    <3> QED BY <3>1, <3>2
  <2>2. CASE i = d
    <3>1. frames'[i] = top2 /\ Left(i)' = sp
      BY <1>0, <1>00, <2>2 DEF Left
    <3>2. /\ \A x \in sp .. StackTop : mem'[x] = mem'[x]
          /\ Steady(d) \in BOOLEAN /\ (Steady(i)' => Steady(d)) /\ sp \in Nat
          /\ Holds(top2, sp, mem', Steady(d)) /\ top2 \in Frame
      BY <1>0, <2>00, <2>2
    <3>3. Holds(top2, sp, mem', Steady(i)')
      BY ONLY <2>0, <3>2, HoldsKept
    <3> QED BY <3>1, <3>3
  <2>3. CASE i < d
    <3>1. i \in 1 .. d - 1 /\ i + 1 \in 1 .. d /\ i \in 1 .. d
      BY <1>0, <2>3
    <3>2. Left(i)' = frames'[i + 1].base
      BY <1>0, <2>3 DEF Left
    <3>3. Left(i)' = Left(i) /\ frames'[i] = frames[i]
      BY <1>00, <1>2, <3>1, <3>2
    <3>4. Left(i) \in Nat /\ \A x \in Left(i) .. StackTop : mem'[x] = mem[x]
      BY <3>1, LeftFacts
    <3>5. Holds(frames[i], Left(i), mem, Steady(i)) /\ frames[i] \in Frame
      BY <1>0, <3>1 DEF IInv, EachHolds
    <3>6. Steady(i)' => Steady(i)
      BY <1>0, <2>00, <2>3
    <3>7. Steady(i) \in BOOLEAN
      BY <1>0, <2>00, <2>3
    <3>8. Holds(frames[i], Left(i), mem', Steady(i)')
      BY ONLY <2>0, <3>4, <3>5, <3>6, <3>7, HoldsKept
    <3> QED BY <3>3, <3>8
  <2> HIDE DEF d
  <2> QED BY <1>0, <2>1, <2>2, <2>3
<1>4. Chain'
  <2>0. frames'[1].sent = frames[1].sent
    <3>1. CASE d = 1
      BY <1>0, <1>00, <3>1
    <3>2. CASE d # 1
      BY <1>0, <1>00, <3>2
    <3> QED BY <3>1, <3>2
  <2>1. /\ frames'[1].fn = Start /\ ~frames'[1].sig /\ ~frames'[1].really
        /\ frames'[1].sent # <<>> =>
             frames'[1].sent = <<ArgvBound>> /\ frames'[1].base = StackTop - 3
        /\ frames'[d + 1].pc # "wait"
    BY <1>0, <1>00, <1>2, <2>0 DEF IInv, Chain
  <2>2. \A i \in 1 .. d : StartedBy(frames'[i], frames'[i + 1])
    <3> TAKE i \in 1 .. d
    <3>1. CASE i = d
      BY <1>00, <3>1
    <3>2. CASE i < d
      <4>1. i \in 1 .. d - 1 /\ i + 1 \in 1 .. d
        BY <1>0, <3>2
      <4>2. StartedBy(frames[i], frames[i + 1])
        BY <4>1 DEF IInv, Chain
      <4> QED BY <1>2, <3>2, <4>1, <4>2 DEF StartedBy
    <3> HIDE DEF d
    <3> QED BY <1>0, <3>1, <3>2
  <2>3. \A i, j \in 1 .. d + 1 : i <= j => frames'[j].base <= frames'[i].base
    <3> TAKE i \in 1 .. d + 1, j \in 1 .. d + 1
    <3> HAVE i <= j
    <3>1. \A k \in 1 .. d : Top.base <= frames[k].base /\ frames[k].base \in Nat
      <4>1. \A k, l \in 1 .. Depth : k <= l => frames[l].base <= frames[k].base
        BY DEF IInv, Chain
      <4>2. \A k \in 1 .. d : frames[k].base \in Nat
        BY <1>0, FrameFields
      <4> QED BY <1>0, <4>1, <4>2
    <3>2. CASE j <= d
      <4>1. \A k, l \in 1 .. d : k <= l => frames[l].base <= frames[k].base
        BY DEF IInv, Chain
      <4>2. i \in 1 .. d /\ j \in 1 .. d
        BY <1>0, <3>2
      <4> HIDE DEF d
      <4> QED BY <1>2, <4>1, <4>2
    <3>3. CASE j = d + 1 /\ i <= d
      <4>1. i \in 1 .. d /\ Top.base \in Nat
        BY <1>0, <3>3, FrameFields
      <4>2. frames'[i].base = frames[i].base /\ Top.base <= frames[i].base /\ frames[i].base \in Nat
        BY <1>2, <3>1, <4>1
      <4>3. frames'[j].base = sp
        BY <1>00, <3>3
      <4> QED BY ONLY <1>0, <4>1, <4>2, <4>3
    <3>4. CASE j = d + 1 /\ i = d + 1
      BY <1>0, <1>00, <3>4
    <3> HIDE DEF d
    <3> QED BY <1>0, <3>2, <3>3, <3>4
  <2>4. \A i \in 2 .. d + 1 : frames'[i].fn # Start
    <3>1. \A i \in 2 .. d : frames'[i].fn = frames[i].fn /\ frames[i].fn # Start
      <4> TAKE i \in 2 .. d
      <4>1. i \in 1 .. d
        BY <1>0
      <4>2. frames'[i].fn = frames[i].fn
        BY <1>2, <4>1
      <4>3. \A k \in 2 .. Depth : frames[k].fn # Start
        BY DEF IInv, Chain
      <4> QED BY <4>2, <4>3
    <3>2. frames'[d + 1].fn # Start
      BY <1>00
    <3> TAKE i \in 2 .. d + 1
    <3>3. i \in 2 .. d \/ i = d + 1
      BY <1>0
    <3> QED BY <3>1, <3>2, <3>3
  <2>5. \A i \in 1 .. d + 1 : /\ frames'[i].fn \notin Inst => frames'[i].res = <<>>
                              /\ frames'[i].got \in Seq(AnyBounds)
                              /\ ~Indirect => frames'[i].res \in Seq(AnyBounds)
    <3> TAKE i \in 1 .. d + 1
    <3>0. <<>> \in Seq(AnyBounds)
      OBVIOUS
    <3>1. CASE i = d + 1
      BY <1>00, <3>0, <3>1
    <3>2. CASE i <= d
      <4>1. i \in 1 .. d
        BY <1>0, <3>2
      <4>2. /\ frames[i].fn \notin Inst => frames[i].res = <<>>
            /\ frames[i].got \in Seq(AnyBounds)
            /\ ~Indirect => frames[i].res \in Seq(AnyBounds)
        BY <4>1 DEF IInv, Chain
      <4> QED BY <1>2, <3>0, <4>1, <4>2
    <3> HIDE DEF d
    <3> QED BY <1>0, <3>1, <3>2
  <2> QED BY <1>0, <2>1, <2>2, <2>3, <2>4, <2>5 DEF Chain
<1>5. Apart'
  <2> SUFFICES ASSUME NEW j \in 1 .. d + 1, NEW i \in 1 .. d + 1, j < i, frames'[j].pc = "call",
                      Uses(frames'[j])
               PROVE  frames'[i].base < frames'[j].cookie \/ frames'[i].fn \in Inst
    BY <1>0 DEF Apart, Uses
  <2>1. CASE i = d + 1
    <3>1. j \in 1 .. d
      BY <1>0, <2>1
    <3> QED BY <1>00, <2>1, <3>1
  <2>2. CASE i <= d
    <3>1. j \in 1 .. d /\ i \in 1 .. d /\ j < d
      BY <1>0, <2>2
    <3>2. frames'[j] = frames[j] /\ frames'[i].base = frames[i].base /\ frames'[i].fn = frames[i].fn
      BY <1>2, <3>1
    <3> QED BY <3>1, <3>2 DEF IInv, Apart
  <2> HIDE DEF d
  <2> QED BY <1>0, <2>1, <2>2
<1> QED BY <1>1, <1>3, <1>4, <1>5

\* What is left of NoStray after a step that writes only below the stack pointer
\* and keeps the frames that are about to call.
LEMMA StrayKept ==
  ASSUME IInv, NEW n \in 1 .. Depth, Len(frames') = n, sp' \in Nat,
         \A x \in sp .. StackTop : mem'[x] = mem[x],
         \A i \in 1 .. Depth : frames[i].pc = "call" => i <= n /\ frames'[i] = frames[i],
         \A x \in sp' .. StackTop, f \in Inst :
           x < sp /\ mem'[x] = Cookie(f) =>
             \E i \in 1 .. n : /\ frames'[i].pc = "call" /\ frames'[i].callee = f
                               /\ frames'[i].cookie = x /\ Uses(frames'[i]),
         frames'[1].sent = frames[1].sent
  PROVE  NoStray'
<1> USE StackAssumption
<1>0. Depth' = n /\ n \in Nat /\ Depth \in Nat /\ sp \in Nat
  BY LeftFacts DEF Depth
<1> SUFFICES ASSUME NEW a \in sp' .. StackTop, NEW f \in Inst, mem'[a] = Cookie(f)
             PROVE  \/ f = Main /\ a = StackTop - 3 /\ frames'[1].sent # <<>>
                    \/ \E i \in 1 .. n : /\ frames'[i].pc = "call" /\ frames'[i].callee = f
                                         /\ frames'[i].cookie = a /\ Uses(frames'[i])
  BY <1>0, SMTT(30) DEF NoStray, Cookie, Uses
<1>1. CASE a < sp
  BY <1>1
<1>2. CASE a >= sp
  <2>1. a \in sp .. StackTop /\ mem[a] = Cookie(f)
    BY <1>0, <1>2
  <2>2. \/ f = Main /\ a = StackTop - 3 /\ frames[1].sent # <<>>
        \/ \E i \in 1 .. Depth : /\ frames[i].pc = "call" /\ frames[i].callee = f
                                 /\ frames[i].cookie = a /\ Uses(frames[i])
    BY <2>1 DEF IInv, NoStray
  <2>3. ASSUME NEW i \in 1 .. Depth, frames[i].pc = "call", frames[i].callee = f,
               frames[i].cookie = a, Uses(frames[i])
        PROVE  \E k \in 1 .. n : /\ frames'[k].pc = "call" /\ frames'[k].callee = f
                                 /\ frames'[k].cookie = a /\ Uses(frames'[k])
    <3>1. i \in 1 .. n /\ frames'[i] = frames[i]
      BY <1>0, <2>3
    <3> QED BY <2>3, <3>1
  <2> QED BY <2>2, <2>3
<1> QED BY <1>0, <1>1, <1>2

\* A step of the innermost frame, an instrumented one, that turns it into fr2.
LEMMA InPlace ==
  ASSUME IInv, NEW fr2 \in Frame, frames' = [frames EXCEPT ![Depth] = fr2],
         fr2.fn = Top.fn, fr2.sig = Top.sig, fr2.really = Top.really,
         fr2.got = Top.got, fr2.base = Top.base, fr2.pc # "wait", fr2.fn \in Inst,
         ~Indirect => fr2.res \in Seq(AnyBounds), sp' \in Addr,
         mem' \in [Addr -> Word], \A x \in sp .. StackTop : mem'[x] = mem[x],
         argv' = argv, jumps' = jumps, Holds(fr2, sp', mem', Steady(Depth)), Top.pc # "call",
         \A x \in sp' .. StackTop, g \in Inst :
           x < sp /\ mem'[x] = Cookie(g) =>
             fr2.pc = "call" /\ fr2.callee = g /\ fr2.cookie = x /\ Uses(fr2)
  PROVE  IInv'
<1>1. /\ Depth \in Nat /\ Depth > 0 /\ Top = frames[Depth] /\ Steady(Depth) \in BOOLEAN
  BY LeftFacts DEF Top
<1>2. PICK d \in Nat : d = Depth
  BY <1>1
<1>3. /\ frames' \in Seq(Frame) /\ Len(frames') = Depth /\ frames'[Depth] = fr2
      /\ \A i \in 1 .. Depth - 1 : frames'[i] = frames[i]
  BY <1>1 DEF IInv, Types, Depth
<1>4. /\ d \in 1 .. Depth /\ frames'[d] = fr2 /\ frames[d] = Top /\ Len(frames') = d
      /\ \A i \in 1 .. d - 1 : frames'[i] = frames[i]
      /\ Steady(d) \in BOOLEAN /\ Holds(fr2, sp', mem', Steady(d))
      /\ jumps' \in 0 .. MaxJumps /\ jumps' = jumps /\ sp' \in Nat
  <2>1. sp' \in Nat
    BY StackAssumption DEF Addr
  <2> QED BY <1>1, <1>2, <1>3, <2>1 DEF IInv, Types
<1>40. d # 1 /\ frames'[1] = frames[1]
  <2>1. d # 1
    BY <1>4, FnAssumption DEF IInv, Chain
  <2> QED BY <1>1, <1>2, <1>4, <2>1
<1>5. Types' /\ EachHolds' /\ Chain' /\ Apart' /\ ArgvKept' /\ MainGetsArgv'
  <2>1. /\ fr2.fn = frames[d].fn /\ fr2.sig = frames[d].sig /\ fr2.really = frames[d].really
        /\ fr2.got = frames[d].got /\ fr2.base = frames[d].base
        /\ fr2.fn \notin Inst => fr2.res = <<>>
    BY <1>4
  <2> QED BY <1>3, <1>4, <1>40, <2>1, Replace
<1>6. NoStray'
  <2>1. \A i \in 1 .. Depth : frames[i].pc = "call" => i <= d /\ frames'[i] = frames[i]
    BY <1>1, <1>2, <1>3
  <2>2. \A x \in sp' .. StackTop, f \in Inst :
          x < sp /\ mem'[x] = Cookie(f) =>
            \E i \in 1 .. d : /\ frames'[i].pc = "call" /\ frames'[i].callee = f
                              /\ frames'[i].cookie = x /\ Uses(frames'[i])
    <3>1. d \in 1 .. d
      BY <1>1, <1>2
    <3> QED BY <1>4, <3>1
  <2>3. \A x \in sp .. StackTop : mem'[x] = mem[x]
    OBVIOUS
  <2> QED BY ONLY IInv, <1>4, <1>40, <2>1, <2>2, <2>3, StrayKept
<1> QED BY <1>5, <1>6 DEF IInv

-----------------------------------------------------------------------------
(* The actions *)

\* Pushing bounds: nothing but their words is written, below the stack pointer.
LEMMA PushingFacts ==
  ASSUME IInv, NEW bs \in Seq(Bound), Room(Len(Words(bs)))
  PROVE  /\ Len(Words(bs)) = 2 * Len(bs) /\ 2 * Len(bs) <= sp
         /\ sp - Len(Words(bs)) \in Addr
         /\ Pushed(mem, sp, Words(bs)) \in [Addr -> Word]
         /\ \A x \in sp .. StackTop : Pushed(mem, sp, Words(bs))[x] = mem[x]
         /\ \A x \in sp - Len(Words(bs)) .. StackTop, f \in Inst :
              x < sp => Pushed(mem, sp, Words(bs))[x] # Cookie(f)
         /\ Peeked(Pushed(mem, sp, Words(bs)), sp - Len(Words(bs)), Len(bs)) = bs
<1> USE StackAssumption
<1> DEFINE ws == Words(bs)
<1>1. /\ ws \in Seq(Word) /\ Len(ws) = 2 * Len(bs) /\ sp \in Addr /\ sp \in Addr
      /\ Len(ws) <= sp /\ mem \in [Addr -> Word] /\ Len(bs) \in Nat
      /\ \A x \in 1 .. 2 * Len(bs), f \in Inst : ws[x] # Cookie(f)
  BY WordsFacts DEF IInv, Types, Room, Addr
<1> HIDE DEF ws
<1>2. /\ Pushed(mem, sp, ws) \in [Addr -> Word]
      /\ \A x \in sp .. StackTop : Pushed(mem, sp, ws)[x] = mem[x]
      /\ \A x \in sp - Len(ws) .. sp - 1 : Pushed(mem, sp, ws)[x] = ws[x - (sp - Len(ws)) + 1]
  BY <1>1, PushedFacts, ZenonT(40)
<1>3. Peeked(Pushed(mem, sp, ws), sp - 2 * Len(bs), Len(bs)) = bs
  BY <1>1, PeekPushed DEF ws
<1>4. ASSUME NEW x \in sp - Len(ws) .. StackTop, NEW f \in Inst, x < sp
      PROVE  Pushed(mem, sp, ws)[x] # Cookie(f)
  <2>0. Len(ws) = 2 * Len(bs) /\ sp \in Nat /\ Len(bs) \in Nat /\ StackTop \in Nat
    BY <1>1 DEF Addr
  <2>1. x \in sp - Len(ws) .. sp - 1 /\ x - (sp - Len(ws)) + 1 \in 1 .. 2 * Len(bs)
    BY ONLY <2>0, <1>4, x \in sp - Len(ws) .. StackTop
  <2>2. ws[x - (sp - Len(ws)) + 1] # Cookie(f)
    BY <1>1, <2>1
  <2> QED BY <1>2, <2>1, <2>2
<1>5. sp - Len(ws) \in Addr
  BY <1>1 DEF Addr
<1> QED BY <1>1, <1>2, <1>3, <1>4, <1>5 DEF ws

LEMMA BeginCallStep ==
  ASSUME IInv, NEW f \in Callable, NEW want \in BOOLEAN, NEW bs \in BoundSeqs(Params[f]),
         want => Results[f] > 0, BeginCall(f, bs, want)
  PROVE  IInv'
<1> USE StackAssumption, FnAssumption
<1> DEFINE uses == UsesStack(f, want)
           q == IF uses THEN "args" ELSE "call"
           fr2 == [Top EXCEPT !.pc = q, !.callee = f, !.sent = bs, !.want = want, !.saved = sp]
           m2 == Pushed(mem, sp, Words(bs))
           b == sp - Len(Words(bs))
<1>1. /\ Top.fn \in Inst /\ Top.pc = "run" /\ Room(Len(Words(bs))) /\ mem' = m2 /\ sp' = b
      /\ frames' = [frames EXCEPT ![Depth] = fr2] /\ argv' = argv /\ jumps' = jumps
  BY DEF BeginCall, Top
<1>2. Params[f] \in Nat /\ bs \in Seq(Bound) /\ Len(bs) = Params[f] /\ f \in Fn
  BY BoundSeqFacts
<1>3. /\ Len(Words(bs)) = 2 * Len(bs) /\ 2 * Len(bs) <= sp /\ b \in Addr
      /\ m2 \in [Addr -> Word] /\ \A x \in sp .. StackTop : m2[x] = mem[x]
      /\ \A x \in b .. StackTop, g \in Inst : x < sp => m2[x] # Cookie(g)
      /\ Peeked(m2, b, Len(bs)) = bs
  BY <1>1, <1>2, PushingFacts
<1>4. /\ Depth \in Nat /\ Depth > 0 /\ Top \in Frame /\ Top = frames[Depth] /\ sp \in Nat
      /\ sp <= Top.base /\ (Steady(Depth) => sp = Top.base) /\ Top.owed = None
      /\ Steady(Depth) \in BOOLEAN
  <2>1. /\ Depth \in Nat /\ Depth > 0 /\ Top \in Frame /\ Top = frames[Depth] /\ sp \in Nat
        /\ sp <= Top.base /\ Holds(Top, sp, mem, Steady(Depth)) /\ Steady(Depth) \in BOOLEAN
    BY LeftFacts
  <2>2. (Steady(Depth) => sp = Top.base) /\ Top.owed = None
    BY <1>1, <2>1 DEF Holds, Running
  <2> QED BY <2>1, <2>2
<1>5. /\ fr2.fn = Top.fn /\ fr2.sig = Top.sig /\ fr2.really = Top.really /\ fr2.got = Top.got
      /\ fr2.base = Top.base /\ fr2.owed = None /\ fr2.res = Top.res
      /\ fr2.pc = q /\ fr2.callee = f /\ fr2.sent = bs /\ fr2.want = want /\ fr2.saved = sp
      /\ fr2 \in Frame
  <2>1. sp \in Addr /\ q \in {"run", "args", "call", "wait", "back"}
    BY DEF IInv, Types, Addr
  <2> HIDE DEF q
  <2>2. f \in Callable \union {None} /\ bs \in Seq(Bound) /\ want \in BOOLEAN /\ Top.owed = None
    BY <1>2, <1>4
  <2>3. fr2 \in Frame
    BY <1>4, <2>1, <2>2, ZenonT(40) DEF Frame
  <2> QED BY <1>4, <2>3, SMTT(30) DEF Frame
<1> HIDE DEF fr2, m2, b
<1>6. Uses(fr2) <=> uses
  BY <1>5 DEF Uses
<1>7. ~uses => Len(bs) = 0 /\ b = sp
  BY <1>2, <1>3, <1>4 DEF UsesStack, b
<1>8. Holds(fr2, b, m2, Steady(Depth))
  <2>1. Running(fr2, b, Steady(Depth)) /\ ResultsPushed(fr2, b, m2)
    BY <1>5 DEF Running, ResultsPushed
  <2>2. Calling(fr2, b, Steady(Depth))
    <3>1. b <= sp
      BY <1>3, <1>4 DEF b
    <3> QED BY <1>1, <1>4, <1>5, <3>1 DEF Calling
  <2>3. ArgsPushed(fr2, b, m2)
    <3>1. b + 2 * Len(bs) = sp
      BY <1>2, <1>3, <1>4 DEF b
    <3> QED BY <1>3, <1>5, <1>6, <3>1 DEF ArgsPushed
  <2>4. CookiePushed(fr2, b, m2) /\ NothingPushed(fr2, b, Steady(Depth))
    BY <1>5, <1>6, <1>7 DEF CookiePushed, NothingPushed
  <2> QED BY <2>1, <2>2, <2>3, <2>4 DEF Holds
<1>9. /\ fr2.pc # "wait" /\ sp' \in Addr /\ mem' \in [Addr -> Word]
      /\ \A x \in sp .. StackTop : mem'[x] = mem[x]
      /\ Holds(fr2, sp', mem', Steady(Depth)) /\ Top.pc # "call" /\ fr2.fn \in Inst
      /\ \A x \in sp' .. StackTop, g \in Inst : ~(x < sp /\ mem'[x] = Cookie(g))
  BY <1>1, <1>3, <1>5, <1>8
<1>10. ~Indirect => fr2.res \in Seq(AnyBounds)
  <2>1. Depth \in 1 .. Depth
    BY <1>4
  <2>2. ~Indirect => frames[Depth].res \in Seq(AnyBounds)
    BY <2>1 DEF IInv, Chain
  <2> QED BY <1>4, <1>5, <2>2
<1> QED BY ONLY IInv, <1>1, <1>5, <1>9, <1>10, InPlace

\* __push_argument_bounds_cookie
LEMMA PushCookieStep ==
  ASSUME IInv, PushCookie
  PROVE  IInv'
<1> USE StackAssumption, FnAssumption
<1> DEFINE c == sp - 1
           w == Cookie(Top.callee)
           fr2 == [Top EXCEPT !.pc = "call", !.cookie = c]
           m2 == Pushed(mem, sp, <<w>>)
<1>1. /\ Top.pc = "args" /\ sp >= 1 /\ mem' = m2 /\ sp' = c
      /\ frames' = [frames EXCEPT ![Depth] = fr2] /\ argv' = argv /\ jumps' = jumps
  BY DEF PushCookie, Top, Room
<1>2. /\ Depth \in Nat /\ Depth > 0 /\ Top \in Frame /\ Top = frames[Depth] /\ sp \in Nat
      /\ sp <= StackTop /\ Steady(Depth) \in BOOLEAN /\ Holds(Top, sp, mem, Steady(Depth))
  BY LeftFacts, SMTT(30)
<1>3. /\ Top.fn \in Inst /\ Top.callee \in Callable /\ Top.sent \in BoundSeqs(Params[Top.callee])
      /\ Top.want => Results[Top.callee] > 0
      /\ Top.saved <= Top.base /\ (Steady(Depth) => Top.saved = Top.base)
      /\ Top.owed = None /\ Uses(Top) /\ sp + 2 * Len(Top.sent) = Top.saved
      /\ Peeked(mem, sp, Len(Top.sent)) = Top.sent
  BY <1>1, <1>2 DEF Holds, Calling, ArgsPushed
<1>4. /\ m2 \in [Addr -> Word] /\ \A x \in sp .. StackTop : m2[x] = mem[x]
      /\ m2[c] = w
  <2>1. w \in Word /\ sp \in Addr /\ mem \in [Addr -> Word]
    BY <1>2, <1>3, LeftFacts, SMTT(30) DEF Cookie, Word, Addr
  <2> QED BY <1>1, <2>1, PushedOne
<1>5. /\ fr2.fn = Top.fn /\ fr2.sig = Top.sig /\ fr2.really = Top.really /\ fr2.got = Top.got
      /\ fr2.base = Top.base /\ fr2.owed = Top.owed /\ fr2.res = Top.res
      /\ fr2.pc = "call" /\ fr2.callee = Top.callee /\ fr2.sent = Top.sent
      /\ fr2.want = Top.want /\ fr2.saved = Top.saved /\ fr2.cookie = c /\ fr2 \in Frame
  <2>1. c \in Addr
    BY <1>1, <1>2 DEF Addr
  <2>2. fr2 \in Frame
    BY <1>2, <2>1 DEF Frame
  <2> QED BY <1>2, <2>2 DEF Frame
<1>6. Uses(fr2)
  BY <1>3, <1>5 DEF Uses
<1>7. Holds(fr2, c, m2, Steady(Depth))
  <2>0. c \in Nat /\ c + 1 = sp /\ Len(Top.sent) \in Nat /\ Top.saved \in Nat /\ c <= Top.saved
    <3>1. Len(Top.sent) \in Nat /\ Top.saved \in Nat
      BY <1>2, FrameFields
    <3>2. sp \in Nat /\ sp >= 1 /\ sp + 2 * Len(Top.sent) = Top.saved
      BY <1>1, <1>2, <1>3
    <3> QED BY ONLY <3>1, <3>2
  <2>1. Running(fr2, c, Steady(Depth)) /\ ResultsPushed(fr2, c, m2) /\ ArgsPushed(fr2, c, m2)
        /\ NothingPushed(fr2, c, Steady(Depth))
    BY <1>5, <1>6 DEF Running, ResultsPushed, ArgsPushed, NothingPushed
  <2>2. Calling(fr2, c, Steady(Depth))
    BY <1>3, <1>5, <2>0 DEF Calling
  <2>3. CookiePushed(fr2, c, m2)
    <3>1. Peeked(m2, sp, Len(Top.sent)) = Top.sent
      <4>1. \A x \in sp .. StackTop : m2[x] = mem[x]
        BY <1>4
      <4>2. sp \in Nat /\ Len(Top.sent) \in Nat
        BY <1>2, <2>0
      <4> HIDE DEF m2
      <4>3. Peeked(m2, sp, Len(Top.sent)) = Peeked(mem, sp, Len(Top.sent))
        BY ONLY <4>1, <4>2, PeekKept
      <4> QED BY <1>3, <4>3
    <3>2. Top.saved = c + 1 + 2 * Len(Top.sent) /\ c <= c
      BY <1>3, <2>0
    <3> HIDE DEF fr2, m2, c
    <3> QED BY <1>4, <1>5, <2>0, <3>1, <3>2 DEF CookiePushed
  <2> QED BY <2>1, <2>2, <2>3 DEF Holds
<1> HIDE DEF fr2, m2, c, w
<1>8. /\ fr2.pc # "wait" /\ sp' \in Addr /\ mem' \in [Addr -> Word]
      /\ \A x \in sp .. StackTop : mem'[x] = mem[x]
      /\ Holds(fr2, sp', mem', Steady(Depth)) /\ Top.pc # "call" /\ fr2.fn \in Inst
  <2>1. c \in Addr
    BY <1>1, <1>2 DEF c, Addr
  <2> QED BY <1>1, <1>3, <1>4, <1>5, <1>7, <2>1
<1>9. \A x \in sp' .. StackTop, g \in Inst :
        x < sp /\ mem'[x] = Cookie(g) =>
          fr2.pc = "call" /\ fr2.callee = g /\ fr2.cookie = x /\ Uses(fr2)
  <2> TAKE x \in sp' .. StackTop, g \in Inst
  <2> HAVE x < sp /\ mem'[x] = Cookie(g)
  <2>1. x = c
    BY <1>1, <1>2 DEF c
  <2>2. Cookie(Top.callee) = Cookie(g)
    BY <1>1, <1>4, <2>1 DEF w
  <2>3. Top.callee = g
    BY <2>2 DEF Cookie
  <2> QED BY <1>5, <1>6, <2>1, <2>3
<1>10. ~Indirect => fr2.res \in Seq(AnyBounds)
  BY <1>2, <1>5 DEF IInv, Chain
<1> QED BY ONLY IInv, <1>1, <1>5, <1>8, <1>9, <1>10, InPlace

\* The caller takes back what its callee returned, if that pushed any bounds.
LEMMA TakenBackFacts ==
  ASSUME IInv, Top.pc = "back", Top.want
  PROVE  TakenBack(Top, Top.callee) =
           IF Top.owed.bs # <<>> THEN Top.owed.bs ELSE AllInvalid(Results[Top.owed.from])
<1> USE FnAssumption
<1>1. Top \in Frame /\ Holds(Top, sp, mem, Steady(Depth))
  BY LeftFacts
<1>2. /\ Top.callee \in Callable /\ Results[Top.callee] \in Nat /\ Results[Top.callee] > 0
      /\ Top.owed.from = Top.callee
  BY <1>1 DEF Holds, Calling, ResultsPushed
<1>3. Uses(Top)
  BY <1>2 DEF Uses, UsesStack
<1>4. mem[Top.cookie] = IF Top.callee \in Inst THEN Tweaked(Top.callee) ELSE Cookie(Top.callee)
  BY <1>1, <1>3 DEF Holds, CookiePushed
<1>5. Tweaked(Top.callee) # Cookie(Top.callee)
  BY DEF Tweaked, Cookie
<1>6. CASE Top.callee \in Inst
  <2>1. /\ Top.owed.bs \in BoundSeqs(Results[Top.callee])
        /\ Peeked(mem, sp, Len(Top.owed.bs)) = Top.owed.bs
    BY <1>1, <1>3, <1>6 DEF Holds, ResultsPushed
  <2>2. Len(Top.owed.bs) = Results[Top.callee] /\ Top.owed.bs \in Seq(Bound)
    BY <1>2, <2>1, BoundSeqFacts
  <2>3. Top.owed.bs # <<>>
    BY <1>2, <2>2
  <2> QED BY <1>4, <1>5, <1>6, <2>1, <2>2, <2>3 DEF TakenBack
<1>7. CASE Top.callee \notin Inst
  <2>1. Top.owed.bs = <<>>
    BY <1>1, <1>7 DEF Holds, ResultsPushed
  <2> QED BY <1>2, <1>4, <1>7, <2>1 DEF TakenBack
<1> QED BY <1>6, <1>7

LEMMA AfterCallStep ==
  ASSUME IInv, AfterCall
  PROVE  IInv'
<1> USE StackAssumption, FnAssumption
<1>1. PICK g \in Denoted(Top.callee) :
        frames' = [frames EXCEPT ![Depth] =
          [@ EXCEPT !.pc = "run", !.owed = None, !.callee = None, !.sent = <<>>,
                    !.want = FALSE, !.saved = 0, !.cookie = 0,
                    !.res = IF Top.want THEN TakenBack(Top, g) ELSE <<>>]]
  BY DEF AfterCall
<1> DEFINE r == IF Top.want THEN TakenBack(Top, g) ELSE <<>>
           fr2 == [Top EXCEPT !.pc = "run", !.owed = None, !.callee = None, !.sent = <<>>,
                              !.want = FALSE, !.saved = 0, !.cookie = 0, !.res = r]
           b == CleanedSp(Top)
<1>2. /\ Top.pc = "back" /\ sp' = b /\ mem' = mem /\ argv' = argv /\ jumps' = jumps
  BY DEF AfterCall
<1>3. frames' = [frames EXCEPT ![Depth] = fr2]
  BY <1>1 DEF Top
<1>4. /\ Depth \in Nat /\ Depth > 0 /\ Top \in Frame /\ Top = frames[Depth] /\ sp \in Nat
      /\ sp \in Addr /\ mem \in [Addr -> Word]
      /\ Steady(Depth) \in BOOLEAN /\ Holds(Top, sp, mem, Steady(Depth))
  BY LeftFacts
<1>5. /\ Top.fn \in Inst /\ Top.callee \in Callable /\ sp <= Top.saved /\ Top.saved <= Top.base
      /\ (Steady(Depth) => Top.saved = Top.base)
      /\ ~Uses(Top) => (Steady(Depth) => sp = Top.saved)
  BY <1>2, <1>4 DEF Holds, Calling, NothingPushed
<1>6. r \in Seq(Any) /\ (~Indirect => r \in Seq(AnyBounds))
  <2>0. Results[Top.callee] \in Nat
    BY <1>5
  <2>1. Top.want => TakenBack(Top, g) \in Seq(Any)
    BY <1>4, <2>0, PeekType, InvalidType DEF TakenBack
  <2>2. ASSUME ~Indirect, Top.want PROVE TakenBack(Top, g) \in Seq(AnyBounds)
    <3>1. g = Top.callee
      BY <2>2 DEF Denoted
    <3>2. TakenBack(Top, g) =
            IF Top.owed.bs # <<>> THEN Top.owed.bs ELSE AllInvalid(Results[Top.owed.from])
      BY <1>2, <2>2, <3>1, TakenBackFacts
    <3>3. Top.owed # None /\ Top.owed.from = Top.callee
      BY <1>2, <1>4 DEF Holds, ResultsPushed
    <3>4. Top.owed.bs \in Seq(Bound)
      BY <1>4, <3>3, FrameFields
    <3>5. Top.owed.bs \in Seq(AnyBounds)
      BY <3>4 DEF AnyBounds
    <3> QED BY <2>0, <3>2, <3>3, <3>5, InvalidType
  <2>3. <<>> \in Seq(Any) /\ <<>> \in Seq(AnyBounds)
    OBVIOUS
  <2> QED BY <2>1, <2>2, <2>3
<1> HIDE DEF r
<1>7. /\ fr2.fn = Top.fn /\ fr2.sig = Top.sig /\ fr2.really = Top.really /\ fr2.got = Top.got
      /\ fr2.base = Top.base /\ fr2.owed = None /\ fr2.res = r /\ fr2.pc = "run" /\ fr2 \in Frame
      /\ fr2.callee = None
  <2>1. <<>> \in Seq(Bound) /\ 0 \in Addr
    BY DEF Addr
  <2>2. fr2 \in Frame
    BY <1>4, <1>6, <2>1, ZenonT(40) DEF Frame
  <2> QED BY <1>4, <2>2, ZenonT(40) DEF Frame
<1> HIDE DEF fr2
<1>8. b \in Addr /\ b <= Top.base /\ (Steady(Depth) => b = Top.base) /\ b >= sp
  <2>1. Top.base <= StackTop
    BY <1>4, FrameFields
  <2>2. Top.saved \in Nat /\ Top.base \in Nat
    BY <1>4, FrameFields
  <2>3. b = (IF Uses(Top) THEN Top.saved ELSE sp)
    BY DEF CleanedSp, Uses
  <2> QED BY <1>4, <1>5, <2>1, <2>2, <2>3 DEF Addr
<1> HIDE DEF b
<1>9. Holds(fr2, b, mem, Steady(Depth))
  BY <1>7, <1>8 DEF Holds, Running, Calling, ArgsPushed, CookiePushed, NothingPushed, ResultsPushed
<1>10. /\ fr2.pc # "wait" /\ sp' \in Addr /\ mem' \in [Addr -> Word]
       /\ \A x \in sp .. StackTop : mem'[x] = mem[x]
       /\ Holds(fr2, sp', mem', Steady(Depth)) /\ Top.pc # "call" /\ fr2.fn \in Inst
       /\ ~Indirect => fr2.res \in Seq(AnyBounds)
       /\ \A x \in sp' .. StackTop, g2 \in Inst : ~(x < sp /\ mem'[x] = Cookie(g2))
  <2>1. b \in Nat /\ sp \in Nat
    BY <1>4, <1>8 DEF Addr
  <2>2. \A x \in b .. StackTop : ~(x < sp)
    BY ONLY StackAssumption, <1>8, <2>1
  <2> QED BY <1>2, <1>4, <1>5, <1>6, <1>7, <1>8, <1>9, <2>2
<1> QED BY ONLY IInv, <1>2, <1>3, <1>7, <1>10, InPlace

\* What a return pushes: the results if the frame has a caller that takes them.
Given(fr, rs) == IF fr.fn \in Inst /\ fr.really THEN rs ELSE <<>>

LEMMA GivenFacts ==
  ASSUME NEW fr \in Frame, NEW rs \in BoundSeqs(Results[fr.fn])
  PROVE  /\ Given(fr, rs) \in Seq(Bound) /\ ResultWords(fr.fn, fr.really, rs) = Words(Given(fr, rs))
         /\ Len(Given(fr, rs)) = IF fr.fn \in Inst /\ fr.really THEN Results[fr.fn] ELSE 0
<1>1. Results[fr.fn] \in Nat
  BY FrameFields, FnAssumption
<1>2. rs \in Seq(Bound) /\ Len(rs) = Results[fr.fn]
  BY <1>1, BoundSeqFacts
<1>3. Words(<<>>) = <<>>
  <2>1. Words(<<>>) = [i \in 1 .. 0 |-> <<"base", None>>]
    BY DEF Words
  <2> QED BY <2>1
<1>4. <<>> \in Seq(Bound) /\ Len(<<>>) = 0
  OBVIOUS
<1> QED BY <1>2, <1>3, <1>4 DEF Given, ResultWords

\* The frame that is returned to.
Resumed(cl, fr, rs) ==
  IF fr.sig \/ cl.fn \notin Inst THEN cl
  ELSE [cl EXCEPT !.pc = "back", !.owed = [from |-> fr.fn, bs |-> IF fr.really THEN rs ELSE <<>>]]

LEMMA ResumedFacts ==
  ASSUME NEW cl \in Frame, NEW fr \in Frame, NEW rs \in BoundSeqs(Results[fr.fn]),
         ~fr.sig, cl.fn \in Inst
  PROVE  LET fr2 == Resumed(cl, fr, rs)
         IN /\ fr2 \in Frame /\ fr2.pc = "back"
            /\ fr2.owed # None /\ fr2.owed.from = fr.fn
            /\ fr2.owed.bs = IF fr.really THEN rs ELSE <<>>
            /\ fr2.fn = cl.fn /\ fr2.sig = cl.sig /\ fr2.really = cl.really /\ fr2.got = cl.got
            /\ fr2.base = cl.base /\ fr2.res = cl.res /\ fr2.callee = cl.callee
            /\ fr2.sent = cl.sent /\ fr2.want = cl.want /\ fr2.saved = cl.saved
            /\ fr2.cookie = cl.cookie
<1> DEFINE q == IF fr.really THEN rs ELSE <<>>
           o == [from |-> fr.fn, bs |-> q]
           fr2 == [cl EXCEPT !.pc = "back", !.owed = o]
<1>1. rs \in Seq(Bound) /\ fr.fn \in Fn /\ <<>> \in Seq(Bound)
  BY FrameFields, FnAssumption, BoundSeqFacts
<1>2. o \in [from : Fn, bs : Seq(Bound)] /\ o.from = fr.fn /\ o.bs = q
  BY <1>1
<1>3. o # None
  BY <1>2, StackAssumption
<1>4. Resumed(cl, fr, rs) = fr2
  BY DEF Resumed
<1> HIDE DEF o
<1>5. fr2 \in Frame
  BY <1>2 DEF Frame
<1>6. /\ fr2.pc = "back" /\ fr2.owed = o
      /\ fr2.fn = cl.fn /\ fr2.sig = cl.sig /\ fr2.really = cl.really /\ fr2.got = cl.got
      /\ fr2.base = cl.base /\ fr2.res = cl.res /\ fr2.callee = cl.callee
      /\ fr2.sent = cl.sent /\ fr2.want = cl.want /\ fr2.saved = cl.saved
      /\ fr2.cookie = cl.cookie
  BY DEF Frame
<1> HIDE DEF fr2, q
<1> QED BY <1>2, <1>3, <1>4, <1>5, <1>6 DEF q

\* The call stack after a return.
LEMMA ReturnFrames ==
  ASSUME IInv, NEW rs \in BoundSeqs(Results[Top.fn]), Return(rs), NEW n \in 1 .. Depth, n = Depth - 1
  PROVE  /\ frames' \in Seq(Frame) /\ Len(frames') = n /\ frames'[n] = Resumed(frames[n], Top, rs)
         /\ \A i \in 1 .. n - 1 : frames'[i] = frames[i]
<1> DEFINE cl == frames[n]
           fr2 == Resumed(cl, Top, rs)
           rest == SubSeq(frames, 1, n)
<1>1. Depth \in Nat /\ Top \in Frame
  BY LeftFacts
<1>2. rest \in Seq(Frame) /\ Len(rest) = n /\ \A i \in 1 .. n : rest[i] = frames[i]
  BY <1>1 DEF IInv, Types, Depth
<1>3. frames' = IF Top.sig \/ rest[n].fn \notin Inst THEN rest
                ELSE [rest EXCEPT ![n] =
                       [@ EXCEPT !.pc = "back",
                          !.owed = [from |-> Top.fn,
                                    bs |-> IF Top.really THEN rs ELSE <<>>]]]
  BY DEF Return
<1>4. n \in 1 .. n /\ cl \in Frame
  BY <1>1 DEF IInv, Types, Depth
<1> HIDE DEF rest
<1>5. CASE Top.sig \/ cl.fn \notin Inst
  BY <1>2, <1>3, <1>4, <1>5 DEF Resumed
<1>6. CASE ~Top.sig /\ cl.fn \in Inst
  <2>1. frames' = [rest EXCEPT ![n] = fr2]
    BY <1>2, <1>3, <1>4, <1>6 DEF Resumed
  <2>2. fr2 \in Frame
    BY <1>1, <1>4, <1>6, ResumedFacts
  <2> HIDE DEF fr2
  <2>3. n \in Nat
    BY <1>1
  <2>4. /\ frames' \in Seq(Frame) /\ Len(frames') = n /\ frames'[n] = fr2
        /\ \A i \in 1 .. n - 1 : frames'[i] = frames[i]
    BY <1>2, <1>4, <2>1, <2>2, <2>3
  <2> QED BY <2>4 DEF fr2
<1> QED BY <1>5, <1>6

LEMMA ReturnStep ==
  ASSUME IInv, NEW rs \in BoundSeqs(Results[Top.fn]), Return(rs)
  PROVE  IInv'
<1> USE StackAssumption, FnAssumption
<1>1. /\ Depth \in Nat /\ Depth > 0 /\ Top \in Frame /\ Top = frames[Depth] /\ sp \in Nat
      /\ sp \in Addr /\ mem \in [Addr -> Word] /\ sp <= Top.base
      /\ Holds(Top, sp, mem, Steady(Depth)) /\ Depth > 1 /\ Top.pc = "run"
  BY LeftFacts DEF Return
<1>0. Depth \in Nat /\ Depth > 1
  BY <1>1
<1>2. PICK n \in 1 .. Depth : n = Depth - 1
  BY <1>0
<1> DEFINE cl == frames[n]
           bs == Given(Top, rs)
           fr2 == Resumed(cl, Top, rs)
           m2 == Pushed(mem, sp, Words(bs))
           b == sp - Len(Words(bs))
<1>3. /\ bs \in Seq(Bound) /\ ResultWords(Top.fn, Top.really, rs) = Words(bs)
      /\ Len(bs) = IF Top.fn \in Inst /\ Top.really THEN Results[Top.fn] ELSE 0
  BY <1>1, GivenFacts
<1>4. /\ Room(Len(Words(bs))) /\ mem' = m2 /\ sp' = b /\ argv' = argv /\ jumps' = jumps
  BY <1>3 DEF Return
<1>5. /\ frames' \in Seq(Frame) /\ Len(frames') = n /\ frames'[n] = fr2
      /\ \A i \in 1 .. n - 1 : frames'[i] = frames[i]
  BY ONLY IInv, rs \in BoundSeqs(Results[Top.fn]), Return(rs), n \in 1 .. Depth, <1>2, ReturnFrames
<1>6. /\ Len(Words(bs)) = 2 * Len(bs) /\ 2 * Len(bs) <= sp /\ b \in Addr
      /\ m2 \in [Addr -> Word] /\ \A x \in sp .. StackTop : m2[x] = mem[x]
      /\ \A x \in b .. StackTop, g \in Inst : x < sp => m2[x] # Cookie(g)
      /\ Peeked(m2, b, Len(bs)) = bs
  BY <1>3, <1>4, PushingFacts
<1>7. /\ cl \in Frame /\ Left(n) = Top.base /\ Top.base \in Nat
      /\ Steady(n) \in BOOLEAN /\ Holds(cl, Top.base, mem, Steady(n))
      /\ StartedBy(cl, Top) /\ (cl.fn \notin Inst => cl.pc = "run")
      /\ (cl.fn \notin Inst => cl.res = <<>>) /\ (~Indirect => cl.res \in Seq(AnyBounds))
  <2>1. n \in 1 .. Depth - 1 /\ n + 1 = Depth
    BY ONLY <1>0, <1>2
  <2>2. cl \in Frame /\ Left(n) = Top.base /\ Top.base \in Nat /\ Steady(n) \in BOOLEAN
    BY <1>1, <2>1, LeftFacts
  <2>3. Holds(cl, Top.base, mem, Steady(n)) /\ StartedBy(cl, Top)
    BY <1>1, <2>1, <2>2 DEF IInv, EachHolds, Chain
  <2>4. cl.fn \notin Inst => cl.pc = "run"
    BY <2>3 DEF Holds, Calling
  <2> QED BY <2>2, <2>3, <2>4 DEF IInv, Chain
<1>8. /\ (Steady(n) => Steady(Depth)) /\ (Steady(Depth) => sp = Top.base)
      /\ (Top.sig => sp = Top.base)
  <2>1. Steady(n) => Steady(Depth)
    BY <1>1, <1>2 DEF Steady
  <2>2. Steady(Depth) => sp = Top.base
    BY <1>1 DEF Holds, Running
  <2>3. Top.sig => Steady(Depth)
    BY <1>1 DEF Steady
  <2> QED BY <2>1, <2>2, <2>3
<1> HIDE DEF cl, bs, fr2, m2, b
<1>9. fr2 \in Frame /\ Holds(fr2, b, m2, Steady(n)) /\ fr2.pc # "wait"
      /\ fr2.fn = cl.fn /\ fr2.sig = cl.sig /\ fr2.really = cl.really /\ fr2.got = cl.got
      /\ fr2.base = cl.base /\ fr2.res = cl.res /\ (cl.pc = "call" => fr2 = cl)
  <2>1. CASE Top.sig
    <3>1. fr2 = cl /\ Len(bs) = 0 /\ cl.pc # "wait"
      BY <1>3, <1>7, <2>1 DEF fr2, Resumed, StartedBy
    <3>2. b = Top.base
      BY <1>1, <1>6, <1>8, <2>1, <3>1 DEF b
    <3>3. \A x \in Top.base .. StackTop : m2[x] = mem[x]
      BY <1>6, <1>8, <2>1
    <3>4. Holds(cl, Top.base, m2, Steady(n))
      <4>1. /\ cl \in Frame /\ Top.base \in Nat /\ Steady(n) \in BOOLEAN
            /\ (Steady(n) => Steady(n)) /\ Holds(cl, Top.base, mem, Steady(n))
        BY <1>7
      <4> QED BY ONLY <3>3, <4>1, HoldsKept
    <3> QED BY <1>7, <3>1, <3>2, <3>4
  <2>2. CASE ~Top.sig /\ cl.fn \notin Inst
    <3>1. fr2 = cl /\ cl.pc = "run"
      BY <1>7, <2>2 DEF fr2, Resumed
    <3>2. Len(bs) = 0
      BY <1>3, <1>7, <2>2 DEF StartedBy
    <3>3. b = sp
      BY <1>1, <1>6, <3>2 DEF b
    <3>4. sp <= cl.base /\ (Steady(n) => sp = cl.base) /\ cl.owed = None /\ cl.callee = None
      <4>1. /\ Top.base <= cl.base /\ (Steady(n) => Top.base = cl.base)
            /\ cl.owed = None /\ cl.callee = None
        BY <1>7, <3>1 DEF Holds, Running
      <4>2. cl.base \in Nat
        BY <1>7, FrameFields
      <4>3. sp \in Nat /\ Top.base \in Nat /\ sp <= Top.base /\ (Steady(n) => sp = Top.base)
        BY <1>1, <1>7, <1>8
      <4> QED BY ONLY <4>1, <4>2, <4>3
    <3>5. Holds(cl, sp, m2, Steady(n))
      BY <3>1, <3>4 DEF Holds, Running, Calling, ArgsPushed, CookiePushed, NothingPushed,
                        ResultsPushed
    <3> QED BY <1>7, <3>1, <3>3, <3>5
  <2>3. CASE ~Top.sig /\ cl.fn \in Inst
    <3>0. /\ cl.pc = "wait" /\ cl.callee = Top.fn
          /\ Top.really <=> Top.fn \in Inst /\ Uses(cl)
      BY <1>7, <2>3 DEF StartedBy
    <3>1. /\ fr2 \in Frame /\ fr2.pc = "back"
          /\ fr2.owed # None /\ fr2.owed.from = Top.fn
          /\ fr2.owed.bs = (IF Top.really THEN rs ELSE <<>>)
          /\ fr2.fn = cl.fn /\ fr2.sig = cl.sig /\ fr2.really = cl.really /\ fr2.got = cl.got
          /\ fr2.base = cl.base /\ fr2.res = cl.res /\ fr2.callee = cl.callee
          /\ fr2.sent = cl.sent /\ fr2.want = cl.want /\ fr2.saved = cl.saved
          /\ fr2.cookie = cl.cookie
      BY <1>1, <1>7, <2>3, ResumedFacts DEF fr2
    <3>2. Uses(fr2) <=> Uses(cl)
      BY <3>1 DEF Uses
    <3>3. /\ cl.saved \in Nat /\ cl.base \in Nat /\ cl.cookie \in Nat /\ cl.sent \in Seq(Bound)
          /\ Len(cl.sent) \in Nat
      BY <1>7, FrameFields
    <3>4. b <= sp /\ b + 2 * Len(bs) = sp /\ b \in Nat
      <4>1. sp \in Nat /\ Len(bs) \in Nat /\ Len(Words(bs)) = 2 * Len(bs) /\ 2 * Len(bs) <= sp
        BY <1>1, <1>3, <1>6
      <4> QED BY ONLY <4>1 DEF b
    <3>5. Running(fr2, b, Steady(n)) /\ ArgsPushed(fr2, b, m2)
      BY <3>1 DEF Running, ArgsPushed
    <3>6. Calling(fr2, b, Steady(n))
      <4>1. Calling(cl, Top.base, Steady(n))
        BY <1>7 DEF Holds
      <4>2. b <= cl.saved
        BY <1>1, <1>7, <3>0, <3>3, <3>4, <4>1 DEF Calling
      <4> QED BY <3>0, <3>1, <4>1, <4>2 DEF Calling
    <3>7. CookiePushed(fr2, b, m2)
      <4> SUFFICES ASSUME Uses(cl) PROVE CookiePushed(fr2, b, m2)
        BY <3>2 DEF CookiePushed
      <4>1. /\ Top.base = cl.cookie /\ cl.saved = cl.cookie + 1 + 2 * Len(cl.sent)
            /\ Peeked(mem, cl.cookie + 1, Len(cl.sent)) = cl.sent
            /\ mem[cl.cookie] = IF cl.callee \in Inst THEN Tweaked(cl.callee)
                                                      ELSE Cookie(cl.callee)
        BY <1>7, <3>0 DEF Holds, CookiePushed
      <4>2. b <= cl.cookie /\ sp <= cl.cookie + 1 /\ cl.cookie <= StackTop
        <5>1. cl.cookie <= StackTop /\ sp <= Top.base /\ sp \in Nat
          BY <1>1, <1>7, FrameFields
        <5> QED BY ONLY <3>3, <3>4, <4>1, <5>1
      <4>3. m2[cl.cookie] = mem[cl.cookie]
        BY <1>1, <1>6, <1>7, <4>1, <4>2
      <4>4. PICK c \in Nat : c = cl.cookie + 1
        BY <3>3
      <4>5. \A x \in c .. StackTop : m2[x] = mem[x]
        BY <1>1, <1>6, <4>2, <4>4, SMTT(30)
      <4>6. Peeked(m2, c, Len(cl.sent)) = Peeked(mem, c, Len(cl.sent))
        <5>1. PICK l \in Nat : l = Len(cl.sent)
          BY <3>3
        <5>2. c \in Nat /\ l \in Nat
          OBVIOUS
        <5>3. Peeked(m2, c, l) = Peeked(mem, c, l)
          BY ONLY <4>5, <5>2, PeekKept
        <5> QED BY <5>1, <5>3
      <4> QED BY <3>1, <4>1, <4>2, <4>3, <4>4, <4>6 DEF CookiePushed
    <3>8. NothingPushed(fr2, b, Steady(n))
      <4> SUFFICES ASSUME ~Uses(cl), Steady(n) PROVE b = cl.saved
        BY <3>1, <3>2 DEF NothingPushed
      <4>1. Top.base = cl.saved
        BY <1>7, <3>0 DEF Holds, NothingPushed
      <4>2. Len(bs) = 0 /\ sp = Top.base
        <5>1. ~Top.really
          BY <3>0
        <5> QED BY <1>3, <1>8, <5>1
      <4> QED BY <1>1, <3>4, <4>1, <4>2
    <3>9. ResultsPushed(fr2, b, m2)
      <4>1. CASE Uses(cl) /\ Top.fn \in Inst
        <5>1. Top.really /\ bs = rs /\ fr2.owed.bs = rs
          BY <3>0, <3>1, <4>1 DEF bs, Given
        <5>2. Top.base = cl.cookie
          BY <1>7, <3>0, <4>1 DEF Holds, CookiePushed
        <5>3. b + 2 * Len(bs) <= cl.cookie
          BY <1>1, <3>4, <5>2
        <5> QED BY <1>6, <3>0, <3>1, <3>2, <4>1, <5>1, <5>3 DEF ResultsPushed
      <4>2. CASE ~(Uses(cl) /\ Top.fn \in Inst)
        BY <3>0, <3>1, <3>2, <4>2 DEF ResultsPushed
      <4> QED BY <4>1, <4>2
    <3>10. Holds(fr2, b, m2, Steady(n))
      BY <3>5, <3>6, <3>7, <3>8, <3>9 DEF Holds
    <3> QED BY <3>0, <3>1, <3>10
  <2> QED BY <2>1, <2>2, <2>3
<1>90. (n = 1 => fr2.sent = frames[1].sent) /\ frames'[1].sent = frames[1].sent
  <2>1. frames[1].fn \notin Inst
    BY DEF IInv, Chain
  <2>2. n = 1 => fr2 = frames[1]
    BY <2>1 DEF fr2, Resumed, cl
  <2>3. n # 1 => 1 \in 1 .. n - 1
    BY <1>1, <1>2
  <2> QED BY <1>5, <2>2, <2>3
<1>10. Types' /\ EachHolds' /\ Chain' /\ Apart' /\ ArgvKept' /\ MainGetsArgv'
  <2>1. /\ fr2 \in Frame /\ fr2.pc # "wait" /\ fr2.fn = frames[n].fn /\ fr2.sig = frames[n].sig
        /\ fr2.really = frames[n].really /\ fr2.got = frames[n].got /\ fr2.base = frames[n].base
        /\ fr2.fn \notin Inst => fr2.res = <<>>
        /\ ~Indirect => fr2.res \in Seq(AnyBounds)
    BY <1>7, <1>9 DEF cl
  <2>2. /\ sp' \in Addr /\ mem' \in [Addr -> Word] /\ argv' = argv
        /\ \A x \in sp .. StackTop : mem'[x] = mem[x]
        /\ jumps' = jumps /\ jumps' \in 0 .. MaxJumps
        /\ Steady(n) \in BOOLEAN /\ Holds(fr2, sp', mem', Steady(n))
    BY <1>4, <1>6, <1>7, <1>9 DEF IInv, Types
  <2> QED BY ONLY IInv, n \in 1 .. Depth, <1>5, <1>90, <2>1, <2>2, Replace
<1>11. NoStray'
  <2>1. \A i \in 1 .. Depth : frames[i].pc = "call" => i <= n /\ frames'[i] = frames[i]
    <3> TAKE i \in 1 .. Depth
    <3> HAVE frames[i].pc = "call"
    <3>1. i # Depth
      BY <1>1
    <3>2. i = n \/ i \in 1 .. n - 1
      BY <1>1, <1>2, <3>1
    <3> QED BY <1>5, <1>9, <3>2 DEF cl
  <2>2. /\ sp' \in Nat /\ Len(frames') = n /\ \A x \in sp .. StackTop : mem'[x] = mem[x]
        /\ \A x \in sp' .. StackTop, g \in Inst : ~(x < sp /\ mem'[x] = Cookie(g))
        /\ frames'[1].sent = frames[1].sent
    BY <1>4, <1>5, <1>6, <1>90 DEF Addr
  <2> QED BY ONLY IInv, n \in 1 .. Depth, <2>1, <2>2, StrayKept
<1> QED BY <1>10, <1>11 DEF IInv

LEMMA LongJumpStep ==
  ASSUME IInv, NEW n \in 1 .. Depth, LongJump(n)
  PROVE  IInv'
<1> USE StackAssumption, FnAssumption
<1>1. /\ Depth \in Nat /\ sp \in Nat /\ sp \in Addr /\ mem \in [Addr -> Word]
      /\ Top \in Frame /\ sp <= Top.base /\ Top = frames[Depth]
      /\ \A i \in 1 .. Depth : frames[i] \in Frame
  BY LeftFacts
<1>2. /\ 1 < n /\ n < Depth /\ Top.pc = "run" /\ \A i \in 1 .. Depth : ~frames[i].sig
      /\ (frames[n].fn \in Inst => frames[n].pc = "wait")
      /\ jumps' = jumps + 1 /\ jumps < MaxJumps /\ mem' = mem /\ sp' = sp /\ argv' = argv
  BY DEF LongJump
<1> DEFINE fr == frames[n]
           fr2 == [fr EXCEPT !.pc = "run", !.callee = None, !.sent = <<>>,
                             !.want = FALSE, !.saved = 0, !.cookie = 0]
<1>3. fr \in Frame /\ fr.owed = None /\ sp <= fr.base
  <2>1. fr \in Frame
    BY <1>1
  <2>2. Holds(fr, Left(n), mem, Steady(n))
    BY DEF IInv, EachHolds
  <2>3. fr.pc \in {"run", "wait"}
    BY <1>2, <2>2 DEF Holds, Calling
  <2>4. fr.owed = None
    BY <2>2, <2>3 DEF Holds, Running, Calling
  <2>5. Top.base <= fr.base
    BY <1>1 DEF IInv, Chain
  <2>6. fr.base \in Nat /\ Top.base \in Nat
    BY <1>1, <2>1, FrameFields
  <2> HIDE DEF fr
  <2> QED BY <1>1, <2>1, <2>4, <2>5, <2>6
<1>4. fr2 \in Frame
  <2>1. <<>> \in Seq(Bound) /\ 0 \in Addr
    BY DEF Addr
  <2> QED BY <1>3, <2>1, ZenonT(40) DEF Frame
<1>5. /\ fr2.fn = fr.fn /\ fr2.sig = fr.sig /\ fr2.really = fr.really /\ fr2.got = fr.got
      /\ fr2.base = fr.base /\ fr2.pc = "run" /\ fr2.res = fr.res /\ fr2.owed = fr.owed
      /\ fr2.callee = None
  BY <1>3 DEF Frame
<1>6. /\ frames' \in Seq(Frame) /\ Len(frames') = n /\ frames'[n] = fr2
      /\ \A i \in 1 .. n - 1 : frames'[i] = frames[i]
  <2> DEFINE rest == SubSeq(frames, 1, n)
  <2>1. rest \in Seq(Frame) /\ Len(rest) = n /\ \A i \in 1 .. n : rest[i] = frames[i]
    BY <1>1 DEF IInv, Types, Depth
  <2>2. n \in Nat /\ n \in 1 .. n
    BY <1>1
  <2>3. frames' = [rest EXCEPT ![n] = fr2]
    <3>1. frames' = [rest EXCEPT ![n] =
                       [@ EXCEPT !.pc = "run", !.callee = None, !.sent = <<>>,
                                 !.want = FALSE, !.saved = 0, !.cookie = 0]]
      BY DEF LongJump
    <3>2. rest[n] = frames[n]
      BY <2>1, <2>2
    <3> QED BY <3>1, <3>2
  <2> HIDE DEF fr2, rest
  <2> QED BY ONLY <1>4, <2>1, <2>2, <2>3
<1> HIDE DEF fr2
<1>7. Holds(fr2, sp', mem', FALSE)
  BY <1>2, <1>3, <1>5 DEF Holds, Running, Calling, ArgsPushed, CookiePushed, NothingPushed,
                          ResultsPushed
<1>8. Types' /\ EachHolds' /\ Chain' /\ Apart' /\ ArgvKept' /\ MainGetsArgv'
  <2>1. /\ fr2.fn = frames[n].fn /\ fr2.sig = frames[n].sig /\ fr2.really = frames[n].really
        /\ fr2.got = frames[n].got /\ fr2.base = frames[n].base /\ fr2.pc # "wait"
        /\ (fr2.fn \notin Inst => fr2.res = <<>>) /\ (~Indirect => fr2.res \in Seq(AnyBounds))
    BY <1>5 DEF IInv, Chain
  <2>2. /\ sp' \in Addr /\ mem' \in [Addr -> Word] /\ argv' = argv
        /\ \A x \in sp .. StackTop : mem'[x] = mem[x]
    BY <1>1, <1>2
  <2>3. /\ jumps' \in 0 .. MaxJumps /\ jumps' # jumps /\ jumps' # 0
        /\ \A i \in 1 .. n : ~frames[i].sig
    <3>1. jumps \in Nat
      BY DEF IInv, Types
    <3> QED BY <1>1, <1>2, <3>1
  <2>4. PICK s \in BOOLEAN : s = FALSE
    OBVIOUS
  <2>5. /\ jumps' = jumps => s = Steady(n)
        /\ Holds(fr2, sp', mem', s) /\ (n = 1 => fr2.sent = frames[1].sent)
    <3>1. n # 1
      BY <1>2
    <3>2. Holds(fr2, sp', mem', s)
      BY <1>7, <2>4, Zenon
    <3> QED BY <2>3, <3>1, <3>2
  <2> QED BY ONLY IInv, n \in 1 .. Depth, s \in BOOLEAN, <1>4, <1>6, <2>1, <2>2, <2>3, <2>5,
             Replace
<1>9. NoStray'
  <2>1. \A i \in 1 .. Depth : frames[i].pc # "call"
    <3> TAKE i \in 1 .. Depth
    <3>1. CASE i = Depth
      BY <1>1, <1>2, <3>1
    <3>2. CASE i < Depth
      <4>1. i \in 1 .. Depth - 1 /\ i + 1 \in 1 .. Depth
        BY <1>1, <3>2
      <4>2. StartedBy(frames[i], frames[i + 1]) /\ ~frames[i + 1].sig
        BY <1>2, <4>1 DEF IInv, Chain
      <4>3. Calling(frames[i], Left(i), Steady(i))
        BY DEF IInv, EachHolds, Holds
      <4> QED BY <4>2, <4>3 DEF StartedBy, Calling
    <3> QED BY <1>1, <3>1, <3>2
  <2>2. /\ sp' \in Nat /\ Len(frames') = n /\ \A x \in sp .. StackTop : mem'[x] = mem[x]
        /\ \A x \in sp' .. StackTop, g \in Inst : ~(x < sp /\ mem'[x] = Cookie(g))
        /\ frames'[1].sent = frames[1].sent
    BY <1>1, <1>2, <1>6
  <2> QED BY ONLY IInv, n \in 1 .. Depth, <2>1, <2>2, StrayKept
<1> QED BY <1>8, <1>9 DEF IInv

-----------------------------------------------------------------------------
(* Entering a function *)

\* What Enter does: a new frame on top, and one word written if the callee finds
\* its address.
OnTop(rest, f, sig, really) ==
  /\ frames' \in Seq(Frame) /\ Len(frames') = Depth + 1 /\ sp' = sp
  /\ \A i \in 1 .. Depth : frames'[i] = rest[i]
  /\ \E nf \in Frame :
       /\ frames'[Depth + 1] = nf /\ nf.fn = f /\ nf.sig = sig /\ nf.really = really
       /\ nf.base = sp /\ nf.pc = "run" /\ nf.owed = None /\ nf.callee = None /\ nf.res = <<>>
       /\ really => nf.got = Peeked(mem, sp + 1, Params[f])
       /\ ~really => /\ nf.got \in Seq(AnyBounds)
                     /\ nf.got = AllInvalid(IF f \in Inst THEN Params[f] ELSE 0)
  /\ mem' \in [Addr -> Word] /\ (~really => mem' = mem)
  /\ \A x \in sp + 1 .. StackTop : mem'[x] = mem[x]
  /\ really => mem'[sp] = Tweaked(f)

LEMMA Entered ==
  ASSUME IInv, NEW rest \in Seq(Frame), Len(rest) = Depth, NEW f \in Fn, NEW sig \in BOOLEAN,
         NEW really \in BOOLEAN, really = (f \in Inst /\ mem[sp] = Cookie(f)),
         Enter(rest, f, sig)
  PROVE  OnTop(rest, f, sig, really)
<1> USE StackAssumption, FnAssumption
<1> DEFINE n == IF f \in Inst THEN Params[f] ELSE 0
           got == IF really THEN Peeked(mem, sp + 1, n) ELSE AllInvalid(n)
           nf == NewFrame(f, sig, really, got, sp)
<1>1. /\ Depth \in Nat /\ sp \in Nat /\ sp \in Addr /\ mem \in [Addr -> Word]
      /\ sp \in Addr /\ n \in Nat
  BY LeftFacts DEF Addr
<1>2. /\ mem' = IF really THEN [mem EXCEPT ![sp] = Tweaked(f)] ELSE mem
      /\ frames' = Append(rest, nf) /\ sp' = sp
  BY DEF Enter
<1>3. got \in Seq(Any) /\ (~really => got \in Seq(AnyBounds))
  <2>1. AllInvalid(n) \in Seq(AnyBounds) /\ AllInvalid(n) \in Seq(Any)
    BY <1>1, InvalidType
  <2>2. sp + 1 \in Nat
    BY <1>1
  <2> HIDE DEF n
  <2>3. Peeked(mem, sp + 1, n) \in Seq(Any)
    BY <1>1, <2>2, PeekType
  <2> QED BY <2>1, <2>3
<1>4. /\ really => got = Peeked(mem, sp + 1, Params[f])
      /\ ~really => got = AllInvalid(IF f \in Inst THEN Params[f] ELSE 0)
  OBVIOUS
<1> HIDE DEF n, got, nf
<1>5. /\ nf \in Frame /\ nf.fn = f /\ nf.sig = sig /\ nf.really = really /\ nf.got = got
      /\ nf.base = sp /\ nf.pc = "run" /\ nf.owed = None /\ nf.callee = None /\ nf.res = <<>>
  <2>1. <<>> \in Seq(Any) /\ <<>> \in Seq(Bound) /\ 0 \in Addr
    BY DEF Addr
  <2> QED BY <1>1, <1>3, <2>1 DEF nf, NewFrame, Frame
<1>6. /\ frames' \in Seq(Frame) /\ Len(frames') = Depth + 1
      /\ \A i \in 1 .. Depth : frames'[i] = rest[i]
      /\ frames'[Depth + 1] = nf
  <2>1. \E q \in Frame : q = nf
    BY <1>5
  <2>2. PICK q \in Frame : q = nf
    BY <2>1
  <2>3. frames' = Append(rest, q)
    BY <1>2, <2>2
  <2>4. /\ frames' \in Seq(Frame) /\ Len(frames') = Depth + 1
        /\ \A i \in 1 .. Depth : frames'[i] = rest[i]
        /\ frames'[Depth + 1] = q
    BY ONLY rest \in Seq(Frame), Len(rest) = Depth, q \in Frame, <1>1, <2>3
  <2> QED BY <2>2, <2>4
<1>7. /\ mem' \in [Addr -> Word] /\ (~really => mem' = mem)
      /\ \A x \in sp + 1 .. StackTop : mem'[x] = mem[x]
      /\ really => mem'[sp] = Tweaked(f)
  <2>1. Tweaked(f) \in Word
    BY DEF Tweaked, Word
  <2> QED BY <1>1, <1>2, <2>1
<1>8. \E k \in Frame :
        /\ frames'[Depth + 1] = k /\ k.fn = f /\ k.sig = sig /\ k.really = really
        /\ k.base = sp /\ k.pc = "run" /\ k.owed = None /\ k.callee = None /\ k.res = <<>>
        /\ really => k.got = Peeked(mem, sp + 1, Params[f])
        /\ ~really => /\ k.got \in Seq(AnyBounds)
                      /\ k.got = AllInvalid(IF f \in Inst THEN Params[f] ELSE 0)
  BY <1>3, <1>4, <1>5, <1>6
<1> QED BY <1>2, <1>6, <1>7, <1>8 DEF OnTop

\* An entry leaves no cookie behind that it should have taken.
LEMMA EnterKeepsNoStray ==
  ASSUME IInv, NEW f \in Fn, NEW really \in BOOLEAN,
         really = (f \in Inst /\ mem[sp] = Cookie(f)),
         Len(frames') = Depth + 1, sp' = sp, ~really => mem' = mem,
         \A x \in sp + 1 .. StackTop : mem'[x] = mem[x], really => mem'[sp] = Tweaked(f),
         \A i \in 1 .. Depth :
           frames[i].pc = "call" /\ Uses(frames[i]) =>
             frames'[i] = frames[i] \/ (frames[i].callee = f /\ frames[i].cookie = sp),
         frames'[1].sent = frames[1].sent
  PROVE  NoStray'
<1> USE StackAssumption
<1>0. Depth' = Depth + 1 /\ Depth \in Nat /\ sp \in Nat /\ sp <= StackTop
  BY LeftFacts DEF Depth
<1> SUFFICES ASSUME NEW a \in sp .. StackTop, NEW g \in Inst, mem'[a] = Cookie(g)
             PROVE  \/ g = Main /\ a = StackTop - 3 /\ frames'[1].sent # <<>>
                    \/ \E i \in 1 .. Depth + 1 :
                         /\ frames'[i].pc = "call" /\ frames'[i].callee = g
                         /\ frames'[i].cookie = a /\ Uses(frames'[i])
  BY <1>0 DEF NoStray, Cookie, Uses
<1>1. mem[a] = Cookie(g) /\ ~(really /\ a = sp)
  <2>1. ~(really /\ a = sp)
    BY DEF Tweaked, Cookie
  <2>2. a = sp \/ a \in sp + 1 .. StackTop
    BY <1>0
  <2> QED BY <2>1, <2>2
<1>2. \/ g = Main /\ a = StackTop - 3 /\ frames[1].sent # <<>>
      \/ \E i \in 1 .. Depth : /\ frames[i].pc = "call" /\ frames[i].callee = g
                               /\ frames[i].cookie = a /\ Uses(frames[i])
  BY <1>1 DEF IInv, NoStray
<1>3. ASSUME NEW i \in 1 .. Depth, frames[i].pc = "call", frames[i].callee = g,
             frames[i].cookie = a, Uses(frames[i])
      PROVE  \E k \in 1 .. Depth + 1 : /\ frames'[k].pc = "call" /\ frames'[k].callee = g
                                       /\ frames'[k].cookie = a /\ Uses(frames'[k])
  <2>1. ~(frames[i].callee = f /\ frames[i].cookie = sp)
    BY <1>1, <1>3
  <2>2. frames'[i] = frames[i] /\ i \in 1 .. Depth + 1
    BY <1>0, <1>3, <2>1
  <2> QED BY <1>3, <2>2
<1> QED BY <1>2, <1>3

\* The bounds of argv survive the entry of every function but main.
LEMMA EnterKeepsArgv ==
  ASSUME IInv, NEW f \in Fn, f # Main, NEW really \in BOOLEAN,
         really = (f \in Inst /\ mem[sp] = Cookie(f)),
         Len(frames') = Depth + 1, frames'[Depth + 1].fn = f,
         \A i \in 1 .. Depth : frames'[i].fn = frames[i].fn /\ frames'[i].got = frames[i].got,
         ~really => mem' = mem, \A x \in sp + 1 .. StackTop : mem'[x] = mem[x],
         argv' = argv, jumps' = jumps, frames'[1].sent = frames[1].sent
  PROVE  ArgvKept' /\ MainGetsArgv'
<1> USE StackAssumption
<1>0. Depth' = Depth + 1 /\ Depth \in Nat /\ sp \in Nat
      /\ (frames[1].sent # <<>> => sp <= StackTop - 3)
  BY LeftFacts DEF Depth
<1>1. \A i \in 1 .. Depth + 1 : frames'[i].fn = Main =>
        i \in 1 .. Depth /\ frames[i].fn = Main /\ frames'[i].got = frames[i].got
  BY <1>0
<1>2. argv /\ frames[1].sent # <<>> =>
        mem'[StackTop - 3] = Cookie(Main) /\ Peeked(mem', StackTop - 2, 1) = <<ArgvBound>>
  <2> SUFFICES ASSUME argv, frames[1].sent # <<>>
               PROVE  /\ mem'[StackTop - 3] = Cookie(Main)
                      /\ Peeked(mem', StackTop - 2, 1) = <<ArgvBound>>
    OBVIOUS
  <2>1. mem[StackTop - 3] = Cookie(Main) /\ Peeked(mem, StackTop - 2, 1) = <<ArgvBound>>
    BY DEF IInv, ArgvKept
  <2>2. Cookie(Main) # Cookie(f)
    BY DEF Cookie
  <2>3. mem'[StackTop - 3] = mem[StackTop - 3]
    <3>1. sp = StackTop - 3 => ~really
      BY <2>1, <2>2
    <3>2. sp = StackTop - 3 \/ StackTop - 3 \in sp + 1 .. StackTop
      BY <1>0
    <3> QED BY <3>1, <3>2
  <2>4. Peeked(mem', StackTop - 2, 1) = Peeked(mem, StackTop - 2, 1)
    <3>1. PICK b \in Nat : b = StackTop - 2
      BY <1>0
    <3>2. PICK k \in Nat : k = 1
      OBVIOUS
    <3>3. b \in Nat /\ k \in Nat /\ \A x \in b .. StackTop : mem'[x] = mem[x]
      BY <1>0, <3>1
    <3>4. Peeked(mem', b, k) = Peeked(mem, b, k)
      BY ONLY <3>3, PeekKept
    <3> QED BY <3>1, <3>2, <3>4
  <2> QED BY <2>1, <2>3, <2>4
<1>3. ArgvKept'
  <2>1. \A i \in 1 .. Depth + 1 : frames'[i].fn = Main => ~argv
    BY <1>1 DEF IInv, ArgvKept
  <2> QED BY <1>0, <1>2, <2>1 DEF ArgvKept, Cookie
<1>4. MainGetsArgv'
  BY <1>0, <1>1 DEF IInv, MainGetsArgv
<1> QED BY <1>3, <1>4

\* A function that finds its address on top of the stack finds the cookie of a
\* call that is about to be made, or the one that was left for main.
LEMMA FoundCookie ==
  ASSUME IInv, NEW f \in Inst, mem[sp] = Cookie(f)
  PROVE  \/ f = Main /\ sp = StackTop - 3 /\ frames[1].sent # <<>>
         \/ \E i \in 1 .. Depth : /\ frames[i].pc = "call" /\ frames[i].callee = f
                                  /\ frames[i].cookie = sp /\ Uses(frames[i])
                                  /\ f \in Callable
<1>1. sp \in sp .. StackTop
  BY StackAssumption, LeftFacts
<1>2. \A i \in 1 .. Depth : frames[i].pc = "call" => frames[i].callee \in Callable
  BY DEF IInv, EachHolds, Holds, Calling
<1> QED BY <1>1, <1>2 DEF IInv, NoStray

\* A frame that is about to call is the innermost one, or interrupted by a
\* signal.  If the innermost one is about to call too, it has pushed a cookie,
\* below the other's.
LEMMA Interrupted ==
  ASSUME IInv, NEW j \in 1 .. Depth - 1, frames[j].pc = "call"
  PROVE  Handler # {} /\ (Uses(frames[j]) => Left(j) <= frames[j].cookie)
<1>1. Depth \in Nat /\ j \in 1 .. Depth /\ j + 1 \in 1 .. Depth
  BY LeftFacts
<1>2. Holds(frames[j], Left(j), mem, Steady(j))
  BY <1>1 DEF IInv, EachHolds
<1>3. StartedBy(frames[j], frames[j + 1])
  BY DEF IInv, Chain
<1>4. frames[j].fn \in Inst
  BY <1>2 DEF Holds, Calling
<1>5. frames[j + 1].fn \in Handler
  BY <1>3, <1>4 DEF StartedBy
<1> QED BY <1>2, <1>5 DEF Holds, CookiePushed

\* Entries that pass no bounds: calls from uninstrumented functions, signals.
LEMMA EnterUnlinked ==
  ASSUME IInv, NEW f \in Fn \ {Main, Start}, NEW sig \in BOOLEAN, Enter(frames, f, sig),
         ~(f \in Inst /\ mem[sp] = Cookie(f)), argv' = argv, jumps' = jumps,
         sig => f \in Handler, ~sig => f \in Callable /\ Top.fn \notin Inst,
         \A j \in 1 .. Depth : frames[j].pc = "call" /\ Uses(frames[j]) =>
                                 sp < frames[j].cookie \/ f \in Inst
  PROVE  IInv'
<1> USE StackAssumption, FnAssumption
<1>1. /\ Depth \in Nat /\ Depth > 0 /\ Top \in Frame /\ Top = frames[Depth] /\ sp \in Nat
      /\ sp <= Top.base /\ Holds(Top, sp, mem, Steady(Depth)) /\ mem \in [Addr -> Word]
      /\ Top.pc # "wait" /\ frames \in Seq(Frame) /\ Len(frames) = Depth /\ argv \in BOOLEAN
  BY LeftFacts DEF IInv, Chain, Types, Depth
<1>2. PICK really \in BOOLEAN : really = (f \in Inst /\ mem[sp] = Cookie(f))
  BY Zenon
<1>3. ~really
  BY <1>2
<1>4. PICK rest \in Seq(Frame) : rest = frames
  BY <1>1
<1>5. f \in Fn /\ Len(rest) = Depth /\ Enter(rest, f, sig)
  BY <1>1, <1>4 DEF Enter
<1>60. OnTop(rest, f, sig, really)
  BY ONLY IInv, rest \in Seq(Frame), sig \in BOOLEAN, really \in BOOLEAN, <1>2, <1>5, Entered
<1>6. /\ frames' \in Seq(Frame) /\ Len(frames') = Depth + 1 /\ sp' = sp
      /\ \A i \in 1 .. Depth : frames'[i] = rest[i]
      /\ mem' \in [Addr -> Word] /\ (~really => mem' = mem)
      /\ \A x \in sp + 1 .. StackTop : mem'[x] = mem[x]
      /\ really => mem'[sp] = Tweaked(f)
  BY <1>60 DEF OnTop
<1>7. PICK nf \in Frame :
        /\ frames'[Depth + 1] = nf /\ nf.fn = f /\ nf.sig = sig /\ ~nf.really
        /\ nf.base = sp /\ nf.pc = "run" /\ nf.owed = None /\ nf.callee = None /\ nf.res = <<>>
        /\ nf.got \in Seq(AnyBounds)
  BY <1>3, <1>60 DEF OnTop
<1>8. /\ mem' = mem /\ \A i \in 1 .. Depth : frames'[i] = frames[i]
      /\ frames'[1].sent = frames[1].sent
  BY <1>1, <1>3, <1>4, <1>6
<1>9. Types' /\ EachHolds' /\ Chain' /\ Apart'
  <2>1. PICK top2 \in Frame : top2 = Top
    BY <1>1
  <2>2. /\ frames'[Depth] = top2 /\ \A i \in 1 .. Depth - 1 : frames'[i] = frames[i]
        /\ top2.fn = Top.fn /\ top2.sig = Top.sig /\ top2.really = Top.really
        /\ top2.got = Top.got /\ top2.base = Top.base
        /\ (top2.res = Top.res \/ top2.res = <<>>) /\ (Depth = 1 => top2.sent = Top.sent)
    BY <1>1, <1>8, <2>1
  <2>3. StartedBy(top2, nf)
    BY <1>1, <1>7, <2>1 DEF StartedBy
  <2>4. /\ mem' \in [Addr -> Word] /\ jumps' = jumps /\ argv' \in BOOLEAN
        /\ \A i \in 1 .. Depth - 1 : \A x \in Left(i) .. StackTop : mem'[x] = mem[x]
        /\ Holds(top2, sp, mem', Steady(Depth)) /\ nf.fn # Start
    BY <1>1, <1>7, <1>8, <2>1
  <2>5. \A j \in 1 .. Depth : frames'[j].pc = "call" /\ Uses(frames'[j]) =>
                                sp < frames'[j].cookie \/ nf.fn \in Inst
    BY <1>7, <1>8
  <2> QED BY ONLY IInv, top2 \in Frame, nf \in Frame, <1>6, <1>7, <2>2, <2>3, <2>4, <2>5, Push
<1>10. NoStray'
  <2>1. \A i \in 1 .. Depth :
           frames[i].pc = "call" /\ Uses(frames[i]) =>
             frames'[i] = frames[i] \/ (frames[i].callee = f /\ frames[i].cookie = sp)
    BY <1>8
  <2> QED BY ONLY IInv, really \in BOOLEAN, <1>2, <1>5, <1>6, <1>8, <2>1, EnterKeepsNoStray
<1>11. ArgvKept' /\ MainGetsArgv'
  <2>1. /\ f # Main /\ frames'[Depth + 1].fn = f /\ argv' = argv /\ jumps' = jumps
        /\ \A i \in 1 .. Depth : frames'[i].fn = frames[i].fn /\ frames'[i].got = frames[i].got
    BY <1>7, <1>8
  <2> QED BY ONLY IInv, really \in BOOLEAN, <1>2, <1>5, <1>6, <1>8, <2>1, EnterKeepsArgv
<1> QED BY <1>9, <1>10, <1>11 DEF IInv

LEMMA SignalStep ==
  ASSUME HandlersApart, IInv, NEW h \in Handler, Signal(h)
  PROVE  IInv'
<1> USE FnAssumption
<1>1. h \in Fn \ {Main, Start} /\ h \in Inst /\ h \notin Callable
  BY DEF HandlersApart
<1>2. ~(h \in Inst /\ mem[sp] = Cookie(h))
  BY <1>1, FoundCookie
<1>3. PICK sig \in BOOLEAN : sig = TRUE
  OBVIOUS
<1>4. /\ Enter(frames, h, sig) /\ argv' = argv /\ jumps' = jumps
      /\ (sig => h \in Handler) /\ (~sig => h \in Callable /\ Top.fn \notin Inst)
      /\ \A j \in 1 .. Depth : frames[j].pc = "call" /\ Uses(frames[j]) =>
                                 sp < frames[j].cookie \/ h \in Inst
  BY <1>1, <1>3 DEF Signal
<1> QED BY ONLY IInv, sig \in BOOLEAN, <1>1, <1>2, <1>4, EnterUnlinked

LEMMA PlainCallStep ==
  ASSUME HandlersApart, IInv, NEW f \in Callable, PlainCall(f)
  PROVE  IInv'
<1> USE FnAssumption
<1>1. f \in Fn \ {Main, Start} /\ Top.fn \notin Inst
  BY DEF PlainCall
<1>2. \A j \in 1 .. Depth : frames[j].pc = "call" /\ Uses(frames[j]) => sp < frames[j].cookie
  <2> TAKE j \in 1 .. Depth
  <2> HAVE frames[j].pc = "call" /\ Uses(frames[j])
  <2>1. /\ Depth \in Nat /\ Depth \in 1 .. Depth /\ Top = frames[Depth] /\ Top \in Frame
        /\ sp \in Nat /\ sp <= Top.base /\ frames[j] \in Frame
        /\ Holds(Top, sp, mem, Steady(Depth))
    BY LeftFacts
  <2>2. j # Depth
    BY <1>1, <2>1 DEF Holds, Calling
  <2>3. Top.base < frames[j].cookie
    BY <1>1, <2>1, <2>2 DEF IInv, Apart
  <2>4. Top.base \in Nat /\ frames[j].cookie \in Nat
    BY <2>1, FrameFields
  <2> QED BY ONLY <2>1, <2>3, <2>4
<1>3. ~(f \in Inst /\ mem[sp] = Cookie(f))
  <2>1. sp \in Nat
    BY LeftFacts
  <2> QED BY <1>1, <1>2, <2>1, FoundCookie
<1>4. PICK sig \in BOOLEAN : sig = FALSE
  OBVIOUS
<1>5. /\ Enter(frames, f, sig) /\ argv' = argv /\ jumps' = jumps
      /\ (sig => f \in Handler) /\ (~sig => f \in Callable /\ Top.fn \notin Inst)
      /\ \A j \in 1 .. Depth : frames[j].pc = "call" /\ Uses(frames[j]) =>
                                 sp < frames[j].cookie \/ f \in Inst
  BY <1>1, <1>2, <1>4 DEF PlainCall
<1> QED BY ONLY IInv, sig \in BOOLEAN, <1>1, <1>3, <1>5, EnterUnlinked

LEMMA CallMainStep ==
  ASSUME IInv, CallMain
  PROVE  IInv'
<1> USE StackAssumption, FnAssumption
<1>1. /\ Depth = 1 /\ argv /\ argv' = FALSE /\ jumps' = jumps /\ Enter(frames, Main, FALSE)
  BY DEF CallMain
<1>2. /\ Top \in Frame /\ Top = frames[1] /\ sp \in Nat /\ sp \in Addr
      /\ sp <= Top.base /\ Holds(Top, sp, mem, Steady(Depth)) /\ mem \in [Addr -> Word]
      /\ frames \in Seq(Frame) /\ Len(frames) = 1 /\ Depth \in Nat
  BY <1>1, LeftFacts DEF IInv, Types, Depth
<1>3. /\ Top.fn = Start /\ Top.fn \notin Inst
      /\ (frames[1].sent # <<>> => Top.base = StackTop - 3)
      /\ Top.pc = "run" /\ Top.owed = None /\ Top.callee = None
  <2>1. Top.fn = Start /\ (frames[1].sent # <<>> => Top.base = StackTop - 3)
    BY <1>2 DEF IInv, Chain
  <2>2. Top.pc = "run" /\ Top.owed = None /\ Top.callee = None
    BY <1>2, <2>1 DEF Holds, Calling, Running
  <2> QED BY <2>1, <2>2
<1>4. PICK really \in BOOLEAN : really = (Main \in Inst /\ mem[sp] = Cookie(Main))
  BY Zenon
<1>5. PICK rest \in Seq(Frame) : rest = frames
  BY <1>2
<1>6. PICK sig \in BOOLEAN : sig = FALSE
  OBVIOUS
<1>7. Main \in Fn /\ Len(rest) = Depth /\ Enter(rest, Main, sig)
  BY <1>1, <1>2, <1>5, <1>6 DEF Enter
<1>8. OnTop(rest, Main, sig, really)
  BY ONLY IInv, rest \in Seq(Frame), sig \in BOOLEAN, really \in BOOLEAN, <1>4, <1>7, Entered
<1>9. /\ frames' \in Seq(Frame) /\ Len(frames') = Depth + 1 /\ sp' = sp
      /\ \A i \in 1 .. Depth : frames'[i] = frames[i]
      /\ mem' \in [Addr -> Word] /\ (~really => mem' = mem)
      /\ \A x \in sp + 1 .. StackTop : mem'[x] = mem[x]
      /\ really => mem'[sp] = Tweaked(Main)
      /\ frames'[1].sent = frames[1].sent
  BY <1>1, <1>5, <1>8 DEF OnTop
<1>10. PICK nf \in Frame :
         /\ frames'[Depth + 1] = nf /\ nf.fn = Main /\ ~nf.sig /\ nf.really = really
         /\ nf.base = sp /\ nf.pc = "run" /\ nf.owed = None /\ nf.callee = None /\ nf.res = <<>>
         /\ really => nf.got = Peeked(mem, sp + 1, Params[Main])
         /\ ~really => /\ nf.got \in Seq(AnyBounds)
                       /\ nf.got = AllInvalid(IF Main \in Inst THEN Params[Main] ELSE 0)
  BY <1>6, <1>8 DEF OnTop
<1>11. really => nf.got = <<ArgvBound>> /\ frames[1].sent # <<>>
  <2> SUFFICES ASSUME really PROVE nf.got = <<ArgvBound>> /\ frames[1].sent # <<>>
    OBVIOUS
  <2>1. Main \in Inst /\ mem[sp] = Cookie(Main)
    BY <1>4
  <2>2. sp = StackTop - 3 /\ frames[1].sent # <<>>
    BY <2>1, FoundCookie
  <2>3. sp + 1 = StackTop - 2 /\ Params[Main] = 1
    BY <2>2
  <2>4. Peeked(mem, StackTop - 2, 1) = <<ArgvBound>>
    BY <1>1, <2>2 DEF IInv, ArgvKept
  <2> QED BY <1>10, <2>2, <2>3, <2>4
<1>12. nf.got \in Seq(AnyBounds)
  <2>1. <<ArgvBound>> \in Seq(AnyBounds)
    BY DEF AnyBounds
  <2> QED BY <1>10, <1>11, <2>1
<1>13. Types' /\ EachHolds' /\ Chain' /\ Apart'
  <2>1. PICK top2 \in Frame : top2 = Top
    BY <1>2
  <2>2. /\ frames'[Depth] = top2 /\ \A i \in 1 .. Depth - 1 : frames'[i] = frames[i]
        /\ top2.fn = Top.fn /\ top2.sig = Top.sig /\ top2.really = Top.really
        /\ top2.got = Top.got /\ top2.base = Top.base
        /\ (top2.res = Top.res \/ top2.res = <<>>) /\ (Depth = 1 => top2.sent = Top.sent)
    BY <1>1, <1>2, <1>9, <2>1
  <2>3. StartedBy(top2, nf)
    BY <1>2, <1>3, <1>10, <2>1 DEF StartedBy
  <2>4. Holds(top2, sp, mem', Steady(Depth))
    BY <1>2, <1>3, <2>1 DEF Holds, Running, Calling, ArgsPushed, CookiePushed, NothingPushed,
                            ResultsPushed
  <2>5. /\ mem' \in [Addr -> Word] /\ jumps' = jumps /\ argv' \in BOOLEAN /\ nf.fn # Start
        /\ \A i \in 1 .. Depth - 1 : \A x \in Left(i) .. StackTop : mem'[x] = mem[x]
    <3>1. 1 .. Depth - 1 = {}
      BY <1>1
    <3> QED BY <1>1, <1>9, <1>10, <3>1
  <2>6. \A j \in 1 .. Depth : frames'[j].pc = "call" /\ Uses(frames'[j]) =>
                                sp < frames'[j].cookie \/ nf.fn \in Inst
    BY <1>1, <1>2, <1>3, <1>9
  <2> QED BY ONLY IInv, top2 \in Frame, nf \in Frame, <1>9, <1>10, <1>12, <2>2, <2>3, <2>4,
             <2>5, <2>6, Push
<1>14. NoStray'
  <2>1. \A i \in 1 .. Depth :
           frames[i].pc = "call" /\ Uses(frames[i]) =>
             frames'[i] = frames[i] \/ (frames[i].callee = Main /\ frames[i].cookie = sp)
    BY <1>9
  <2> QED BY ONLY IInv, really \in BOOLEAN, <1>4, <1>7, <1>9, <2>1, EnterKeepsNoStray
<1>15. ArgvKept'
  BY <1>1 DEF ArgvKept
<1>16. MainGetsArgv'
  <2> SUFFICES ASSUME Main \in Inst, NEW i \in 1 .. 2, frames'[i].fn = Main
               PROVE  /\ jumps = 0 /\ frames[1].sent # <<>> => frames'[i].got[1] = ArgvBound
                      /\ frames[1].sent = <<>> => frames'[i].got[1] = Invalid
    BY <1>1, <1>9 DEF MainGetsArgv, Depth
  <2>1. i = 2
    BY <1>1, <1>2, <1>3, <1>9
  <2>2. jumps = 0 /\ frames[1].sent # <<>> => sp = StackTop - 3
    BY <1>2, <1>3 DEF Holds, Running, Steady
  <2>3. jumps = 0 /\ frames[1].sent # <<>> => really
    BY <1>1, <1>4, <2>2 DEF IInv, ArgvKept
  <2>4. frames'[2] = nf
    BY <1>1, <1>10
  <2>5. AllInvalid(1)[1] = Invalid /\ <<ArgvBound>>[1] = ArgvBound
    BY DEF AllInvalid
  <2>6. frames[1].sent = <<>> => nf.got = AllInvalid(1)
    BY <1>10, <1>11
  <2> QED BY <1>11, <2>1, <2>3, <2>4, <2>5, <2>6
<1> QED BY <1>13, <1>14, <1>15, <1>16 DEF IInv

LEMMA EnterCalleeStep ==
  ASSUME HandlersApart, IInv, EnterCallee
  PROVE  IInv'
<1> USE StackAssumption, FnAssumption
<1> DEFINE f == Top.callee
           tt == [Top EXCEPT !.pc = "wait", !.res = <<>>]
<1>1. /\ Depth \in Nat /\ Depth > 0 /\ Top \in Frame /\ Top = frames[Depth] /\ sp \in Nat
      /\ sp <= Top.base /\ Holds(Top, sp, mem, Steady(Depth)) /\ mem \in [Addr -> Word]
      /\ frames \in Seq(Frame) /\ Len(frames) = Depth /\ argv \in BOOLEAN
      /\ sp <= StackTop /\ Steady(Depth) \in BOOLEAN
  BY LeftFacts DEF IInv, Types, Depth
<1>2. /\ Top.pc = "call" /\ argv' = argv /\ jumps' = jumps
      /\ Enter([frames EXCEPT ![Depth] = tt], f, FALSE)
  BY <1>1 DEF EnterCallee
<1>3. /\ f \in Callable /\ f \in Fn /\ f # Main /\ f # Start /\ Params[f] \in Nat
      /\ Top.sent \in BoundSeqs(Params[f]) /\ Top.fn \in Inst /\ Top.owed = None
      /\ Top.saved <= Top.base /\ sp <= Top.saved
  BY <1>1, <1>2 DEF Holds, Calling
<1>4. /\ tt \in Frame /\ tt.fn = Top.fn /\ tt.sig = Top.sig /\ tt.really = Top.really
      /\ tt.got = Top.got /\ tt.base = Top.base /\ tt.owed = Top.owed /\ tt.res = <<>>
      /\ tt.pc = "wait" /\ tt.callee = f /\ tt.sent = Top.sent
      /\ tt.want = Top.want /\ tt.saved = Top.saved /\ tt.cookie = Top.cookie
  <2>1. tt \in Frame
    <3>1. <<>> \in Seq(Any)
      OBVIOUS
    <3> QED BY <1>1, <3>1 DEF Frame
  <2> QED BY <1>1, <2>1, ZenonT(40) DEF Frame
<1> HIDE DEF f, tt
<1>5. Uses(tt) <=> Uses(Top)
  BY <1>4 DEF Uses, f
<1>6. Uses(Top) => /\ sp = Top.cookie /\ sp < Top.base /\ mem[sp] = Cookie(f)
                   /\ Top.saved = sp + 1 + 2 * Len(Top.sent)
                   /\ Peeked(mem, sp + 1, Params[f]) = Top.sent
                   /\ Len(Top.sent) = Params[f] /\ Top.sent \in Seq(Bound)
  <2> SUFFICES ASSUME Uses(Top)
               PROVE  /\ sp = Top.cookie /\ sp < Top.base /\ mem[sp] = Cookie(f)
                      /\ Top.saved = sp + 1 + 2 * Len(Top.sent)
                      /\ Peeked(mem, sp + 1, Params[f]) = Top.sent
                      /\ Len(Top.sent) = Params[f] /\ Top.sent \in Seq(Bound)
    OBVIOUS
  <2>1. /\ sp = Top.cookie /\ mem[sp] = Cookie(f)
        /\ Top.saved = sp + 1 + 2 * Len(Top.sent)
        /\ Peeked(mem, sp + 1, Len(Top.sent)) = Top.sent
    BY <1>1, <1>2 DEF Holds, CookiePushed, f
  <2>2. Len(Top.sent) = Params[f] /\ Top.sent \in Seq(Bound)
    BY <1>3, BoundSeqFacts
  <2>3. Top.base \in Nat /\ Len(Top.sent) \in Nat
    BY <1>1, <1>3, <2>2, FrameFields
  <2>4. sp < Top.base
    BY ONLY <1>1, <1>3, <2>1, <2>3
  <2> QED BY <2>1, <2>2, <2>4
<1>7. \A j \in 1 .. Depth - 1 : frames[j].pc = "call" => Uses(Top)
  <2>1. Handler # {} => Params[f] > 0
    BY <1>3 DEF HandlersApart
  <2>2. Params[f] > 0 => Uses(Top)
    BY DEF Uses, UsesStack, f
  <2> QED BY <2>1, <2>2, Interrupted
<1>8. PICK really \in BOOLEAN : really = (f \in Inst /\ mem[sp] = Cookie(f))
  BY Zenon
<1>9. really <=> f \in Inst /\ Uses(Top)
  <2>1. f \in Inst /\ Uses(Top) => really
    BY <1>6, <1>8
  <2>2. ASSUME really PROVE f \in Inst /\ Uses(Top)
    <3>1. f \in Inst /\ mem[sp] = Cookie(f)
      BY <1>8, <2>2
    <3>2. PICK i \in 1 .. Depth : frames[i].pc = "call" /\ Uses(frames[i])
      BY <1>3, <3>1, FoundCookie
    <3>3. CASE i = Depth
      BY <1>1, <3>1, <3>2, <3>3
    <3>4. CASE i # Depth
      BY <1>1, <1>7, <3>1, <3>2, <3>4
    <3> QED BY <3>3, <3>4
  <2> QED BY <2>1, <2>2
<1>10. PICK rest \in Seq(Frame) : rest = [frames EXCEPT ![Depth] = tt]
  <2>1. [frames EXCEPT ![Depth] = tt] \in Seq(Frame)
    BY <1>1, <1>4
  <2> QED BY ONLY <2>1, Zenon
<1>11. PICK sig \in BOOLEAN : sig = FALSE
  OBVIOUS
<1>12. PICK g \in Fn : g = f
  BY <1>3
<1>13. /\ g \in Fn /\ Len(rest) = Depth /\ Enter(rest, g, sig)
       /\ really = (g \in Inst /\ mem[sp] = Cookie(g))
  <2>1. Len(rest) = Depth
    BY <1>1, <1>10
  <2>2. Enter(rest, g, sig)
    BY <1>2, <1>10, <1>11, <1>12, Zenon
  <2>3. really = (g \in Inst /\ mem[sp] = Cookie(g))
    BY <1>8, <1>12, Zenon
  <2> QED BY <2>1, <2>2, <2>3
<1>14. OnTop(rest, g, sig, really)
  BY ONLY IInv, rest \in Seq(Frame), sig \in BOOLEAN, really \in BOOLEAN, <1>13, Entered
<1>15. /\ frames' \in Seq(Frame) /\ Len(frames') = Depth + 1 /\ sp' = sp
       /\ frames'[Depth] = tt /\ \A i \in 1 .. Depth - 1 : frames'[i] = frames[i]
       /\ mem' \in [Addr -> Word] /\ (~really => mem' = mem)
       /\ \A x \in sp + 1 .. StackTop : mem'[x] = mem[x]
       /\ really => mem'[sp] = Tweaked(g)
  <2>1. rest[Depth] = tt /\ \A i \in 1 .. Depth - 1 : rest[i] = frames[i]
    BY <1>1, <1>10
  <2>2. Depth \in 1 .. Depth /\ \A i \in 1 .. Depth - 1 : i \in 1 .. Depth
    BY <1>1
  <2> QED BY <1>14, <2>1, <2>2 DEF OnTop
<1>16. PICK nf \in Frame :
         /\ frames'[Depth + 1] = nf /\ nf.fn = g /\ ~nf.sig /\ nf.really = really
         /\ nf.base = sp /\ nf.pc = "run" /\ nf.owed = None /\ nf.callee = None /\ nf.res = <<>>
         /\ really => nf.got = Peeked(mem, sp + 1, Params[g])
         /\ ~really => nf.got \in Seq(AnyBounds)
  BY <1>11, <1>14 DEF OnTop
<1>160. Depth # 1 /\ frames'[1].sent = frames[1].sent
  <2>1. Depth # 1
    BY <1>1, <1>3 DEF IInv, Chain
  <2>2. 1 \in 1 .. Depth - 1
    BY <1>1, <2>1
  <2> QED BY <1>15, <2>1, <2>2
<1>17. nf.got \in Seq(AnyBounds)
  <2>1. CASE really
    <3>1. nf.got = Top.sent /\ Top.sent \in Seq(Bound)
      BY <1>6, <1>9, <1>12, <1>16, <2>1
    <3> QED BY <3>1 DEF AnyBounds
  <2> QED BY <1>16, <2>1
<1>18. Holds(tt, sp, mem', Steady(Depth))
  <2>1. Running(tt, sp, Steady(Depth)) /\ ResultsPushed(tt, sp, mem') /\ ArgsPushed(tt, sp, mem')
    BY <1>4 DEF Running, ResultsPushed, ArgsPushed
  <2>2. Calling(tt, sp, Steady(Depth)) /\ NothingPushed(tt, sp, Steady(Depth))
    BY <1>1, <1>2, <1>4, <1>5 DEF Holds, Calling, NothingPushed, f
  <2>3. CookiePushed(tt, sp, mem')
    <3> SUFFICES ASSUME Uses(Top) PROVE CookiePushed(tt, sp, mem')
      BY <1>5 DEF CookiePushed
    <3>1. Peeked(mem', sp + 1, Len(Top.sent)) = Top.sent
      <4>1. PICK c \in Nat : c = sp + 1
        BY <1>1
      <4>2. PICK l \in Nat : l = Params[f]
        BY <1>3
      <4>3. c \in Nat /\ l \in Nat /\ \A x \in c .. StackTop : mem'[x] = mem[x]
        BY <1>15, <4>1
      <4>4. Peeked(mem', c, l) = Peeked(mem, c, l)
        BY ONLY <4>3, PeekKept
      <4> QED BY <1>6, <4>1, <4>2, <4>4
    <3>2. mem'[sp] = IF f \in Inst THEN Tweaked(f) ELSE Cookie(f)
      BY <1>6, <1>9, <1>12, <1>15
    <3>3. /\ tt.cookie = sp /\ sp <= sp /\ tt.saved = sp + 1 + 2 * Len(tt.sent)
          /\ tt.sent = Top.sent /\ tt.pc = "wait" /\ tt.callee = f
      <4>1. sp <= sp /\ sp \in Nat
        BY <1>1
      <4>2. Top.cookie = sp /\ Top.saved = sp + 1 + 2 * Len(Top.sent)
        BY <1>6
      <4>3. /\ tt.cookie = Top.cookie /\ tt.saved = Top.saved
            /\ tt.sent = Top.sent /\ tt.pc = "wait" /\ tt.callee = f
        BY <1>4
      <4> QED BY ONLY <4>1, <4>2, <4>3
    <3> QED BY ONLY <3>1, <3>2, <3>3 DEF CookiePushed
  <2> QED BY <2>1, <2>2, <2>3 DEF Holds
<1>19. Types' /\ EachHolds' /\ Chain' /\ Apart'
  <2>1. PICK top2 \in Frame : top2 = tt
    BY <1>4
  <2>2. /\ frames'[Depth] = top2 /\ \A i \in 1 .. Depth - 1 : frames'[i] = frames[i]
        /\ top2.fn = Top.fn /\ top2.sig = Top.sig /\ top2.really = Top.really
        /\ top2.got = Top.got /\ top2.base = Top.base
        /\ (top2.res = Top.res \/ top2.res = <<>>) /\ (Depth = 1 => top2.sent = Top.sent)
    BY <1>4, <1>15, <1>160, <2>1
  <2>3. StartedBy(top2, nf)
    BY <1>1, <1>3, <1>4, <1>5, <1>9, <1>12, <1>16, <2>1 DEF StartedBy
  <2>4. ASSUME NEW i \in 1 .. Depth - 1, NEW x \in Left(i) .. StackTop
        PROVE  mem'[x] = mem[x]
    <3>1. Top.base <= Left(i) /\ Left(i) \in Nat /\ Top.base \in Nat
      BY <1>1, LeftFacts, FrameFields
    <3>2. CASE really
      <4>1. sp < Top.base
        BY <1>6, <1>9, <3>2
      <4>2. x \in sp + 1 .. StackTop
        BY ONLY StackAssumption, x \in Left(i) .. StackTop, <1>1, <3>1, <4>1
      <4> QED BY <1>15, <4>2
    <3> QED BY <1>15, <3>2
  <2>5. /\ mem' \in [Addr -> Word] /\ jumps' = jumps /\ argv' \in BOOLEAN /\ nf.fn # Start
        /\ Holds(top2, sp, mem', Steady(Depth))
    BY <1>1, <1>2, <1>3, <1>12, <1>15, <1>16, <1>18, <2>1
  <2>6. \A j \in 1 .. Depth : frames'[j].pc = "call" /\ Uses(frames'[j]) =>
                                sp < frames'[j].cookie \/ nf.fn \in Inst
    <3> TAKE j \in 1 .. Depth
    <3> HAVE frames'[j].pc = "call" /\ Uses(frames'[j])
    <3>1. j \in 1 .. Depth - 1 /\ frames'[j] = frames[j] /\ frames[j] \in Frame
      BY <1>1, <1>4, <1>15
    <3>2. Left(j) <= frames[j].cookie /\ Uses(Top)
      BY <1>7, <3>1, Interrupted
    <3>3. Top.base <= Left(j) /\ Left(j) \in Nat /\ Top.base \in Nat /\ frames[j].cookie \in Nat
      BY <1>1, <3>1, LeftFacts, FrameFields
    <3>4. sp < Top.base
      BY <1>6, <3>2
    <3>5. sp < frames[j].cookie
      BY ONLY <1>1, <3>2, <3>3, <3>4
    <3> QED BY <3>1, <3>5
  <2> QED BY ONLY IInv, top2 \in Frame, nf \in Frame, <1>15, <1>16, <1>17, <2>2, <2>3, <2>4,
             <2>5, <2>6, Push
<1>20. NoStray'
  <2>1. \A i \in 1 .. Depth :
           frames[i].pc = "call" /\ Uses(frames[i]) =>
             frames'[i] = frames[i] \/ (frames[i].callee = g /\ frames[i].cookie = sp)
    <3> TAKE i \in 1 .. Depth
    <3>1. CASE i = Depth
      BY <1>1, <1>6, <1>12, <3>1 DEF f
    <3>2. CASE i # Depth
      BY <1>1, <1>15, <3>2
    <3> QED BY <3>1, <3>2
  <2> QED BY ONLY IInv, really \in BOOLEAN, <1>13, <1>15, <1>160, <2>1, EnterKeepsNoStray
<1>21. ArgvKept' /\ MainGetsArgv'
  <2>1. /\ g # Main /\ frames'[Depth + 1].fn = g /\ argv' = argv /\ jumps' = jumps
        /\ \A i \in 1 .. Depth : frames'[i].fn = frames[i].fn /\ frames'[i].got = frames[i].got
    <3> SUFFICES ASSUME NEW i \in 1 .. Depth
                 PROVE  frames'[i].fn = frames[i].fn /\ frames'[i].got = frames[i].got
      BY <1>2, <1>3, <1>12, <1>16
    <3>1. CASE i = Depth
      BY <1>1, <1>4, <1>15, <3>1
    <3>2. CASE i # Depth
      <4>1. i \in 1 .. Depth - 1
        BY <1>1, <3>2
      <4> QED BY <1>15, <4>1
    <3> QED BY <3>1, <3>2
  <2> QED BY ONLY IInv, really \in BOOLEAN, <1>13, <1>15, <1>160, <2>1, EnterKeepsArgv
<1> QED BY <1>19, <1>20, <1>21 DEF IInv

-----------------------------------------------------------------------------
(* The invariant *)

Blank == [x \in 0 .. StackTop |-> Zero]

\* What init_shadow_entries leaves for main: the bounds of argv, and w as a cookie.
Prepared(w) == Pushed(Pushed(Blank, StackTop, Words(<<ArgvBound>>)), StackTop - 2, <<w>>)

LEMMA PreparedFacts ==
  ASSUME NEW w \in Word
  PROVE  /\ Prepared(w) \in [Addr -> Word] /\ Prepared(w)[StackTop - 3] = w
         /\ Peeked(Prepared(w), StackTop - 2, 1) = <<ArgvBound>>
         /\ \A x \in StackTop - 2 .. StackTop, f \in Inst : Prepared(w)[x] # Cookie(f)
<1> USE StackAssumption, FnAssumption
<1> DEFINE ws == Words(<<ArgvBound>>)
           m1 == Pushed(Blank, StackTop, ws)
           b == StackTop - 2
           m == Prepared(w)
<1>1. Blank \in [Addr -> Word]
  BY DEF Addr, Zero, Word, Blank
<1>2. PICK bs \in Seq(Bound) : bs = <<ArgvBound>> /\ Len(bs) = 1
  <2>1. <<ArgvBound>> \in Seq(Bound) /\ Len(<<ArgvBound>>) = 1
    OBVIOUS
  <2> QED BY <2>1, Zenon
<1>3. /\ Words(bs) \in Seq(Word) /\ Len(Words(bs)) = 2 * Len(bs)
      /\ \A x \in 1 .. 2 * Len(bs), f \in Inst : Words(bs)[x] # Cookie(f)
  BY WordsFacts
<1>4. /\ ws \in Seq(Word) /\ Len(ws) = 2 /\ \A x \in 1 .. 2, f \in Inst : ws[x] # Cookie(f)
  BY <1>2, <1>3
<1>5. StackTop \in Addr /\ b \in Addr /\ b >= 1 /\ b \in Nat
  BY DEF Addr
<1>6. m = Pushed(m1, b, <<w>>)
  BY DEF Prepared
<1> HIDE DEF ws, m
<1>7. /\ m1 \in [Addr -> Word]
      /\ \A x \in StackTop .. StackTop : m1[x] = Blank[x]
      /\ \A x \in StackTop - Len(ws) .. StackTop - 1 : m1[x] = ws[x - (StackTop - Len(ws)) + 1]
  <2>1. Len(ws) <= StackTop
    BY <1>4
  <2>2. Blank \in [Addr -> Word] /\ ws \in Seq(Word) /\ StackTop \in Addr
    BY <1>1, <1>4, <1>5
  <2> QED BY ONLY <2>1, <2>2, PushedFacts, Zenon
<1>8. Peeked(m1, b, 1) = <<ArgvBound>>
  <2>1. Peeked(Pushed(Blank, StackTop, Words(bs)), StackTop - 2 * Len(bs), Len(bs)) = bs
    <3>1. 2 * Len(bs) <= StackTop
      BY <1>2
    <3> QED BY <1>1, <1>5, <3>1, PeekPushed
  <2>2. StackTop - 2 * Len(bs) = b
    BY <1>2
  <2> QED BY <1>2, <2>1, <2>2 DEF ws
<1> HIDE DEF m1
<1>9. /\ m \in [Addr -> Word] /\ \A x \in b .. StackTop : m[x] = m1[x]
      /\ m[b - 1] = w
  <2>1. m1 \in [Addr -> Word] /\ b \in Addr /\ b >= 1 /\ m = Pushed(m1, b, <<w>>)
    BY <1>5, <1>6, <1>7
  <2> HIDE DEF b
  <2> QED BY ONLY w \in Word, <2>1, PushedOne
<1> HIDE DEF b
<1>10. Peeked(m, b, 1) = <<ArgvBound>>
  <2>1. PICK k \in Nat : k = 1
    OBVIOUS
  <2>2. b \in Nat /\ k \in Nat /\ \A x \in b .. StackTop : m[x] = m1[x]
    BY <1>5, <1>9
  <2>3. Peeked(m, b, k) = Peeked(m1, b, k)
    BY ONLY <2>2, PeekKept
  <2> QED BY <1>8, <2>1, <2>3
<1>11. ASSUME NEW x \in b .. StackTop, NEW f \in Inst PROVE m[x] # Cookie(f)
  <2>1. m[x] = m1[x]
    BY <1>9
  <2>2. CASE x = StackTop
    <3>1. m1[x] = Blank[x] /\ Blank[x] = Zero
      BY <1>7, <2>2 DEF Blank
    <3> QED BY <2>1, <3>1 DEF Zero, Cookie
  <2>3. CASE x # StackTop
    <3>1. /\ x \in StackTop - Len(ws) .. StackTop - 1
          /\ x - (StackTop - Len(ws)) + 1 \in 1 .. 2
      BY <1>4, <2>3 DEF b
    <3> QED BY <1>4, <1>7, <2>1, <3>1
  <2> QED BY <2>2, <2>3
<1> QED BY <1>9, <1>10, <1>11 DEF b, m

\* What the start-up code has left: the bounds of argv with main's address, the
\* same with a null cookie, or nothing.
LEMMA Started ==
  ASSUME Init
  PROVE  \E bs \in Seq(Bound) :
           /\ frames = <<[NewFrame(Start, FALSE, FALSE, <<>>, sp) EXCEPT !.sent = bs]>>
           /\ argv = TRUE /\ jumps = 0 /\ mem \in [Addr -> Word] /\ sp \in Addr
           /\ bs = <<>> \/ bs = <<ArgvBound>>
           /\ bs # <<>> => /\ sp = StackTop - 3 /\ mem[StackTop - 3] = Cookie(Main)
                           /\ Peeked(mem, StackTop - 2, 1) = <<ArgvBound>>
           /\ \A a \in sp .. StackTop, f \in Inst :
                mem[a] = Cookie(f) => f = Main /\ a = StackTop - 3 /\ bs # <<>>
<1> USE StackAssumption, FnAssumption
<1>1. PICK left \in {[sp |-> StackTop - 3, sent |-> <<ArgvBound>>, mem |-> Prepared(Cookie(Main))],
                     [sp |-> StackTop - 3, sent |-> <<>>, mem |-> Prepared(Zero)],
                     [sp |-> StackTop, sent |-> <<>>, mem |-> Blank]} :
        /\ sp = left.sp /\ mem = left.mem
        /\ frames = <<[NewFrame(Start, FALSE, FALSE, <<>>, left.sp) EXCEPT !.sent = left.sent]>>
  BY Zenon DEF Init, Prepared, Blank
<1>2. argv = TRUE /\ jumps = 0
  BY DEF Init
<1>3. /\ Cookie(Main) \in Word /\ Zero \in Word /\ Blank \in [Addr -> Word]
      /\ \A f \in Inst : Zero # Cookie(f)
      /\ \A x \in Addr : Blank[x] = Zero
      /\ StackTop \in Addr /\ StackTop - 3 \in Addr
  BY DEF Cookie, Zero, Blank, Word, Addr
<1>4. <<>> \in Seq(Bound) /\ <<ArgvBound>> \in Seq(Bound) /\ <<ArgvBound>> # <<>>
  OBVIOUS
<1>5. \A a \in StackTop - 3 .. StackTop : a = StackTop - 3 \/ a \in StackTop - 2 .. StackTop
  OBVIOUS
<1>6. CASE left = [sp |-> StackTop - 3, sent |-> <<ArgvBound>>, mem |-> Prepared(Cookie(Main))]
  <2>1. sp = StackTop - 3 /\ mem = Prepared(Cookie(Main)) /\ left.sent = <<ArgvBound>>
    BY <1>1, <1>6
  <2>2. /\ mem \in [Addr -> Word] /\ mem[StackTop - 3] = Cookie(Main)
        /\ Peeked(mem, StackTop - 2, 1) = <<ArgvBound>>
        /\ \A x \in StackTop - 2 .. StackTop, f \in Inst : mem[x] # Cookie(f)
    BY <1>3, <2>1, PreparedFacts
  <2>3. \A a \in sp .. StackTop, f \in Inst :
          mem[a] = Cookie(f) => f = Main /\ a = StackTop - 3 /\ <<ArgvBound>> # <<>>
    <3> TAKE a \in sp .. StackTop, f \in Inst
    <3> HAVE mem[a] = Cookie(f)
    <3>1. a = StackTop - 3
      BY <1>5, <2>1, <2>2
    <3>2. Cookie(f) = Cookie(Main)
      BY <2>2, <3>1
    <3> QED BY <1>4, <3>1, <3>2 DEF Cookie
  <2>4. frames = <<[NewFrame(Start, FALSE, FALSE, <<>>, sp) EXCEPT !.sent = <<ArgvBound>>]>>
    BY <1>1, <2>1, Zenon
  <2>5. sp \in Addr
    BY <1>3, <2>1
  <2> QED BY <1>2, <1>4, <2>1, <2>2, <2>3, <2>4, <2>5, Zenon
<1>7. CASE left = [sp |-> StackTop - 3, sent |-> <<>>, mem |-> Prepared(Zero)]
  <2>1. sp = StackTop - 3 /\ mem = Prepared(Zero) /\ left.sent = <<>>
    BY <1>1, <1>7
  <2>2. /\ mem \in [Addr -> Word] /\ mem[StackTop - 3] = Zero
        /\ \A x \in StackTop - 2 .. StackTop, f \in Inst : mem[x] # Cookie(f)
    BY <1>3, <2>1, PreparedFacts
  <2>3. \A a \in sp .. StackTop, f \in Inst : mem[a] # Cookie(f)
    BY <1>3, <1>5, <2>1, <2>2
  <2>4. frames = <<[NewFrame(Start, FALSE, FALSE, <<>>, sp) EXCEPT !.sent = <<>>]>>
    BY <1>1, <2>1, Zenon
  <2>5. sp \in Addr
    BY <1>3, <2>1
  <2> QED BY <1>2, <1>4, <2>1, <2>2, <2>3, <2>4, <2>5, Zenon
<1>8. CASE left = [sp |-> StackTop, sent |-> <<>>, mem |-> Blank]
  <2>1. sp = StackTop /\ mem = Blank /\ left.sent = <<>>
    BY <1>1, <1>8
  <2>2. \A a \in sp .. StackTop, f \in Inst : mem[a] # Cookie(f)
    BY <1>3, <2>1 DEF Addr
  <2>3. frames = <<[NewFrame(Start, FALSE, FALSE, <<>>, sp) EXCEPT !.sent = <<>>]>>
    BY <1>1, <2>1, Zenon
  <2>4. sp \in Addr /\ mem \in [Addr -> Word]
    BY <1>3, <2>1
  <2> QED BY <1>2, <1>4, <2>1, <2>2, <2>3, <2>4, Zenon
<1> QED BY <1>1, <1>6, <1>7, <1>8

LEMMA Initial == Init => IInv
<1> SUFFICES ASSUME Init PROVE IInv
  OBVIOUS
<1> USE StackAssumption, FnAssumption
<1>1. PICK bs \in Seq(Bound) :
           /\ frames = <<[NewFrame(Start, FALSE, FALSE, <<>>, sp) EXCEPT !.sent = bs]>>
           /\ argv = TRUE /\ jumps = 0 /\ mem \in [Addr -> Word] /\ sp \in Addr
           /\ bs = <<>> \/ bs = <<ArgvBound>>
           /\ bs # <<>> => /\ sp = StackTop - 3 /\ mem[StackTop - 3] = Cookie(Main)
                           /\ Peeked(mem, StackTop - 2, 1) = <<ArgvBound>>
           /\ \A a \in sp .. StackTop, f \in Inst :
                mem[a] = Cookie(f) => f = Main /\ a = StackTop - 3 /\ bs # <<>>
  BY Started
<1> DEFINE nf == [NewFrame(Start, FALSE, FALSE, <<>>, sp) EXCEPT !.sent = bs]
<1>2. /\ nf \in Frame /\ nf.fn = Start /\ ~nf.sig /\ ~nf.really /\ nf.got = <<>>
      /\ nf.base = sp /\ nf.pc = "run" /\ nf.owed = None /\ nf.res = <<>>
      /\ nf.callee = None /\ nf.sent = bs
  <2>1. <<>> \in Seq(Any) /\ <<>> \in Seq(Bound) /\ 0 \in Addr /\ sp \in Addr
    BY <1>1 DEF Addr
  <2> QED BY <2>1 DEF NewFrame, Frame
<1> HIDE DEF nf
<1>3. Depth = 1 /\ frames[1] = nf /\ frames \in Seq(Frame) /\ 1 .. Depth = {1}
  <2>1. frames = <<nf>>
    BY <1>1 DEF nf
  <2>2. Depth = 1 /\ frames[1] = nf /\ frames \in Seq(Frame)
    BY <1>2, <2>1 DEF Depth
  <2> QED BY <2>2
<1>4. Types
  BY <1>1, <1>3 DEF Types
<1>5. EachHolds
  <2>1. Left(1) = sp
    BY <1>3 DEF Left
  <2>2. Holds(nf, sp, mem, Steady(1))
    BY <1>1, <1>2 DEF Holds, Running, Calling, ArgsPushed, CookiePushed, NothingPushed,
                      ResultsPushed, Addr
  <2> QED BY <1>3, <2>1, <2>2 DEF EachHolds
<1>6. Chain
  <2>1. \A i \in 1 .. Depth - 1 : FALSE
    BY <1>3
  <2>2. \A i, j \in 1 .. Depth : i <= j => frames[j].base <= frames[i].base
    <3>1. nf.base <= nf.base
      BY <1>1, <1>2 DEF Addr
    <3> QED BY <1>3, <3>1
  <2>3. \A i \in 2 .. Depth : FALSE
    BY <1>3
  <2>4. <<>> \in Seq(AnyBounds)
    OBVIOUS
  <2> QED BY <1>1, <1>2, <1>3, <2>1, <2>2, <2>3, <2>4, ZenonT(40) DEF Chain
<1>7. Apart
  BY <1>3 DEF Apart
<1>8. NoStray
  BY <1>1, <1>2, <1>3 DEF NoStray
<1>9. ArgvKept
  BY <1>1, <1>2, <1>3 DEF ArgvKept
<1>10. MainGetsArgv
  BY <1>2, <1>3 DEF MainGetsArgv
<1> QED BY <1>4, <1>5, <1>6, <1>7, <1>8, <1>9, <1>10 DEF IInv

LEMMA Inductive == HandlersApart /\ IInv /\ [Next]_vars => IInv'
<1> SUFFICES ASSUME HandlersApart, IInv, [Next]_vars PROVE IInv'
  OBVIOUS
<1>1. ASSUME NEW f \in Callable, NEW want \in BOOLEAN, NEW bs \in BoundSeqs(Params[f]),
             want => Results[f] > 0, BeginCall(f, bs, want)
      PROVE  IInv'
  BY <1>1, BeginCallStep
<1>2. CASE PushCookie
  BY <1>2, PushCookieStep
<1>3. CASE EnterCallee
  BY <1>3, EnterCalleeStep
<1>4. ASSUME NEW f \in Callable, PlainCall(f) PROVE IInv'
  BY <1>4, PlainCallStep
<1>5. CASE CallMain
  BY <1>5, CallMainStep
<1>6. ASSUME NEW h \in Handler, Signal(h) PROVE IInv'
  BY <1>6, SignalStep
<1>7. ASSUME NEW rs \in BoundSeqs(Results[Top.fn]), Return(rs) PROVE IInv'
  BY <1>7, ReturnStep
<1>8. CASE AfterCall
  BY <1>8, AfterCallStep
<1>9. ASSUME NEW n \in 1 .. Depth, LongJump(n) PROVE IInv'
  BY <1>9, LongJumpStep
<1>10. CASE UNCHANGED vars
  BY <1>10 DEF vars, IInv, Types, EachHolds, Chain, Apart, NoStray, ArgvKept, MainGetsArgv,
               Depth, Left, Steady
<1> QED BY <1>1, <1>2, <1>3, <1>4, <1>5, <1>6, <1>7, <1>8, <1>9, <1>10 DEF Next

LEMMA Invariant ==
  ASSUME HandlersApart
  PROVE  Spec => []IInv
<1>1. IInv /\ [Next]_vars => IInv'
  BY Inductive
<1> QED BY Initial, <1>1, PTL DEF Spec

-----------------------------------------------------------------------------
(* What it implies *)

LEMMA InFlightKept == IInv => InFlightIntact
<1> SUFFICES ASSUME IInv, NEW i \in 1 .. Depth, frames[i].pc \in {"call", "wait", "back"},
                    UsesStack(frames[i].callee, frames[i].want)
             PROVE  /\ sp <= frames[i].cookie
                    /\ mem[frames[i].cookie] \in {Cookie(frames[i].callee), Tweaked(frames[i].callee)}
                    /\ Peeked(mem, frames[i].cookie + 1, Len(frames[i].sent)) = frames[i].sent
                    /\ frames[i].saved = frames[i].cookie + 1 + 2 * Len(frames[i].sent)
  BY DEF InFlightIntact
<1>1. CookiePushed(frames[i], Left(i), mem) /\ Uses(frames[i])
  BY DEF IInv, EachHolds, Holds, Uses
<1>2. Left(i) <= frames[i].cookie
  BY <1>1 DEF CookiePushed
<1>3. Left(i) \in Nat /\ sp <= Left(i) /\ sp \in Nat /\ frames[i].cookie \in Nat
  <2>1. frames[i] \in Frame /\ sp \in Nat /\ Depth \in Nat
    BY LeftFacts
  <2>2. frames[i].cookie \in Nat
    BY <2>1, FrameFields
  <2>3. CASE i = Depth
    BY <2>1, <2>2, <2>3 DEF Left
  <2>4. CASE i # Depth
    <3>1. i \in 1 .. Depth - 1
      BY <2>1, <2>4
    <3> QED BY <2>1, <2>2, <3>1, LeftFacts
  <2> QED BY <2>3, <2>4
<1>4. sp <= frames[i].cookie
  BY ONLY <1>2, <1>3
<1> QED BY <1>1, <1>4 DEF CookiePushed

LEMMA StackIsKept == IInv => StackKept
<1> SUFFICES ASSUME IInv PROVE StackKept
  OBVIOUS
<1>1. Holds(Top, sp, mem, Steady(Depth))
  BY LeftFacts
<1>2. Balanced
  BY <1>1 DEF Balanced, Holds, Running, Steady
<1> QED BY <1>2 DEF StackKept, IInv

\* No live word holds the untweaked address of an instrumented function other
\* than the cookie of a call that is about to be entered or main's.
THEOREM NoStrayCorrect ==
  ASSUME HandlersApart
  PROVE  Spec => []NoStrayCookie
<1>1. IInv => NoStrayCookie
  BY DEF IInv, NoStray, NoStrayCookie
<1> QED BY <1>1, Invariant, PTL

\* What a call has pushed stays on the stack until the caller cleans up,
\* whatever its callee, nested calls, handlers and longjmps push and pop.
THEOREM InFlightCorrect ==
  ASSUME HandlersApart
  PROVE  Spec => []InFlightIntact
BY InFlightKept, Invariant, PTL

\* Without a longjmp every function that runs has the stack pointer it was
\* entered with, and main gets the bounds of argv.
THEOREM StackKeptCorrect ==
  ASSUME HandlersApart
  PROVE  Spec => []StackKept
BY StackIsKept, Invariant, PTL

\* Types.  In particular no bounds are made of words that hold none, when the
\* callee expression means the same function before and after the call.
THEOREM TypeCorrect ==
  ASSUME HandlersApart, ~Indirect
  PROVE  Spec => []TypeOK
<1>1. IInv => TypeOK
  <2> SUFFICES ASSUME IInv PROVE TypeOK
    OBVIOUS
  <2>1. /\ DOMAIN mem = Addr /\ argv \in BOOLEAN /\ jumps \in 0 .. MaxJumps
    BY DEF IInv, Types
  <2>2. sp \in Addr
    BY StackAssumption DEF IInv, Types, Addr
  <2>3. \A i \in 1 .. Depth : /\ frames[i].fn \in Fn
                              /\ frames[i].pc \in {"run", "args", "call", "wait", "back"}
    BY LeftFacts, FrameFields
  <2>4. \A i \in 1 .. Depth : frames[i].got \in Seq(AnyBounds) /\ frames[i].res \in Seq(AnyBounds)
    BY DEF IInv, Chain
  <2> QED BY <2>1, <2>2, <2>3, <2>4 DEF TypeOK
<1> QED BY <1>1, Invariant, PTL

-----------------------------------------------------------------------------
(* The bounds stack implements BoundsPassing *)

\* The part of a frame that BoundsPassing has.
View(fr) ==
  [fn |-> fr.fn, sig |-> fr.sig, linked |-> fr.really,
   got |-> fr.got, callee |-> fr.callee, sent |-> fr.sent,
   want |-> fr.want, owed |-> fr.owed, res |-> fr.res]

Calls == [i \in 1 .. Depth |-> View(frames[i])]

Seen ==
  [fn : Fn, sig : BOOLEAN, linked : BOOLEAN, got : Seq(Any), callee : Callable \union {None},
   sent : Seq(Bound), want : BOOLEAN,
   owed : {None} \union [from : Fn, bs : Seq(Bound)], res : Seq(Any)]

LEMMA ViewFacts ==
  ASSUME NEW fr \in Frame
  PROVE  /\ View(fr) \in Seen /\ View(fr).fn = fr.fn /\ View(fr).sig = fr.sig
         /\ View(fr).linked = fr.really /\ View(fr).got = fr.got
         /\ View(fr).callee = fr.callee /\ View(fr).sent = fr.sent /\ View(fr).want = fr.want
         /\ View(fr).owed = fr.owed /\ View(fr).res = fr.res
BY DEF View, Seen, Frame

LEMMA CallsFacts ==
  ASSUME Types
  PROVE  /\ Calls \in Seq(Seen) /\ Len(Calls) = Depth /\ Depth \in Nat /\ Depth > 0
         /\ \A i \in 1 .. Depth : Calls[i] = View(frames[i]) /\ frames[i] \in Frame
         /\ \A i \in 1 .. Depth : View(frames[i]) \in Seen
<1>1. Depth \in Nat /\ Depth > 0 /\ \A i \in 1 .. Depth : frames[i] \in Frame
  BY DEF Types, Depth
<1>2. \A i \in 1 .. Depth : View(frames[i]) \in Seen
  BY <1>1, ViewFacts
<1>3. Calls \in [1 .. Depth -> Seen]
  BY <1>2 DEF Calls
<1>4. Calls \in Seq(Seen) /\ Len(Calls) = Depth
  BY <1>1, <1>3
<1> QED BY <1>1, <1>2, <1>4 DEF Calls

\* Two call stacks whose frames look alike.
LEMMA SameCalls ==
  ASSUME Types, Types', NEW t \in Seq(Seen), Len(frames') = Len(t),
         \A i \in 1 .. Len(t) : View(frames'[i]) = t[i]
  PROVE  Calls' = t
<1>1. Depth' = Len(t) /\ Depth' \in Nat
  BY DEF Types, Depth
<1>2. Calls' = [i \in 1 .. Len(t) |-> View(frames'[i])]
  BY <1>1 DEF Calls, View
<1>3. t = [i \in 1 .. Len(t) |-> t[i]]
  OBVIOUS
<1> QED BY <1>2, <1>3

LEMMA AbstractInit == Init => Abstract!Init
<1> SUFFICES ASSUME Init PROVE Abstract!Init
  OBVIOUS
<1> USE StackAssumption, FnAssumption
<1>1. PICK bs \in Seq(Bound) :
           /\ frames = <<[NewFrame(Start, FALSE, FALSE, <<>>, sp) EXCEPT !.sent = bs]>>
           /\ argv = TRUE /\ (bs = <<>> \/ bs = <<ArgvBound>>)
  BY Started
<1> DEFINE nf == [NewFrame(Start, FALSE, FALSE, <<>>, sp) EXCEPT !.sent = bs]
<1>2. Depth = 1 /\ frames[1] = nf
  BY <1>1 DEF Depth
<1>3. Calls = <<View(nf)>>
  <2> DEFINE v == View(nf)
  <2> HIDE DEF nf
  <2>1. Calls = [i \in 1 .. 1 |-> v]
    BY <1>2 DEF Calls
  <2> HIDE DEF v
  <2>2. <<v>> = [i \in 1 .. 1 |-> v]
    OBVIOUS
  <2> QED BY <2>1, <2>2 DEF v
<1>4. AllInvalid(0) = <<>>
  BY DEF AllInvalid
<1>5. View(nf) = [Abstract!NewFrame(Start, FALSE, FALSE, <<>>) EXCEPT !.sent = bs]
  <2>1. /\ nf.fn = Start /\ nf.sig = FALSE /\ nf.really = FALSE /\ nf.got = <<>> /\ nf.res = <<>>
        /\ nf.callee = None /\ nf.sent = bs /\ nf.want = FALSE /\ nf.owed = None
    BY DEF NewFrame
  <2> HIDE DEF nf
  <2>2. View(nf) = [fn |-> Start, sig |-> FALSE, linked |-> FALSE, got |-> <<>>, callee |-> None,
                    sent |-> bs, want |-> FALSE, owed |-> None, res |-> <<>>]
    BY <2>1, Zenon DEF View
  <2>3. Abstract!NewFrame(Start, FALSE, FALSE, <<>>) =
          [fn |-> Start, sig |-> FALSE, linked |-> FALSE, got |-> <<>>, callee |-> None,
           sent |-> <<>>, want |-> FALSE, owed |-> None, res |-> <<>>]
    BY <1>4 DEF Abstract!NewFrame, AllInvalid, Abstract!AllInvalid
  <2>4. <<>> \in Seq(Any) /\ <<>> \in Seq(Bound)
    OBVIOUS
  <2>5. PICK u \in Seen :
          u = [fn |-> Start, sig |-> FALSE, linked |-> FALSE, got |-> <<>>, callee |-> None,
               sent |-> <<>>, want |-> FALSE, owed |-> None, res |-> <<>>]
    BY <2>4 DEF Seen
  <2>6. PICK w \in Seen : w = View(nf)
    BY <2>2, <2>4 DEF Seen
  <2>7. /\ w.fn = u.fn /\ w.sig = u.sig /\ w.linked = u.linked /\ w.got = u.got
        /\ w.callee = u.callee /\ w.want = u.want /\ w.owed = u.owed /\ w.res = u.res
        /\ w.sent = bs
    <3>1. /\ w.fn = Start /\ w.sig = FALSE /\ w.linked = FALSE /\ w.got = <<>> /\ w.callee = None
          /\ w.want = FALSE /\ w.owed = None /\ w.res = <<>> /\ w.sent = bs
      BY <2>2, <2>6
    <3>2. /\ u.fn = Start /\ u.sig = FALSE /\ u.linked = FALSE /\ u.got = <<>> /\ u.callee = None
          /\ u.want = FALSE /\ u.owed = None /\ u.res = <<>>
      BY <2>5
    <3> QED BY <3>1, <3>2, Zenon
  <2>8. w = [u EXCEPT !.sent = bs]
    BY ONLY u \in Seen, w \in Seen, <2>7 DEF Seen
  <2> QED BY <2>3, <2>5, <2>6, <2>8, Zenon
<1>6. bs \in {<<ArgvBound>>, <<>>}
  BY <1>1
<1>7. Calls = <<[Abstract!NewFrame(Start, FALSE, FALSE, <<>>) EXCEPT !.sent = bs]>>
  BY <1>3, <1>5, Zenon
<1> QED BY <1>1, <1>6, <1>7, Zenon DEF Abstract!Init, Calls, View

LEMMA AbstractTop ==
  ASSUME IInv
  PROVE  /\ Abstract!Top = View(Top) /\ Abstract!Below \in Seq(Seen)
         /\ Len(Abstract!Below) = Depth - 1
         /\ \A i \in 1 .. Depth - 1 : Abstract!Below[i] = View(frames[i])
<1>1. /\ Calls \in Seq(Seen) /\ Len(Calls) = Depth /\ Depth \in Nat /\ Depth > 0
      /\ \A i \in 1 .. Depth : Calls[i] = View(frames[i])
  BY CallsFacts DEF IInv
<1>2. Abstract!Top = Calls[Len(Calls)] /\ Abstract!Below = SubSeq(Calls, 1, Len(Calls) - 1)
  BY DEF Abstract!Top, Abstract!Below, Calls, View
<1>3. Abstract!Top = View(Top)
  BY <1>1, <1>2 DEF Top
<1> HIDE DEF Calls
<1>4. /\ SubSeq(Calls, 1, Len(Calls) - 1) \in Seq(Seen)
      /\ Len(SubSeq(Calls, 1, Len(Calls) - 1)) = Depth - 1
      /\ \A i \in 1 .. Depth - 1 : SubSeq(Calls, 1, Len(Calls) - 1)[i] = Calls[i]
  BY <1>1
<1>5. \A i \in 1 .. Depth - 1 : Calls[i] = View(frames[i])
  BY <1>1
<1> QED BY <1>2, <1>3, <1>4, <1>5

\* Pushing a cookie is nothing that BoundsPassing sees.
LEMMA AbstractStutter ==
  ASSUME IInv, IInv', Len(frames') = Depth,
         \A i \in 1 .. Depth : View(frames'[i]) = View(frames[i])
  PROVE  Calls' = Calls
<1>1. Calls \in Seq(Seen) /\ Len(Calls) = Depth /\ \A i \in 1 .. Depth : Calls[i] = View(frames[i])
  BY CallsFacts DEF IInv
<1>2. PICK t \in Seq(Seen) : t = Calls
  BY <1>1, Zenon
<1>3. Types /\ Types' /\ Len(frames') = Len(t) /\ \A i \in 1 .. Len(t) : View(frames'[i]) = t[i]
  BY <1>1, <1>2 DEF IInv
<1> QED BY ONLY t \in Seq(Seen), <1>2, <1>3, SameCalls

\* The frame on top after an entry, as BoundsPassing sees it.
LEMMA AbstractNew ==
  ASSUME NEW f \in Fn, NEW sig \in BOOLEAN, NEW really \in BOOLEAN, NEW got, NEW bs, NEW a,
         really => got = bs, ~really => got = AllInvalid(IF f \in Inst THEN Params[f] ELSE 0)
  PROVE  View(NewFrame(f, sig, really, got, a)) = Abstract!NewFrame(f, sig, really, bs)
<1>1. /\ NewFrame(f, sig, really, got, a).fn = f /\ NewFrame(f, sig, really, got, a).sig = sig
      /\ NewFrame(f, sig, really, got, a).really = really
      /\ NewFrame(f, sig, really, got, a).got = got
      /\ NewFrame(f, sig, really, got, a).callee = None
      /\ NewFrame(f, sig, really, got, a).sent = <<>>
      /\ NewFrame(f, sig, really, got, a).want = FALSE
      /\ NewFrame(f, sig, really, got, a).owed = None
      /\ NewFrame(f, sig, really, got, a).res = <<>>
  BY DEF NewFrame
<1>2. got = IF really THEN bs ELSE Abstract!AllInvalid(IF f \in Inst THEN Params[f] ELSE 0)
  BY DEF AllInvalid, Abstract!AllInvalid
<1>3. View(NewFrame(f, sig, really, got, a)) =
        [fn |-> f, sig |-> sig, linked |-> really, got |-> got, callee |-> None, sent |-> <<>>,
         want |-> FALSE, owed |-> None, res |-> <<>>]
  BY <1>1, Zenon DEF View
<1> QED BY <1>2, <1>3, Zenon DEF Abstract!NewFrame

LEMMA AbstractEnter ==
  ASSUME IInv, NEW rest \in Seq(Frame), Len(rest) = Depth, NEW f \in Fn, NEW sig \in BOOLEAN,
         Enter(rest, f, sig), NEW linked \in BOOLEAN, NEW bs,
         frames'[Depth + 1].really <=> linked,
         linked => f \in Inst /\ Peeked(mem, sp + 1, Params[f]) = bs
  PROVE  /\ Len(frames') = Depth + 1 /\ \A i \in 1 .. Depth : frames'[i] = rest[i]
         /\ View(frames'[Depth + 1]) = Abstract!NewFrame(f, sig, linked, bs)
<1>1. PICK really \in BOOLEAN : really = (f \in Inst /\ mem[sp] = Cookie(f))
  BY Zenon
<1> DEFINE n == IF f \in Inst THEN Params[f] ELSE 0
           got == IF really THEN Peeked(mem, sp + 1, n) ELSE AllInvalid(n)
           nf == NewFrame(f, sig, really, got, sp)
<1>2. frames' = Append(rest, nf)
  BY <1>1 DEF Enter
<1>3. really <=> nf.really
  BY DEF NewFrame
<1>4. Depth \in Nat
  BY LeftFacts
<1>5. linked => got = bs
  <2>1. f \in Inst => n = Params[f]
    OBVIOUS
  <2>2. linked => really
    <3> HIDE DEF nf
    <3>1. frames'[Depth + 1] = nf
      BY <1>2, <1>4
    <3> QED BY <1>3, <3>1
  <2> QED BY <2>1, <2>2
<1>6. ~linked => got = AllInvalid(IF f \in Inst THEN Params[f] ELSE 0)
  <2> HIDE DEF nf
  <2>1. frames'[Depth + 1] = nf
    BY <1>2, <1>4
  <2> QED BY <1>3, <2>1
<1> HIDE DEF nf
<1>7. /\ Len(frames') = Depth + 1 /\ \A i \in 1 .. Depth : frames'[i] = rest[i]
      /\ frames'[Depth + 1] = nf
  BY <1>2, <1>4
<1>8. linked = really
  BY <1>3, <1>7
<1>9. nf = NewFrame(f, sig, linked, got, sp)
  BY <1>8, Zenon DEF nf
<1> HIDE DEF got, n
<1>10. View(NewFrame(f, sig, linked, got, sp)) = Abstract!NewFrame(f, sig, linked, bs)
  BY ONLY f \in Fn, sig \in BOOLEAN, linked \in BOOLEAN, <1>5, <1>6, AbstractNew
<1> QED BY <1>7, <1>9, <1>10

\* A frame more.
LEMMA OneMore ==
  ASSUME IInv, IInv', Len(frames') = Depth + 1, \A i \in 1 .. Depth : frames'[i] = frames[i]
  PROVE  Calls' = Append(Calls, View(frames'[Depth + 1]))
<1> DEFINE t == Append(Calls, View(frames'[Depth + 1]))
<1>1. /\ Calls \in Seq(Seen) /\ Len(Calls) = Depth /\ Types /\ Types' /\ Depth \in Nat
      /\ \A i \in 1 .. Depth : Calls[i] = View(frames[i])
  BY CallsFacts DEF IInv
<1>2. View(frames'[Depth + 1]) \in Seen
  <2>1. frames'[Depth + 1] \in Frame
    BY <1>1 DEF Types
  <2> QED BY <2>1, ViewFacts
<1>3. t \in Seq(Seen) /\ Len(t) = Depth + 1
  BY <1>1, <1>2
<1>4. \A i \in 1 .. Len(t) : View(frames'[i]) = t[i]
  BY <1>1, <1>3
<1> HIDE DEF t
<1>5. PICK u \in Seq(Seen) : u = t
  BY <1>3, Zenon
<1>6. Types /\ Types' /\ Len(frames') = Len(u) /\ \A i \in 1 .. Len(u) : View(frames'[i]) = u[i]
  BY <1>1, <1>3, <1>4, <1>5
<1>7. Calls' = t
  BY ONLY u \in Seq(Seen), <1>5, <1>6, SameCalls
<1> QED BY <1>7 DEF t

\* A frame more, and the result of the last call forgotten in the frame below.
LEMMA OneMoreCall ==
  ASSUME IInv, IInv', Len(frames') = Depth + 1, \A i \in 1 .. Depth - 1 : frames'[i] = frames[i],
         View(frames'[Depth]) = [View(Top) EXCEPT !.res = <<>>]
  PROVE  Calls' = Abstract!Below \o <<[Abstract!Top EXCEPT !.res = <<>>], View(frames'[Depth + 1])>>
<1> DEFINE v == View(frames'[Depth])
           w == View(frames'[Depth + 1])
           b == Abstract!Below
           t == b \o <<v, w>>
<1>1. /\ Types /\ Types' /\ Depth \in Nat /\ Depth > 0
      /\ b \in Seq(Seen) /\ Len(b) = Depth - 1 /\ \A i \in 1 .. Depth - 1 : b[i] = View(frames[i])
  BY AbstractTop, CallsFacts DEF IInv
<1>2. v \in Seen /\ w \in Seen
  <2>1. frames'[Depth] \in Frame /\ frames'[Depth + 1] \in Frame
    BY <1>1 DEF Types
  <2> QED BY <2>1, ViewFacts
<1> HIDE DEF b, v, w
<1>3. t \in Seq(Seen) /\ Len(t) = Depth + 1
  BY <1>1, <1>2
<1>4. /\ \A i \in 1 .. Depth - 1 : t[i] = b[i]
      /\ t[Depth] = v /\ t[Depth + 1] = w
  BY <1>1, <1>2
<1> HIDE DEF t
<1>5. \A i \in 1 .. Len(t) : View(frames'[i]) = t[i]
  <2> TAKE i \in 1 .. Len(t)
  <2>1. i \in 1 .. Depth - 1 \/ i = Depth \/ i = Depth + 1
    BY <1>1, <1>3
  <2> QED BY <1>1, <1>4, <2>1 DEF v, w
<1>6. PICK u \in Seq(Seen) : u = t
  BY <1>3, Zenon
<1>7. Types /\ Types' /\ Len(frames') = Len(u) /\ \A i \in 1 .. Len(u) : View(frames'[i]) = u[i]
  BY <1>1, <1>3, <1>5, <1>6
<1>8. Calls' = t
  BY ONLY u \in Seq(Seen), <1>6, <1>7, SameCalls
<1>9. v = [Abstract!Top EXCEPT !.res = <<>>]
  BY AbstractTop DEF v
<1> QED BY <1>8, <1>9 DEF t, b, w

LEMMA AbstractSignal ==
  ASSUME IInv, IInv', NEW h \in Handler, Signal(h)
  PROVE  Abstract!Signal(h)
<1> USE FnAssumption
<1>1. /\ frames \in Seq(Frame) /\ Len(frames) = Depth /\ Depth \in Nat /\ Depth > 0
      /\ h \in Fn /\ argv' = argv
  BY LeftFacts DEF IInv, Types, Depth, Signal
<1>2. PICK sig \in BOOLEAN : sig = TRUE
  OBVIOUS
<1>3. PICK rest \in Seq(Frame) : rest = frames
  BY <1>1
<1>4. PICK linked \in BOOLEAN : linked = FALSE
  OBVIOUS
<1>5. Enter(rest, h, sig) /\ Len(rest) = Depth
  BY <1>1, <1>2, <1>3 DEF Signal, Enter
<1>6. ~frames'[Depth + 1].really
  <2>1. frames'[Depth + 1].sig /\ Len(frames') = Depth + 1
    BY <1>1 DEF Signal, Enter, NewFrame
  <2>2. Depth' = Depth + 1 /\ Depth \in 1 .. Depth' - 1
    BY <1>1, <2>1 DEF Depth
  <2>3. StartedBy(frames'[Depth], frames'[Depth + 1])
    BY <2>2 DEF IInv, Chain
  <2> QED BY <2>1, <2>3 DEF StartedBy
<1>7. PICK bs : bs = <<>>
  OBVIOUS
<1>8. (frames'[Depth + 1].really <=> linked)
      /\ (linked => h \in Inst /\ Peeked(mem, sp + 1, Params[h]) = bs)
  BY <1>4, <1>6
<1>9. /\ Len(frames') = Depth + 1 /\ \A i \in 1 .. Depth : frames'[i] = rest[i]
      /\ View(frames'[Depth + 1]) = Abstract!NewFrame(h, sig, linked, bs)
  BY ONLY IInv, rest \in Seq(Frame), sig \in BOOLEAN, linked \in BOOLEAN, h \in Fn, <1>1, <1>5, <1>8, AbstractEnter
<1>10. Calls' = Append(Calls, View(frames'[Depth + 1]))
  <2>1. \A i \in 1 .. Depth : frames'[i] = frames[i]
    BY <1>3, <1>9
  <2> QED BY ONLY IInv, IInv', <1>9, <2>1, OneMore
<1>11. Calls' = Append(Calls, Abstract!NewFrame(h, TRUE, FALSE, <<>>))
  BY <1>2, <1>4, <1>7, <1>9, <1>10
<1> QED BY <1>1, <1>11 DEF Abstract!Signal, Calls, View

LEMMA AbstractCallMain ==
  ASSUME IInv, IInv', CallMain
  PROVE  \E linked \in BOOLEAN : Abstract!CallMain(linked)
<1> USE FnAssumption, StackAssumption
<1>1. /\ frames \in Seq(Frame) /\ Len(frames) = Depth /\ Depth \in Nat /\ Depth = 1
      /\ argv /\ argv' = FALSE /\ Enter(frames, Main, FALSE) /\ Main \in Fn /\ sp \in Nat
  BY LeftFacts DEF IInv, Types, Depth, CallMain
<1>2. PICK sig \in BOOLEAN : sig = FALSE
  OBVIOUS
<1>3. PICK rest \in Seq(Frame) : rest = frames
  BY <1>1
<1>4. PICK linked \in BOOLEAN : linked = (Main \in Inst /\ mem[sp] = Cookie(Main))
  BY Zenon
<1>5. Enter(rest, Main, sig) /\ Len(rest) = Depth
  BY <1>1, <1>2, <1>3 DEF Enter
<1>6. frames'[Depth + 1].really <=> linked
  <2>1. OnTop(rest, Main, sig, linked)
    BY ONLY IInv, rest \in Seq(Frame), sig \in BOOLEAN, linked \in BOOLEAN, <1>1, <1>4, <1>5,
       Entered
  <2> QED BY <2>1 DEF OnTop
<1>7. PICK bs : bs = Top.sent
  OBVIOUS
<1>8. linked => Main \in Inst /\ Peeked(mem, sp + 1, Params[Main]) = bs
  <2> SUFFICES ASSUME linked PROVE Main \in Inst /\ Peeked(mem, sp + 1, Params[Main]) = bs
    OBVIOUS
  <2>1. Main \in Inst /\ mem[sp] = Cookie(Main)
    BY <1>4
  <2>2. sp = StackTop - 3 /\ frames[1].sent # <<>>
    BY <2>1, FoundCookie
  <2>3. sp + 1 = StackTop - 2 /\ Params[Main] = 1
    BY <2>2
  <2>4. Peeked(mem, StackTop - 2, 1) = <<ArgvBound>>
    BY <1>1, <2>2 DEF IInv, ArgvKept
  <2>5. frames[1].sent = <<ArgvBound>> /\ Top = frames[1]
    BY <1>1, <2>2 DEF IInv, Chain, Top
  <2> QED BY <1>7, <2>1, <2>3, <2>4, <2>5
<1>80. linked => Top.sent # <<>>
  <2> SUFFICES ASSUME linked PROVE Top.sent # <<>>
    OBVIOUS
  <2>1. frames[1].sent # <<>>
    BY <1>4, FoundCookie
  <2> QED BY <1>1, <2>1 DEF Top
<1>9. /\ Len(frames') = Depth + 1 /\ \A i \in 1 .. Depth : frames'[i] = rest[i]
      /\ View(frames'[Depth + 1]) = Abstract!NewFrame(Main, sig, linked, bs)
  BY ONLY IInv, rest \in Seq(Frame), sig \in BOOLEAN, linked \in BOOLEAN, <1>1, <1>5, <1>6, <1>8,
     AbstractEnter
<1>10. Calls' = Append(Calls, View(frames'[Depth + 1]))
  <2>1. \A i \in 1 .. Depth : frames'[i] = frames[i]
    BY <1>3, <1>9
  <2> QED BY ONLY IInv, IInv', <1>9, <2>1, OneMore
<1>11. Calls' = Append(Calls, Abstract!NewFrame(Main, FALSE, linked, Top.sent))
  BY <1>2, <1>7, <1>9, <1>10
<1>12. Len(Calls) = 1 /\ Abstract!Top.sent = Top.sent
  <2>1. Top \in Frame
    BY LeftFacts
  <2> QED BY <1>1, <2>1, CallsFacts, AbstractTop, ViewFacts DEF IInv
<1>13. Calls' = Append(Calls, Abstract!NewFrame(Main, FALSE, linked, Abstract!Top.sent))
  BY <1>11, <1>12, Zenon
<1>14. linked => Main \in Inst /\ Abstract!Top.sent # <<>>
  BY <1>8, <1>80, <1>12
<1> QED BY <1>1, <1>12, <1>13, <1>14, Zenon DEF Abstract!CallMain, Calls, View

LEMMA AbstractPlainCall ==
  ASSUME IInv, IInv', NEW f \in Callable, PlainCall(f)
  PROVE  Abstract!PlainCall(f)
<1> USE FnAssumption, StackAssumption
<1>1. /\ frames \in Seq(Frame) /\ Len(frames) = Depth /\ Depth \in Nat /\ Depth > 0
      /\ argv' = argv /\ Enter(frames, f, FALSE) /\ f \in Fn /\ f # Main /\ Top.fn \notin Inst
      /\ Top \in Frame /\ Top = frames[Depth] /\ Holds(Top, sp, mem, Steady(Depth))
  BY LeftFacts DEF IInv, Types, Depth, PlainCall
<1>2. PICK sig \in BOOLEAN : sig = FALSE
  OBVIOUS
<1>3. PICK rest \in Seq(Frame) : rest = frames
  BY <1>1
<1>4. PICK linked \in BOOLEAN : linked = FALSE
  OBVIOUS
<1>5. Enter(rest, f, sig) /\ Len(rest) = Depth
  BY <1>1, <1>2, <1>3 DEF Enter
<1>6. PICK bs : bs = <<>>
  OBVIOUS
<1>7. ~frames'[Depth + 1].really
  <2>1. /\ ~frames'[Depth + 1].sig /\ frames'[Depth + 1].fn = f /\ Len(frames') = Depth + 1
        /\ frames'[Depth] = frames[Depth]
    BY <1>1 DEF Enter, NewFrame
  <2>2. Depth' = Depth + 1 /\ Depth \in 1 .. Depth' - 1
    BY <1>1, <2>1 DEF Depth
  <2>3. StartedBy(frames'[Depth], frames'[Depth + 1])
    BY <2>2 DEF IInv, Chain
  <2> QED BY <1>1, <2>1, <2>3 DEF StartedBy
<1>8. (frames'[Depth + 1].really <=> linked)
      /\ (linked => f \in Inst /\ Peeked(mem, sp + 1, Params[f]) = bs)
  BY <1>4, <1>7
<1>9. /\ Len(frames') = Depth + 1 /\ \A i \in 1 .. Depth : frames'[i] = rest[i]
      /\ View(frames'[Depth + 1]) = Abstract!NewFrame(f, sig, linked, bs)
  BY ONLY IInv, rest \in Seq(Frame), sig \in BOOLEAN, linked \in BOOLEAN, f \in Fn, <1>1, <1>5,
     <1>8, AbstractEnter
<1>10. Calls' = Append(Calls, View(frames'[Depth + 1]))
  <2>1. \A i \in 1 .. Depth : frames'[i] = frames[i]
    BY <1>3, <1>9
  <2> QED BY ONLY IInv, IInv', <1>9, <2>1, OneMore
<1>11. Calls' = Append(Calls, Abstract!NewFrame(f, FALSE, FALSE, <<>>))
  BY <1>2, <1>4, <1>6, <1>9, <1>10
<1>12. Abstract!Top.fn \notin Inst
  BY <1>1, AbstractTop, ViewFacts
<1> QED BY <1>1, <1>11, <1>12 DEF Abstract!PlainCall, Calls, View

LEMMA AbstractCallee ==
  ASSUME IInv, IInv', EnterCallee
  PROVE  Abstract!Enter
<1> USE FnAssumption, StackAssumption
<1> DEFINE f == Top.callee
           tt == [Top EXCEPT !.pc = "wait", !.res = <<>>]
<1>1. /\ frames \in Seq(Frame) /\ Len(frames) = Depth /\ Depth \in Nat /\ Depth > 0
      /\ Top \in Frame /\ Top = frames[Depth] /\ Holds(Top, sp, mem, Steady(Depth)) /\ sp \in Nat
  BY LeftFacts DEF IInv, Types, Depth
<1>2. /\ Top.pc = "call" /\ argv' = argv /\ Enter([frames EXCEPT ![Depth] = tt], f, FALSE)
  BY <1>1 DEF EnterCallee
<1>3. /\ f \in Fn /\ Top.sent \in BoundSeqs(Params[f]) /\ Top.fn \in Inst /\ Top.owed = None
      /\ Top.want \in BOOLEAN
  BY <1>1, <1>2 DEF Holds, Calling, Frame
<1>4. /\ tt \in Frame /\ tt.fn = Top.fn /\ tt.sig = Top.sig /\ tt.really = Top.really
      /\ tt.got = Top.got /\ tt.owed = Top.owed /\ tt.res = <<>>
      /\ tt.callee = f /\ tt.sent = Top.sent /\ tt.want = Top.want
  <2>1. tt \in Frame
    <3>1. <<>> \in Seq(Any)
      OBVIOUS
    <3> QED BY <1>1, <3>1 DEF Frame
  <2> QED BY <1>1, <2>1 DEF Frame
<1> HIDE DEF f, tt
<1>5. PICK rest \in Seq(Frame) : rest = [frames EXCEPT ![Depth] = tt]
  <2>1. [frames EXCEPT ![Depth] = tt] \in Seq(Frame)
    BY <1>1, <1>4
  <2> QED BY ONLY <2>1, Zenon
<1>6. PICK sig \in BOOLEAN : sig = FALSE
  OBVIOUS
<1>7. PICK g \in Fn : g = f
  BY <1>3
<1>8. PICK really \in BOOLEAN : really = (g \in Inst /\ mem[sp] = Cookie(g))
  BY Zenon
<1>9. /\ g \in Fn /\ Len(rest) = Depth /\ Enter(rest, g, sig)
  <2>1. Len(rest) = Depth
    BY <1>1, <1>5
  <2>2. Enter(rest, g, sig)
    BY <1>2, <1>5, <1>6, <1>7, Zenon
  <2> QED BY <2>1, <2>2
<1>10. OnTop(rest, g, sig, really)
  BY ONLY IInv, rest \in Seq(Frame), sig \in BOOLEAN, really \in BOOLEAN, <1>8, <1>9, Entered
<1>11. /\ frames'[Depth] = tt /\ Len(frames') = Depth + 1
       /\ \A i \in 1 .. Depth - 1 : frames'[i] = frames[i]
       /\ frames'[Depth + 1].fn = g /\ ~frames'[Depth + 1].sig
  <2>1. rest[Depth] = tt /\ \A i \in 1 .. Depth - 1 : rest[i] = frames[i]
    BY <1>1, <1>5
  <2>2. Depth \in 1 .. Depth /\ \A i \in 1 .. Depth - 1 : i \in 1 .. Depth
    BY <1>1
  <2> QED BY <1>6, <1>10, <2>1, <2>2 DEF OnTop
<1>12. frames'[Depth + 1].really <=> g \in Inst /\ Uses(Top)
  <2>1. Depth' = Depth + 1 /\ Depth \in 1 .. Depth' - 1
    BY <1>1, <1>11 DEF Depth
  <2>2. StartedBy(frames'[Depth], frames'[Depth + 1])
    BY <2>1 DEF IInv, Chain
  <2>3. Uses(tt) <=> Uses(Top)
    BY <1>4 DEF Uses, f
  <2> QED BY <1>3, <1>4, <1>11, <2>2, <2>3 DEF StartedBy
<1>13. PICK linked \in BOOLEAN : linked = (g \in Inst /\ Uses(Top))
  BY Zenon
<1>14. PICK bs \in BoundSeqs(Params[g]) : bs = Top.sent
  BY <1>3, <1>7
<1>15. linked => g \in Inst /\ Peeked(mem, sp + 1, Params[g]) = bs
  <2> SUFFICES ASSUME g \in Inst, Uses(Top) PROVE Peeked(mem, sp + 1, Params[g]) = bs
    BY <1>13
  <2>1. sp = Top.cookie /\ Peeked(mem, Top.cookie + 1, Len(Top.sent)) = Top.sent
    BY <1>1, <1>2 DEF Holds, CookiePushed
  <2>2. Len(Top.sent) = Params[f]
    BY <1>3, BoundSeqFacts
  <2> QED BY <1>7, <1>14, <2>1, <2>2
<1>16. View(frames'[Depth + 1]) = Abstract!NewFrame(g, sig, linked, bs)
  <2>1. frames'[Depth + 1].really <=> linked
    BY <1>12, <1>13
  <2> QED BY ONLY IInv, rest \in Seq(Frame), sig \in BOOLEAN, linked \in BOOLEAN, <1>9, <1>15, <2>1,
             AbstractEnter
<1>17. View(frames'[Depth]) = [View(Top) EXCEPT !.res = <<>>]
  <2>1. PICK v \in Seen : v = View(Top)
    BY <1>1, ViewFacts
  <2>2. PICK w \in Seen : w = View(tt)
    BY <1>4, ViewFacts
  <2>3. /\ w.fn = v.fn /\ w.sig = v.sig /\ w.linked = v.linked /\ w.got = v.got
        /\ w.callee = v.callee /\ w.sent = v.sent /\ w.want = v.want
        /\ w.owed = v.owed /\ w.res = <<>>
    BY <1>1, <1>4, <2>1, <2>2, ViewFacts DEF f
  <2>4. w = [v EXCEPT !.res = <<>>]
    BY ONLY v \in Seen, w \in Seen, <2>3 DEF Seen
  <2> QED BY <1>11, <2>1, <2>2, <2>4
<1>18. Calls' = Abstract!Below \o <<[Abstract!Top EXCEPT !.res = <<>>], View(frames'[Depth + 1])>>
  BY ONLY IInv, IInv', <1>11, <1>17, OneMoreCall
<1>19. Calls' = Abstract!Below \o <<[Abstract!Top EXCEPT !.res = <<>>],
                                    Abstract!NewFrame(g, FALSE, linked, bs)>>
  BY <1>6, <1>16, <1>18
<1>20. /\ Abstract!Top.owed = None /\ Abstract!Top.callee = g /\ Abstract!Top.sent = bs
       /\ Abstract!Top.want = Top.want
  BY <1>1, <1>3, <1>7, <1>14, AbstractTop, ViewFacts DEF f
<1>21. PICK want \in BOOLEAN : want = Top.want
  BY <1>3
<1>22. linked = (g \in Inst /\ (Params[g] > 0 \/ (want /\ Results[g] > 0)))
  <2>1. Uses(Top) <=> Params[g] > 0 \/ (want /\ Results[g] > 0)
    BY <1>7, <1>21 DEF Uses, UsesStack, f
  <2>2. linked <=> g \in Inst /\ (Params[g] > 0 \/ (want /\ Results[g] > 0))
    BY <1>13, <2>1, Zenon
  <2> QED BY <2>2, Zenon
<1>23. g # None
  BY NoneAssumption
<1>24. /\ Abstract!Top.callee # None /\ Abstract!Top.owed = None
       /\ linked = (/\ Abstract!Top.callee \in Inst
                    /\ (\/ Params[Abstract!Top.callee] > 0
                        \/ (Abstract!Top.want /\ Results[Abstract!Top.callee] > 0)))
       /\ Calls' = Abstract!Below \o <<[Abstract!Top EXCEPT !.res = <<>>],
                     Abstract!NewFrame(Abstract!Top.callee, FALSE, linked, Abstract!Top.sent)>>
  BY <1>19, <1>20, <1>21, <1>22, <1>23, Zenon
<1> QED BY <1>2, <1>24, Zenon DEF Abstract!Enter, Calls, View

LEMMA AbstractReturn ==
  ASSUME IInv, IInv', NEW rs \in BoundSeqs(Results[Top.fn]), Return(rs)
  PROVE  Abstract!Return(rs)
<1> USE FnAssumption, StackAssumption
<1>1. /\ Depth \in Nat /\ Depth > 1 /\ Top \in Frame /\ Top.pc = "run" /\ argv' = argv
      /\ Holds(Top, sp, mem, Steady(Depth)) /\ \A i \in 1 .. Depth : frames[i] \in Frame
  BY LeftFacts DEF Return
<1>2. PICK n \in 1 .. Depth : n = Depth - 1
  BY <1>1
<1> DEFINE cl == frames[n]
           fr2 == Resumed(cl, Top, rs)
           B == Abstract!Below
           o == [from |-> Top.fn, bs |-> IF Top.really THEN rs ELSE <<>>]
           t == IF Top.sig \/ cl.fn \notin Inst THEN B ELSE [B EXCEPT ![n] = View(fr2)]
<1>3. /\ frames' \in Seq(Frame) /\ Len(frames') = n /\ frames'[n] = fr2
      /\ \A i \in 1 .. n - 1 : frames'[i] = frames[i]
  BY ONLY IInv, rs \in BoundSeqs(Results[Top.fn]), Return(rs), n \in 1 .. Depth, <1>2, ReturnFrames
<1>4. /\ B \in Seq(Seen) /\ Len(B) = n /\ \A i \in 1 .. n : B[i] = View(frames[i])
      /\ Abstract!Top = View(Top) /\ Types /\ Types' /\ n \in Nat /\ n \in 1 .. n
      /\ cl \in Frame
  BY <1>1, <1>2, AbstractTop DEF IInv
<1>5. fr2 \in Frame /\ View(fr2) \in Seen
  <2>1. fr2 \in Frame
    BY <1>3, <1>4
  <2> QED BY <2>1, ViewFacts
<1> HIDE DEF fr2, B
<1>6. t \in Seq(Seen) /\ Len(t) = n /\ \A i \in 1 .. n : View(frames'[i]) = t[i]
  <2>1. CASE Top.sig \/ cl.fn \notin Inst
    <3>1. fr2 = cl
      BY <2>1 DEF fr2, Resumed
    <3>2. \A i \in 1 .. n : i = n \/ i \in 1 .. n - 1
      BY <1>4
    <3>3. t = B
      BY <2>1
    <3> HIDE DEF t
    <3> QED BY <1>3, <1>4, <3>1, <3>2, <3>3
  <2>2. CASE ~(Top.sig \/ cl.fn \notin Inst)
    <3>1. t = [B EXCEPT ![n] = View(fr2)]
      BY <2>2
    <3>2. \A i \in 1 .. n : i = n \/ i \in 1 .. n - 1
      BY <1>4
    <3> HIDE DEF t
    <3> QED BY <1>3, <1>4, <1>5, <3>1, <3>2
  <2> QED BY <2>1, <2>2
<1> HIDE DEF t
<1>7. Calls' = t
  <2>1. PICK u \in Seq(Seen) : u = t
    BY <1>6, Zenon
  <2>2. Types /\ Types' /\ Len(frames') = Len(u) /\ \A i \in 1 .. Len(u) : View(frames'[i]) = u[i]
    BY <1>3, <1>4, <1>6, <2>1
  <2> QED BY ONLY u \in Seq(Seen), <2>1, <2>2, SameCalls
<1>8. cl.fn \in Inst /\ ~Top.sig => View(fr2) = [B[n] EXCEPT !.owed = o]
  <2> SUFFICES ASSUME cl.fn \in Inst, ~Top.sig PROVE View(fr2) = [View(cl) EXCEPT !.owed = o]
    BY <1>4
  <2>1. PICK v \in Seen : v = View(cl)
    BY <1>4, ViewFacts
  <2>2. PICK w \in Seen : w = View(fr2)
    BY <1>5
  <2>3. /\ fr2.owed # None /\ fr2.owed.from = Top.fn /\ fr2.owed.bs = IF Top.really THEN rs ELSE <<>>
        /\ fr2.fn = cl.fn /\ fr2.sig = cl.sig /\ fr2.really = cl.really /\ fr2.got = cl.got
        /\ fr2.res = cl.res /\ fr2.callee = cl.callee /\ fr2.sent = cl.sent
        /\ fr2.want = cl.want
    BY <1>1, <1>4, ResumedFacts DEF fr2
  <2>4. fr2.owed = o
    <3>1. fr2.owed \in [from : Fn, bs : Seq(Bound)]
      BY <1>5, <2>3 DEF Frame
    <3> QED BY <2>3, <3>1
  <2> HIDE DEF o, cl
  <2>5. /\ w.fn = v.fn /\ w.sig = v.sig /\ w.linked = v.linked /\ w.got = v.got
        /\ w.callee = v.callee /\ w.sent = v.sent /\ w.want = v.want
        /\ w.owed = o /\ w.res = v.res
    BY <1>4, <1>5, <2>1, <2>2, <2>3, <2>4, ViewFacts
  <2>6. w = [v EXCEPT !.owed = o]
    BY ONLY v \in Seen, w \in Seen, <2>5 DEF Seen
  <2> QED BY <2>1, <2>2, <2>6
<1>9. /\ View(Top).owed = None /\ View(Top).sig = Top.sig /\ View(Top).fn = Top.fn
      /\ View(Top).linked = Top.really /\ B[n].fn = cl.fn /\ View(Top).callee = None
  <2>1. Top.owed = None /\ Top.callee = None
    BY <1>1 DEF Holds, Running
  <2> QED BY <1>1, <1>4, <2>1, ViewFacts
<1>10. Calls' = IF View(Top).sig \/ B[n].fn \notin Inst THEN B
                ELSE [B EXCEPT ![n].owed =
                       [from |-> View(Top).fn, bs |-> IF View(Top).linked THEN rs ELSE <<>>]]
  BY <1>7, <1>8, <1>9 DEF t
<1>11. Len(Calls) = Depth /\ Len(Calls) - 1 = n
  BY <1>1, <1>2, <1>4, CallsFacts
<1>12. /\ Len(Calls) > 1 /\ Abstract!Top.owed = None /\ Abstract!Top.callee = None
       /\ Calls' = IF Abstract!Top.sig \/ Abstract!Below[Len(Calls) - 1].fn \notin Inst
                   THEN Abstract!Below
                   ELSE [Abstract!Below EXCEPT ![Len(Calls) - 1].owed =
                          [from |-> Abstract!Top.fn,
                           bs |-> IF Abstract!Top.linked THEN rs ELSE <<>>]]
  BY <1>1, <1>4, <1>9, <1>10, <1>11 DEF B
<1> QED BY <1>1, <1>12 DEF Abstract!Return, Calls, View

LEMMA AbstractLongJump ==
  ASSUME IInv, IInv', NEW n \in 1 .. Depth, LongJump(n)
  PROVE  Abstract!LongJump(n)
<1>1. /\ Depth \in Nat /\ 1 < n /\ n < Depth /\ argv' = argv
      /\ \A i \in 1 .. Depth : frames[i] \in Frame
      /\ \A i \in 1 .. Depth : ~frames[i].sig
  BY LeftFacts DEF LongJump
<1>2. /\ Calls \in Seq(Seen) /\ Len(Calls) = Depth /\ Types /\ Types'
      /\ \A i \in 1 .. Depth : Calls[i] = View(frames[i])
  BY CallsFacts DEF IInv
<1> DEFINE s == SubSeq(Calls, 1, n)
           v == View(frames[n])
           v2 == [v EXCEPT !.callee = None, !.sent = <<>>, !.want = FALSE]
           t == [s EXCEPT ![n] = v2]
<1>3. /\ s \in Seq(Seen) /\ Len(s) = n /\ n \in Nat /\ n \in 1 .. n
      /\ \A i \in 1 .. n : s[i] = View(frames[i])
  <2> HIDE DEF Calls
  <2> QED BY <1>1, <1>2
<1> HIDE DEF s
<1>4. v \in Seen /\ s[n] = v
  BY <1>1, <1>3, ViewFacts
<1>5. v2 \in Seen
  <2> HIDE DEF v
  <2>1. <<>> \in Seq(Bound)
    OBVIOUS
  <2> QED BY <1>4, <2>1 DEF Seen
<1> HIDE DEF v2
<1>6. t \in Seq(Seen) /\ Len(t) = n /\ t[n] = v2 /\ \A i \in 1 .. n - 1 : t[i] = View(frames[i])
  BY <1>3, <1>5
<1>7. Len(frames') = n /\ \A i \in 1 .. n : View(frames'[i]) = t[i]
  <2> DEFINE rest == SubSeq(frames, 1, n)
             fr2 == [frames[n] EXCEPT !.pc = "run", !.callee = None, !.sent = <<>>,
                                      !.want = FALSE, !.saved = 0, !.cookie = 0]
  <2>1. rest \in Seq(Frame) /\ Len(rest) = n /\ \A i \in 1 .. n : rest[i] = frames[i]
    BY <1>1 DEF IInv, Types, Depth
  <2>3. frames' = [rest EXCEPT ![n] = fr2]
    <3>1. frames' = [rest EXCEPT ![n] =
                       [@ EXCEPT !.pc = "run", !.callee = None, !.sent = <<>>,
                                 !.want = FALSE, !.saved = 0, !.cookie = 0]]
      BY DEF LongJump
    <3>2. rest[n] = frames[n]
      BY <1>3, <2>1
    <3> QED BY <3>1, <3>2
  <2>4. /\ fr2.fn = frames[n].fn /\ fr2.sig = frames[n].sig /\ fr2.really = frames[n].really
        /\ fr2.got = frames[n].got /\ fr2.owed = frames[n].owed /\ fr2.res = frames[n].res
        /\ fr2.callee = None /\ fr2.sent = <<>> /\ fr2.want = FALSE
    BY <1>1 DEF Frame
  <2> HIDE DEF fr2, rest
  <2>6. Len(frames') = n /\ frames'[n] = fr2 /\ \A i \in 1 .. n - 1 : frames'[i] = frames[i]
    BY <1>3, <2>1, <2>3
  <2>5. View(fr2) = v2
    <3>1. fr2 \in Frame
      BY <1>2, <1>3, <2>6 DEF Types
    <3>2. PICK w \in Seen : w = View(fr2)
      BY <3>1, ViewFacts
    <3>3. PICK u \in Seen : u = v
      BY <1>4
    <3>4. /\ w.fn = u.fn /\ w.sig = u.sig /\ w.linked = u.linked /\ w.got = u.got
          /\ w.owed = u.owed /\ w.res = u.res
          /\ w.callee = None /\ w.sent = <<>> /\ w.want = FALSE
      BY <1>1, <2>4, <3>1, <3>2, <3>3, ViewFacts
    <3>5. w = [u EXCEPT !.callee = None, !.sent = <<>>, !.want = FALSE]
      BY ONLY u \in Seen, w \in Seen, <3>4 DEF Seen
    <3> QED BY <3>2, <3>3, <3>5 DEF v2
  <2>7. \A i \in 1 .. n : i = n \/ i \in 1 .. n - 1
    BY <1>3
  <2> HIDE DEF t
  <2> QED BY <1>6, <2>5, <2>6, <2>7
<1> HIDE DEF t
<1>8. Calls' = t
  <2>1. PICK u \in Seq(Seen) : u = t
    BY <1>6, Zenon
  <2>2. Types /\ Types' /\ Len(frames') = Len(u) /\ \A i \in 1 .. Len(u) : View(frames'[i]) = u[i]
    BY <1>2, <1>6, <1>7, <2>1
  <2> QED BY ONLY u \in Seq(Seen), <2>1, <2>2, SameCalls
<1>9. \A i \in n + 1 .. Len(Calls) : ~Calls[i].sig
  <2> TAKE i \in n + 1 .. Len(Calls)
  <2>1. i \in 1 .. Depth
    BY <1>1, <1>2
  <2> QED BY <1>1, <1>2, <2>1, ViewFacts
<1>10. n < Len(Calls)
  BY <1>1, <1>2
<1>11. Calls' = [SubSeq(Calls, 1, n) EXCEPT ![n] =
                   [@ EXCEPT !.callee = None, !.sent = <<>>, !.want = FALSE]]
  BY <1>4, <1>8 DEF t, v2, s
<1> QED BY <1>1, <1>9, <1>10, <1>11 DEF Abstract!LongJump, Calls, View

LEMMA AbstractDeliver ==
  ASSUME IInv, IInv', ~Indirect, AfterCall
  PROVE  Abstract!Deliver
<1> USE FnAssumption, StackAssumption
<1>1. /\ Depth \in Nat /\ Depth > 0 /\ Top \in Frame /\ Top = frames[Depth] /\ frames \in Seq(Frame)
      /\ Len(frames) = Depth /\ Holds(Top, sp, mem, Steady(Depth))
  BY LeftFacts DEF IInv, Types, Depth
<1>2. Top.pc = "back" /\ argv' = argv
  BY DEF AfterCall
<1> DEFINE r == IF Top.want THEN TakenBack(Top, Top.callee) ELSE <<>>
           fr2 == [Top EXCEPT !.pc = "run", !.owed = None, !.callee = None, !.sent = <<>>,
                              !.want = FALSE, !.saved = 0, !.cookie = 0, !.res = r]
           B == Abstract!Below
           t == Append(B, View(fr2))
<1>3. frames' = [frames EXCEPT ![Depth] = fr2]
  <2>1. PICK g \in Denoted(Top.callee) :
          frames' = [frames EXCEPT ![Depth] =
            [@ EXCEPT !.pc = "run", !.owed = None, !.callee = None, !.sent = <<>>,
                      !.want = FALSE, !.saved = 0, !.cookie = 0,
                      !.res = IF Top.want THEN TakenBack(Top, g) ELSE <<>>]]
    BY DEF AfterCall
  <2>2. g = Top.callee
    BY DEF Denoted
  <2> QED BY <1>1, <2>1, <2>2
<1>4. /\ fr2.fn = Top.fn /\ fr2.sig = Top.sig /\ fr2.really = Top.really /\ fr2.got = Top.got
      /\ fr2.owed = None /\ fr2.res = r /\ fr2.callee = None /\ fr2.sent = <<>> /\ fr2.want = FALSE
  BY <1>1 DEF Frame
<1> HIDE DEF fr2, B
<1>5. /\ B \in Seq(Seen) /\ Len(B) = Depth - 1 /\ \A i \in 1 .. Depth - 1 : B[i] = View(frames[i])
      /\ Abstract!Top = View(Top) /\ Types /\ Types'
  BY AbstractTop DEF IInv, B
<1>6. /\ Len(frames') = Depth /\ frames'[Depth] = fr2
      /\ \A i \in 1 .. Depth - 1 : frames'[i] = frames[i]
  BY <1>1, <1>3
<1>7. fr2 \in Frame /\ View(fr2) \in Seen
  <2>1. fr2 \in Frame
    BY <1>1, <1>5, <1>6 DEF Types
  <2> QED BY <2>1, ViewFacts
<1>8. t \in Seq(Seen) /\ Len(t) = Depth /\ \A i \in 1 .. Depth : View(frames'[i]) = t[i]
  <2>1. /\ t \in Seq(Seen) /\ Len(t) = Depth /\ t[Depth] = View(fr2)
        /\ \A i \in 1 .. Depth - 1 : t[i] = B[i]
    BY <1>1, <1>5, <1>7
  <2>2. \A i \in 1 .. Depth : i = Depth \/ i \in 1 .. Depth - 1
    BY <1>1
  <2> HIDE DEF t
  <2> QED BY <1>5, <1>6, <2>1, <2>2
<1> HIDE DEF t
<1>9. Calls' = t
  <2>1. PICK u \in Seq(Seen) : u = t
    BY <1>8, Zenon
  <2>2. Types /\ Types' /\ Len(frames') = Len(u) /\ \A i \in 1 .. Len(u) : View(frames'[i]) = u[i]
    BY <1>5, <1>6, <1>8, <2>1
  <2> QED BY ONLY u \in Seq(Seen), <2>1, <2>2, SameCalls
<1> HIDE DEF r
<1>10. View(fr2) = [View(Top) EXCEPT !.owed = None, !.res = r, !.callee = None,
                                      !.sent = <<>>, !.want = FALSE]
  <2>1. PICK v \in Seen : v = View(Top)
    BY <1>1, ViewFacts
  <2>2. PICK w \in Seen : w = View(fr2)
    BY <1>7
  <2>3. /\ w.fn = v.fn /\ w.sig = v.sig /\ w.linked = v.linked /\ w.got = v.got
        /\ w.owed = None /\ w.res = r /\ w.callee = None /\ w.sent = <<>> /\ w.want = FALSE
    BY <1>1, <1>4, <1>7, <2>1, <2>2, ViewFacts
  <2>4. w = [v EXCEPT !.owed = None, !.res = r, !.callee = None, !.sent = <<>>, !.want = FALSE]
    BY ONLY v \in Seen, w \in Seen, <2>3 DEF Seen
  <2> QED BY <2>1, <2>2, <2>4
<1>11. /\ View(Top).owed = Top.owed /\ View(Top).want = Top.want /\ Top.owed # None /\ Top.want \in BOOLEAN
  <2>1. Top.owed # None
    BY <1>1, <1>2 DEF Holds, ResultsPushed
  <2>2. Top.want \in BOOLEAN
    BY <1>1 DEF Frame
  <2> QED BY <1>1, <2>1, <2>2, ViewFacts
<1>12. r = IF ~Top.want THEN <<>>
           ELSE IF Top.owed.bs # <<>> THEN Top.owed.bs ELSE Abstract!AllInvalid(Results[Top.owed.from])
  <2>1. AllInvalid(Results[Top.owed.from]) = Abstract!AllInvalid(Results[Top.owed.from])
    BY DEF AllInvalid, Abstract!AllInvalid
  <2> QED BY <1>2, <2>1, TakenBackFacts DEF r
<1>13. /\ Abstract!Top.owed # None
       /\ Calls' = Append(Abstract!Below,
                          [Abstract!Top EXCEPT !.owed = None,
                             !.res = IF ~Abstract!Top.want THEN <<>>
                                     ELSE IF Abstract!Top.owed.bs # <<>> THEN Abstract!Top.owed.bs
                                     ELSE Abstract!AllInvalid(Results[Abstract!Top.owed.from]),
                             !.callee = None, !.sent = <<>>, !.want = FALSE])
  BY <1>5, <1>9, <1>10, <1>11, <1>12 DEF t, B
<1> QED BY <1>2, <1>13 DEF Abstract!Deliver, Calls, View

\* Pushing the arguments' bounds passes them.
LEMMA AbstractPass ==
  ASSUME IInv, IInv', NEW f \in Callable, NEW want \in BOOLEAN, NEW bs \in BoundSeqs(Params[f]),
         BeginCall(f, bs, want)
  PROVE  Abstract!Pass(f, bs, want)
<1> USE FnAssumption
<1>1. /\ Depth \in Nat /\ Depth > 0 /\ Depth \in 1 .. Depth /\ Top \in Frame /\ Top = frames[Depth]
      /\ frames \in Seq(Frame) /\ Len(frames) = Depth /\ Holds(Top, sp, mem, Steady(Depth))
  BY LeftFacts DEF IInv, Types, Depth
<1> DEFINE fr2 == [Top EXCEPT !.pc = IF UsesStack(f, want) THEN "args" ELSE "call", !.callee = f,
                              !.sent = bs, !.want = want, !.saved = sp]
           v == View(Top)
           v2 == [v EXCEPT !.callee = f, !.sent = bs, !.want = want]
           t == [Calls EXCEPT ![Depth] = v2]
<1>2. frames' = [frames EXCEPT ![Depth] = fr2] /\ argv' = argv /\ Top.fn \in Inst /\ Top.pc = "run"
  BY DEF BeginCall, Top
<1>3. /\ fr2.fn = Top.fn /\ fr2.sig = Top.sig /\ fr2.really = Top.really /\ fr2.got = Top.got
      /\ fr2.owed = Top.owed /\ fr2.res = Top.res
      /\ fr2.callee = f /\ fr2.sent = bs /\ fr2.want = want
  BY <1>1 DEF Frame
<1> HIDE DEF fr2
<1>4. /\ Len(frames') = Depth /\ frames'[Depth] = fr2
      /\ \A i \in 1 .. Depth : i # Depth => frames'[i] = frames[i]
  BY <1>1, <1>2
<1>5. /\ Calls \in Seq(Seen) /\ Len(Calls) = Depth /\ Types /\ Types'
      /\ \A i \in 1 .. Depth : Calls[i] = View(frames[i])
  BY CallsFacts DEF IInv
<1>6. View(fr2) = v2 /\ v2 \in Seen
  <2>1. fr2 \in Frame
    BY <1>1, <1>4, <1>5 DEF Types
  <2>2. PICK w \in Seen : w = View(fr2)
    BY <2>1, ViewFacts
  <2>3. PICK u \in Seen : u = v
    BY <1>1, ViewFacts
  <2>4. /\ w.fn = u.fn /\ w.sig = u.sig /\ w.linked = u.linked /\ w.got = u.got
        /\ w.owed = u.owed /\ w.res = u.res
        /\ w.callee = f /\ w.sent = bs /\ w.want = want
    BY <1>1, <1>3, <2>1, <2>2, <2>3, ViewFacts
  <2>5. w = [u EXCEPT !.callee = f, !.sent = bs, !.want = want]
    BY ONLY u \in Seen, w \in Seen, <2>4 DEF Seen
  <2> QED BY <2>2, <2>3, <2>5
<1> HIDE DEF v2, Calls
<1>7. t \in Seq(Seen) /\ Len(t) = Depth /\ t[Depth] = v2
      /\ \A i \in 1 .. Depth : i # Depth => t[i] = Calls[i]
  BY <1>1, <1>5, <1>6
<1> HIDE DEF t
<1>8. Calls' = t
  <2>1. PICK u \in Seq(Seen) : u = t
    BY <1>7, Zenon
  <2>2. Types /\ Types' /\ Len(frames') = Len(u) /\ \A i \in 1 .. Len(u) : View(frames'[i]) = u[i]
    BY <1>4, <1>5, <1>6, <1>7, <2>1
  <2> QED BY ONLY u \in Seq(Seen), <2>1, <2>2, SameCalls
<1>9. Calls[Depth] = v
  BY <1>1, <1>5
<1>10. Calls' = [Calls EXCEPT ![Len(Calls)] =
                   [@ EXCEPT !.callee = f, !.sent = bs, !.want = want]]
  BY <1>5, <1>8, <1>9 DEF t, v2
<1>11. Abstract!Top.fn \in Inst /\ Abstract!Top.callee = None
  <2>1. Top.callee = None
    BY <1>1, <1>2 DEF Holds, Running
  <2> QED BY <1>1, <1>2, <2>1, AbstractTop, ViewFacts
<1> QED BY <1>2, <1>10, <1>11 DEF Abstract!Pass, Calls, View

LEMMA AbstractStep ==
  ASSUME HandlersApart, ~Indirect, IInv, IInv', [Next]_vars
  PROVE  Abstract!Next \/ UNCHANGED <<Calls, argv>>
<1> USE FnAssumption
<1>1. ASSUME NEW f \in Callable, NEW want \in BOOLEAN, NEW bs \in BoundSeqs(Params[f]),
             want => Results[f] > 0, BeginCall(f, bs, want)
      PROVE  Abstract!Next
  <2>1. Abstract!Pass(f, bs, want)
    BY <1>1, AbstractPass
  <2>2. f \in Fn /\ bs \in Abstract!BoundSeqs(Params[f])
    BY DEF BoundSeqs, Abstract!BoundSeqs
  <2> QED BY <2>1, <2>2 DEF Abstract!Next
<1>2. CASE PushCookie
  <2> DEFINE fr2 == [Top EXCEPT !.pc = "call", !.cookie = sp - 1]
  <2>1. frames' = [frames EXCEPT ![Depth] = fr2] /\ argv' = argv
    BY <1>2 DEF PushCookie, Top
  <2>2. View(fr2) = View(Top)
    <3>1. Top \in Frame
      BY LeftFacts
    <3>2. /\ fr2.fn = Top.fn /\ fr2.sig = Top.sig /\ fr2.really = Top.really /\ fr2.got = Top.got
          /\ fr2.callee = Top.callee /\ fr2.sent = Top.sent /\ fr2.want = Top.want
          /\ fr2.owed = Top.owed /\ fr2.res = Top.res
      BY <3>1 DEF Frame
    <3> HIDE DEF fr2
    <3> QED BY <3>2, Zenon DEF View
  <2> HIDE DEF fr2
  <2>3. Len(frames') = Depth /\ \A i \in 1 .. Depth : View(frames'[i]) = View(frames[i])
    BY <2>1, <2>2, LeftFacts DEF IInv, Types, Depth
  <2> QED BY <2>1, <2>3, AbstractStutter
<1>3. CASE EnterCallee
  BY <1>3, AbstractCallee DEF Abstract!Next
<1>4. ASSUME NEW f \in Callable, PlainCall(f) PROVE Abstract!Next
  BY <1>4, AbstractPlainCall DEF Abstract!Next
<1>5. CASE CallMain
  BY <1>5, AbstractCallMain DEF Abstract!Next
<1>6. ASSUME NEW h \in Handler, Signal(h) PROVE Abstract!Next
  BY <1>6, AbstractSignal DEF Abstract!Next
<1>7. ASSUME NEW rs \in BoundSeqs(Results[Top.fn]), Return(rs) PROVE Abstract!Next
  <2>1. Abstract!Return(rs)
    BY <1>7, AbstractReturn
  <2>2. Abstract!Top.fn = Top.fn
    BY AbstractTop, LeftFacts, ViewFacts
  <2>3. rs \in Abstract!BoundSeqs(Results[Abstract!Top.fn])
    BY <2>2 DEF BoundSeqs, Abstract!BoundSeqs
  <2> QED BY <2>1, <2>3 DEF Abstract!Next
<1>8. CASE AfterCall
  BY <1>8, AbstractDeliver DEF Abstract!Next
<1>9. ASSUME NEW n \in 1 .. Depth, LongJump(n) PROVE Abstract!Next
  <2>1. n \in 2 .. Len(Calls) - 1
    BY <1>9, CallsFacts DEF IInv, LongJump
  <2> QED BY <1>9, <2>1, AbstractLongJump DEF Abstract!Next, Calls, View
<1>10. CASE UNCHANGED vars
  BY <1>10 DEF vars, Calls, Depth, View
<1> QED BY <1>1, <1>2, <1>3, <1>4, <1>5, <1>6, <1>7, <1>8, <1>9, <1>10 DEF Next

\* The bounds stack implements BoundsPassing: every instrumented function gets
\* the bounds that its own caller passed in this very call, or invalid ones, and
\* gives back bounds to exactly that caller.
THEOREM Implements ==
  ASSUME HandlersApart, ~Indirect
  PROVE  Spec => AbstractSpec
<1>1. Init => Abstract!Init
  BY AbstractInit
<1>2. IInv /\ IInv' /\ [Next]_vars =>
        [Abstract!Next]_<<[i \in 1 .. Depth |->
           [fn |-> frames[i].fn, sig |-> frames[i].sig, linked |-> frames[i].really,
            got |-> frames[i].got, callee |-> frames[i].callee, sent |-> frames[i].sent,
            want |-> frames[i].want, owed |-> frames[i].owed, res |-> frames[i].res]], argv>>
  BY AbstractStep DEF Calls, View
<1> QED BY <1>1, <1>2, Invariant, PTL DEF Spec, AbstractSpec, Abstract!Spec
=============================================================================
