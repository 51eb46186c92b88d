---------------------------- MODULE BoundsStack ----------------------------
(***************************************************************************)
(* The bounds stack: how instrumented functions pass bounds of pointer     *)
(* arguments and results to each other, over a second stack that           *)
(* uninstrumented functions know nothing of.                               *)
(*                                                                         *)
(* The caller (crunchbound.ml, vinst) pushes the arguments' bounds and     *)
(* then a cookie, the callee's address.  The callee (vfunc) takes bounds   *)
(* only if it finds its own address on top, and then tweaks the cookie so  *)
(* that nobody finds it again; it pushes its result's bounds (vstmt) only  *)
(* if it took some.  The caller looks at the cookie once more to see       *)
(* whether results were pushed, and resets the stack pointer.              *)
(*                                                                         *)
(* One action is one inline helper of libcrunch_cil_inlines.h, or a run of *)
(* them between which a signal cannot matter; signals and longjmp come     *)
(* between any two.  The stack of one thread is modelled.                  *)
(***************************************************************************)
EXTENDS Naturals, Sequences, FiniteSets

CONSTANTS
  Fn, Inst, Params, Results, Bound, Start, Main, ArgvBound, Invalid, None,
             \* as in BoundsPassing
  Callable,  \* functions that the program calls, other than main
  Handler,   \* functions that signals call
  Indirect,  \* TRUE: calls go through function pointer variables, which the
             \* callee may have assigned by the time the call returns
  Garbled,   \* bounds read from words that hold no bounds
  StackTop,  \* highest word of the mapping; the lowest is word 0
  MaxDepth,  \* bound on the depth of the call stack
  MaxJumps   \* bound on the number of longjmps

ASSUME FnAssumption ==
  /\ Inst \subseteq Fn /\ Start \in Fn \ Inst /\ Main \in Fn \ {Start}
  /\ Params \in [Fn -> Nat] /\ Results \in [Fn -> Nat]
  /\ Callable \subseteq Fn \ {Start, Main} /\ Handler \subseteq Fn \ {Start, Main}
  /\ Callable \intersect Handler = {}
  /\ Params[Main] = 1 /\ Results[Main] = 0   \* argv; main returns an int

ASSUME StackAssumption ==
  /\ StackTop \in Nat /\ StackTop >= 3 /\ MaxDepth \in Nat /\ MaxJumps \in Nat
  /\ ArgvBound \in Bound /\ Invalid \notin Bound /\ Garbled \notin Bound
  /\ Indirect \in BOOLEAN /\ None \notin [from : Fn, bs : Seq(Bound)]

ASSUME NoneAssumption == None \notin Fn

VARIABLES
  mem,     \* the words of the mapping
  sp,      \* __bounds_sp
  frames,  \* the call stack of the thread, innermost last
  argv,    \* history: main has not started yet
  jumps    \* history: number of longjmps

vars == <<mem, sp, frames, argv, jumps>>

-----------------------------------------------------------------------------
(* Words *)

Zero       == <<"zero", None>>
Cookie(f)  == <<"cookie", f>>
Tweaked(f) == <<"tweaked", f>>

\* The two words of each bounds value in turn, base first.
Words(bs) ==
  [i \in 1 .. 2 * Len(bs) |-> <<IF i % 2 = 1 THEN "base" ELSE "size", bs[(i + 1) \div 2]>>]

\* Memory m with words ws just below address a.
Pushed(m, a, ws) ==
  [x \in DOMAIN m |-> IF a - Len(ws) <= x /\ x < a THEN ws[x - (a - Len(ws)) + 1] ELSE m[x]]

\* There is room to push n words.
Room(n) == sp >= n

\* __builtin_memcpy of a bounds value out of the stack.
BoundsAt(m, a) ==
  IF a + 1 <= StackTop /\ m[a][1] = "base" /\ m[a + 1] = <<"size", m[a][2]>>
    THEN m[a][2] ELSE Garbled

\* n bounds values from address a up.
Peeked(m, a, n) == [i \in 1 .. n |-> BoundsAt(m, a + 2 * (i - 1))]

AllInvalid(n) == [i \in 1 .. n |-> Invalid]

-----------------------------------------------------------------------------
(* Frames *)

\* pc of an instrumented frame: "run", "args" with the arguments' bounds pushed,
\* "call" about to call, "wait" inside the call, "back" with the call returned.
\* really is __caller_is_inst_, got the bounds of the parameters, res the bounds
\* of the last result; callee, sent, want, saved and cookie describe the call
\* being made.  History: owed, the bounds that the callee returned, and base,
\* the stack pointer on entry.
NewFrame(f, sig, really, got, a) ==
  [fn |-> f, sig |-> sig, really |-> really, got |-> got, res |-> <<>>, pc |-> "run",
   callee |-> None, sent |-> <<>>, want |-> FALSE, saved |-> 0, cookie |-> 0, owed |-> None, base |-> a]

Depth == Len(frames)
Top == frames[Depth]

\* The call passes bounds or takes some back.
UsesStack(f, want) == Params[f] > 0 \/ (want /\ Results[f] > 0)

BoundSeqs(n) == [1 .. n -> Bound]

\* init_shadow_entries leaves the bounds of argv below address StackTop and
\* then, as a cookie, the address of main; without it (a warning) the cookie is
\* null, and without the auxiliary vector it returns before either.  What main
\* may find is noted as sent by the start-up code.
Init ==
  /\ LET blank == [x \in 0 .. StackTop |-> Zero]
         args  == Pushed(blank, StackTop, Words(<<ArgvBound>>))
     IN \E left \in {[sp |-> StackTop - 3, sent |-> <<ArgvBound>>,
                       mem |-> Pushed(args, StackTop - 2, <<Cookie(Main)>>)],
                      [sp |-> StackTop - 3, sent |-> <<>>,
                       mem |-> Pushed(args, StackTop - 2, <<Zero>>)],
                      [sp |-> StackTop, sent |-> <<>>, mem |-> blank]} :
          /\ sp = left.sp /\ mem = left.mem
          /\ frames = <<[NewFrame(Start, FALSE, FALSE, <<>>, left.sp) EXCEPT !.sent = left.sent]>>
  /\ argv = TRUE
  /\ jumps = 0

\* Mutant: the first argument's bounds are pushed first.
MutBeginCall(f, bs, want) ==
  /\ Top.fn \in Inst /\ Top.pc = "run"
  /\ Depth < MaxDepth
  /\ LET uses == UsesStack(f, want)
         ws   == Words([i \in 1 .. Len(bs) |-> bs[Len(bs) + 1 - i]])
     IN /\ Room(Len(ws))
        /\ mem' = Pushed(mem, sp, ws)
        /\ sp' = sp - Len(ws)
        /\ frames' = [frames EXCEPT ![Depth] =
             [@ EXCEPT !.pc = IF uses THEN "args" ELSE "call", !.callee = f,
                       !.sent = bs, !.want = want, !.saved = sp]]
  /\ UNCHANGED <<argv, jumps>>

\* A call instruction whose callee is instrumented: save the stack pointer and
\* push the bounds of the arguments, the first one last.
BeginCall(f, bs, want) ==
  /\ Top.fn \in Inst /\ Top.pc = "run"
  /\ Depth < MaxDepth
  /\ LET uses == UsesStack(f, want)
         ws   == Words(bs)
     IN /\ Room(Len(ws))
        /\ mem' = Pushed(mem, sp, ws)
        /\ sp' = sp - Len(ws)
        /\ frames' = [frames EXCEPT ![Depth] =
             [@ EXCEPT !.pc = IF uses THEN "args" ELSE "call", !.callee = f,
                       !.sent = bs, !.want = want, !.saved = sp]]
  /\ UNCHANGED <<argv, jumps>>

\* Mutant: no word is allocated for the cookie.
MutPushCookie ==
  /\ Top.pc = "args"
  /\ mem' = [mem EXCEPT ![sp] = Cookie(Top.callee)]
  /\ frames' = [frames EXCEPT ![Depth] = [@ EXCEPT !.pc = "call", !.cookie = sp]]
  /\ UNCHANGED <<sp, argv, jumps>>

\* __push_argument_bounds_cookie
PushCookie ==
  /\ Top.pc = "args"
  /\ Room(1)
  /\ mem' = Pushed(mem, sp, <<Cookie(Top.callee)>>)
  /\ sp' = sp - 1
  /\ frames' = [frames EXCEPT ![Depth] = [@ EXCEPT !.pc = "call", !.cookie = sp - 1]]
  /\ UNCHANGED <<argv, jumps>>

\* Mutant: the cookie is recognised but not consumed.
MutEnter(rest, f, sig) ==
  LET really == f \in Inst /\ mem[sp] = Cookie(f)
      n      == IF f \in Inst THEN Params[f] ELSE 0
  IN /\ mem' = mem
     /\ frames' = Append(rest, NewFrame(f, sig, really,
                    IF really THEN Peeked(mem, sp + 1, n) ELSE AllInvalid(n), sp))
     /\ UNCHANGED sp

\* Entry of f on top of call stack `rest': __tweak_argument_bounds_cookie, and
\* __peek_argument_bounds for each pointer parameter.
Enter(rest, f, sig) ==
  LET really == f \in Inst /\ mem[sp] = Cookie(f)
      n      == IF f \in Inst THEN Params[f] ELSE 0
  IN /\ mem' = IF really THEN [mem EXCEPT ![sp] = Tweaked(f)] ELSE mem
     /\ frames' = Append(rest, NewFrame(f, sig, really,
                    IF really THEN Peeked(mem, sp + 1, n) ELSE AllInvalid(n), sp))
     /\ UNCHANGED sp

\* An instrumented caller reaches its callee.
EnterCallee ==
  /\ Top.pc = "call"
  /\ Depth < MaxDepth
  /\ Enter([frames EXCEPT ![Depth] = [@ EXCEPT !.pc = "wait", !.res = <<>>]],
           Top.callee, FALSE)
  /\ UNCHANGED <<argv, jumps>>

\* An uninstrumented function calls f.
PlainCall(f) ==
  /\ Top.fn \notin Inst
  /\ Depth < MaxDepth
  /\ Enter(frames, f, FALSE)
  /\ UNCHANGED <<argv, jumps>>

\* The start-up code calls main, once.
CallMain ==
  /\ Depth = 1 /\ Depth < MaxDepth
  /\ argv /\ argv' = FALSE
  /\ Enter(frames, Main, FALSE)
  /\ UNCHANGED jumps

\* A signal is delivered, between any two helpers.
Signal(h) ==
  /\ Depth < MaxDepth
  /\ Enter(frames, h, TRUE)
  /\ UNCHANGED <<argv, jumps>>

\* Mutant: results are pushed for every caller.
MutResultWords(f, really, rs) == IF f \in Inst THEN Words(rs) ELSE <<>>

\* What a return pushes: nothing unless the caller passed bounds.
ResultWords(f, really, rs) == IF f \in Inst /\ really THEN Words(rs) ELSE <<>>

\* return with bounds rs for the pointers of the result.
Return(rs) ==
  LET rest == SubSeq(frames, 1, Depth - 1)
      ws   == ResultWords(Top.fn, Top.really, rs)
  IN /\ Depth > 1
     /\ Top.pc = "run"
     /\ Room(Len(ws))
     /\ mem' = Pushed(mem, sp, ws)
     /\ sp' = sp - Len(ws)
     /\ frames' = IF Top.sig \/ rest[Depth - 1].fn \notin Inst THEN rest
                  ELSE [rest EXCEPT ![Depth - 1] =
                         [@ EXCEPT !.pc = "back",
                            !.owed = [from |-> Top.fn,
                                      bs |-> IF Top.really THEN rs ELSE <<>>]]]
     /\ UNCHANGED <<argv, jumps>>

\* The function that the caller's callee expression denotes after the call.
Denoted(f) == IF Indirect THEN Callable \union {f} ELSE {f}

\* Mutant: the cookie is not looked at again.
MutTakenBack(fr, g) == Peeked(mem, sp, Results[fr.callee])

\* Bounds of the result: __peek_result_bounds, if the cookie is not g's address.
TakenBack(fr, g) ==
  IF mem[fr.cookie] # Cookie(g) THEN Peeked(mem, sp, Results[fr.callee])
                                ELSE AllInvalid(Results[fr.callee])

\* __cleanup_bounds_stack
CleanedSp(fr) == IF UsesStack(fr.callee, fr.want) THEN fr.saved ELSE sp

\* After the call: take the result's bounds, and clean up.
AfterCall ==
  /\ Top.pc = "back"
  /\ \E g \in Denoted(Top.callee) :
       frames' = [frames EXCEPT ![Depth] =
         [@ EXCEPT !.pc = "run", !.owed = None, !.callee = None, !.sent = <<>>,
                   !.want = FALSE, !.saved = 0, !.cookie = 0,
                   !.res = IF Top.want THEN TakenBack(Top, g) ELSE <<>>]]
  /\ sp' = CleanedSp(Top)
  /\ UNCHANGED <<mem, argv, jumps>>

\* longjmp to frame n of the program: the C stack is unwound, the bounds stack
\* is left as it is.  Programs whose signal handlers longjmp are left out: they
\* return into the middle of a call with the stack pointer moved.
LongJump(n) ==
  /\ 1 < n /\ n < Depth
  /\ Top.pc = "run"
  /\ \A i \in 1 .. Depth : ~ frames[i].sig
  /\ frames[n].fn \in Inst => frames[n].pc = "wait"
  /\ frames' = [SubSeq(frames, 1, n) EXCEPT ![n] =
                  [@ EXCEPT !.pc = "run", !.callee = None, !.sent = <<>>,
                            !.want = FALSE, !.saved = 0, !.cookie = 0]]
  /\ jumps < MaxJumps /\ jumps' = jumps + 1
  /\ UNCHANGED <<mem, sp, argv>>

Next ==
  \/ \E f \in Callable, want \in BOOLEAN :
       \E bs \in BoundSeqs(Params[f]) : (want => Results[f] > 0) /\ BeginCall(f, bs, want)
  \/ PushCookie
  \/ EnterCallee
  \/ \E f \in Callable : PlainCall(f)
  \/ CallMain
  \/ \E h \in Handler : Signal(h)
  \/ \E rs \in BoundSeqs(Results[Top.fn]) : Return(rs)
  \/ AfterCall
  \/ \E n \in 1 .. Depth : LongJump(n)

Spec == Init /\ [][Next]_vars

-----------------------------------------------------------------------------
(* Properties *)

AnyBounds == Bound \union {Invalid}
Addr == 0 .. StackTop

\* Types.  In particular the bounds that __peek_argument_bounds and
\* __peek_result_bounds copy out are bounds that somebody pushed, or invalid:
\* never two unrelated words of the stack (Garbled).
TypeOK ==
  /\ DOMAIN mem = Addr
  /\ sp \in Addr
  /\ \A i \in 1 .. Depth :
       /\ frames[i].fn \in Fn
       /\ frames[i].pc \in {"run", "args", "call", "wait", "back"}
       /\ frames[i].got \in Seq(AnyBounds)
       /\ frames[i].res \in Seq(AnyBounds)
  /\ argv \in BOOLEAN /\ jumps \in 0 .. MaxJumps

\* The bounds stack implements what its protocol promises: every instrumented
\* function gets the bounds that its own caller passed in this very call, each
\* parameter its own, or invalid bounds if it was called by nobody who passed
\* any, and gives back bounds to exactly that caller, whatever uninstrumented
\* functions, signals and longjmps come in between.  (A handler that runs just
\* before a call and starts the callee of that call without passing bounds would
\* make it take the interrupted call's: HandlersApart in BoundsStackProofs.)
Abstract ==
  INSTANCE BoundsPassing WITH
    calls <- [i \in 1 .. Depth |->
                [fn |-> frames[i].fn, sig |-> frames[i].sig, linked |-> frames[i].really,
                 got |-> frames[i].got, callee |-> frames[i].callee, sent |-> frames[i].sent,
                 want |-> frames[i].want, owed |-> frames[i].owed, res |-> frames[i].res]]

AbstractSpec == Abstract!Spec

\* No live word holds the untweaked address of an instrumented function, except
\* the cookie of a call that has not been entered yet and the one that was left
\* for main: an instrumented function never finds its address left from a call
\* other than the one that started it.
NoStrayCookie ==
  \A a \in sp .. StackTop, f \in Inst :
    mem[a] = Cookie(f) =>
      \/ f = Main /\ a = StackTop - 3 /\ frames[1].sent # <<>>
      \/ \E i \in 1 .. Depth :
           frames[i].pc = "call" /\ frames[i].callee = f /\ frames[i].cookie = a

\* While a call is being made its bounds and its cookie stay on the stack as
\* they were pushed, but for the callee's tweak: no callee, handler or nested
\* call writes over them.
InFlightIntact ==
  \A i \in 1 .. Depth :
    LET fr == frames[i]
    IN fr.pc \in {"call", "wait", "back"} /\ UsesStack(fr.callee, fr.want) =>
         /\ sp <= fr.cookie
         /\ mem[fr.cookie] \in {Cookie(fr.callee), Tweaked(fr.callee)}
         /\ Peeked(mem, fr.cookie + 1, Len(fr.sent)) = fr.sent
         /\ fr.saved = fr.cookie + 1 + 2 * Len(fr.sent)

\* Unless a longjmp has left words behind, a function that runs has the stack
\* pointer it was entered with: nothing stays on the stack on behalf of
\* uninstrumented callers, which never clean it up.
Balanced == jumps = 0 /\ Top.pc = "run" => sp = Top.base

\* Where init_shadow_entries found the auxiliary vector and the address of main,
\* main gets the bounds of argv, whatever constructors and handlers ran between
\* it and main, unless a constructor has longjmped; where it did not, main never
\* takes anything else on the stack for the bounds of argv.
MainGetsArgv ==
  \A i \in 1 .. Depth :
    frames[i].fn = Main /\ Main \in Inst =>
      /\ jumps = 0 /\ frames[1].sent # <<>> => frames[i].got[1] = ArgvBound
      /\ frames[1].sent = <<>> => frames[i].got[1] = Invalid

\* Both: what was on the stack for somebody else is still there.
StackKept == Balanced /\ MainGetsArgv
=============================================================================
