--------------------------- MODULE BoundsPassing ---------------------------
(***************************************************************************)
(* What the bounds stack of libcrunch_cil_inlines.h promises, without the  *)
(* stack: an instrumented caller says which bounds it passes, and which    *)
(* results it wants, before it calls; an instrumented callee with pointers *)
(* to take or to give back gets exactly what its own caller passed, each   *)
(* parameter its own bounds, and any other function gets nothing; and the  *)
(* caller gets back the bounds its own callee returned.                    *)
(***************************************************************************)
EXTENDS Naturals, Sequences

CONSTANTS
  Fn,        \* functions of the program, the C library and the loader
  Inst,      \* the ones compiled with crunchbound
  Params,    \* Params[f]: pointers among f's parameters
  Results,   \* Results[f]: pointers in f's result
  Bound,     \* bounds values
  Start,     \* the start-up code that calls main
  Main,      \* main
  ArgvBound, \* the bounds of argv
  Invalid,   \* __libcrunch_make_invalid_bounds
  None       \* no call is waiting for its result

VARIABLES
  calls,   \* the call stack, innermost last
  argv     \* TRUE until main starts

\* A frame: its function, whether a signal started it, whether its caller
\* passes bounds and takes bounds back, the bounds of its parameters, the call
\* it is making (whom it calls, with which bounds, whether it wants a result's
\* bounds), what the callee that has just returned gave back, and the bounds of
\* the last result.
AllInvalid(n) == [i \in 1 .. n |-> Invalid]

NewFrame(f, sig, linked, bs) ==
  [fn |-> f, sig |-> sig, linked |-> linked,
   got |-> IF linked THEN bs ELSE AllInvalid(IF f \in Inst THEN Params[f] ELSE 0),
   callee |-> None, sent |-> <<>>, want |-> FALSE, owed |-> None, res |-> <<>>]

Top   == calls[Len(calls)]
Below == SubSeq(calls, 1, Len(calls) - 1)

\* The start-up code leaves the bounds of argv for main, or fails to.
Init ==
  /\ \E bs \in {<<ArgvBound>>, <<>>} :
       calls = <<[NewFrame(Start, FALSE, FALSE, <<>>) EXCEPT !.sent = bs]>>
  /\ argv = TRUE

\* The innermost function, instrumented, prepares a call of f with bounds bs for
\* its pointer arguments.
Pass(f, bs, want) ==
  /\ Top.fn \in Inst /\ Top.callee = None
  /\ calls' = [calls EXCEPT ![Len(calls)] = [@ EXCEPT !.callee = f, !.sent = bs, !.want = want]]
  /\ UNCHANGED argv

\* The call is made: the callee gets what this caller has just passed.
Enter ==
  /\ Top.callee # None /\ Top.owed = None
  /\ LET f      == Top.callee
         linked == f \in Inst /\ (Params[f] > 0 \/ (Top.want /\ Results[f] > 0))
     IN calls' = Below \o <<[Top EXCEPT !.res = <<>>], NewFrame(f, FALSE, linked, Top.sent)>>
  /\ UNCHANGED argv

\* An uninstrumented function calls f, and passes nothing.
PlainCall(f) ==
  /\ Top.fn \notin Inst
  /\ calls' = Append(calls, NewFrame(f, FALSE, FALSE, <<>>))
  /\ UNCHANGED argv

\* The start-up code calls main, which gets what was left for it or nothing (an
\* earlier longjmp may have left words on the stack).
CallMain(linked) ==
  /\ Len(calls) = 1
  /\ argv /\ argv' = FALSE
  /\ linked => Main \in Inst /\ Top.sent # <<>>
  /\ calls' = Append(calls, NewFrame(Main, FALSE, linked, Top.sent))

\* A signal starts handler f on top of whatever was running.
Signal(f) ==
  /\ calls' = Append(calls, NewFrame(f, TRUE, FALSE, <<>>))
  /\ UNCHANGED argv

\* The innermost function returns pointers with bounds rs.
Return(rs) ==
  /\ Len(calls) > 1
  /\ Top.owed = None /\ Top.callee = None
  /\ LET caller == Len(calls) - 1
         result == [from |-> Top.fn, bs |-> IF Top.linked THEN rs ELSE <<>>]
     IN calls' = IF Top.sig \/ Below[caller].fn \notin Inst THEN Below
                 ELSE [Below EXCEPT ![caller].owed = result]
  /\ UNCHANGED argv

\* The caller takes the result, or makes do without bounds.
Deliver ==
  /\ Top.owed # None
  /\ LET bs == IF ~ Top.want THEN <<>>
               ELSE IF Top.owed.bs # <<>> THEN Top.owed.bs
               ELSE AllInvalid(Results[Top.owed.from])
     IN calls' = Append(Below, [Top EXCEPT !.owed = None, !.res = bs, !.callee = None,
                                           !.sent = <<>>, !.want = FALSE])
  /\ UNCHANGED argv

\* longjmp back to frame n, over no signal handler.
LongJump(n) ==
  /\ 1 < n /\ n < Len(calls)
  /\ \A i \in n + 1 .. Len(calls) : ~ calls[i].sig
  /\ calls' = [SubSeq(calls, 1, n) EXCEPT ![n] =
                 [@ EXCEPT !.callee = None, !.sent = <<>>, !.want = FALSE]]
  /\ UNCHANGED argv

BoundSeqs(n) == [1 .. n -> Bound]

Next ==
  \/ Enter
  \/ \E f \in Fn : PlainCall(f)
  \/ \E linked \in BOOLEAN : CallMain(linked)
  \/ Deliver
  \/ \E rs \in BoundSeqs(Results[Top.fn]) : Return(rs)
  \/ \E n \in 2 .. Len(calls) - 1 : LongJump(n)
  \/ \E f \in Fn : Signal(f)
  \/ \E f \in Fn, want \in BOOLEAN : \E bs \in BoundSeqs(Params[f]) : Pass(f, bs, want)

Spec == Init /\ [][Next]_<<calls, argv>>
=============================================================================
