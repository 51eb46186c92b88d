----------------------------- MODULE ShadowProv -----------------------------
(***************************************************************************)
(* Pointer provenance as the shadowprov tool keeps it: one shadow byte per  *)
(* pointer, derived from the base address of the allocation the pointer was *)
(* made from, carried in local shadow variables, in a shadow of memory and, *)
(* across calls, on the shadow stack; the libc wrappers that make up the    *)
(* byte for what libc returns; and the test of the byte at every            *)
(* dereference (shadowprov_helpers.h, shadowprov_libc_wrappers.c and the    *)
(* calls the passes shadow.ml and shadowprov.ml insert).                    *)
(*                                                                         *)
(* Addresses are numbers and objects the ranges Lo[o] .. Hi[o] - 1.  A      *)
(* pointer is a record of its value, its shadow byte and two history        *)
(* fields: org, the object it really was made from, and clean, whether all  *)
(* it went through is code the tool instruments or wraps exactly.           *)
(***************************************************************************)
EXTENDS Integers, Sequences

CONSTANTS Objs,          \* allocations: static ones, and the heap's
          Heap,          \* those that malloc and the like hand out
          Lo, Hi,        \* where each one lies
          Slots,         \* addresses of the words that hold pointers
          Argv,          \* the object argv points to
          Var,           \* pointer locals of the running function
          Used,          \* the libc functions the program calls
          StaticAt,      \* addresses the functions with a static shadow return
          MaxOps,        \* steps of the program that are followed
          none

VARIABLES live,          \* allocations liballocs knows now
          var,           \* [Var -> pointer]
          mem,           \* [Slots -> pointer]: the word and its shadow
          stk,           \* the shadow stack, top first
          odd,           \* __shadow_sp is one byte below a word boundary
          call,          \* the call in progress
          formal,        \* formals of the instrumented callee that runs
          cached,        \* the static shadow bytes of some wrappers
          real_qsort_cb, \* the real comparator, for launder_qsort_cb
          access,        \* the last checked dereference
          ops            \* steps so far: statements, two for a call

vars == <<live, var, mem, stk, odd, call, formal, cached, real_qsort_cb, access, ops>>
-----------------------------------------------------------------------------
Range(o) == Lo[o] .. (Hi[o] - 1)
Addr == UNION {Lo[o] .. Hi[o] : o \in Objs}

ASSUME Layout ==
  /\ Heap \subseteq Objs /\ Argv \in Objs \ Heap
  /\ Slots \subseteq UNION {Range(o) : o \in Objs}
  /\ none \notin Objs /\ Lo \in [Objs -> Nat] /\ Hi \in [Objs -> Nat]
  /\ \A o \in Objs : 1 < Lo[o] /\ Lo[o] < Hi[o]     \* the lowest page is never mapped
  /\ \A o, q \in Objs : o # q => Range(o) \cap Range(q) = {}

\* __liballocs_get_alloc_base: 0 for an address in no allocation.
AllocBase(v) ==
  IF \E o \in live : v \in Range(o) THEN Lo[CHOOSE o \in live : v \in Range(o)] ELSE 0

\* __shadow_from_word: a byte in 1 .. 254, and 0 for the null word only.
XorBit(a, b, p) == p * (((a \div p) + (b \div p)) % 2)
Folded ==              \* (w >> 8) ^ (w & 0xff)
  [w \in Addr |->
     LET a == w \div 256
         b == w % 256
     IN 256 * (a \div 256) + XorBit(a, b, 128) + XorBit(a, b, 64) + XorBit(a, b, 32)
          + XorBit(a, b, 16) + XorBit(a, b, 8) + XorBit(a, b, 4) + XorBit(a, b, 2)
          + XorBit(a, b, 1)]
MutShadowFromWord(w) == IF w = 0 THEN 0 ELSE 1 + Folded[w]
ShadowFromWord(w) == IF w = 0 THEN 0 ELSE 1 + (Folded[w] % 254)

\* RETURN_SHADOWABLE_FRESH and STORE_IT_GETBASE: the byte of the allocation
\* the value lies in.
MutFetchShadow(v) == ShadowFromWord(v)
FetchShadow(v) == ShadowFromWord(AllocBase(v))

Null == [val |-> 0, sh |-> 0, org |-> none, clean |-> TRUE]
\* A pointer made from the address of object o, now at v.
Made(o, v, b) == [val |-> v, sh |-> b, org |-> o, clean |-> TRUE]
Stray(v, b) == [val |-> v, sh |-> b, org |-> none, clean |-> FALSE]
ObjAt(v) == IF \E o \in live : v \in Range(o)
            THEN CHOOSE o \in live : v \in Range(o) ELSE none
LiveSlots == {s \in Slots : ObjAt(s) # none}

\* Words of the shadow stack: a shadow, or a cookie (c is the callee whose
\* address it is; "tweaked" is no function's address).
Shadow(b) == [c |-> "none", b |-> b]
CookieByte == 96                        \* low byte of a function's address
Cookie(f) == [c |-> f, b |-> CookieByte]
\* __push_result_shadow_manifest and _explicit allocate one byte but copy
\* eight, over the low seven bytes of the cookie.
Clobbered == [c |-> "tweaked", b |-> 0]
-----------------------------------------------------------------------------
(***************************************************************************)
(* The libc functions with a wrapper, by what the wrapper says of the       *)
(* pointer that is returned.                                                *)
(***************************************************************************)
Allocating == {"malloc", "calloc", "strdup", "fopen", "fdopen", "tmpfile", "fdopendir"}
Finding    == {"strtok", "getenv", "dlsym"}
Searching  == {"strchr", "__rawmemchr", "strrchr", "fgets", "getcwd"}
Copying    == {"strcpy", "strcat", "memset"}
FromRet    == {"__errno_location", "localtime", "dlopen"}
FromBase   == {"__ctype_b_loc", "__ctype_toupper_loc", "__ctype_tolower_loc"}
Counting   == {"fgetc"}
Obstack    == {"_obstack_begin", "_obstack_begin_1"}
Wrapped    == Allocating \cup Finding \cup Searching \cup Copying \cup FromRet
                \cup FromBase \cup Counting \cup Obstack \cup {"strstr", "realloc", "qsort"}
\* "user" is an instrumented function, "lib" one that is not.
Callee == Used \cup {"user", "lib"}

ASSUME UsedAssumption ==
  /\ Used \subseteq Wrapped /\ DOMAIN StaticAt = Used \cap (FromRet \cup FromBase)
  /\ \A f \in DOMAIN StaticAt :     \* static or thread-local memory, a handle aside
       /\ StaticAt[f] \subseteq Addr
       /\ f # "dlopen" => StaticAt[f] \subseteq UNION {Range(o) : o \in Objs \ Heap}

\* The static byte of f is right for every address f returns.
Dependable(f) == /\ \A a, b \in StaticAt[f] : ObjAt(a) = ObjAt(b)
                 /\ f \in FromRet => \A a \in StaticAt[f] : AllocBase(a) = a

Idle == [stage |-> "none", f |-> "none", args |-> <<>>, dst |-> none, base |-> 0,
         inst |-> FALSE, pushed |-> FALSE, ret |-> Null]
Resting == access' = [p |-> Null, res |-> "none", at |-> none]
Running == access.res # "abort"
-----------------------------------------------------------------------------
\* init_shadow_entries leaves the shadows of argc and argv for main: argv's
\* first, then argc's, then the cookie, which is null if the address of main is
\* not found; without the auxiliary vector it leaves nothing, and the words there
\* are null.
Init ==
  /\ live = Objs \ Heap
  /\ var = [x \in Var |-> Null]
  /\ mem = [s \in Slots |-> Null]
  /\ stk \in {<<Cookie("main"), Shadow(0), Shadow(ShadowFromWord(Lo[Argv]))>>,
              <<Shadow(0), Shadow(0), Shadow(ShadowFromWord(Lo[Argv]))>>,
              <<Shadow(0), Shadow(0), Shadow(0)>>}
  /\ odd = FALSE
  /\ call = [Idle EXCEPT !.stage = "called", !.f = "main",
                         !.args = <<Null, Made(Argv, Lo[Argv], 0)>>]
  /\ formal = <<>>
  /\ cached = [f \in DOMAIN StaticAt |-> 0]
  /\ real_qsort_cb = "none"
  /\ access = [p |-> Null, res |-> "none", at |-> none]
  /\ ops = 0

\* The next statement of the program, if it is still followed.
Statement == Running /\ call.stage = "none" /\ ops < MaxOps /\ ops' = ops + 1

(***************************************************************************)
(* What instrumented code does between calls.                               *)
(***************************************************************************)
\* __check_deref, before every access through a pointer.
MutCheckDeref(p) == p.val # 0 /\ p.sh \notin {0, 255}
CheckDeref(p) ==
  /\ p.val # 0
  /\ p.sh \notin {0, 255}
  /\ ShadowFromWord(AllocBase(p.val)) = p.sh
Accessed(p) ==
  access' = [p |-> p, res |-> IF CheckDeref(p) THEN "ok" ELSE "abort", at |-> ObjAt(p.val)]

\* x = &o: the shadow is made from the object's address.
AddrOf(x, o) ==
  /\ Statement /\ o \in live \ Heap
  /\ var' = [var EXCEPT ![x] = Made(o, Lo[o], ShadowFromWord(Lo[o]))]
  /\ Resting /\ UNCHANGED <<live, mem, stk, odd, call, formal, cached, real_qsort_cb>>

\* x = x + 1: pointer arithmetic keeps the shadow of its pointer.
Arith(x) ==
  /\ Statement /\ var[x].val + 1 \in Addr
  /\ var' = [var EXCEPT ![x].val = @ + 1]
  /\ Resting /\ UNCHANGED <<live, mem, stk, odd, call, formal, cached, real_qsort_cb>>

\* x = *y: the access is checked, then the word and its shadow are loaded.
Load(x, y) ==
  /\ Statement /\ Accessed(var[y])
  /\ \/ /\ CheckDeref(var[y]) /\ var[y].val \in Slots
        /\ var' = [var EXCEPT ![x] = mem[var[y].val]]
     \/ /\ ~CheckDeref(var[y]) \/ var[y].val \notin Slots
        /\ var' = var
  /\ UNCHANGED <<live, mem, stk, odd, call, formal, cached, real_qsort_cb>>

\* *y = x: the access is checked, then the word and its shadow are stored.
Store(x, y) ==
  /\ Statement /\ Accessed(var[y])
  /\ \/ /\ CheckDeref(var[y]) /\ var[y].val \in Slots
        /\ mem' = [mem EXCEPT ![var[y].val] = var[x]]
     \/ ~CheckDeref(var[y]) /\ mem' = mem
  /\ UNCHANGED <<live, var, stk, odd, call, formal, cached, real_qsort_cb>>

\* free (not wrapped): the allocation is gone; its shadows stay.
Free(x) ==
  /\ Statement
  /\ \E o \in live \cap Heap : var[x].val = Lo[o] /\ live' = live \ {o}
  /\ Resting /\ UNCHANGED <<var, mem, stk, odd, call, formal, cached, real_qsort_cb>>
-----------------------------------------------------------------------------
(***************************************************************************)
(* Calls (rewriteCall): save __shadow_sp, push the shadows of the arguments *)
(* right to left and the cookie, call, peek the result's shadow if the      *)
(* cookie has been changed, restore __shadow_sp.                            *)
(***************************************************************************)
\* The shadowed arguments of f: pointers, and integers, which have a shadow
\* too (the tool's default).
TwoPointers == {"user", "strcpy", "strcat", "strstr"}
Args(f, p, q) == IF f \in TwoPointers THEN <<p, q>> ELSE <<p, Null>>
MutArgWords(args) == [i \in 1..Len(args) |-> Shadow(args[Len(args) + 1 - i].sh)]
ArgWords(args) == [i \in 1..Len(args) |-> Shadow(args[i].sh)]

\* The arguments C allows.
Legal(f, p) ==
  /\ f = "realloc" => p.val = 0 \/ \E o \in live \cap Heap : p.val = Lo[o]
  /\ f = "qsort" => ObjAt(p.val) # none
  /\ f \in Obstack => Heap \ live # {} /\ \E s \in Slots : ObjAt(s) # none /\ ObjAt(s) = ObjAt(p.val)
  /\ f \in (Searching \ {"getcwd"}) \cup Copying \cup {"strstr"} => p.val # 0

Call(f, x, y, d) ==
  /\ Statement /\ ops + 1 < MaxOps /\ f \in Callee /\ Legal(f, var[x])
  /\ f \notin TwoPointers => x = y
  /\ ~odd           \* otherwise the assertion in __alloc_shadow_stack_space fails
  /\ LET args == Args(f, var[x], var[y]) IN
     /\ stk' = <<Cookie(f)>> \o ArgWords(args) \o stk
     /\ call' = [Idle EXCEPT !.stage = "called", !.f = f, !.args = args,
                             !.dst = d, !.base = Len(stk)]
  /\ Resting /\ UNCHANGED <<live, var, mem, odd, formal, cached, real_qsort_cb>>

\* The word the callee's cookie was pushed in, wherever the top is now.
CookieWord == stk[Len(stk) - (call.base + Len(call.args))]
\* Top of stack when the callee is entered: __tweak_argument_shadow_cookie.
Tweaked(s, f) ==
  IF s[1].c = f THEN [s EXCEPT ![1] = [c |-> "tweaked", b |-> @.b]] ELSE s

\* __peek_argument_shadow: word i after the cookie, 0 if not from an
\* instrumented caller.
PeekArgument(really, i) == IF really THEN stk[2 + i].b ELSE 0

\* The cookie is tweaked and a result byte pushed: one byte wide (manifest,
\* explicit) or a word (__push_local_result_shadow, __fetch_and_push_...).
PushByte(s, b) == <<Shadow(b), Clobbered>> \o Tail(s)
PushWord(s, b) == <<Shadow(b)>> \o s

\* Ways for the wrapper of f to return r, its shadow byte pushed.
Returns(f, r, wide) ==
  LET s == Tweaked(stk, f) IN
  /\ stk' = IF wide THEN PushWord(s, r.sh) ELSE PushByte(s, r.sh)
  /\ odd' = ~wide
  /\ call' = [call EXCEPT !.stage = "back", !.pushed = TRUE, !.ret = r]
  /\ UNCHANGED <<var, formal, real_qsort_cb, access, ops>>

InWrapper(fs) == Running /\ call.stage = "called" /\ call.f \in fs

RetNull(f) == Returns(f, Null, FALSE)
\* The result is p, or NULL, with the shadow of argument 0.
ArgShadow(v) ==
  [call.args[1] EXCEPT !.val = v, !.sh = PeekArgument(TRUE, 0)]

\* The words of a fresh block are null, with the shadows of before.
Cleared(o) ==
  [s \in Slots |-> IF s \in Range(o) THEN [Null EXCEPT !.sh = mem[s].sh] ELSE mem[s]]
\* libc moves the words of o to n, without their shadows.
Moved(o, n) ==
  [s \in Slots |->
     LET t == s - Lo[n] + Lo[o]
     IN  IF s \notin Range(n) THEN mem[s]
         ELSE IF t \in Slots \cap Range(o) THEN Stray(mem[t].val, mem[s].sh)
         ELSE [Null EXCEPT !.sh = mem[s].sh]]

WrapAllocating ==
  /\ InWrapper(Allocating) /\ UNCHANGED cached
  /\ \/ RetNull(call.f) /\ UNCHANGED <<live, mem>>
     \/ \E o \in Heap \ live :
          /\ live' = live \cup {o}
          /\ mem' = Cleared(o)
          /\ Returns(call.f, Made(o, Lo[o], ShadowFromWord(Lo[o])), FALSE)

\* strtok, getenv, dlsym: some address in a known object, or NULL.
WrapFinding ==
  /\ InWrapper(Finding) /\ UNCHANGED <<live, mem, cached>>
  /\ \/ RetNull(call.f)
     \/ \E o \in live \ Heap : \E v \in Range(o) :
          Returns(call.f, Made(o, v, FetchShadow(v)), FALSE)

\* strchr and its like return a pointer into argument 0, or NULL.  (getcwd gives
\* back its argument even if that is null and libc has allocated the buffer.)
WrapSearching ==
  /\ InWrapper(Searching) /\ UNCHANGED <<live, mem, cached>>
  /\ \/ RetNull(call.f)
     \/ \E k \in IF call.f \in {"fgets", "getcwd"} THEN {0} ELSE {0, 1} :
          /\ call.args[1].val + k \in Addr \cup {0}
          /\ Returns(call.f, ArgShadow(call.args[1].val + k), TRUE)

WrapCopying ==
  /\ InWrapper(Copying) /\ UNCHANGED <<live, mem, cached>>
  /\ Returns(call.f, ArgShadow(call.args[1].val), TRUE)

\* strstr passes on the shadow of haystack even with a null result.
WrapStrstr ==
  /\ InWrapper({"strstr"}) /\ UNCHANGED <<live, mem, cached>>
  /\ \E v \in {0, call.args[1].val, call.args[1].val + 1} :
       v \in Addr \cup {0} /\ Returns("strstr", ArgShadow(v), TRUE)

\* The byte is made on the first call and kept in a static variable; dlopen
\* makes it anew for every handle.
WrapStatic ==
  /\ InWrapper(FromRet \cup FromBase) /\ UNCHANGED <<live, mem>>
  /\ \/ call.f \in {"localtime", "dlopen"} /\ RetNull(call.f) /\ UNCHANGED cached
     \/ \E a \in StaticAt[call.f] :
          LET made == ShadowFromWord(IF call.f \in FromRet THEN a ELSE AllocBase(a))
              b == IF cached[call.f] # 0 /\ call.f # "dlopen" THEN cached[call.f] ELSE made
          IN /\ cached' = [cached EXCEPT ![call.f] = b]
             /\ Returns(call.f, IF Dependable(call.f) THEN Made(ObjAt(a), a, b) ELSE Stray(a, b), FALSE)

WrapCounting ==
  /\ InWrapper(Counting) /\ RetNull(call.f) /\ UNCHANGED <<live, mem, cached>>

\* realloc: in place (argument 0's shadow), fresh or moved (a new shadow), or
\* NULL, with the block freed if the size is 0.
WrapRealloc ==
  /\ InWrapper({"realloc"}) /\ UNCHANGED cached
  /\ LET p == call.args[1] IN
     \/ /\ p.val = 0 \/ \E o \in live \cap Heap : p.val = Lo[o]
        /\ Returns("realloc", ArgShadow(p.val), TRUE) /\ UNCHANGED <<live, mem>>
     \/ p.val # 0 /\ RetNull("realloc") /\ UNCHANGED <<live, mem>>
     \/ \E o \in live \cap Heap : /\ p.val = Lo[o]
                                  /\ live' = live \ {o} /\ mem' = mem
                                  /\ RetNull("realloc")
     \/ \E n \in Heap \ live :
          /\ \/ p.val = 0 /\ live' = live \cup {n} /\ mem' = Cleared(n)
             \/ \E o \in live \cap Heap : /\ p.val = Lo[o]
                                          /\ live' = (live \ {o}) \cup {n}
                                          /\ mem' = Moved(o, n)
          /\ Returns("realloc", Made(n, Lo[n], ShadowFromWord(Lo[n])), FALSE)

\* _obstack_begin and _obstack_begin_1 store the shadows of the pointers that
\* libc wrote into the obstack (here: one of them), each made from the base of
\* the allocation it points into; they tweak the cookie and push no result.
WrapObstack ==
  /\ InWrapper(Obstack)
  /\ \E c \in Heap \ live : \E s \in Slots : \E v \in Lo[c] .. Hi[c] :
       /\ ObjAt(s) # none /\ ObjAt(s) = ObjAt(call.args[1].val)
       /\ live' = live \cup {c}
       /\ mem' = [mem EXCEPT ![s] =
            LET b == IF v \in Range(c) THEN ShadowFromWord(Lo[c]) ELSE FetchShadow(v)
            IN  IF v \in Range(c) THEN Made(c, v, b) ELSE Stray(v, b)]
  /\ stk' = Tweaked(stk, call.f)
  /\ call' = [call EXCEPT !.stage = "back", !.ret = Null]
  /\ UNCHANGED <<var, odd, formal, cached, real_qsort_cb, access, ops>>
-----------------------------------------------------------------------------
(***************************************************************************)
(* qsort: the wrapper substitutes launder_qsort_cb for the comparator.      *)
(***************************************************************************)
QsortBegin ==
  /\ InWrapper({"qsort"})
  /\ stk' = Tweaked(stk, "qsort")
  /\ real_qsort_cb' \in {"user", "lib"}
  /\ call' = [call EXCEPT !.stage = "sorting"]
  /\ UNCHANGED <<live, var, mem, odd, formal, cached, access, ops>>

\* launder_qsort_cb: the arguments' shadows are made from 0 (the base goes in
\* the parameter that is not used), then the cookie of the real callback.
LaunderShadow(v) == ShadowFromWord(0)
LaunderQsortCb ==
  /\ Running /\ call.stage = "sorting"
  /\ \E v, w \in Range(ObjAt(call.args[1].val)) :
       /\ stk' = <<Cookie(real_qsort_cb), Shadow(LaunderShadow(v)), Shadow(LaunderShadow(w))>> \o stk
       /\ call' = [call EXCEPT !.stage = "comparing"]
       /\ formal' = <<Stray(v, 0), Stray(w, 0)>>
  /\ UNCHANGED <<live, var, mem, odd, cached, real_qsort_cb, access, ops>>

\* The comparator: if it is instrumented its prologue takes the shadows, and it
\* may look at *arg1 or at *arg2.
Compare ==
  /\ Running /\ call.stage = "comparing"
  /\ \/ UNCHANGED access
     \/ /\ real_qsort_cb = "user"
        /\ \E i \in 1..2 :
             Accessed([formal[i] EXCEPT !.sh = PeekArgument(stk[1].c = "user", i - 1)])
  /\ stk' = SubSeq(stk, 4, Len(stk)) /\ formal' = <<>>
  /\ call' = [call EXCEPT !.stage = "sorting"]
  /\ UNCHANGED <<live, var, mem, odd, cached, real_qsort_cb, ops>>

\* qsort exchanges two elements: the words move, their shadows stay.
QsortMoves ==
  /\ Running /\ call.stage = "sorting"
  /\ \E s, t \in {a \in Slots : ObjAt(a) = ObjAt(call.args[1].val)} :
       /\ s < t
       /\ mem' = [mem EXCEPT ![s] = Stray(mem[t].val, @.sh), ![t] = Stray(mem[s].val, @.sh)]
  /\ UNCHANGED <<live, var, stk, odd, call, formal, cached, real_qsort_cb, access, ops>>

QsortEnd ==
  /\ Running /\ call.stage = "sorting"
  /\ real_qsort_cb' = "none"
  /\ stk' = PushByte(stk, 0) /\ odd' = TRUE
  /\ call' = [call EXCEPT !.stage = "back", !.pushed = TRUE, !.ret = Null]
  /\ UNCHANGED <<live, var, mem, formal, cached, access, ops>>
-----------------------------------------------------------------------------
(***************************************************************************)
(* Instrumented and uninstrumented callees.                                 *)
(***************************************************************************)
\* The prologue of an instrumented function: caller_is_inst, then the shadows
\* of the formals.  main's first formal is argc.
Formals(really, args) ==
  [i \in 1..Len(args) |-> IF really THEN [args[i] EXCEPT !.sh = PeekArgument(TRUE, i - 1)]
                                    ELSE Stray(args[i].val, PeekArgument(FALSE, i - 1))]
Enter ==
  /\ InWrapper({"user"})
  /\ stk' = Tweaked(stk, "user")
  /\ formal' = Formals(stk[1].c = "user", call.args)
  /\ call' = [call EXCEPT !.stage = "in", !.inst = stk[1].c = "user"]
  /\ UNCHANGED <<live, var, mem, odd, cached, real_qsort_cb, access, ops>>

EnterMain ==
  /\ InWrapper({"main"})
  /\ stk' = Tweaked(stk, "main")
  /\ \E x \in Var : var' = [var EXCEPT ![x] = Formals(stk[1].c = "main", call.args)[2]]
  /\ call' = Idle
  /\ UNCHANGED <<live, mem, odd, formal, cached, real_qsort_cb, access, ops>>

\* A return that pushes the shadow for every caller.
MutReturnWith(r, wide) ==
  /\ stk' = IF wide THEN PushWord(stk, r.sh) ELSE PushByte(stk, r.sh)
  /\ odd' = ~wide
  /\ call' = [call EXCEPT !.stage = IF call.f = "lib" THEN "called" ELSE "back",
                          !.pushed = call.inst, !.ret = r]
\* return e: the shadow of a local, of a word in memory, or of &o; pushed only
\* for an instrumented caller.  In a callback the caller is libc or "lib".
ReturnWith(r, wide) ==
  IF call.inst
  THEN /\ stk' = IF wide THEN PushWord(stk, r.sh) ELSE PushByte(stk, r.sh)
       /\ odd' = ~wide
       /\ call' = [call EXCEPT !.stage = "back", !.pushed = TRUE, !.ret = r]
  ELSE /\ UNCHANGED <<stk, odd>>
       /\ call' = [call EXCEPT !.stage = IF call.f = "lib" THEN "called" ELSE "back", !.ret = r]
Return ==
  /\ Running /\ call.stage = "in"
  /\ \/ \E i \in 1..2 : ReturnWith(formal[i], TRUE)
     \/ \E s \in LiveSlots : ReturnWith(mem[s], TRUE)
     \/ \E o \in live \ Heap : ReturnWith(Made(o, Lo[o], ShadowFromWord(Lo[o])), FALSE)
  /\ formal' = <<>>
  /\ UNCHANGED <<live, var, mem, cached, real_qsort_cb, access, ops>>

\* Uninstrumented code calls back into the program: the cookie on the stack
\* is not the callback's.
LibCallsBack ==
  /\ InWrapper({"lib"})
  /\ formal' = Formals(stk[1].c = "user", call.args)
  /\ call' = [call EXCEPT !.stage = "in", !.inst = stk[1].c = "user"]
  /\ UNCHANGED <<live, var, mem, stk, odd, cached, real_qsort_cb, access, ops>>

\* It may store a pointer into memory the program reads, without a shadow.
LibStores ==
  /\ InWrapper({"lib"})
  /\ \E s \in LiveSlots : mem' = [mem EXCEPT ![s] = Stray(call.args[1].val, @.sh)]
  /\ UNCHANGED <<live, var, stk, odd, call, formal, cached, real_qsort_cb, access, ops>>

LibReturns ==
  /\ InWrapper({"lib"})
  /\ \E v \in {0, call.args[1].val} :
       call' = [call EXCEPT !.stage = "back", !.ret = Stray(v, 0)]
  /\ UNCHANGED <<live, var, mem, stk, odd, formal, cached, real_qsort_cb, access, ops>>

\* __peek_result_shadow, the assignment of the result and
\* __cleanup_shadow_stack.
PeekResult(really) == IF really THEN stk[1].b ELSE 0
Assigned(r) ==
  IF call.dst \in Var THEN var' = [var EXCEPT ![call.dst] = r] /\ mem' = mem
                      ELSE var' = var /\ mem' = [mem EXCEPT ![call.dst] = r]
\* A clean-up that pops what the caller pushed.
MutBack ==
  /\ Running /\ call.stage = "back"
  /\ Assigned([call.ret EXCEPT !.sh = PeekResult(CookieWord.c # call.f)])
  /\ stk' = SubSeq(stk, 4, Len(stk))
  /\ odd' = FALSE /\ call' = Idle /\ ops' = ops + 1
  /\ Resting /\ UNCHANGED <<live, formal, cached, real_qsort_cb>>
Back ==
  /\ Running /\ call.stage = "back"
  /\ Assigned([call.ret EXCEPT !.sh = PeekResult(CookieWord.c # call.f)])
  /\ stk' = SubSeq(stk, Len(stk) - call.base + 1, Len(stk))
  /\ odd' = FALSE /\ call' = Idle /\ ops' = ops + 1
  /\ Resting /\ UNCHANGED <<live, formal, cached, real_qsort_cb>>

\* abort ends the program, or the bound is reached.
Ended == ~Running \/ (call.stage = "none" /\ ops = MaxOps)
Stop == Ended /\ UNCHANGED vars
-----------------------------------------------------------------------------
Between ==
  \E x \in Var :
    \/ \E o \in Objs : AddrOf(x, o)
    \/ \E y \in Var : Load(x, y) \/ Store(x, y)
    \/ Arith(x)
    \/ Free(x)
Wrappers ==
  \/ WrapAllocating \/ WrapFinding \/ WrapSearching \/ WrapCopying \/ WrapStrstr
  \/ WrapStatic \/ WrapCounting \/ WrapRealloc \/ WrapObstack
  \/ QsortBegin \/ LaunderQsortCb \/ Compare \/ QsortMoves \/ QsortEnd
Next ==
  \/ Between
  \/ \E x \in Var : \E d \in {x} \cup LiveSlots :
       \E y \in Var, f \in Callee : Call(f, x, y, d)
  \/ Wrappers
  \/ Enter \/ EnterMain \/ Return \/ LibCallsBack \/ LibStores \/ LibReturns
  \/ Back \/ Stop

Spec == Init /\ [][Next]_vars
-----------------------------------------------------------------------------
Byte == 0..255
Pointer == [val : Addr \cup {0}, sh : Byte, org : Objs \cup {none}, clean : BOOLEAN]

\* The state has the shape of the code's data: bytes are bytes, the stack is a
\* sequence of words, and only one-byte results unalign __shadow_sp.
TypeOK ==
  /\ live \subseteq Objs
  /\ var \in [Var -> Pointer] /\ mem \in [Slots -> Pointer]
  /\ \A i \in 1..Len(stk) : stk[i].b \in Byte
  /\ \A i \in 1..Len(formal) : formal[i] \in Pointer
  /\ cached \in [DOMAIN StaticAt -> Byte]
  /\ odd => call.stage = "back"

Right(p) == p.clean /\ p.val # 0 => p.sh = ShadowFromWord(Lo[p.org])

\* A pointer that has only been through instrumented code and through wrappers
\* carries the byte of the object it was made from, in a local, in memory and
\* as the formal of a callee.
OwnProvenance ==
  /\ \A x \in Var : Right(var[x])
  /\ \A s \in Slots : Right(mem[s])
  /\ \A i \in 1..Len(formal) : Right(formal[i])

\* __check_deref lets such a pointer through only to its own object or to one
\* whose base folds to the same byte.
Enforced ==
  access.res = "ok" /\ access.p.clean =>
    /\ access.at # none
    /\ ShadowFromWord(Lo[access.at]) = ShadowFromWord(Lo[access.p.org])

\* And it never aborts a program that uses such a pointer inside the object it
\* was made from, while that is allocated.
NoFalseAlarm ==
  access.res = "abort" /\ access.p.clean /\ access.p.val # 0 =>
    ~(access.p.org \in live /\ access.p.val \in Range(access.p.org))

\* Between calls __shadow_sp is where the function found it, whatever callees,
\* wrappers and callbacks pushed, and the caller of a callee that pushed no
\* byte does not take some other word for its result (_obstack_begin and
\* _obstack_begin_1, which tweak the cookie and push nothing, excepted).
StackRestored ==
  /\ call.stage = "none" => Len(stk) = 3 /\ ~odd
  /\ call.stage = "back" /\ call.f \notin Obstack =>
       (CookieWord.c # call.f) = call.pushed
=============================================================================
