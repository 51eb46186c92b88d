------------------------ MODULE FailureReportProofs ------------------------
(***************************************************************************)
(* Proofs about FailureReport, for every set of threads and of failures    *)
(* and every list of suppressions.                                         *)
(***************************************************************************)
EXTENDS FailureReport, WellFoundedInduction, TLAPS

-----------------------------------------------------------------------------
(* Patterns *)

\* A set of numbers has a least one: there is a first "*".
LEMMA Least ==
  ASSUME NEW T \in SUBSET Nat, T # {}
  PROVE  \E x \in T : \A y \in T : x <= y
<1>1. PICK x \in T : \A y \in T : ~ (<<y, x>> \in OpToRel(<, Nat))
  BY NatLessThanWellFounded, WFMin
<1>2. \A y \in T : ~ (y < x)
  BY <1>1 DEF OpToRel
<1> QED BY <1>2

\* A pattern that is the name itself matches, with a "*" in it or not.
LEMMA OwnPattern ==
  ASSUME NEW S, NEW str \in Seq(S), str # NoType
  PROVE  prefix_pattern_matches(str, str)
<1> DEFINE stars == {i \in DOMAIN str : str[i] = "*"}
           n == IF stars = {} THEN Len(str)
                ELSE (CHOOSE i \in stars : \A j \in stars : i <= j) - 1
<1>1. n \in 0 .. Len(str)
  <2>1. CASE stars = {}
    BY <2>1
  <2>2. CASE stars # {}
    <3>1. stars \in SUBSET Nat /\ stars \subseteq 1 .. Len(str)
      OBVIOUS
    <3>2. \E i \in stars : \A j \in stars : i <= j
      BY <2>2, <3>1, Least
    <3>3. PICK m \in stars : n = m - 1
      BY <2>2, <3>2
    <3>4. m \in 1 .. Len(str)
      BY <3>1
    <3> HIDE DEF n, stars
    <3> QED BY <3>3, <3>4
  <2> QED BY <2>1, <2>2
<1>2. IsPrefix(SubSeq(str, 1, n), str)
  <2> HIDE DEF n
  <2>1. Len(SubSeq(str, 1, n)) = n /\ SubSeq(SubSeq(str, 1, n), 1, n) = SubSeq(str, 1, n)
    BY <1>1
  <2> QED BY <1>1, <2>1 DEF IsPrefix
<1> QED BY <1>2 DEF prefix_pattern_matches

-----------------------------------------------------------------------------
(* The inductive invariant *)

\* On the way to a decision about the list of sites, and to the printing.
Undecided == {"lookup", "add"}
Pending   == {"compare", "flush", "reset", "print"}
Reporting == Undecided \union Pending \union {"increment", "set_site", "set_decider", "done"}
Leaving   == {"exit_flush", "exit_reset", "exit_end"}

Types ==
  /\ threads \subseteq Thread /\ Main \in threads /\ words \in SuppressionLists
  /\ pc \in [Thread -> {"idle"} \union Reporting \union Leaving]
  /\ failing \in [Thread -> Failure \union {NoType}]
  /\ \A t \in Thread : pc[t] \in Reporting => failing[t] \in Failure
  /\ \A t \in Thread : pc[t] \in Leaving => t = Main
  /\ loaded \in [Thread -> Nat] /\ count \in Nat
  /\ last \in [site : {NoType} \union {f.site : f \in Failure},
               decider : {NoType} \union {f.found : f \in Failure}]
  /\ failed \in Seq(Failure) /\ printed \in SUBSET Failure
  /\ passed \in Nat /\ nprinted \in Nat /\ nsummed \in Nat
  /\ counted \in BOOLEAN /\ over \in {"no", "leaving", "gone", "killed", "crashed"}

\* __libcrunch_global_init has filled the array from the environment.
Configured == initialized => suppressions = Loaded

\* The site has been named, or a thread is about to name it, or to decide.
Named(P, s) == \E p \in P : p.site = s
Coming(s, pcs) == \E t \in threads : pc[t] \in pcs /\ failing[t].site = s
Matched(f) == \E j \in DOMAIN words : IsTriple(words[j]) /\ suppression_matches(words[j], f)

\* A site that a thread finds in the set of sites seen is not lost: whoever put
\* it there reports it, unless the last failure reported was at that site.
SeenTold == \A s \in seen : Named(printed, s) \/ Coming(s, Pending)
LastTold == /\ last.site = NoType \/ Named(printed, last.site)
            /\ \A t \in Thread : pc[t] = "set_site" => failing[t] \in printed
Answered(f) == Named(printed, f.site) \/ Matched(f) \/ Coming(f.site, Undecided \union Pending)
Told == \A i \in DOMAIN failed : Answered(failed[i])

\* What is printed or on its way there is not suppressed.
Wanted ==
  /\ \A t \in Thread : pc[t] \in Undecided \union Pending => ~is_suppressed(Loaded, failing[t])
  /\ \A p \in printed : ~is_suppressed(Loaded, p)

\* One thread: the failure it is reporting is the only one not accounted for.
Owed == IF pc[Main] \in Pending \union {"increment"} THEN 1 ELSE 0
Unsummed == IF pc[Main] \in {"reset", "exit_reset"} THEN 0 ELSE count
Balance ==
  threads = {Main} =>
    /\ passed = nprinted + nsummed + Unsummed + Owed
    /\ pc[Main] = "increment" => loaded[Main] = count
    /\ pc[Main] = "print" => count = 0

\* ... and print_exit_summary leaves none.
Flushing ==
  /\ over = "no" => pc[Main] \notin Leaving
  /\ over = "gone" => pc[Main] = "exit_end"
  /\ over = "leaving" => pc[Main] \in Leaving
  /\ threads = {Main} /\ counted /\ pc[Main] = "exit_end" => count = 0

Decisions == Configured /\ SeenTold /\ LastTold /\ Told /\ Wanted
IInv == Types /\ Decisions /\ Balance /\ Flushing

-----------------------------------------------------------------------------
(* What a step has to show *)

LEMMA Initial == Init => IInv
<1> SUFFICES ASSUME Init PROVE IInv
  OBVIOUS
<1>1. Types
  <2>1. last \in [site : {NoType} \union {f.site : f \in Failure},
                 decider : {NoType} \union {f.found : f \in Failure}]
    BY DEF Init
  <2>2. pc \in [Thread -> {"idle"} \union Reporting \union Leaving]
        /\ \A t \in Thread : pc[t] \notin Reporting \union Leaving
    BY DEF Init, Reporting, Undecided, Pending, Leaving
  <2>3. failing \in [Thread -> Failure \union {NoType}]
    BY DEF Init
  <2>4. failed \in Seq(Failure) /\ loaded \in [Thread -> Nat]
    BY DEF Init
  <2> QED BY <2>1, <2>2, <2>3, <2>4 DEF Init, Types
<1>2. Decisions
  BY DEF Init, Decisions, Configured, SeenTold, LastTold, Told, Wanted, Undecided, Pending
<1>3. Balance /\ Flushing
  BY ReportAssumption DEF Init, Balance, Flushing, Owed, Unsummed, Pending, Leaving
<1> QED BY <1>1, <1>2, <1>3 DEF IInv

\* The names of the places are different.
LEMMA Places ==
  /\ Undecided \intersect Pending = {} /\ Undecided \intersect Leaving = {}
  /\ Pending \intersect Leaving = {} /\ Reporting \intersect Leaving = {}
  /\ "idle" \notin Reporting \union Leaving
  /\ Undecided \subseteq Reporting /\ Pending \subseteq Reporting
  BY DEF Undecided, Pending, Reporting, Leaving

\* Thread t goes on to q.  No site is forgotten if t, where it stops working
\* on a report, leaves its site named or in other hands.
LEMMA Moves ==
  ASSUME IInv, NEW t \in threads, NEW q,
         threads' = threads, words' = words, pc' = [pc EXCEPT ![t] = q],
         printed \subseteq printed',
         \A u \in Thread : u # t \/ pc[t] \in Undecided \union Pending
                             => failing'[u] = failing[u],
         pc[t] \in Pending => q \in Pending \/ Named(printed', failing[t].site),
         pc[t] \in Undecided => \/ q \in Undecided \union Pending
                                \/ Named(printed, failing[t].site) \/ Coming(failing[t].site, Pending),
         \A s \in seen' : s \in seen \/ (q \in Pending /\ failing'[t].site = s)
  PROVE  /\ SeenTold'
         /\ \A f : Answered(f) => Answered(f)'
<1>1. t \in Thread /\ threads \subseteq Thread /\ pc'[t] = q
      /\ \A u \in Thread : u # t => pc'[u] = pc[u] /\ failing'[u] = failing[u]
  BY DEF IInv, Types
<1>2. ASSUME NEW s, Named(printed, s) PROVE Named(printed', s)
  BY <1>2 DEF Named
<1>3. ASSUME NEW s, Coming(s, Pending) PROVE Named(printed', s) \/ Coming(s, Pending)'
  <2>1. PICK u \in threads : pc[u] \in Pending /\ failing[u].site = s
    BY <1>3 DEF Coming
  <2>2. CASE u # t
    BY <1>1, <2>1, <2>2 DEF Coming
  <2>3. CASE u = t
    BY <1>1, <2>1, <2>3 DEF Coming, Named
  <2> QED BY <2>2, <2>3
<1>4. SeenTold'
  <2> SUFFICES ASSUME NEW s \in seen' PROVE Named(printed', s) \/ Coming(s, Pending)'
    BY DEF SeenTold
  <2>1. CASE s \in seen
    BY <1>2, <1>3, <2>1 DEF IInv, Decisions, SeenTold
  <2>2. CASE q \in Pending /\ failing'[t].site = s
    BY <1>1, <2>2 DEF Coming
  <2> QED BY <2>1, <2>2
<1>5. ASSUME NEW f, Answered(f) PROVE Answered(f)'
  <2>1. CASE Named(printed, f.site)
    BY <1>2, <2>1 DEF Answered
  <2>2. CASE Matched(f)
    BY <2>2 DEF Answered, Matched
  <2>3. CASE Coming(f.site, Undecided \union Pending)
    <3>1. PICK u \in threads : pc[u] \in Undecided \union Pending /\ failing[u].site = f.site
      BY <2>3 DEF Coming
    <3>2. CASE u # t \/ q \in Undecided \union Pending
      BY <1>1, <3>1, <3>2 DEF Answered, Coming
    <3>3. CASE u = t /\ q \notin Undecided \union Pending
      <4>1. CASE pc[t] \in Pending
        BY <3>1, <3>3, <4>1 DEF Answered
      <4>2. CASE pc[t] \in Undecided
        <5>1. Named(printed', f.site) \/ Coming(f.site, Pending)'
          BY <1>2, <1>3, <3>1, <3>3, <4>2
        <5> QED BY <5>1 DEF Answered, Coming
      <4> QED BY <3>1, <3>3, <4>1, <4>2
    <3> QED BY <3>2, <3>3
  <2> QED BY <1>5, <2>1, <2>2, <2>3 DEF Answered
<1> QED BY <1>4, <1>5

\* A step that prints nothing and starts no report keeps the decisions right.
LEMMA GoesOn ==
  ASSUME IInv, NEW t \in threads, NEW q \in {"idle"} \union Reporting \union Leaving,
         threads' = threads, words' = words, pc' = [pc EXCEPT ![t] = q],
         initialized' = initialized, suppressions' = suppressions,
         printed' = printed, failed' = failed, last'.site = last.site, failing' = failing,
         q # "set_site",
         q \in Undecided \union Pending => pc[t] \in Undecided \union Pending,
         pc[t] \in Pending => q \in Pending \/ Named(printed, failing[t].site),
         pc[t] \in Undecided => \/ q \in Undecided \union Pending
                                \/ Named(printed, failing[t].site) \/ Coming(failing[t].site, Pending),
         \A s \in seen' : s \in seen \/ (q \in Pending /\ failing[t].site = s)
  PROVE  Decisions'
<1>1. SeenTold' /\ \A f : Answered(f) => Answered(f)'
  <2>1. /\ printed \subseteq printed'
        /\ \A u \in Thread : u # t \/ pc[t] \in Undecided \union Pending
                              => failing'[u] = failing[u]
        /\ pc[t] \in Pending => q \in Pending \/ Named(printed', failing[t].site)
        /\ \A s \in seen' : s \in seen \/ (q \in Pending /\ failing'[t].site = s)
    OBVIOUS
  <2> QED BY <2>1, Moves
<1>2. Told'
  BY <1>1 DEF IInv, Decisions, Told
<1>3. Configured'
  BY DEF IInv, Decisions, Configured, Loaded
<1>4. LastTold'
  BY DEF IInv, Decisions, LastTold, Named, Types
<1>5. Wanted'
  <2>1. Loaded' = Loaded
    BY DEF Loaded
  <2> QED BY <2>1 DEF IInv, Types, Decisions, Wanted
<1> QED BY <1>1, <1>2, <1>3, <1>4, <1>5 DEF Decisions

\* So does a step in which no thread moves.
LEMMA StandsStill ==
  ASSUME IInv, UNCHANGED <<programVars, pc, failing, printed, failed, last, seen>>, Configured'
  PROVE  Decisions'
<1>1. SeenTold' /\ LastTold' /\ Told'
  BY DEF IInv, Decisions, SeenTold, LastTold, Told, Answered, Named, Coming, Matched, programVars
<1>2. Wanted'
  <2>1. Loaded' = Loaded
    BY DEF Loaded, programVars
  <2> QED BY <2>1 DEF IInv, Decisions, Wanted
<1> QED BY <1>1, <1>2 DEF Decisions

-----------------------------------------------------------------------------
(* One lemma per action *)

\* A thread that is somewhere in the reporting code is not leaving it by exit().
LEMMA AtFacts ==
  ASSUME IInv, NEW t \in Thread, NEW here, At(t, here)
  PROVE  /\ t \in threads /\ pc[t] = here
         /\ here \in Reporting => failing[t] \in Failure
         /\ threads = {Main} => t = Main
  BY DEF IInv, Types, At

LEMMA LookupStep ==
  ASSUME IInv, NEW t \in Thread, Lookup(t)
  PROVE  IInv'
<1> DEFINE q == IF failing[t].site \in seen THEN "done" ELSE "add"
<1>1. /\ t \in threads /\ pc[t] = "lookup" /\ pc' = [pc EXCEPT ![t] = q] /\ q \in {"done", "add"}
      /\ failing[t] \in Failure /\ (threads = {Main} => t = Main)
      /\ UNCHANGED <<initVars, programVars, historyVars, failing, loaded, over, seen, last, count, counted>>
  BY AtFacts DEF Lookup, Goto, Reporting, Undecided
<1>2. Types'
  BY <1>1 DEF IInv, Types, Reporting, Undecided, Pending, Leaving, initVars, programVars, historyVars
<1>3. Decisions'
  <2>1. failing[t].site \in seen => Named(printed, failing[t].site) \/ Coming(failing[t].site, Pending)
    BY DEF IInv, Decisions, SeenTold
  <2>2. q = "done" => failing[t].site \in seen
    OBVIOUS
  <2> HIDE DEF q
  <2> QED BY <1>1, <2>1, <2>2, GoesOn
       DEF Reporting, Undecided, Pending, initVars, programVars, historyVars
<1>4. Balance' /\ Flushing'
  <2> HIDE DEF q
  <2> QED BY <1>1 DEF IInv, Types, Balance, Flushing, Owed, Unsummed, Undecided, Pending, Leaving,
                      initVars, programVars, historyVars
<1> QED BY <1>2, <1>3, <1>4 DEF IInv

LEMMA AddStep ==
  ASSUME IInv, NEW t \in Thread, Add(t)
  PROVE  IInv'
<1>1. /\ t \in threads /\ pc[t] = "add" /\ pc' = [pc EXCEPT ![t] = "compare"]
      /\ seen' = seen \union {failing[t].site} /\ passed' = passed + 1
      /\ failing[t] \in Failure /\ (threads = {Main} => t = Main)
      /\ UNCHANGED <<initVars, programVars, failing, loaded, over, last, count, counted,
                     failed, printed, nprinted, nsummed>>
  BY AtFacts DEF Add, Goto, Reporting, Undecided
<1>2. Types'
  BY <1>1 DEF IInv, Types, Reporting, Undecided, Pending, Leaving, initVars, programVars
<1>3. Decisions'
  BY <1>1, GoesOn DEF Reporting, Undecided, Pending, initVars, programVars
<1>4. Balance' /\ Flushing'
  BY <1>1 DEF IInv, Types, Balance, Flushing, Owed, Unsummed, Undecided, Pending, Leaving,
              initVars, programVars
<1> QED BY <1>2, <1>3, <1>4 DEF IInv

\* A failure like the last one reported need not be printed: its site was.
LEMMA CompareStep ==
  ASSUME IInv, NEW t \in Thread, Compare(t)
  PROVE  IInv'
<1> DEFINE q == IF IsRepeat(failing[t]) THEN "increment" ELSE "flush"
<1>1. /\ t \in threads /\ pc[t] = "compare" /\ pc' = [pc EXCEPT ![t] = q]
      /\ q \in {"increment", "flush"} /\ loaded' = [loaded EXCEPT ![t] = count]
      /\ failing[t] \in Failure /\ (threads = {Main} => t = Main)
      /\ UNCHANGED <<initVars, programVars, historyVars, failing, over, seen, last, count, counted>>
  BY AtFacts DEF Compare, Goto, Reporting, Pending
<1>2. q = "increment" => Named(printed, failing[t].site)
  <2>1. q = "increment" => last.site = failing[t].site
    BY DEF IsRepeat
  <2>2. failing[t].site # NoType
    BY <1>1, ReportAssumption
  <2> QED BY <2>1, <2>2 DEF IInv, Decisions, LastTold
<1> HIDE DEF q
<1>3. Types'
  BY <1>1 DEF IInv, Types, Reporting, Undecided, Pending, Leaving, initVars, programVars, historyVars
<1>4. Decisions'
  BY <1>1, <1>2, GoesOn DEF Reporting, Undecided, Pending, initVars, programVars, historyVars
<1>5. Balance' /\ Flushing'
  BY <1>1 DEF IInv, Types, Balance, Flushing, Owed, Unsummed, Undecided, Pending, Leaving,
              initVars, programVars, historyVars
<1> QED BY <1>3, <1>4, <1>5 DEF IInv

LEMMA IncrementStep ==
  ASSUME IInv, NEW t \in Thread, Increment(t)
  PROVE  IInv'
<1>1. /\ t \in threads /\ pc[t] = "increment" /\ pc' = [pc EXCEPT ![t] = "done"]
      /\ count' = loaded[t] + 1 /\ failing[t] \in Failure /\ (threads = {Main} => t = Main)
      /\ UNCHANGED <<initVars, programVars, historyVars, failing, loaded, over, seen, last, counted>>
  BY AtFacts DEF Increment, Goto, Reporting
<1>2. Types'
  BY <1>1 DEF IInv, Types, Reporting, Undecided, Pending, Leaving, initVars, programVars, historyVars
<1>3. Decisions'
  BY <1>1, GoesOn DEF Reporting, Undecided, Pending, initVars, programVars, historyVars
<1>4. Balance'
  <2> SUFFICES ASSUME threads = {Main} PROVE Balance'
    BY <1>1 DEF Balance, programVars
  <2>1. /\ pc[Main] = "increment" /\ pc'[Main] = "done" /\ count' = count + 1
        /\ passed = nprinted + nsummed + count + 1
    BY <1>1 DEF IInv, Types, Balance, Owed, Unsummed
  <2>2. Owed' = 0 /\ Unsummed' = count'
    BY <2>1 DEF Owed, Unsummed, Pending
  <2> QED BY <1>1, <2>1, <2>2 DEF IInv, Types, Balance, historyVars
<1>5. Flushing'
  BY <1>1 DEF IInv, Types, Flushing, Leaving, programVars
<1> QED BY <1>2, <1>3, <1>4, <1>5 DEF IInv

LEMMA SummariseStep ==
  ASSUME IInv, NEW t \in Thread, Summarise(t)
  PROVE  IInv'
<1>1. /\ t \in threads /\ pc[t] = "flush" /\ count' = count
      /\ failing[t] \in Failure /\ (threads = {Main} => t = Main)
      /\ UNCHANGED <<initVars, programVars, failing, loaded, over, seen, last, counted,
                     failed, passed, printed, nprinted>>
  BY AtFacts DEF Summarise, Flush, Reporting, Pending
<1>2. PICK q \in {"reset", "print"} :
        /\ pc' = [pc EXCEPT ![t] = q]
        /\ q = "reset" => nsummed' = nsummed + count
        /\ q = "print" => count = 0 /\ nsummed' = nsummed
  BY DEF Summarise, Flush, Goto
<1>3. Types'
  BY <1>1, <1>2 DEF IInv, Types, Reporting, Undecided, Pending, Leaving, initVars, programVars
<1>4. Decisions'
  BY <1>1, <1>2, GoesOn DEF Reporting, Undecided, Pending, initVars, programVars
<1>5. Balance'
  <2> SUFFICES ASSUME threads = {Main} PROVE Balance'
    BY <1>1 DEF Balance, programVars
  <2>1. /\ pc[Main] = "flush" /\ pc'[Main] = q
        /\ passed = nprinted + nsummed + count + 1
    BY <1>1, <1>2 DEF IInv, Types, Balance, Owed, Unsummed, Pending
  <2>2. Owed' = 1 /\ Unsummed' = (IF q = "reset" THEN 0 ELSE count)
    BY <1>1, <2>1 DEF Owed, Unsummed, Pending
  <2>3. passed \in Nat /\ nprinted \in Nat /\ nsummed \in Nat /\ count \in Nat
    BY DEF IInv, Types
  <2>4. passed' = nprinted' + nsummed' + Unsummed' + Owed'
    <3>1. CASE q = "reset"
      BY <1>1, <1>2, <2>1, <2>2, <2>3, <3>1
    <3>2. CASE q = "print"
      BY <1>1, <1>2, <2>1, <2>2, <2>3, <3>2
    <3> QED BY <3>1, <3>2
  <2> QED BY <1>1, <1>2, <2>1, <2>4 DEF Balance
<1>6. Flushing'
  BY <1>1, <1>2 DEF IInv, Types, Flushing, Leaving, programVars
<1> QED BY <1>3, <1>4, <1>5, <1>6 DEF IInv

LEMMA ResetStep ==
  ASSUME IInv, NEW t \in Thread, Reset(t)
  PROVE  IInv'
<1>1. /\ t \in threads /\ pc[t] = "reset" /\ pc' = [pc EXCEPT ![t] = "print"]
      /\ count' = 0 /\ failing[t] \in Failure /\ (threads = {Main} => t = Main)
      /\ UNCHANGED <<initVars, programVars, historyVars, failing, loaded, over, seen, last, counted>>
  BY AtFacts DEF Reset, Goto, Reporting, Pending
<1>2. Types'
  BY <1>1 DEF IInv, Types, Reporting, Undecided, Pending, Leaving, initVars, programVars, historyVars
<1>3. Decisions'
  BY <1>1, GoesOn DEF Reporting, Undecided, Pending, initVars, programVars, historyVars
<1>4. Balance' /\ Flushing'
  BY <1>1 DEF IInv, Types, Balance, Flushing, Owed, Unsummed, Undecided, Pending, Leaving,
              initVars, programVars, historyVars
<1> QED BY <1>2, <1>3, <1>4 DEF IInv

LEMMA PrintStep ==
  ASSUME IInv, NEW t \in Thread, PrintFailure(t)
  PROVE  IInv'
<1>1. /\ t \in threads /\ pc[t] = "print"
      /\ failing[t] \in Failure /\ (threads = {Main} => t = Main)
      /\ UNCHANGED <<initVars, programVars, failing, loaded, seen, last, count, counted,
                     failed, passed, nsummed>>
  BY AtFacts DEF PrintFailure, Reporting, Pending
<1>2. CASE early
  <2>1. /\ printed' = printed \union {failing[t]} /\ nprinted' = nprinted + 1
        /\ pc' = [pc EXCEPT ![t] = "set_site"] /\ over' = over
    BY <1>2 DEF PrintFailure, Goto
  <2>2. Types'
    BY <1>1, <2>1 DEF IInv, Types, Reporting, Undecided, Pending, Leaving, initVars, programVars
  <2>3. SeenTold' /\ \A f : Answered(f) => Answered(f)'
    <3>1. printed \subseteq printed' /\ Named(printed', failing[t].site)
      BY <2>1 DEF Named
    <3>2. /\ "print" \notin Undecided /\ \A s \in seen' : s \in seen
          /\ \A u \in Thread : failing'[u] = failing[u]
          /\ threads' = threads /\ words' = words
      BY <1>1 DEF Undecided, programVars
    <3> QED BY <1>1, <2>1, <3>1, <3>2, Moves
  <2>4. Told'
    BY <1>1, <2>3 DEF IInv, Decisions, Told
  <2>5. LastTold'
    BY <1>1, <2>1 DEF IInv, Types, Decisions, LastTold, Named
  <2>6. Wanted'
    <3>1. Loaded' = Loaded
      BY <1>1 DEF Loaded, programVars
    <3>2. \A u \in Thread : u # t => pc'[u] = pc[u]
      BY <2>1 DEF IInv, Types
    <3>3. pc'[t] \notin Undecided \union Pending
      BY <1>1, <2>1 DEF IInv, Types, Undecided, Pending
    <3>4. ~is_suppressed(Loaded, failing[t])
      BY <1>1 DEF IInv, Decisions, Wanted, Pending
    <3> QED BY <1>1, <2>1, <3>1, <3>2, <3>3, <3>4 DEF IInv, Decisions, Wanted
  <2>7. Configured'
    BY <1>1 DEF IInv, Decisions, Configured, Loaded, initVars, programVars
  <2>8. Balance'
    <3> SUFFICES ASSUME threads = {Main} PROVE Balance'
      BY <1>1 DEF Balance, programVars
    <3>1. /\ pc[Main] = "print" /\ pc'[Main] = "set_site" /\ count = 0
          /\ passed = nprinted + nsummed + 1
      BY <1>1, <2>1 DEF IInv, Types, Balance, Owed, Unsummed, Pending
    <3>2. Owed' = 0 /\ Unsummed' = count
      BY <1>1, <3>1 DEF Owed, Unsummed, Pending
    <3> QED BY <1>1, <2>1, <3>1, <3>2 DEF IInv, Types, Balance
  <2>9. Flushing'
    BY <1>1, <2>1 DEF IInv, Types, Flushing, Leaving, programVars
  <2> QED BY <2>2, <2>3, <2>4, <2>5, <2>6, <2>7, <2>8, <2>9 DEF IInv, Decisions
<1>3. CASE ~early
  <2>1. over' = "crashed" /\ UNCHANGED <<printed, nprinted, pc>>
    BY <1>3 DEF PrintFailure
  <2>2. Types'
    BY <1>1, <2>1 DEF IInv, Types, initVars, programVars
  <2>3. Decisions'
    <3>1. Configured'
      BY <1>1 DEF IInv, Decisions, Configured, Loaded, initVars, programVars
    <3> QED BY <1>1, <2>1, <3>1, StandsStill
  <2>4. Balance' /\ Flushing'
    BY <1>1, <2>1 DEF IInv, Balance, Flushing, Owed, Unsummed, programVars
  <2> QED BY <2>2, <2>3, <2>4 DEF IInv
<1> QED BY <1>2, <1>3

LEMMA SetSiteStep ==
  ASSUME IInv, NEW t \in Thread, SetSite(t)
  PROVE  IInv'
<1>1. /\ t \in threads /\ pc[t] = "set_site" /\ pc' = [pc EXCEPT ![t] = "set_decider"]
      /\ last' = [last EXCEPT !.site = failing[t].site]
      /\ failing[t] \in Failure /\ (threads = {Main} => t = Main)
      /\ UNCHANGED <<initVars, programVars, historyVars, failing, loaded, over, seen, count, counted>>
  BY AtFacts DEF SetSite, Goto, Reporting
<1>2. Types'
  BY <1>1 DEF IInv, Types, Reporting, Undecided, Pending, Leaving, initVars, programVars, historyVars
<1>3. Decisions'
  <2>1. SeenTold' /\ \A f : Answered(f) => Answered(f)'
    <3>1. /\ "set_site" \notin Undecided /\ "set_site" \notin Pending
          /\ \A s \in seen' : s \in seen
          /\ printed \subseteq printed' /\ \A u \in Thread : failing'[u] = failing[u]
          /\ threads' = threads /\ words' = words
      BY <1>1 DEF Undecided, Pending, programVars, historyVars
    <3> QED BY <1>1, <3>1, Moves
  <2>2. Told'
    BY <1>1, <2>1 DEF IInv, Decisions, Told, historyVars
  <2>3. LastTold'
    <3>1. last'.site = failing[t].site /\ failing[t] \in printed
      BY <1>1 DEF IInv, Types, Decisions, LastTold
    <3> QED BY <1>1, <3>1 DEF IInv, Types, Decisions, LastTold, Named, historyVars
  <2>4. Wanted'
    <3>1. Loaded' = Loaded
      BY <1>1 DEF Loaded, programVars
    <3> QED BY <1>1, <3>1 DEF IInv, Types, Decisions, Wanted, Undecided, Pending, historyVars
  <2>5. Configured'
    BY <1>1 DEF IInv, Decisions, Configured, Loaded, initVars, programVars
  <2> QED BY <2>1, <2>2, <2>3, <2>4, <2>5 DEF Decisions
<1>4. Balance' /\ Flushing'
  BY <1>1 DEF IInv, Types, Balance, Flushing, Owed, Unsummed, Pending, Leaving,
              initVars, programVars, historyVars
<1> QED BY <1>2, <1>3, <1>4 DEF IInv

LEMMA SetDeciderStep ==
  ASSUME IInv, NEW t \in Thread, SetDecider(t)
  PROVE  IInv'
<1>1. /\ t \in threads /\ pc[t] = "set_decider" /\ pc' = [pc EXCEPT ![t] = "done"]
      /\ last' = [last EXCEPT !.decider = failing[t].found]
      /\ failing[t] \in Failure /\ (threads = {Main} => t = Main)
      /\ UNCHANGED <<initVars, programVars, historyVars, failing, loaded, over, seen, count, counted>>
  BY AtFacts DEF SetDecider, Goto, Reporting
<1>2. Types' /\ last'.site = last.site
  BY <1>1 DEF IInv, Types, Reporting, Undecided, Pending, Leaving, initVars, programVars, historyVars
<1>3. Decisions'
  BY <1>1, <1>2, GoesOn DEF Reporting, Undecided, Pending, initVars, programVars, historyVars
<1>4. Balance' /\ Flushing'
  BY <1>1 DEF IInv, Types, Balance, Flushing, Owed, Unsummed, Pending, Leaving,
              initVars, programVars, historyVars
<1> QED BY <1>2, <1>3, <1>4 DEF IInv

LEMMA DoneStep ==
  ASSUME IInv, NEW t \in Thread, Done(t)
  PROVE  IInv'
<1>1. /\ t \in threads /\ pc[t] = "done" /\ pc' = [pc EXCEPT ![t] = "idle"]
      /\ failing' = [failing EXCEPT ![t] = NoType] /\ counted' \in BOOLEAN
      /\ failing[t] \in Failure /\ (threads = {Main} => t = Main)
      /\ UNCHANGED <<initVars, programVars, historyVars, loaded, over, seen, last, count>>
  BY AtFacts DEF Done, Goto, Reporting, IInv, Types
<1>2. Types'
  BY <1>1 DEF IInv, Types, Reporting, Undecided, Pending, Leaving, initVars, programVars, historyVars
<1>3. Decisions'
  <2>1. /\ pc'[t] = "idle" /\ \A u \in Thread : u # t => pc'[u] = pc[u] /\ failing'[u] = failing[u]
        /\ threads' = threads /\ words' = words
    BY <1>1 DEF IInv, Types, programVars
  <2>2. SeenTold' /\ \A f : Answered(f) => Answered(f)'
    <3>1. /\ "done" \notin Undecided /\ "done" \notin Pending
          /\ \A s \in seen' : s \in seen
          /\ printed \subseteq printed'
      BY <1>1 DEF Undecided, Pending, historyVars
    <3> QED BY <1>1, <2>1, <3>1, Moves
  <2>3. Told'
    BY <1>1, <2>2 DEF IInv, Decisions, Told, historyVars
  <2>4. LastTold'
    BY <1>1, <2>1 DEF IInv, Decisions, LastTold, historyVars
  <2>5. Wanted'
    <3>1. Loaded' = Loaded /\ "idle" \notin Undecided \union Pending
      BY <2>1 DEF Loaded, Undecided, Pending
    <3> QED BY <1>1, <2>1, <3>1 DEF IInv, Decisions, Wanted, historyVars
  <2>6. Configured'
    BY <1>1 DEF IInv, Decisions, Configured, Loaded, initVars, programVars
  <2> QED BY <2>2, <2>3, <2>4, <2>5, <2>6 DEF Decisions
<1>4. Balance' /\ Flushing'
  BY <1>1 DEF IInv, Types, Balance, Flushing, Owed, Unsummed, Pending, Leaving,
              initVars, programVars, historyVars
<1> QED BY <1>2, <1>3, <1>4 DEF IInv

\* The array is the one __libcrunch_global_init fills, from the first check on.
LEMMA GlobalInitFacts ==
  ASSUME IInv, GlobalInit, words' = words
  PROVE  suppressions' = Loaded /\ Configured'
  BY DEF IInv, Decisions, Configured, GlobalInit, Loaded

\* A failure that the loop of is_suppressed stops at is matched by a triple.
LEMMA SuppressedMatched ==
  ASSUME NEW f, is_suppressed(Loaded, f)
  PROVE  Matched(f)
<1>1. PICK i \in DOMAIN Loaded : Loaded[i] # <<>> /\ suppression_matches(Loaded[i], f)
  <2>1. PICK i \in DOMAIN Loaded : /\ \A j \in 1 .. i : Loaded[j] # <<>>
                                   /\ suppression_matches(Loaded[i], f)
    BY DEF is_suppressed
  <2> QED BY <2>1, SMTT(30)
<1> QED BY <1>1 DEF Loaded, Matched

LEMMA FailStep ==
  ASSUME IInv, NEW t \in Thread, NEW f \in Failure, Fail(t, f)
  PROVE  IInv'
<1>1. /\ t \in threads /\ pc[t] = "idle" /\ GlobalInit /\ (threads = {Main} => t = Main)
      /\ over = "no" \/ t # Main
      /\ failed' = Append(failed, f) /\ failing' = [failing EXCEPT ![t] = f]
      /\ counted' \in BOOLEAN
      /\ UNCHANGED <<programVars, over, early, verbose, seen, last, count, loaded, printed,
                     nprinted, nsummed>>
  BY AtFacts DEF Fail, IInv, Types
<1>2. words' = words /\ threads' = threads /\ suppressions' = Loaded /\ Configured'
  BY <1>1, GlobalInitFacts DEF programVars
<1>3. PICK q \in {"done", "compare", "lookup"} :
        /\ pc' = [pc EXCEPT ![t] = q]
        /\ passed' = passed + (IF q = "compare" THEN 1 ELSE 0)
        /\ q = "done" <=> is_suppressed(Loaded, f)
  BY <1>2 DEF Fail, Goto, IInv, Types
<1>4. Types'
  BY <1>1, <1>2, <1>3 DEF IInv, Types, Reporting, Undecided, Pending, Leaving
<1>5. Decisions'
  <2>1. /\ pc'[t] = q /\ failing'[t] = f
        /\ \A u \in Thread : u # t => pc'[u] = pc[u] /\ failing'[u] = failing[u]
        /\ "idle" \notin Undecided /\ "idle" \notin Pending
    BY <1>1, <1>3 DEF IInv, Types, Undecided, Pending
  <2>2. SeenTold' /\ \A g : Answered(g) => Answered(g)'
    <3>1. printed \subseteq printed' /\ \A s \in seen' : s \in seen
      BY <1>1
    <3> QED BY <1>1, <1>2, <1>3, <2>1, <3>1, Moves
  <2>3. Answered(f)'
    <3>1. CASE q = "done"
      <4>1. Matched(f)
        BY <1>3, <3>1, SuppressedMatched
      <4> QED BY <1>2, <4>1 DEF Answered, Matched
    <3>2. CASE q # "done"
      BY <1>1, <1>2, <1>3, <2>1, <3>2 DEF Answered, Coming, Undecided, Pending
    <3> QED BY <3>1, <3>2
  <2>4. Told'
    <3>1. \A i \in DOMAIN failed' : failed'[i] = f \/ (i \in DOMAIN failed /\ failed'[i] = failed[i])
      BY <1>1 DEF IInv, Types
    <3> QED BY <2>2, <2>3, <3>1 DEF IInv, Decisions, Told
  <2>5. LastTold'
    BY <1>1, <1>3, <2>1 DEF IInv, Decisions, LastTold
  <2>6. Wanted'
    <3>1. Loaded' = Loaded
      BY <1>2 DEF Loaded
    <3>2. pc'[t] \in Undecided \union Pending => ~is_suppressed(Loaded, failing'[t])
      BY <1>3, <2>1 DEF Undecided, Pending
    <3> QED BY <1>1, <2>1, <3>1, <3>2 DEF IInv, Decisions, Wanted
  <2> QED BY <1>2, <2>2, <2>4, <2>5, <2>6 DEF Decisions
<1>6. Balance'
  <2> SUFFICES ASSUME threads = {Main} PROVE Balance'
    BY <1>2 DEF Balance
  <2>1. pc[Main] = "idle" /\ pc'[Main] = q /\ passed = nprinted + nsummed + count
    BY <1>1, <1>3 DEF IInv, Types, Balance, Owed, Unsummed, Pending
  <2>2. Owed' = (IF q = "compare" THEN 1 ELSE 0) /\ Unsummed' = count
    BY <1>1, <2>1 DEF Owed, Unsummed, Pending
  <2> QED BY <1>1, <1>3, <2>1, <2>2 DEF IInv, Types, Balance
<1>7. Flushing'
  BY <1>1, <1>2, <1>3 DEF IInv, Types, Flushing, Leaving
<1> QED BY <1>4, <1>5, <1>6, <1>7 DEF IInv

LEMMA FailInAllocStep ==
  ASSUME IInv, NEW t \in Thread, FailInAlloc(t)
  PROVE  IInv'
<1>1. /\ t \in threads /\ GlobalInit /\ counted' = TRUE /\ (over = "no" \/ t # Main)
      /\ (threads = {Main} => t = Main)
      /\ UNCHANGED <<programVars, localVars, historyVars, over, early, verbose, seen, last, count>>
  BY AtFacts DEF FailInAlloc
<1>2. words' = words /\ Configured'
  BY <1>1, GlobalInitFacts DEF programVars
<1>3. Types'
  BY <1>1 DEF IInv, Types, programVars, localVars, historyVars
<1>4. Decisions'
  BY <1>1, <1>2, StandsStill DEF localVars, historyVars
<1>5. Balance'
  BY <1>1 DEF IInv, Balance, Owed, Unsummed, programVars, localVars, historyVars
<1>6. Flushing'
  BY <1>1 DEF IInv, Types, Flushing, Leaving, programVars, localVars
<1> QED BY <1>3, <1>4, <1>5, <1>6 DEF IInv

LEMMA InitStep ==
  ASSUME IInv, EarlyInit \/ Construct
  PROVE  IInv'
<1>1. UNCHANGED <<programVars, localVars, historyVars, over, seen, last, count, counted>>
  BY DEF EarlyInit, Construct
<1>2. Configured'
  <2>1. CASE EarlyInit
    BY <1>1, <2>1 DEF EarlyInit, IInv, Decisions, Configured, Loaded, programVars
  <2>2. CASE Construct
    BY <1>1, <2>2, GlobalInitFacts DEF Construct, programVars
  <2> QED BY <2>1, <2>2
<1>3. Types' /\ Balance' /\ Flushing'
  BY <1>1 DEF IInv, Types, Balance, Flushing, Owed, Unsummed, programVars, localVars, historyVars
<1>4. Decisions'
  BY <1>1, <1>2, StandsStill DEF localVars, historyVars
<1> QED BY <1>3, <1>4 DEF IInv

LEMMA ExitStep ==
  ASSUME IInv, Exit
  PROVE  IInv'
<1>1. /\ Main \in threads /\ pc[Main] = "idle" /\ over = "no" /\ over' = "leaving"
      /\ UNCHANGED <<initVars, programVars, historyVars, failing, loaded, seen, last, count, counted>>
  BY DEF Exit, IInv, Types
<1>2. PICK q \in {"exit_flush", "exit_end"} :
        pc' = [pc EXCEPT ![Main] = q] /\ (q = "exit_end" => ~counted)
  BY DEF Exit
<1>3. Types'
  BY <1>1, <1>2 DEF IInv, Types, Reporting, Undecided, Pending, Leaving, initVars, programVars,
                    historyVars
<1>4. Decisions'
  BY <1>1, <1>2, GoesOn DEF Reporting, Undecided, Pending, Leaving, initVars, programVars, historyVars
<1>5. Balance'
  BY <1>1, <1>2 DEF IInv, Types, Balance, Owed, Unsummed, Pending, programVars, historyVars
<1>6. Flushing'
  BY <1>1, <1>2 DEF IInv, Types, Flushing, Leaving, programVars
<1> QED BY <1>3, <1>4, <1>5, <1>6 DEF IInv

LEMMA ExitSummaryStep ==
  ASSUME IInv, ExitSummary
  PROVE  IInv'
<1>1. /\ Main \in threads /\ pc[Main] = "exit_flush" /\ count' = count
      /\ UNCHANGED <<initVars, programVars, failing, loaded, over, seen, last, counted,
                     failed, passed, printed, nprinted>>
  BY DEF ExitSummary, Flush, At
<1>2. PICK q \in {"exit_reset", "exit_end"} :
        /\ pc' = [pc EXCEPT ![Main] = q]
        /\ q = "exit_reset" => nsummed' = nsummed + count
        /\ q = "exit_end" => count = 0 /\ nsummed' = nsummed
  BY DEF ExitSummary, Flush, Goto
<1>3. Types'
  BY <1>1, <1>2 DEF IInv, Types, Reporting, Undecided, Pending, Leaving, initVars, programVars
<1>4. Decisions'
  BY <1>1, <1>2, GoesOn DEF Reporting, Undecided, Pending, Leaving, initVars, programVars
<1>5. Balance'
  <2> SUFFICES ASSUME threads = {Main} PROVE Balance'
    BY <1>1 DEF Balance, programVars
  <2>1. pc'[Main] = q /\ passed = nprinted + nsummed + count
    BY <1>1, <1>2 DEF IInv, Types, Balance, Owed, Unsummed, Pending
  <2>2. Owed' = 0 /\ Unsummed' = (IF q = "exit_reset" THEN 0 ELSE count)
    BY <1>1, <2>1 DEF Owed, Unsummed, Pending
  <2>3. passed \in Nat /\ nprinted \in Nat /\ nsummed \in Nat /\ count \in Nat
    BY DEF IInv, Types
  <2>4. passed' = nprinted' + nsummed' + Unsummed' + Owed'
    <3>1. CASE q = "exit_reset"
      BY <1>1, <1>2, <2>1, <2>2, <2>3, <3>1
    <3>2. CASE q = "exit_end"
      BY <1>1, <1>2, <2>1, <2>2, <2>3, <3>2
    <3> QED BY <3>1, <3>2
  <2> QED BY <1>2, <2>1, <2>4 DEF Balance
<1>6. Flushing'
  BY <1>1, <1>2 DEF IInv, Types, Flushing, Leaving, programVars
<1> QED BY <1>3, <1>4, <1>5, <1>6 DEF IInv

LEMMA ExitResetStep ==
  ASSUME IInv, ExitReset
  PROVE  IInv'
<1>1. /\ Main \in threads /\ pc[Main] = "exit_reset" /\ count' = 0
      /\ pc' = [pc EXCEPT ![Main] = "exit_end"]
      /\ UNCHANGED <<initVars, programVars, historyVars, failing, loaded, over, seen, last, counted>>
  BY DEF ExitReset, Goto, At
<1>2. Types'
  BY <1>1 DEF IInv, Types, Reporting, Undecided, Pending, Leaving, initVars, programVars, historyVars
<1>3. Decisions'
  BY <1>1, GoesOn DEF Reporting, Undecided, Pending, Leaving, initVars, programVars, historyVars
<1>4. Balance' /\ Flushing'
  BY <1>1 DEF IInv, Types, Balance, Flushing, Owed, Unsummed, Pending, Leaving, programVars,
              historyVars
<1> QED BY <1>2, <1>3, <1>4 DEF IInv

LEMMA EndStep ==
  ASSUME IInv, ExitEnd \/ Die \/ UNCHANGED vars
  PROVE  IInv'
<1>1. UNCHANGED <<initVars, programVars, localVars, historyVars, seen, last, count, counted>>
  BY DEF ExitEnd, Die, vars
<1>2. over' = over \/ over' = "killed" \/ (over' = "gone" /\ pc[Main] = "exit_end")
  BY DEF ExitEnd, Die, vars, At
<1>3. Configured'
  BY <1>1 DEF IInv, Decisions, Configured, Loaded, initVars, programVars
<1>4. Types' /\ Balance' /\ Flushing'
  BY <1>1, <1>2 DEF IInv, Types, Balance, Flushing, Owed, Unsummed, programVars, localVars,
                    historyVars
<1>5. Decisions'
  BY <1>1, <1>3, StandsStill DEF localVars, historyVars
<1> QED BY <1>4, <1>5 DEF IInv

LEMMA Inductive == IInv /\ [Next]_vars => IInv'
<1> SUFFICES ASSUME IInv, [Next]_vars PROVE IInv'
  OBVIOUS
<1>1. ASSUME NEW t \in Thread, NEW f \in Failure, Fail(t, f) PROVE IInv'
  BY <1>1, FailStep
<1>2. ASSUME NEW t \in Thread,
             \/ FailInAlloc(t) \/ Lookup(t) \/ Add(t) \/ Compare(t) \/ Increment(t)
             \/ Summarise(t) \/ Reset(t) \/ PrintFailure(t) \/ SetSite(t) \/ SetDecider(t) \/ Done(t)
      PROVE  IInv'
  BY <1>2, FailInAllocStep, LookupStep, AddStep, CompareStep, IncrementStep, SummariseStep,
     ResetStep, PrintStep, SetSiteStep, SetDeciderStep, DoneStep
<1>3. CASE EarlyInit \/ Construct
  BY <1>3, InitStep
<1>4. CASE Exit \/ ExitSummary \/ ExitReset
  BY <1>4, ExitStep, ExitSummaryStep, ExitResetStep
<1>5. CASE ExitEnd \/ Die \/ Stopped \/ UNCHANGED vars
  BY <1>5, EndStep DEF Stopped
<1> QED BY <1>1, <1>2, <1>3, <1>4, <1>5 DEF Next

LEMMA IInvHolds == Spec => []IInv
  BY Initial, Inductive, PTL DEF Spec

-----------------------------------------------------------------------------
(* Theorems *)

\* Once no thread is in should_report_failure_at or report_failure, every site
\* where a check failed has been printed or is matched by a suppression.
LEMMA EverySiteToldHolds == IInv => EverySiteTold
<1> SUFFICES ASSUME IInv, Quiet, NEW i \in DOMAIN failed
             PROVE  \/ \E p \in printed : p.site = failed[i].site
                    \/ \E j \in DOMAIN words : /\ IsTriple(words[j])
                                               /\ suppression_matches(words[j], failed[i])
  BY DEF EverySiteTold
<1>1. Answered(failed[i])
  BY DEF IInv, Decisions, Told
<1>2. ~Coming(failed[i].site, Undecided \union Pending)
  BY DEF Quiet, Coming, Undecided, Pending
<1> QED BY <1>1, <1>2 DEF Answered, Named, Matched

\* A failure that a leading triple names letter by letter is suppressed.
LEMMA NamedSuppressed ==
  ASSUME NEW p \in Failure, words \in SuppressionLists, NEW j \in DOMAIN words,
         \A k \in 1 .. j : IsTriple(words[k]),
         p.test # NoType, words[j][1] = NameOf[p.test],
         p.alloc # NoType, words[j][3] = NameOf[p.alloc],
         words[j][2] = NameOf[p.site]
  PROVE  is_suppressed(Loaded, p)
<1>1. ASSUME NEW x \in DOMAIN NameOf PROVE prefix_pattern_matches(NameOf[x], NameOf[x])
  BY <1>1, OwnPattern, ReportAssumption
<1>2. {p.test, p.alloc, p.site} \subseteq DOMAIN NameOf
  BY ReportAssumption
<1>3. suppression_matches(words[j], p)
  BY <1>1, <1>2 DEF suppression_matches, Name
<1>4. words \in Seq(Range(words)) /\ \A k \in DOMAIN words : words[k] # <<>>
  BY ReportAssumption
<1>5. j \in DOMAIN Loaded /\ j \in 1 .. j /\ 1 .. j \subseteq DOMAIN words
  BY <1>4 DEF Loaded
<1>6. \A k \in 1 .. j : Loaded[k] = words[k] /\ words[k] # <<>>
  BY <1>4, <1>5 DEF Loaded
<1> QED BY <1>3, <1>5, <1>6 DEF is_suppressed

\* What is printed is named by no triple that is_suppressed reaches.
LEMMA QuietHolds == IInv => QuietWhenAsked
<1> SUFFICES ASSUME IInv, NEW p \in printed, NEW j \in DOMAIN words,
                    \A k \in 1 .. j : IsTriple(words[k]),
                    p.test # NoType, words[j][1] = NameOf[p.test],
                    p.alloc # NoType, words[j][3] = NameOf[p.alloc],
                    words[j][2] = NameOf[p.site]
             PROVE  FALSE
  BY DEF QuietWhenAsked
<1>1. p \in Failure /\ words \in SuppressionLists /\ ~is_suppressed(Loaded, p)
  BY DEF IInv, Types, Decisions, Wanted
<1>2. is_suppressed(Loaded, p)
  BY <1>1, NamedSuppressed
<1> QED BY <1>1, <1>2

\* should_report_failure_at and report_failure decide rightly about every
\* failure, whatever the threads that run them do to each other: each failing
\* site is told unless suppressed, and nothing a suppression names is printed.
THEOREM ReportsRightCorrect == Spec => []ReportsRight
  BY IInvHolds, EverySiteToldHolds, QuietHolds, PTL DEF ReportsRight

\* With one thread, the failures let through are those that report_failure
\* printed, those in the summaries it printed, and those it still counts.
LEMMA CountsHold == IInv => CountsAddUp
<1> SUFFICES ASSUME IInv, threads = {Main}, Quiet
             PROVE  passed = nprinted + nsummed + count
  BY DEF CountsAddUp
<1>1. pc[Main] = "idle"
  BY DEF Quiet
<1>2. Owed = 0 /\ Unsummed = count
  BY <1>1 DEF Owed, Unsummed, Pending
<1> QED BY <1>2 DEF IInv, Types, Balance

\* report_failure loses no occurrence in a program of one thread.
THEOREM CountsCorrect == Spec => []CountsAddUp
  BY IInvHolds, CountsHold, PTL

\* The safety half of Flushed: a program of one thread that has gone through
\* print_exit_summary after a counted check has told of every failure that was
\* let through, in a printed failure or in a printed count.
AllTold ==
  over = "gone" /\ threads = {Main} /\ counted => count = 0 /\ passed = nprinted + nsummed

LEMMA AllToldHolds == IInv => AllTold
<1> SUFFICES ASSUME IInv, over = "gone", threads = {Main}, counted
             PROVE  count = 0 /\ passed = nprinted + nsummed
  BY DEF AllTold
<1>1. pc[Main] = "exit_end" /\ count = 0
  BY DEF IInv, Flushing
<1>2. Owed = 0 /\ Unsummed = 0
  BY <1>1 DEF Owed, Unsummed, Pending
<1> QED BY <1>1, <1>2 DEF IInv, Types, Balance

\* No occurrence is left untold when the process has ended through exit().
THEOREM AllToldAtExit == Spec => []AllTold
  BY IInvHolds, AllToldHolds, PTL
=============================================================================
