--------------------------- MODULE FailureReport ---------------------------
(***************************************************************************)
(* Start-up, suppressions and the reporting of failed checks.  A failure is *)
(* dropped if a suppression matches it or, unless verbose, if its site has  *)
(* been seen; one like the last one printed is only counted; the count is   *)
(* printed before the next different failure and by the exit handler.  None *)
(* of this is locked: the steps below are the accesses to shared state.     *)
(***************************************************************************)
EXTENDS Integers, Sequences, FiniteSets, SequencesExt

CONSTANTS Thread,      \* threads a program may have
          Main,        \* the one every program has
          Failure,     \* failed checks, as the callers of report_failure see them
          SuppressionLists, \* values of LIBCRUNCH_SUPPRESSIONS, split at spaces
          NameOf,      \* of each type, and of the function around each site
          NoType,      \* a null uniqtype
          MaxFailures  \* bound on the failures of one behaviour

\* A suppression is a sequence of the parts between its commas, none empty; a
\* part, like a name, is a sequence of letters, and "*" is a letter.
ASSUME ReportAssumption ==
  /\ Main \in Thread /\ MaxFailures \in Nat
  /\ \A f \in Failure : /\ DOMAIN f = {"kind", "site", "found", "test", "alloc"}
                        /\ f.kind \in {"type", "derive", "deref"}
                        /\ f.site # NoType /\ f.site \in DOMAIN NameOf
                        /\ {f.test, f.alloc} \ {NoType} \subseteq DOMAIN NameOf
  /\ \A x \in DOMAIN NameOf : NameOf[x] # NoType /\ NameOf[x] \in Seq(Range(NameOf[x]))
  /\ \A list \in SuppressionLists :
       /\ list \in Seq(Range(list))
       /\ \A i \in DOMAIN list : list[i] # <<>> /\ \A j \in DOMAIN list[i] : list[i][j] # <<>>

VARIABLES
  \* the program and its environment
  threads, words, wants_verbose,
  over,           \* "no", "leaving" (exit was called), "gone", "killed", "crashed"
  \* libcrunch's statics
  early,          \* early_init has run: the stream is open, atexit was called
  initialized, suppressions, verbose, seen, last, count,
  counted,        \* one of the counters that print_exit_summary tests is not 0
  \* each thread's place in the reporting code, its failure, a loaded count
  pc, failing, loaded,
  \* history: failures so far, those let through by should_report_failure_at,
  \* those printed, how many were printed and how many counted in a summary
  failed, passed, printed, nprinted, nsummed

initVars    == <<early, initialized, suppressions, verbose>>
programVars == <<threads, words, wants_verbose>>
localVars   == <<pc, failing, loaded>>
historyVars == <<failed, passed, printed, nprinted, nsummed>>
vars == <<initVars, programVars, localVars, historyVars, over, seen, last, count, counted>>
-----------------------------------------------------------------------------
\* strncmp over the pattern's length, or as far as its "*".
prefix_pattern_matches(pat, str) ==
  LET stars == {i \in DOMAIN pat : pat[i] = "*"}
      n == IF stars = {} THEN Len(pat) ELSE (CHOOSE i \in stars : \A j \in stars : i <= j) - 1
  IN  str # NoType /\ IsPrefix(SubSeq(pat, 1, n), str)

Name(t) == IF t = NoType THEN NoType ELSE NameOf[t]

suppression_matches(s, f) ==
  /\ prefix_pattern_matches(s[1], Name(f.test))
  /\ prefix_pattern_matches(s[3], Name(f.alloc))
  /\ prefix_pattern_matches(s[2], NameOf[f.site])      \* test_site_matches

IsTriple(word) == Len(word) = 3

\* The array that __libcrunch_global_init fills: a word that is not a triple
\* leaves its entry null ...
Loaded == [i \in DOMAIN words |-> IF IsTriple(words[i]) THEN words[i] ELSE <<>>]

\* ... and a null entry ends the loop of is_suppressed.
is_suppressed(list, f) ==
  \E i \in DOMAIN list : /\ \A j \in 1 .. i : list[j] # <<>>
                         /\ suppression_matches(list[i], f)

Init ==
  /\ threads \in {T \in SUBSET Thread : Main \in T}
  /\ words \in SuppressionLists /\ wants_verbose \in BOOLEAN
  /\ over = "no" /\ early = FALSE /\ initialized = FALSE
  /\ suppressions = <<>> /\ verbose = FALSE /\ seen = {} /\ counted = FALSE
  /\ last = [site |-> NoType, decider |-> NoType] /\ count = 0
  /\ pc = [t \in Thread |-> "idle"] /\ failing \in [Thread -> {NoType}]
  /\ loaded = [t \in Thread |-> 0]
  /\ failed = <<>> /\ passed = 0 /\ printed = {} /\ nprinted = 0 /\ nsummed = 0

Running == over \in {"no", "leaving"}
At(t, where) == Running /\ t \in threads /\ pc[t] = where
Goto(t, where) == pc' = [pc EXCEPT ![t] = where]
-----------------------------------------------------------------------------
\* The two constructors.
EarlyInit ==
  /\ ~early /\ pc[Main] = "idle" /\ over = "no"
  /\ early' = TRUE /\ verbose' = wants_verbose
  /\ UNCHANGED <<programVars, localVars, historyVars, over, initialized, suppressions,
                 seen, last, count, counted>>

GlobalInit == initialized' = TRUE /\ suppressions' = IF initialized THEN suppressions ELSE Loaded

Construct ==
  /\ early /\ ~initialized /\ GlobalInit /\ pc[Main] = "idle" /\ over = "no"
  /\ UNCHANGED <<programVars, localVars, historyVars, over, early, verbose, seen, last,
                 count, counted>>

\* A check has failed in thread t: should_report_failure_at, up to the list.
\* Other threads start after the constructors; a library's own constructor may
\* run checks before them.
Fail(t, f) ==
  /\ At(t, "idle") /\ (t = Main \/ initialized) /\ Len(failed) < MaxFailures
  /\ over = "no" \/ t # Main
  /\ GlobalInit                                         \* __libcrunch_check_init
  /\ failed' = Append(failed, f) /\ failing' = [failing EXCEPT ![t] = f]
  /\ counted' = (counted \/ f.kind = "type")            \* ++__libcrunch_begun
  /\ IF is_suppressed(suppressions', f)
       THEN Goto(t, "done") /\ passed' = passed
       ELSE IF verbose THEN Goto(t, "compare") /\ passed' = passed + 1
                       ELSE Goto(t, "lookup") /\ passed' = passed
  /\ UNCHANGED <<programVars, over, early, verbose, seen, last, count, loaded, printed,
                 nprinted, nsummed>>

\* A failed type check inside an allocation function is counted, not reported.
FailInAlloc(t) ==
  /\ At(t, "idle") /\ (t = Main \/ initialized) /\ (over = "no" \/ t # Main)
  /\ GlobalInit /\ counted' = TRUE
  /\ UNCHANGED <<programVars, localVars, historyVars, over, early, verbose, seen, last, count>>

Lookup(t) ==
  /\ At(t, "lookup")
  /\ Goto(t, IF failing[t].site \in seen THEN "done" ELSE "add")
  /\ UNCHANGED <<initVars, programVars, historyVars, failing, loaded, over, seen, last, count, counted>>

Add(t) ==
  /\ At(t, "add")
  /\ seen' = seen \cup {failing[t].site} /\ passed' = passed + 1
  /\ Goto(t, "compare")
  /\ UNCHANGED <<initVars, programVars, failing, loaded, over, last, count, counted,
                 failed, printed, nprinted, nsummed>>

\* Mutant: the deciders alone are compared.
MutIsRepeat(f) == last.site # NoType /\ last.decider = f.found

IsRepeat(f) == last.site = f.site /\ last.decider = f.found

\* report_failure.
Compare(t) ==
  /\ At(t, "compare")
  /\ IF IsRepeat(failing[t]) THEN Goto(t, "increment") ELSE Goto(t, "flush")
  /\ loaded' = [loaded EXCEPT ![t] = count]
  /\ UNCHANGED <<initVars, programVars, historyVars, failing, over, seen, last, count, counted>>

Increment(t) ==
  /\ At(t, "increment")
  /\ count' = loaded[t] + 1 /\ Goto(t, "done")
  /\ UNCHANGED <<initVars, programVars, historyVars, failing, loaded, over, seen, last, counted>>

\* Mutant: the count is dropped when the failure changes.
MutFlush(t, then) ==
  /\ count > 0 /\ Goto(t, then) /\ count' = 0 /\ nsummed' = nsummed

\* report_repeat_failure_summary prints the count, then resets it.
Flush(t, then) ==
  /\ count > 0 /\ Goto(t, then)
  /\ nsummed' = nsummed + count /\ count' = count

Summarise(t) ==
  /\ At(t, "flush")
  /\ \/ Flush(t, "reset")
     \/ count = 0 /\ Goto(t, "print") /\ UNCHANGED <<count, nsummed>>
  /\ UNCHANGED <<initVars, programVars, failing, loaded, over, seen, last, counted,
                 failed, passed, printed, nprinted>>

Reset(t) ==
  /\ At(t, "reset") /\ count' = 0 /\ Goto(t, "print")
  /\ UNCHANGED <<initVars, programVars, historyVars, failing, loaded, over, seen, last, counted>>

\* Nothing can be printed before early_init has opened the stream.
PrintFailure(t) ==
  /\ At(t, "print")
  /\ IF early THEN /\ printed' = printed \cup {failing[t]} /\ nprinted' = nprinted + 1
                   /\ Goto(t, "set_site") /\ over' = over
              ELSE over' = "crashed" /\ UNCHANGED <<printed, nprinted, pc>>
  /\ UNCHANGED <<initVars, programVars, failing, loaded, seen, last, count, counted,
                 failed, passed, nsummed>>

SetSite(t) ==
  /\ At(t, "set_site") /\ last' = [last EXCEPT !.site = failing[t].site]
  /\ Goto(t, "set_decider")
  /\ UNCHANGED <<initVars, programVars, historyVars, failing, loaded, over, seen, count, counted>>

SetDecider(t) ==
  /\ At(t, "set_decider") /\ last' = [last EXCEPT !.decider = failing[t].found]
  /\ Goto(t, "done")
  /\ UNCHANGED <<initVars, programVars, historyVars, failing, loaded, over, seen, count, counted>>

\* Back in the caller: only a bad derivation is counted here.
Done(t) ==
  /\ At(t, "done") /\ Goto(t, "idle")
  /\ counted' = (counted \/ failing[t].kind = "derive") \* created_invalid_pointer
  /\ failing' = [failing EXCEPT ![t] = NoType]
  /\ UNCHANGED <<initVars, programVars, historyVars, loaded, over, seen, last, count>>
-----------------------------------------------------------------------------
\* The main thread calls exit; print_exit_summary is the last handler to run.
Exit ==
  /\ over = "no" /\ early /\ pc[Main] = "idle"
  /\ over' = "leaving"
  /\ pc' = [pc EXCEPT ![Main] = IF counted THEN "exit_flush" ELSE "exit_end"]
  /\ UNCHANGED <<initVars, programVars, historyVars, failing, loaded, seen, last, count, counted>>

\* Mutant: the handler prints the table only.
MutExitSummary ==
  /\ At(Main, "exit_flush") /\ Goto(Main, "exit_end") /\ UNCHANGED <<count, nsummed>>
  /\ UNCHANGED <<initVars, programVars, failing, loaded, over, seen, last, counted,
                 failed, passed, printed, nprinted>>

ExitSummary ==
  /\ At(Main, "exit_flush")
  /\ \/ Flush(Main, "exit_reset")
     \/ count = 0 /\ Goto(Main, "exit_end") /\ UNCHANGED <<count, nsummed>>
  /\ UNCHANGED <<initVars, programVars, failing, loaded, over, seen, last, counted,
                 failed, passed, printed, nprinted>>

ExitReset ==
  /\ At(Main, "exit_reset") /\ count' = 0 /\ Goto(Main, "exit_end")
  /\ UNCHANGED <<initVars, programVars, historyVars, failing, loaded, over, seen, last, counted>>

ExitEnd ==
  /\ At(Main, "exit_end") /\ over' = "gone"
  /\ UNCHANGED <<initVars, programVars, localVars, historyVars, seen, last, count, counted>>

\* abort, a signal or a raw exit in any thread: no handler runs.
Die ==
  /\ Running /\ over' = "killed"
  /\ UNCHANGED <<initVars, programVars, localVars, historyVars, seen, last, count, counted>>

Stopped == ~Running /\ UNCHANGED vars

Next ==
  \/ EarlyInit \/ Construct
  \/ \E t \in Thread :
       \/ \E f \in Failure : Fail(t, f)
       \/ FailInAlloc(t) \/ Lookup(t) \/ Add(t) \/ Compare(t) \/ Increment(t)
       \/ Summarise(t) \/ Reset(t) \/ PrintFailure(t) \/ SetSite(t) \/ SetDecider(t) \/ Done(t)
  \/ Exit \/ ExitSummary \/ ExitReset \/ ExitEnd \/ Die \/ Stopped

\* exit runs its handlers to the end.
Fairness == WF_vars(ExitSummary) /\ WF_vars(ExitReset) /\ WF_vars(ExitEnd)
Spec == Init /\ [][Next]_vars /\ Fairness
-----------------------------------------------------------------------------
Quiet == \A t \in threads : pc[t] = "idle"

\* Whatever the threads do to each other in should_report_failure_at and
\* report_failure, once all have left them every site where a check failed has
\* been named in a printed failure, unless a triple of the list matches.
EverySiteTold ==
  Quiet => \A i \in DOMAIN failed :
             \/ \E p \in printed : p.site = failed[i].site
             \/ \E j \in DOMAIN words : IsTriple(words[j]) /\ suppression_matches(words[j], failed[i])

\* What is printed is matched by no triple of the list that stands before the
\* first word that is not one, where a pattern without "*" matches itself.
QuietWhenAsked ==
  \A p \in printed, j \in DOMAIN words :
    (\A k \in 1 .. j : IsTriple(words[k])) =>
      ~(/\ p.test # NoType /\ words[j][1] = NameOf[p.test]
        /\ p.alloc # NoType /\ words[j][3] = NameOf[p.alloc]
        /\ words[j][2] = NameOf[p.site])

\* should_report_failure_at and report_failure decide about a failure rightly:
\* none is silenced but by a suppression or a report of its site, and none is
\* printed that a suppression names.
ReportsRight == EverySiteTold /\ QuietWhenAsked

\* In a program of one thread no occurrence is lost by report_failure: the
\* failures that should_report_failure_at let through are the printed ones,
\* those in the printed counts, and those in repeat_summarisation_count.
CountsAddUp ==
  threads = {Main} /\ Quiet => passed = nprinted + nsummed + count

\* If such a program exits through exit() after a counted check, the
\* occurrences not yet reported are reported by print_exit_summary.
Flushed ==
  (over = "leaving" /\ threads = {Main} /\ counted)
    ~> (over = "killed" \/ (over = "gone" /\ count = 0))
=============================================================================
