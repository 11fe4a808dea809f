--------------------------- MODULE ConformanceSuite ---------------------------
(* A process builds ConformanceTestSuites and several goroutines use one of  *)
(* them: Run executes the tests as subtests and publishes their results,     *)
(* Report compiles the published results (conformance/utils/suite/suite.go   *)
(* and conformance.go).  Tests are gated on the set the suite holds now,     *)
(* which it may share with suites that were built after it.                  *)
(*                                                                           *)
(* suite.lock protects two short sections of Run and all of Report; each is  *)
(* one action.  Between them a run takes one action per subtest event.  A    *)
(* parallel subtest makes t.Run return at once and waits until the test      *)
(* function that called Run returns (package testing).                       *)
EXTENDS SuiteFeatures

CONSTANTS
    Callers,        \* test functions that use the suite, each with its own t
    Tests,          \* the tests passed to Run, a sequence of ShortNames
    FeaturesOf,     \* ShortName -> set of features
    ParallelTests,  \* tests with Parallel set
    Uses            \* <<sequence of options, i>>: after constructions with
                    \* these the ith of the suites may be put to use

Names == {Tests[i] : i \in 1..Len(Tests)}

ASSUME TestsAssumption ==
    /\ Tests \in Seq(Names)
    /\ \A i, j \in 1..Len(Tests) : Tests[i] = Tests[j] => i = j
    /\ FeaturesOf \in [Names -> SUBSET Features]
    /\ ParallelTests \subseteq Names
    /\ \A u \in Uses : u[1] \in Seq(Options) /\ u[2] \in DOMAIN u[1]

VARIABLES
    used,       \* the index in suites of the one that is used, 0 for none yet
    running,    \* suite.running
    results,    \* suite.results: a function on test names, <<>> when nil
    pc,         \* caller -> control point
    next,       \* caller -> index of the test of the current iteration
    local,      \* caller -> the local map of results of its run
    succeeded,  \* caller -> what t.Run returned
    paused,     \* caller -> parallel subtests that wait for it to return
    verdict,    \* caller -> test -> what really happened in its latest run
    owner,      \* history: the caller whose run published results, or ""
    report      \* caller -> what its latest Report returned

runVars == <<running, results, pc, next, local, succeeded, paused, verdict,
             owner, report>>
buildVars == <<newVars, used>>
vars == <<buildVars, runVars>>

NotRun == [n \in Names |-> "none"]

Init ==
    /\ NewInit
    /\ used = 0
    /\ running = FALSE
    /\ results = <<>>
    /\ pc = [c \in Callers |-> "idle"]
    /\ next = [c \in Callers |-> 1]
    /\ local = [c \in Callers |-> <<>>]
    /\ succeeded = [c \in Callers |-> TRUE]
    /\ paused = [c \in Callers |-> {}]
    /\ verdict = [c \in Callers |-> NotRun]
    /\ owner = ""
    /\ report = [c \in Callers |-> [kind |-> "none"]]

InRun == {"loop", "body", "record"}

Goto(c, from, to) ==
    /\ pc[c] = from
    /\ pc' = [pc EXCEPT ![c] = to]

\* The suite in use and its SupportedFeatures.
Used == suites[used]
Supported == sets[Used.ref]

\* A step of the construction of a suite.
Build ==
    /\ used = 0
    /\ NewNext
    /\ UNCHANGED <<used, runVars>>

\* The callers get hold of one of the suites.
Use(i) ==
    /\ used = 0 /\ options = <<>>
    /\ <<asked, i>> \in Uses
    /\ used' = i
    /\ UNCHANGED <<newVars, runVars>>

-----------------------------------------------------------------------------
BeginRun(c) ==
    /\ running' = TRUE
    /\ owner' = ""
    /\ pc' = [pc EXCEPT ![c] = "loop"]
    /\ next' = [next EXCEPT ![c] = 1]
    /\ local' = [local EXCEPT ![c] = <<>>]
    /\ verdict' = [verdict EXCEPT ![c] = NotRun]

\* Mutant: Run does not look at the running flag.
RunStartUnchecked(c) ==
    /\ used # 0 /\ pc[c] = "idle"
    /\ BeginRun(c)
    /\ results' = <<>>
    /\ UNCHANGED <<buildVars, succeeded, paused, report>>

\* Run: the check of running and its assignment are one critical section.
RunStart(c) ==
    /\ used # 0 /\ pc[c] = "idle"
    /\ IF running
       THEN UNCHANGED <<running, results, owner, pc, next, local, verdict>>
       ELSE BeginRun(c) /\ results' = <<>>
    /\ UNCHANGED <<buildVars, succeeded, paused, report>>

\* The early returns of ConformanceTest.Run.
SkipsItself(n) ==
    \/ Used.runTest = "" /\ ~(FeaturesOf[n] \subseteq Supported)
    \/ n \in Used.skip
    \/ Used.runTest # "" /\ Used.runTest # n

\* t.Run begins the next subtest.  It returns true at once for a subtest that
\* calls t.Parallel and for one that skips itself.
Subtest(c) ==
    /\ pc[c] = "loop" /\ next[c] <= Len(Tests)
    /\ LET n == Tests[next[c]] IN
       \/ /\ n \in ParallelTests
          /\ Goto(c, "loop", "record")
          /\ paused' = [paused EXCEPT ![c] = @ \cup {n}]
          /\ succeeded' = [succeeded EXCEPT ![c] = TRUE]
          /\ UNCHANGED verdict
       \/ /\ n \notin ParallelTests
          /\ SkipsItself(n)
          /\ Goto(c, "loop", "record")
          /\ verdict' = [verdict EXCEPT ![c][n] = "skipped"]
          /\ succeeded' = [succeeded EXCEPT ![c] = TRUE]
          /\ UNCHANGED paused
       \/ /\ n \notin ParallelTests
          /\ ~SkipsItself(n)
          /\ Goto(c, "loop", "body")
          /\ UNCHANGED <<paused, verdict, succeeded>>
    /\ UNCHANGED <<buildVars, running, results, next, local, owner, report>>

\* The subtest applies its manifests and runs its body; either may fail it.
SubtestEnds(c, v) ==
    /\ Goto(c, "body", "record")
    /\ verdict' = [verdict EXCEPT ![c][Tests[next[c]]] = v]
    /\ succeeded' = [succeeded EXCEPT ![c] = (v = "passed")]
    /\ UNCHANGED <<buildVars, running, results, next, local, paused, owner, report>>

\* Mutant: a test on the skip list stays skipped even if it failed, and a
\* failure of an unsupported test is not looked at.
OutcomeSkipFirst(n, ok) ==
    IF ~(FeaturesOf[n] \subseteq Supported) THEN "NOT_SUPPORTED"
    ELSE IF n \in Used.skip \/ ~ok THEN "SKIPPED"
    ELSE "SUCCEEDED"

\* How Run classifies a subtest; later assignments overwrite earlier ones.
Outcome(n, ok) ==
    IF ~ok THEN "FAILED"
    ELSE IF ~(FeaturesOf[n] \subseteq Supported) THEN "NOT_SUPPORTED"
    ELSE IF n \in Used.skip THEN "SKIPPED"
    ELSE "SUCCEEDED"

Record(c) ==
    /\ Goto(c, "record", "loop")
    /\ LET n == Tests[next[c]] IN
       local' = [local EXCEPT ![c] =
                    [m \in DOMAIN @ \cup {n} |->
                        IF m = n THEN Outcome(n, succeeded[c]) ELSE @[m]]]
    /\ next' = [next EXCEPT ![c] = @ + 1]
    /\ UNCHANGED <<buildVars, running, results, succeeded, paused, verdict, owner,
                   report>>

\* Mutant: the loop expects one test more than there is.
RunEndLate(c) ==
    /\ Goto(c, "loop", "idle")
    /\ next[c] > Len(Tests) + 1
    /\ running' = FALSE
    /\ results' = local[c]
    /\ owner' = c
    /\ UNCHANGED <<buildVars, next, local, succeeded, paused, verdict, report>>

\* All tests are through: Run publishes the results and returns.
RunEnd(c) ==
    /\ Goto(c, "loop", "idle")
    /\ next[c] > Len(Tests)
    /\ running' = FALSE
    /\ results' = local[c]
    /\ owner' = c
    /\ UNCHANGED <<buildVars, next, local, succeeded, paused, verdict, report>>

-----------------------------------------------------------------------------
\* Report: an error while a run is going on, else the compiled results, which
\* are empty when there are none.
Report(c) ==
    /\ used # 0 /\ pc[c] = "idle"
    /\ report' = [report EXCEPT ![c] =
                    IF running THEN [kind |-> "error"]
                    ELSE [kind |-> "report",
                          profiles |-> CompileReport(results, FeaturesOf, Used)]]
    /\ UNCHANGED <<buildVars, running, results, pc, next, local, succeeded, paused,
                   verdict, owner>>

-----------------------------------------------------------------------------
\* The test function of a caller returns; its parallel subtests now run.
FunctionReturns(c) ==
    /\ Goto(c, "idle", "drain")
    /\ paused[c] # {}
    /\ UNCHANGED <<buildVars, running, results, next, local, succeeded, paused,
                   verdict, owner, report>>

ParallelSubtest(c, n, v) ==
    /\ pc[c] = "drain"
    /\ n \in paused[c]
    /\ v = "skipped" <=> SkipsItself(n)
    /\ verdict' = [verdict EXCEPT ![c][n] = v]
    /\ paused' = [paused EXCEPT ![c] = @ \ {n}]
    /\ pc' = IF paused'[c] = {} THEN [pc EXCEPT ![c] = "idle"] ELSE pc
    /\ UNCHANGED <<buildVars, running, results, next, local, succeeded, owner,
                   report>>

-----------------------------------------------------------------------------
RunStep(c) ==
    \/ Subtest(c)
    \/ \E v \in {"passed", "failed"} : SubtestEnds(c, v)
    \/ Record(c)
    \/ RunEnd(c)

Next ==
    \/ Build
    \/ \E i \in 1..Len(suites) : Use(i)
    \/ \E c \in Callers :
        \/ RunStart(c)
        \/ RunStep(c)
        \/ Report(c)
        \/ FunctionReturns(c)
        \/ \E n \in Names, v \in {"skipped", "passed", "failed"} :
               ParallelSubtest(c, n, v)

\* The goroutine of a run is scheduled.  A subtest need not end: the requests of
\* the mesh tests have no deadline.  Nobody is obliged to call Run or Report.
Spec ==
    /\ Init /\ [][Next]_vars
    /\ \A c \in Callers : WF_vars(Subtest(c) \/ Record(c) \/ RunEnd(c))

-----------------------------------------------------------------------------
\* Published results are those of one complete run: the running flag is set
\* exactly while one caller is inside Run, so that no two runs interleave, and
\* a Report never sees the results of a run in progress, of two runs, or of
\* some of the tests.
ResultsAreWhole ==
    /\ running <=> \E c \in Callers : pc[c] \in InRun
    /\ \A c, d \in Callers : pc[c] \in InRun /\ pc[d] \in InRun => c = d
    /\ running => results = <<>>
    /\ results # <<>> => DOMAIN results = Names
    /\ owner # "" => results = local[owner]

\* A test is recorded FAILED exactly if its subtest failed: neither the skip
\* list nor a missing feature hides a failure, and nothing else looks like one.
\* Parallel tests are left out: t.Run has returned before they are run.
FailuresAreRecorded ==
    owner # "" => \A n \in Names \ ParallelTests :
        results[n] = "FAILED" <=> verdict[owner][n] = "failed"

\* A level of a report is a success only if each of its tests that the suite
\* supports was executed and passed.
LevelIsEarned(n, extended, level) ==
    level.result = "success" =>
        \A t \in Names \ ParallelTests :
        \A p \in getConformanceProfilesForTest(FeaturesOf[t], Used.profiles) :
            /\ conformanceProfileMap[p].Name = n
            /\ isTestExtended(p, FeaturesOf[t]) = extended
            /\ FeaturesOf[t] \subseteq Supported
            => verdict[owner][t] = "passed"

\* Every report a caller receives is earned: its successes are backed by tests
\* that were run and passed in the run it reports on.  With RunTest set, the
\* tests that are passed over are recorded as successes, and parallel tests
\* are recorded before they run; the property is about all other cases.
SuccessMeansPassed ==
    [][\A c \in Callers : Report(c) /\ owner # "" /\ Used.runTest = "" =>
          \A n \in DOMAIN report'[c].profiles :
              LET r == report'[c].profiles[n] IN
              /\ LevelIsEarned(n, FALSE, r.core)
              /\ r.extended # <<>> => LevelIsEarned(n, TRUE, r.extended[1])]_vars

\* A run that has started ends and can be reported on, unless one of its
\* subtests never ends; Run itself waits for nothing else, and running is reset
\* whatever the outcomes are.
RunCompletes ==
    (\A c \in Callers : []<>(pc[c] # "body")) => (running ~> ~running)
=============================================================================
