----------------------------- MODULE SuiteProofs -----------------------------
(* Run and Report of the conformance suite, for every number of callers and  *)
(* tests, the selection of features, for every choice of profiles, and the   *)
(* applier behind Setup and the tests: what it creates it removes, for every *)
(* set of manifests, every number of tests and any interference by others.   *)
EXTENDS ConformanceSuite, Applier, TLAPS

\* The tests that a run has recorded.
Recorded(c) == {Tests[i] : i \in 1..(next[c] - 1)}

Points == {"idle", "loop", "body", "record", "drain"}

RunTypes ==
    /\ running \in BOOLEAN
    /\ pc \in [Callers -> Points]
    /\ next \in [Callers -> Nat]
    /\ DOMAIN local = Callers
    /\ succeeded \in [Callers -> BOOLEAN]
    /\ paused \in [Callers -> SUBSET ParallelTests]
    /\ verdict \in [Callers -> [Names -> {"none", "skipped", "passed", "failed"}]]
    /\ owner # "" => owner \in Callers

\* A run goes through the tests in order and has recorded those before next.
LoopInv ==
    \A c \in Callers : pc[c] \in InRun =>
        /\ 1 <= next[c] /\ next[c] <= Len(Tests) + 1
        /\ pc[c] # "loop" => next[c] <= Len(Tests)
        /\ DOMAIN local[c] = Recorded(c)

\* What was recorded of a test that is not parallel is what happened in it, and
\* what is about to be recorded too.
HonestInv ==
    \A c \in Callers : pc[c] \in InRun =>
        /\ \A n \in Recorded(c) \ ParallelTests :
              local[c][n] = "FAILED" <=> verdict[c][n] = "failed"
        /\ pc[c] = "record" /\ Tests[next[c]] \notin ParallelTests =>
              (succeeded[c] <=> verdict[c][Tests[next[c]]] # "failed")

\* While a run is going on, nothing is published.
PublishedInv == running => owner = ""

SuiteInv ==
    /\ RunTypes /\ LoopInv /\ HonestInv /\ PublishedInv
    /\ ResultsAreWhole /\ FailuresAreRecorded

LEMMA EmptyDomain == DOMAIN <<>> = {}
  OBVIOUS

LEMMA LenNat == Len(Tests) \in Nat
  BY TestsAssumption

LEMMA DistinctTests == \A i, j \in 1..Len(Tests) : Tests[i] = Tests[j] => i = j
  BY TestsAssumption, Zenon

LEMMA NotRunType == NotRun \in [Names -> {"none", "skipped", "passed", "failed"}]
  BY DEF NotRun

LEMMA InitSuiteInv == Init => SuiteInv
<1> SUFFICES ASSUME Init PROVE SuiteInv
  OBVIOUS
<1>1. RunTypes
  <2>1. verdict \in [Callers -> [Names -> {"none", "skipped", "passed", "failed"}]]
    BY NotRunType, Zenon DEF Init
  <2> QED
    <3>1. running \in BOOLEAN
      BY Zenon DEF Init
    <3>2. pc \in [Callers -> Points] /\ next \in [Callers -> Nat]
      BY Zenon DEF Init, Points
    <3>3. DOMAIN local = Callers /\ owner = ""
      BY Zenon DEF Init
    <3>4. succeeded \in [Callers -> BOOLEAN] /\ paused \in [Callers -> SUBSET ParallelTests]
      BY Zenon DEF Init
    <3> QED
      BY <2>1, <3>1, <3>2, <3>3, <3>4, Zenon DEF RunTypes
<1>2. LoopInv /\ HonestInv /\ PublishedInv
  BY Zenon DEF Init, LoopInv, HonestInv, PublishedInv, InRun
<1>3. ResultsAreWhole /\ FailuresAreRecorded
  BY Zenon DEF Init, ResultsAreWhole, FailuresAreRecorded, InRun
<1> QED
  BY <1>1, <1>2, <1>3 DEF SuiteInv

\* Building a suite, Report and a Run that finds the suite running leave all of
\* this alone.
LEMMA SameRuns ==
    ASSUME SuiteInv,
           UNCHANGED <<running, results, pc, next, local, succeeded, paused, verdict, owner>>
    PROVE  SuiteInv'
<1>1. RunTypes'
  BY Zenon DEF SuiteInv, RunTypes
<1>2. LoopInv'
  BY DEF SuiteInv, LoopInv, Recorded
<1>3. HonestInv'
  BY DEF SuiteInv, HonestInv, Recorded
<1>4. PublishedInv' /\ ResultsAreWhole' /\ FailuresAreRecorded'
  BY Zenon DEF SuiteInv, PublishedInv, ResultsAreWhole, FailuresAreRecorded
<1> QED
  BY <1>1, <1>2, <1>3, <1>4 DEF SuiteInv

LEMMA RunStartStep ==
    ASSUME SuiteInv, NEW c \in Callers, RunStart(c)
    PROVE  SuiteInv'
<1>1. CASE running
  BY <1>1, SameRuns DEF RunStart
<1>2. CASE ~running
  <2>0. BeginRun(c) /\ results' = <<>> /\ UNCHANGED <<succeeded, paused>>
    BY <1>2 DEF RunStart
  <2>1. RunTypes'
    <3>1. verdict' \in [Callers -> [Names -> {"none", "skipped", "passed", "failed"}]]
      BY <2>0, NotRunType, Zenon DEF BeginRun, SuiteInv, RunTypes
    <3>2. running' \in BOOLEAN
      BY <2>0, Zenon DEF BeginRun
    <3>3. succeeded' \in [Callers -> BOOLEAN] /\ paused' \in [Callers -> SUBSET ParallelTests]
      BY <2>0, Zenon DEF SuiteInv, RunTypes
    <3>4. pc' \in [Callers -> Points] /\ next' \in [Callers -> Nat]
      BY <2>0, Zenon DEF BeginRun, SuiteInv, RunTypes, Points
    <3>5. DOMAIN local' = Callers /\ owner' = ""
      BY <2>0, Zenon DEF BeginRun, SuiteInv, RunTypes
    <3> QED
      BY <3>1, <3>2, <3>3, <3>4, <3>5, Zenon DEF RunTypes
  <2>2. \A d \in Callers : pc'[d] \in InRun => d = c
    BY <1>2, <2>0, Zenon DEF BeginRun, SuiteInv, RunTypes, ResultsAreWhole, InRun
  <2>3. next'[c] = 1 /\ local'[c] = <<>> /\ pc'[c] = "loop"
    BY <2>0, Zenon DEF BeginRun, SuiteInv, RunTypes
  <2>4. Recorded(c)' = {}
    <3>1. 1..(next'[c] - 1) = {}
      BY <2>3
    <3> QED
      BY <3>1 DEF Recorded
  <2>5. LoopInv'
    <3>1. DOMAIN local'[c] = {}
      BY <2>3, EmptyDomain, Zenon
    <3>2. 1 <= next'[c] /\ next'[c] <= Len(Tests) + 1
      BY <2>3, LenNat
    <3> QED
      BY <2>2, <2>3, <2>4, <3>1, <3>2, Zenon DEF LoopInv
  <2>6. HonestInv'
    BY <2>2, <2>3, <2>4 DEF HonestInv, InRun
  <2>7. PublishedInv' /\ ResultsAreWhole' /\ FailuresAreRecorded'
    BY <2>0, <2>2, <2>3, Zenon DEF BeginRun, PublishedInv, ResultsAreWhole, InRun, FailuresAreRecorded
  <2> QED
    BY <2>1, <2>5, <2>6, <2>7 DEF SuiteInv
<1> QED
  BY <1>1, <1>2

\* Inside a run nothing is published, and no other caller is inside one.
LEMMA InsideRun ==
    ASSUME SuiteInv, NEW c \in Callers, pc[c] \in InRun
    PROVE  /\ running /\ owner = "" /\ results = <<>>
           /\ \A d \in Callers : pc[d] \in InRun => d = c
  BY Zenon DEF SuiteInv, ResultsAreWhole, PublishedInv

\* A step from one point of a run to another that records nothing.
LEMMA StaysInRun ==
    ASSUME SuiteInv, RunTypes', NEW c \in Callers, NEW to \in InRun, pc[c] \in InRun,
           pc' = [pc EXCEPT ![c] = to], next[c] <= Len(Tests),
           UNCHANGED <<running, results, next, local, owner>>,
           \A n \in Recorded(c) \ ParallelTests : verdict'[c][n] = verdict[c][n],
           to = "record" /\ Tests[next[c]] \notin ParallelTests =>
               (succeeded'[c] <=> verdict'[c][Tests[next[c]]] # "failed")
    PROVE  SuiteInv'
<1>1. /\ running /\ owner = "" /\ results = <<>>
      /\ \A d \in Callers : pc[d] \in InRun => d = c
  BY InsideRun, Zenon
<1>2. /\ pc'[c] = to
      /\ \A d \in Callers : pc'[d] \in InRun => d = c
  BY <1>1, Zenon DEF SuiteInv, RunTypes
<1>3. Recorded(c)' = Recorded(c)
  BY DEF Recorded
<1>4. LoopInv'
  BY <1>2, <1>3 DEF SuiteInv, LoopInv
<1>5. HonestInv'
  BY <1>2, <1>3 DEF SuiteInv, HonestInv
<1>6. PublishedInv' /\ ResultsAreWhole' /\ FailuresAreRecorded'
  BY <1>1, <1>2, Zenon DEF PublishedInv, ResultsAreWhole, FailuresAreRecorded
<1> QED
  BY <1>4, <1>5, <1>6 DEF SuiteInv

\* The test of an iteration is not among those recorded before.
LEMMA NextIsNew ==
    ASSUME SuiteInv, NEW c \in Callers, pc[c] \in InRun, next[c] <= Len(Tests)
    PROVE  /\ Tests[next[c]] \in Names /\ Tests[next[c]] \notin Recorded(c)
           /\ Recorded(c) \subseteq Names
<1>0. next[c] \in Nat /\ 1 <= next[c]
  BY Zenon DEF SuiteInv, RunTypes, LoopInv
<1>1. next[c] \in 1..Len(Tests)
  BY <1>0, LenNat
<1>2. Tests[next[c]] \in Names
  BY <1>1 DEF Names
<1>3. ASSUME NEW i \in 1..(next[c] - 1), Tests[i] = Tests[next[c]]
      PROVE  FALSE
  BY <1>0, <1>1, <1>3, LenNat, DistinctTests
<1>4. 1..(next[c] - 1) \subseteq 1..Len(Tests)
  BY <1>0, <1>1, LenNat
<1> QED
  BY <1>2, <1>3, <1>4 DEF Recorded, Names

LEMMA SubtestStep ==
    ASSUME SuiteInv, NEW c \in Callers, Subtest(c)
    PROVE  SuiteInv'
<1> DEFINE n == Tests[next[c]]
<1>1. pc[c] = "loop" /\ next[c] <= Len(Tests) /\ pc[c] \in InRun
  BY DEF Subtest, InRun
<1>2. n \in Names /\ n \notin Recorded(c) /\ Recorded(c) \subseteq Names
  BY <1>1, NextIsNew
<1>3. UNCHANGED <<running, results, next, local, owner>>
  BY DEF Subtest
<1> HIDE DEF n
<1>4. ASSUME n \in ParallelTests, Goto(c, "loop", "record"), UNCHANGED verdict,
             paused' = [paused EXCEPT ![c] = @ \cup {n}],
             succeeded' = [succeeded EXCEPT ![c] = TRUE]
      PROVE  SuiteInv'
  <2>1. RunTypes'
    BY <1>3, <1>4, Zenon DEF SuiteInv, RunTypes, Goto, Points
  <2> QED
    BY <1>1, <1>3, <1>4, <2>1, StaysInRun, Zenon DEF Goto, InRun, n
<1>5. ASSUME n \notin ParallelTests, Goto(c, "loop", "record"), UNCHANGED paused,
             verdict' = [verdict EXCEPT ![c][n] = "skipped"],
             succeeded' = [succeeded EXCEPT ![c] = TRUE]
      PROVE  SuiteInv'
  <2>1. RunTypes'
    BY <1>2, <1>3, <1>5, Zenon DEF SuiteInv, RunTypes, Goto, Points
  <2>2. /\ verdict'[c][n] = "skipped"
        /\ \A m \in Recorded(c) : verdict'[c][m] = verdict[c][m]
    BY <1>2, <1>5, Zenon DEF SuiteInv, RunTypes
  <2>3. succeeded'[c]
    BY <1>5, Zenon DEF SuiteInv, RunTypes
  <2> QED
    BY <1>1, <1>3, <1>5, <2>1, <2>2, <2>3, StaysInRun, Zenon DEF Goto, InRun, n
<1>6. ASSUME Goto(c, "loop", "body"), UNCHANGED <<paused, verdict, succeeded>>
      PROVE  SuiteInv'
  <2>1. RunTypes'
    BY <1>3, <1>6, Zenon DEF SuiteInv, RunTypes, Goto, Points
  <2> QED
    BY <1>1, <1>3, <1>6, <2>1, StaysInRun, Zenon DEF Goto, InRun
<1> QED
  BY <1>4, <1>5, <1>6 DEF Subtest, n

LEMMA SubtestEndsStep ==
    ASSUME SuiteInv, NEW c \in Callers, NEW v \in {"passed", "failed"}, SubtestEnds(c, v)
    PROVE  SuiteInv'
<1> DEFINE n == Tests[next[c]]
<1>1. pc[c] = "body" /\ pc[c] \in InRun
  BY DEF SubtestEnds, Goto, InRun
<1>2. next[c] <= Len(Tests)
  BY <1>1 DEF SuiteInv, LoopInv
<1>3. n \in Names /\ n \notin Recorded(c) /\ Recorded(c) \subseteq Names
  BY <1>1, <1>2, NextIsNew
<1>4. /\ Goto(c, "body", "record")
      /\ verdict' = [verdict EXCEPT ![c][n] = v]
      /\ succeeded' = [succeeded EXCEPT ![c] = (v = "passed")]
      /\ UNCHANGED <<running, results, next, local, paused, owner>>
  BY DEF SubtestEnds
<1> HIDE DEF n
<1>5. RunTypes'
  <2>1. succeeded' \in [Callers -> BOOLEAN]
    BY <1>4, Zenon DEF SuiteInv, RunTypes
  <2>2. verdict' \in [Callers -> [Names -> {"none", "skipped", "passed", "failed"}]]
    BY <1>3, <1>4, Zenon DEF SuiteInv, RunTypes
  <2> QED
    BY <1>4, <2>1, <2>2, Zenon DEF SuiteInv, RunTypes, Goto, Points
<1>6. /\ verdict'[c][n] = v
      /\ \A m \in Recorded(c) : verdict'[c][m] = verdict[c][m]
  BY <1>3, <1>4, Zenon DEF SuiteInv, RunTypes
<1>7. succeeded'[c] <=> v # "failed"
  BY <1>4, Zenon DEF SuiteInv, RunTypes
<1> QED
  BY <1>1, <1>2, <1>4, <1>5, <1>6, <1>7, StaysInRun, Zenon DEF Goto, InRun, n

LEMMA RecordStep ==
    ASSUME SuiteInv, NEW c \in Callers, Record(c)
    PROVE  SuiteInv'
<1> DEFINE n == Tests[next[c]]
<1>1. /\ pc[c] = "record" /\ pc[c] \in InRun
      /\ pc' = [pc EXCEPT ![c] = "loop"]
      /\ next' = [next EXCEPT ![c] = @ + 1]
      /\ UNCHANGED <<running, results, succeeded, paused, verdict, owner>>
  BY DEF Record, Goto, InRun
<1>2. next[c] \in Nat /\ 1 <= next[c] /\ next[c] <= Len(Tests)
  BY <1>1, Zenon DEF SuiteInv, RunTypes, LoopInv
<1>3. n \in Names /\ n \notin Recorded(c) /\ Recorded(c) \subseteq Names
  BY <1>1, <1>2, NextIsNew
<1>4. local' = [local EXCEPT ![c] =
                  [m \in DOMAIN local[c] \cup {n} |->
                      IF m = n THEN Outcome(n, succeeded[c]) ELSE local[c][m]]]
  BY DEF Record
<1>5. DOMAIN local = Callers /\ DOMAIN local[c] = Recorded(c)
  BY <1>1, Zenon DEF SuiteInv, RunTypes, LoopInv
<1>6. /\ running /\ owner = "" /\ results = <<>>
      /\ \A d \in Callers : pc[d] \in InRun => d = c
  BY <1>1, InsideRun, Zenon
<1>7. Recorded(c)' = Recorded(c) \cup {n}
  <2>1. next'[c] = next[c] + 1
    BY <1>1, Zenon DEF SuiteInv, RunTypes
  <2>2. 1..(next'[c] - 1) = (1..(next[c] - 1)) \cup {next[c]}
    BY <1>2, <2>1
  <2> QED
    BY <2>2 DEF Recorded
<1> HIDE DEF n
<1>8. /\ DOMAIN local' = Callers
      /\ DOMAIN local'[c] = Recorded(c) \cup {n}
      /\ local'[c][n] = Outcome(n, succeeded[c])
      /\ \A m \in Recorded(c) : local'[c][m] = local[c][m]
  BY <1>3, <1>4, <1>5
<1>9. /\ pc'[c] = "loop" /\ next'[c] = next[c] + 1
      /\ \A d \in Callers : pc'[d] \in InRun => d = c
  BY <1>1, <1>6, Zenon DEF SuiteInv, RunTypes
<1>10. RunTypes'
  <2>1. pc' \in [Callers -> Points]
    BY <1>1, Zenon DEF SuiteInv, RunTypes, Points
  <2>2. next \in [Callers -> Nat]
    BY Zenon DEF SuiteInv, RunTypes
  <2>3. next' \in [Callers -> Nat]
    BY <1>1, <1>2, <2>2
  <2> QED
    BY <1>1, <1>8, <2>1, <2>3, Zenon DEF SuiteInv, RunTypes
<1>11. LoopInv'
  <2>1. 1 <= next'[c] /\ next'[c] <= Len(Tests) + 1
    BY <1>2, <1>9, LenNat
  <2> QED
    BY <1>7, <1>8, <1>9, <2>1, Zenon DEF LoopInv
<1>12. HonestInv'
  <2>1. n \notin ParallelTests => (Outcome(n, succeeded[c]) = "FAILED" <=> verdict[c][n] = "failed")
    BY <1>1, Zenon DEF SuiteInv, RunTypes, HonestInv, Outcome, n
  <2>2. \A m \in Recorded(c)' \ ParallelTests :
            local'[c][m] = "FAILED" <=> verdict'[c][m] = "failed"
    BY <1>1, <1>7, <1>8, <2>1 DEF SuiteInv, HonestInv
  <2> QED
    BY <1>9, <2>2 DEF HonestInv
<1>13. PublishedInv' /\ ResultsAreWhole' /\ FailuresAreRecorded'
  BY <1>1, <1>6, <1>9, Zenon DEF PublishedInv, ResultsAreWhole, FailuresAreRecorded, InRun
<1> QED
  BY <1>10, <1>11, <1>12, <1>13 DEF SuiteInv

LEMMA RunEndStep ==
    ASSUME SuiteInv, NEW c \in Callers, RunEnd(c)
    PROVE  SuiteInv'
<1>1. /\ pc[c] = "loop" /\ pc[c] \in InRun /\ next[c] > Len(Tests)
      /\ pc' = [pc EXCEPT ![c] = "idle"]
      /\ running' = FALSE /\ results' = local[c] /\ owner' = c
      /\ UNCHANGED <<next, local, succeeded, paused, verdict>>
  BY DEF RunEnd, Goto, InRun
<1>2. DOMAIN local[c] = Recorded(c) /\ Recorded(c) = Names
  <2>1. next[c] \in Nat /\ next[c] <= Len(Tests) + 1 /\ DOMAIN local[c] = Recorded(c)
    BY <1>1, Zenon DEF SuiteInv, RunTypes, LoopInv
  <2>2. next[c] - 1 = Len(Tests)
    BY <1>1, <2>1, LenNat
  <2> QED
    BY <2>1, <2>2 DEF Recorded, Names
<1>3. \A d \in Callers : pc'[d] \notin InRun
  BY <1>1, InsideRun, Zenon DEF SuiteInv, RunTypes, InRun
<1>4. RunTypes'
  <2>1. pc' \in [Callers -> Points]
    BY <1>1, Zenon DEF SuiteInv, RunTypes, Points
  <2> QED
    BY <1>1, <2>1, Zenon DEF SuiteInv, RunTypes
<1>5. LoopInv' /\ HonestInv' /\ PublishedInv'
  BY <1>1, <1>3, Zenon DEF LoopInv, HonestInv, PublishedInv
<1>6. ResultsAreWhole'
  BY <1>1, <1>2, <1>3, Zenon DEF ResultsAreWhole
<1>7. FailuresAreRecorded'
  BY <1>1, <1>2, Zenon DEF SuiteInv, HonestInv, FailuresAreRecorded
<1> QED
  BY <1>4, <1>5, <1>6, <1>7 DEF SuiteInv

\* Steps of a caller that is outside Run, before and after: its parallel
\* subtests may change what happened in parallel tests and nothing else.
LEMMA OutsideRun ==
    ASSUME SuiteInv, RunTypes', NEW c \in Callers, NEW to,
           pc[c] \notin InRun, to \notin InRun, pc' = [pc EXCEPT ![c] = to],
           UNCHANGED <<running, results, next, local, succeeded, owner>>,
           \A d \in Callers : \A n \in Names \ ParallelTests : verdict'[d][n] = verdict[d][n],
           \A d \in Callers : d # c => verdict'[d] = verdict[d]
    PROVE  SuiteInv'
<1>1. \A d \in Callers : /\ pc'[d] \in InRun <=> pc[d] \in InRun
                         /\ pc'[d] \in InRun => d # c /\ pc'[d] = pc[d]
  BY Zenon DEF SuiteInv, RunTypes
<1>2. \A d \in Callers : Recorded(d)' = Recorded(d)
  BY DEF Recorded
<1>3. LoopInv'
  BY <1>1, <1>2, Zenon DEF SuiteInv, LoopInv
<1>4. HonestInv'
  <2> SUFFICES ASSUME NEW d \in Callers, pc'[d] \in InRun
               PROVE  /\ \A n \in Recorded(d) \ ParallelTests :
                            local[d][n] = "FAILED" <=> verdict'[d][n] = "failed"
                      /\ pc'[d] = "record" /\ Tests[next[d]] \notin ParallelTests =>
                            (succeeded[d] <=> verdict'[d][Tests[next[d]]] # "failed")
    BY <1>2 DEF HonestInv
  <2>1. verdict'[d] = verdict[d] /\ pc'[d] = pc[d] /\ pc[d] \in InRun
    BY <1>1
  <2> QED
    BY <2>1 DEF SuiteInv, HonestInv
<1>5. PublishedInv' /\ ResultsAreWhole'
  BY <1>1, Zenon DEF SuiteInv, PublishedInv, ResultsAreWhole
<1>6. FailuresAreRecorded'
  <2> SUFFICES ASSUME owner # "", NEW n \in Names \ ParallelTests
               PROVE  results[n] = "FAILED" <=> verdict'[owner][n] = "failed"
    BY Zenon DEF FailuresAreRecorded
  <2>1. verdict'[owner][n] = verdict[owner][n]
    BY Zenon DEF SuiteInv, RunTypes
  <2> QED
    BY <2>1, Zenon DEF SuiteInv, FailuresAreRecorded
<1> QED
  BY <1>3, <1>4, <1>5, <1>6 DEF SuiteInv

LEMMA FunctionReturnsStep ==
    ASSUME SuiteInv, NEW c \in Callers, FunctionReturns(c)
    PROVE  SuiteInv'
<1>1. RunTypes'
  <2>1. pc' \in [Callers -> Points]
    BY Zenon DEF FunctionReturns, Goto, SuiteInv, RunTypes, Points
  <2> QED
    BY <2>1, Zenon DEF FunctionReturns, SuiteInv, RunTypes
<1> QED
  BY <1>1, OutsideRun, Zenon DEF FunctionReturns, Goto, InRun

LEMMA ParallelSubtestStep ==
    ASSUME SuiteInv, NEW c \in Callers, NEW n \in Names,
           NEW v \in {"skipped", "passed", "failed"}, ParallelSubtest(c, n, v)
    PROVE  SuiteInv'
<1>1. /\ pc[c] = "drain" /\ n \in paused[c]
      /\ verdict' = [verdict EXCEPT ![c][n] = v]
      /\ paused' = [paused EXCEPT ![c] = @ \ {n}]
      /\ UNCHANGED <<running, results, next, local, succeeded, owner>>
  BY DEF ParallelSubtest
<1>2. PICK to \in {"idle", "drain"} : pc' = [pc EXCEPT ![c] = to]
  BY <1>1, Zenon DEF ParallelSubtest, SuiteInv, RunTypes
<1>3. n \in ParallelTests
  BY <1>1, Zenon DEF SuiteInv, RunTypes
<1>4. /\ verdict' \in [Callers -> [Names -> {"none", "skipped", "passed", "failed"}]]
      /\ \A d \in Callers : d # c => verdict'[d] = verdict[d]
      /\ \A d \in Callers : \A m \in Names \ ParallelTests : verdict'[d][m] = verdict[d][m]
  BY <1>1, <1>3, Zenon DEF SuiteInv, RunTypes
<1>5. pc' \in [Callers -> Points] /\ paused' \in [Callers -> SUBSET ParallelTests]
  BY <1>1, <1>2, Zenon DEF SuiteInv, RunTypes, Points
<1>6. RunTypes'
  BY <1>1, <1>4, <1>5, Zenon DEF SuiteInv, RunTypes
<1> QED
  BY <1>1, <1>2, <1>4, <1>6, OutsideRun, Zenon DEF InRun

LEMMA NextSuiteInv == SuiteInv /\ [Next]_vars => SuiteInv'
<1> SUFFICES ASSUME SuiteInv, [Next]_vars PROVE SuiteInv'
  OBVIOUS
<1>1. CASE Build
  BY <1>1, SameRuns DEF Build, runVars
<1>2. ASSUME NEW i \in 1..Len(suites), Use(i) PROVE SuiteInv'
  BY <1>2, SameRuns DEF Use, runVars
<1>3. ASSUME NEW c \in Callers, RunStep(c) PROVE SuiteInv'
  BY <1>3, SubtestStep, SubtestEndsStep, RecordStep, RunEndStep DEF RunStep
<1>4. ASSUME NEW c \in Callers, Report(c) PROVE SuiteInv'
  BY <1>4, SameRuns DEF Report
<1>5. CASE UNCHANGED vars
  BY <1>5, SameRuns DEF vars, runVars
<1> QED
  BY <1>1, <1>2, <1>3, <1>4, <1>5, RunStartStep, FunctionReturnsStep, ParallelSubtestStep
     DEF Next

\* No two runs of a suite interleave and what Run publishes, and Report then
\* compiles, is the outcome of every test of one run: whatever the number of
\* goroutines and tests, and although Run holds the lock only at its ends.
THEOREM PublishedResults == Spec => []ResultsAreWhole
<1>1. SuiteInv => ResultsAreWhole
  BY DEF SuiteInv
<1> QED
  BY <1>1, InitSuiteInv, NextSuiteInv, PTL DEF Spec

\* Run records FAILED for exactly those tests whose subtest failed, parallel
\* tests aside: for every suite, skip list and set of supported features.
THEOREM FailuresReach == Spec => []FailuresAreRecorded
<1>1. SuiteInv => FailuresAreRecorded
  BY DEF SuiteInv
<1> QED
  BY <1>1, InitSuiteInv, NextSuiteInv, PTL DEF Spec

-----------------------------------------------------------------------------
(* The feature loop of NewConformanceTestSuite.  After each iteration the    *)
(* map holds what was requested and the core features of the profiles that   *)
(* were visited.  The split of a visited profile is already the final one,   *)
(* as no core feature that is inserted later is extended in that profile.    *)
Core(p) == conformanceProfileMap[p].core
Extended(p) == conformanceProfileMap[p].extended

Building(o) ==
    LET base == requested \ o.exempt
        visited == o.profiles \ todo
    IN  /\ o \in Options
        /\ Ref(o) \in DOMAIN sets
        /\ todo \subseteq o.profiles
        /\ visited \subseteq ProfileNames
        /\ suite = [ref |-> Ref(o), profiles |-> o.profiles, skip |-> o.skip,
                    runTest |-> o.runTest, supported |-> suite.supported,
                    unsupported |-> suite.unsupported]
        /\ DOMAIN suite.supported = o.profiles
        /\ DOMAIN suite.unsupported = o.profiles
        /\ sets[Ref(o)] = base \cup UNION {Core(p) : p \in visited}
        /\ \A p \in visited :
             /\ suite.supported[p] = Extended(p) \cap base
             /\ suite.unsupported[p] = (Extended(p) \ base) \cup (Extended(p) \cap o.exempt)

SelectionInv ==
    /\ DOMAIN sets = DOMAIN InitialSets \cup {Global}
    /\ options = <<>> => todo = {}
    /\ options # <<>> => options = <<options[1]>> /\ Building(options[1])

LEMMA DisjointLevels ==
    \A p, q \in ProfileNames : Extended(p) \cap Core(q) = {}
  BY LevelsAreDisjoint, Zenon DEF Extended, Core

LEMMA SelectionMeansClosedForm == SelectionInv => LoopComputesSelection
<1> SUFFICES ASSUME SelectionInv, options # <<>>, todo = {}
             PROVE  LET o == options[1]
                        selection == [supported |-> requested, exempt |-> o.exempt,
                                      profiles |-> o.profiles]
                    IN  /\ sets[suite.ref] = SupportedFeatures(selection)
                        /\ \A p \in o.profiles :
                             /\ suite.supported[p] = extendedSupportedFeatures(selection, p)
                             /\ suite.unsupported[p] =
                                  extendedUnsupportedFeatures(selection, p)
  BY DEF LoopComputesSelection
<1> DEFINE o == options[1]
           base == requested \ o.exempt
           all == base \cup UNION {Core(p) : p \in o.profiles}
           selection == [supported |-> requested, exempt |-> o.exempt,
                         profiles |-> o.profiles]
<1>1. Building(o)
  BY DEF SelectionInv
<1>2. o.profiles \ todo = o.profiles
  OBVIOUS
<1>3. /\ o.profiles \subseteq ProfileNames
      /\ suite.ref = Ref(o)
      /\ sets[Ref(o)] = all
      /\ \A p \in o.profiles :
           /\ suite.supported[p] = Extended(p) \cap base
           /\ suite.unsupported[p] = (Extended(p) \ base) \cup (Extended(p) \cap o.exempt)
  BY <1>1, <1>2 DEF Building
<1>4. SupportedFeatures(selection) = all
  BY DEF SupportedFeatures, Requested, Core
<1>5. ASSUME NEW p \in o.profiles
      PROVE  Extended(p) \cap all = Extended(p) \cap base /\ Extended(p) \ all = Extended(p) \ base
  BY <1>3, DisjointLevels
<1>6. ASSUME NEW p \in o.profiles
      PROVE  /\ extendedSupportedFeatures(selection, p) = Extended(p) \cap all
             /\ extendedUnsupportedFeatures(selection, p) =
                    (Extended(p) \ all) \cup (Extended(p) \cap o.exempt)
  BY <1>4 DEF extendedSupportedFeatures, extendedUnsupportedFeatures, Extended
<1> HIDE DEF o, base, all, selection
<1>7. sets[suite.ref] = SupportedFeatures(selection)
  BY <1>3, <1>4
<1>8. ASSUME NEW p \in o.profiles
      PROVE  /\ suite.supported[p] = extendedSupportedFeatures(selection, p)
             /\ suite.unsupported[p] = extendedUnsupportedFeatures(selection, p)
  <2>1. /\ suite.supported[p] = Extended(p) \cap base
        /\ suite.unsupported[p] = (Extended(p) \ base) \cup (Extended(p) \cap o.exempt)
    BY <1>3, Zenon
  <2>2. Extended(p) \cap all = Extended(p) \cap base /\ Extended(p) \ all = Extended(p) \ base
    BY <1>5, Zenon
  <2>3. /\ extendedSupportedFeatures(selection, p) = Extended(p) \cap all
        /\ extendedUnsupportedFeatures(selection, p) =
               (Extended(p) \ all) \cup (Extended(p) \cap o.exempt)
    BY <1>6, Zenon
  <2> QED
    BY <2>1, <2>2, <2>3, Zenon
<1> QED
  BY <1>7, <1>8 DEF o, selection

LEMMA NewBeginStep ==
    ASSUME SelectionInv, NEW o \in Options, NewBegin(o)
    PROVE  SelectionInv'
<1>1. Ref(o) \in DOMAIN sets
  BY OptionsAssumption DEF SelectionInv, Ref
<1>2. /\ options' = <<o>> /\ todo' = o.profiles /\ requested' = sets[Ref(o)]
      /\ sets' = [sets EXCEPT ![Ref(o)] = @ \ o.exempt]
      /\ suite' = SuiteFor(o)
  BY Zenon DEF NewBegin
<1>3. DOMAIN sets' = DOMAIN sets /\ sets'[Ref(o)] = requested' \ o.exempt
  BY <1>1, <1>2
<1>4. o.profiles \ todo' = {}
  BY <1>2
<1>5. /\ suite' = [ref |-> Ref(o), profiles |-> o.profiles, skip |-> o.skip,
                   runTest |-> o.runTest, supported |-> suite'.supported,
                   unsupported |-> suite'.unsupported]
      /\ DOMAIN suite'.supported = o.profiles
      /\ DOMAIN suite'.unsupported = o.profiles
  BY <1>2 DEF SuiteFor
<1>6. UNION {Core(p) : p \in o.profiles \ todo'} = {}
  BY <1>4
<1>7. Building(o)'
  BY <1>1, <1>2, <1>3, <1>4, <1>5, <1>6 DEF Building, Ref
<1>8. options' # <<>> /\ options'[1] = o
  BY <1>2
<1> QED
  BY <1>2, <1>3, <1>7, <1>8 DEF SelectionInv

LEMMA SplitUpdate ==
    ASSUME NEW a, NEW b, NEW c, NEW d, NEW s, NEW u, NEW p, NEW x, NEW y, NEW r, NEW new,
           r = [ref |-> a, profiles |-> b, skip |-> c, runTest |-> d,
                supported |-> s, unsupported |-> u],
           new = [r EXCEPT !.supported[p] = x, !.unsupported[p] = y]
    PROVE  new = [ref |-> a, profiles |-> b, skip |-> c, runTest |-> d,
                  supported |-> [s EXCEPT ![p] = x], unsupported |-> [u EXCEPT ![p] = y]]
  BY Zenon

LEMMA VisitProfileStep ==
    ASSUME SelectionInv, NEW p \in todo \cap ProfileNames, VisitProfile(p)
    PROVE  SelectionInv'
<1> DEFINE o == options[1]
           base == requested \ o.exempt
           visited == o.profiles \ todo
           now == sets[Ref(o)] \cup Core(p)
<1>1. options # <<>> /\ options = <<o>> /\ Building(o)
  BY DEF SelectionInv
<1>2. suite.ref = Ref(o) /\ Ref(o) \in DOMAIN sets /\ p \in o.profiles
  BY <1>1 DEF Building
<1>3. /\ sets' = [sets EXCEPT ![Ref(o)] = now]
      /\ suite' = [suite EXCEPT
                     !.supported[p] = Extended(p) \cap now,
                     !.unsupported[p] = (Extended(p) \ now) \cup (Extended(p) \cap o.exempt)]
      /\ todo' = todo \ {p}
      /\ UNCHANGED <<options, requested>>
  BY <1>2 DEF VisitProfile, Core, Extended
<1>4. o.profiles \ todo' = visited \cup {p} /\ todo' \subseteq o.profiles
  BY <1>1, <1>2, <1>3 DEF Building
<1>5. /\ visited \subseteq ProfileNames /\ p \notin visited
      /\ sets[Ref(o)] = base \cup UNION {Core(q) : q \in visited}
  BY <1>1 DEF Building
<1>6. Extended(p) \cap now = Extended(p) \cap base /\ Extended(p) \ now = Extended(p) \ base
  BY <1>5, DisjointLevels
<1>7. DOMAIN sets' = DOMAIN sets /\ sets'[Ref(o)] = now
  BY <1>2, <1>3
<1>8. now = base \cup UNION {Core(q) : q \in visited \cup {p}}
  BY <1>5
<1> HIDE DEF now
<1>9. /\ suite' = [ref |-> Ref(o), profiles |-> o.profiles, skip |-> o.skip,
                   runTest |-> o.runTest, supported |-> suite'.supported,
                   unsupported |-> suite'.unsupported]
      /\ suite'.supported = [suite.supported EXCEPT ![p] = Extended(p) \cap now]
      /\ suite'.unsupported = [suite.unsupported EXCEPT ![p] =
                                  (Extended(p) \ now) \cup (Extended(p) \cap o.exempt)]
      /\ DOMAIN suite.supported = o.profiles
      /\ DOMAIN suite.unsupported = o.profiles
  <2>1. /\ suite = [ref |-> Ref(o), profiles |-> o.profiles, skip |-> o.skip,
                    runTest |-> o.runTest, supported |-> suite.supported,
                    unsupported |-> suite.unsupported]
        /\ DOMAIN suite.supported = o.profiles
        /\ DOMAIN suite.unsupported = o.profiles
    BY <1>1 DEF Building
  <2> DEFINE s == suite.supported
             u == suite.unsupported
             x == Extended(p) \cap now
             y == (Extended(p) \ now) \cup (Extended(p) \cap o.exempt)
             ref == Ref(o)
             profiles == o.profiles
             skip == o.skip
             runTest == o.runTest
  <2>2. suite' = [suite EXCEPT !.supported[p] = x, !.unsupported[p] = y]
    BY <1>3
  <2>3. suite = [ref |-> ref, profiles |-> profiles, skip |-> skip, runTest |-> runTest,
                 supported |-> s, unsupported |-> u]
    BY <2>1
  <2> HIDE DEF s, u, x, y, ref, profiles, skip, runTest, o
  <2>4. suite' = [ref |-> ref, profiles |-> profiles, skip |-> skip, runTest |-> runTest,
                  supported |-> [s EXCEPT ![p] = x], unsupported |-> [u EXCEPT ![p] = y]]
    BY <2>2, <2>3, SplitUpdate, Zenon
  <2>5. suite'.supported = [s EXCEPT ![p] = x] /\ suite'.unsupported = [u EXCEPT ![p] = y]
    BY <2>4
  <2> QED
    BY <2>1, <2>4, <2>5 DEF s, u, x, y, ref, profiles, skip, runTest
<1>10. ASSUME NEW q \in visited \cup {p}
       PROVE  /\ suite'.supported[q] = Extended(q) \cap base
              /\ suite'.unsupported[q] = (Extended(q) \ base) \cup (Extended(q) \cap o.exempt)
  <2>1. CASE q = p
    BY <1>2, <1>6, <1>9, <2>1
  <2>2. CASE q # p
    <3>1. /\ suite.supported[q] = Extended(q) \cap base
          /\ suite.unsupported[q] = (Extended(q) \ base) \cup (Extended(q) \cap o.exempt)
          /\ q \in o.profiles
      BY <1>1, <2>2, Zenon DEF Building
    <3>2. suite'.supported[q] = suite.supported[q] /\ suite'.unsupported[q] = suite.unsupported[q]
      BY <1>9, <2>2, <3>1
    <3> QED
      BY <3>1, <3>2, Zenon
  <2> QED
    BY <2>1, <2>2
<1>11. Building(o)'
  <2>1. options'[1] = o /\ requested' = requested
    BY <1>3
  <2>2. DOMAIN suite'.supported = o.profiles /\ DOMAIN suite'.unsupported = o.profiles
    BY <1>9
  <2>3. o \in Options
    BY <1>1 DEF Building
  <2>4. o.profiles \ todo' \subseteq ProfileNames
    BY <1>4, <1>5
  <2>5. Ref(o) \in DOMAIN sets'
    BY <1>2, <1>7
  <2>6. sets'[Ref(o)] = base \cup UNION {Core(q) : q \in o.profiles \ todo'}
    BY <1>4, <1>7, <1>8, Zenon
  <2>7. \A q \in o.profiles \ todo' :
          /\ suite'.supported[q] = Extended(q) \cap base
          /\ suite'.unsupported[q] = (Extended(q) \ base) \cup (Extended(q) \cap o.exempt)
    BY <1>4, <1>10, Zenon
  <2> QED
    BY <1>4, <1>9, <2>1, <2>2, <2>3, <2>4, <2>5, <2>6, <2>7, Zenon DEF Building, Ref
<1> QED
  BY <1>1, <1>3, <1>7, <1>11 DEF SelectionInv

LEMMA SameSelection ==
    ASSUME SelectionInv, UNCHANGED newVars
    PROVE  SelectionInv'
  BY DEF SelectionInv, Building, newVars

LEMMA InitSelectionInv == Init => SelectionInv
  BY Zenon DEF Init, NewInit, SelectionInv

LEMMA OnlyBuildBuilds == ASSUME [Next]_vars, ~Build PROVE UNCHANGED newVars
<1>1. ASSUME NEW c \in Callers, RunStep(c) PROVE UNCHANGED newVars
  BY <1>1, Zenon DEF RunStep, Subtest, SubtestEnds, Record, RunEnd, buildVars
<1>2. ASSUME NEW c \in Callers, RunStart(c) PROVE UNCHANGED newVars
  BY <1>2, Zenon DEF RunStart, buildVars
<1>3. ASSUME NEW c \in Callers, Report(c) \/ FunctionReturns(c) PROVE UNCHANGED newVars
  BY <1>3, Zenon DEF Report, FunctionReturns, buildVars
<1>4. ASSUME NEW c \in Callers, NEW n \in Names, NEW v \in {"skipped", "passed", "failed"},
             ParallelSubtest(c, n, v)
      PROVE  UNCHANGED newVars
  BY <1>4, Zenon DEF ParallelSubtest, buildVars
<1>5. ASSUME NEW i \in 1..Len(suites), Use(i) PROVE UNCHANGED newVars
  BY <1>5, Zenon DEF Use
<1>6. CASE UNCHANGED vars
  BY <1>6, Zenon DEF vars, buildVars
<1> QED
  BY <1>1, <1>2, <1>3, <1>4, <1>5, <1>6, Zenon DEF Next

LEMMA NextSelectionInv == SelectionInv /\ [Next]_vars => SelectionInv'
<1> SUFFICES ASSUME SelectionInv, [Next]_vars PROVE SelectionInv'
  OBVIOUS
<1>1. CASE Build
  <2>1. CASE VisitUnregistered \/ NewEnd
    <3>1. options' = <<>> /\ todo' = {} /\ sets' = sets
      BY <2>1 DEF VisitUnregistered, NewEnd
    <3> QED
      BY <3>1 DEF SelectionInv
  <2> QED
    BY <1>1, <2>1, NewBeginStep, VisitProfileStep DEF Build, NewNext
<1>2. CASE ~Build
  BY <1>2, OnlyBuildBuilds, SameSelection
<1> QED
  BY <1>1, <1>2

\* NewConformanceTestSuite ranges over a set of profiles, in an order that
\* differs between executions, and inserts into the set that it splits by.
\* The suite it builds is the same in every order, for every choice of options
\* and although the set may be shared with suites built before.
THEOREM SelectionIsOrderFree == Spec => []LoopComputesSelection
  BY InitSelectionInv, NextSelectionInv, SelectionMeansClosedForm, PTL DEF Spec

-----------------------------------------------------------------------------
(* What a report says.  Once a suite is in use the set its tests are gated   *)
(* on stays as it is, so that a test is recorded by the same features that   *)
(* Report looks at.                                                          *)

\* Test n has been run by caller c or has skipped itself.
Settled(c, n) ==
    /\ verdict[c][n] \in {"passed", "failed", "skipped"}
    /\ verdict[c][n] = "skipped" => SkipsItself(n)

\* A supported test that was recorded with outcome r, neither failed nor
\* skipped, has passed.
Earned(c, n, r) ==
    /\ Used.runTest = "" /\ FeaturesOf[n] \subseteq Supported
    /\ r # "FAILED" /\ r # "SKIPPED"
    => verdict[c][n] = "passed"

EarnedInv ==
    /\ used = 0 => owner = "" /\ \A c \in Callers : pc[c] = "idle" /\ paused[c] = {}
    /\ \A c \in Callers : pc[c] \in InRun =>
         /\ \A n \in Recorded(c) \ ParallelTests : Earned(c, n, local[c][n])
         /\ pc[c] = "record" /\ Tests[next[c]] \notin ParallelTests => Settled(c, Tests[next[c]])
    /\ owner # "" => \A n \in Names \ ParallelTests : Earned(owner, n, results[n])

LEMMA InitEarnedInv == Init => EarnedInv
<1> SUFFICES ASSUME Init PROVE EarnedInv
  OBVIOUS
<1>1. owner = "" /\ \A c \in Callers : pc[c] = "idle" /\ paused[c] = {}
  BY Zenon DEF Init
<1>2. \A c \in Callers : pc[c] \notin InRun
  BY <1>1, Zenon DEF InRun
<1> QED
  BY <1>1, <1>2, Zenon DEF EarnedInv

\* The set that gates the tests does not change.
LEMMA SameGates ==
    ASSUME UNCHANGED buildVars
    PROVE  /\ used' = used /\ Used' = Used /\ Supported' = Supported
           /\ \A n : SkipsItself(n)' <=> SkipsItself(n)
<1>1. used' = used /\ suites' = suites /\ sets' = sets
  BY DEF buildVars, newVars
<1>2. Used' = Used
  BY <1>1 DEF Used
<1>3. Supported' = Supported
  BY <1>1, <1>2 DEF Supported
<1> QED
  BY <1>1, <1>2, <1>3, Zenon DEF SkipsItself

LEMMA EarnedKept ==
    ASSUME NEW c, NEW n, UNCHANGED buildVars, verdict'[c][n] = verdict[c][n]
    PROVE  /\ \A r : Earned(c, n, r) => Earned(c, n, r)'
           /\ Settled(c, n) => Settled(c, n)'
  BY SameGates, Zenon DEF Earned, Settled

\* Nothing is built or used before somebody runs the suite.
LEMMA EarnedBuild ==
    ASSUME EarnedInv, used = 0, UNCHANGED runVars
    PROVE  EarnedInv'
  BY Zenon DEF EarnedInv, runVars, InRun

LEMMA EarnedSame ==
    ASSUME EarnedInv, UNCHANGED <<buildVars, pc, next, local, paused, verdict, owner, results>>
    PROVE  EarnedInv'
<1>1. UNCHANGED buildVars /\ used' = used
  BY DEF buildVars
<1>2. \A c, n, r : Earned(c, n, r) => Earned(c, n, r)'
  BY <1>1, EarnedKept, Zenon
<1>3. \A c, n : Settled(c, n) => Settled(c, n)'
  BY <1>1, EarnedKept, Zenon
<1>4. \A c : Recorded(c)' = Recorded(c)
  BY DEF Recorded
<1> QED
  BY <1>1, <1>2, <1>3, <1>4, Zenon DEF EarnedInv

LEMMA EarnedRunStart ==
    ASSUME SuiteInv, EarnedInv, NEW c \in Callers, RunStart(c)
    PROVE  EarnedInv'
<1>1. CASE running
  BY <1>1, EarnedSame DEF RunStart
<1>2. CASE ~running
  <2>1. /\ used # 0 /\ used' = used /\ owner' = ""
        /\ pc' = [pc EXCEPT ![c] = "loop"] /\ next' = [next EXCEPT ![c] = 1]
    BY <1>2, Zenon DEF RunStart, BeginRun, buildVars
  <2>2. pc'[c] = "loop" /\ next'[c] = 1 /\ \A d \in Callers : d # c => pc'[d] \notin InRun
    BY <1>2, <2>1, Zenon DEF SuiteInv, RunTypes, ResultsAreWhole
  <2>3. Recorded(c)' = {}
    BY <2>2 DEF Recorded
  <2> QED
    BY <2>1, <2>2, <2>3, Zenon DEF EarnedInv
<1> QED
  BY <1>1, <1>2

\* A step from one point of a run to another that records nothing.
LEMMA EarnedInRun ==
    ASSUME SuiteInv, EarnedInv, NEW c \in Callers, NEW to \in InRun, pc[c] \in InRun,
           UNCHANGED <<buildVars, next, local, owner>>, pc' = [pc EXCEPT ![c] = to],
           \A n \in Recorded(c) \ ParallelTests : verdict'[c][n] = verdict[c][n],
           to = "record" /\ Tests[next[c]] \notin ParallelTests => Settled(c, Tests[next[c]])'
    PROVE  EarnedInv'
<1>1. owner' = "" /\ \A d \in Callers : pc[d] \in InRun => d = c
  BY InsideRun, Zenon
<1>2. pc'[c] = to /\ \A d \in Callers : pc'[d] \in InRun => d = c
  BY <1>1, Zenon DEF SuiteInv, RunTypes
<1>3. UNCHANGED buildVars /\ used' = used /\ used # 0
  BY Zenon DEF buildVars, EarnedInv, InRun
<1>4. Recorded(c)' = Recorded(c)
  BY DEF Recorded
<1>5. ASSUME NEW n \in Recorded(c) \ ParallelTests
      PROVE  Earned(c, n, local[c][n])'
  <2>1. Earned(c, n, local[c][n])
    BY Zenon DEF EarnedInv
  <2>2. \A r : Earned(c, n, r) => Earned(c, n, r)'
    BY <1>3, EarnedKept, Zenon
  <2> QED
    BY <1>3, <2>1, <2>2, SameGates, Zenon DEF Earned
<1> QED
  BY <1>1, <1>2, <1>3, <1>4, <1>5, Zenon DEF EarnedInv

LEMMA EarnedSubtest ==
    ASSUME SuiteInv, EarnedInv, NEW c \in Callers, Subtest(c)
    PROVE  EarnedInv'
<1> DEFINE n == Tests[next[c]]
<1>1. pc[c] = "loop" /\ next[c] <= Len(Tests) /\ pc[c] \in InRun
  BY DEF Subtest, InRun
<1>2. n \in Names /\ n \notin Recorded(c) /\ Recorded(c) \subseteq Names
  BY <1>1, NextIsNew
<1>3. UNCHANGED <<buildVars, next, local, owner>>
  BY DEF Subtest
<1> HIDE DEF n
<1>4. ASSUME n \in ParallelTests, Goto(c, "loop", "record"), UNCHANGED verdict
      PROVE  EarnedInv'
  BY <1>1, <1>3, <1>4, EarnedInRun, Zenon DEF Goto, InRun, n
<1>5. ASSUME SkipsItself(n), Goto(c, "loop", "record"),
             verdict' = [verdict EXCEPT ![c][n] = "skipped"]
      PROVE  EarnedInv'
  <2>1. /\ verdict'[c][n] = "skipped"
        /\ \A m \in Recorded(c) : verdict'[c][m] = verdict[c][m]
    BY <1>2, <1>5, Zenon DEF SuiteInv, RunTypes
  <2>2. UNCHANGED buildVars /\ n' = n
    BY <1>3 DEF n
  <2>3. SkipsItself(n)'
    BY <1>5, <2>2, SameGates
  <2>4. Settled(c, n)'
    BY <2>1, <2>2, <2>3 DEF Settled
  <2> QED
    BY <1>1, <1>3, <1>5, <2>1, <2>4, EarnedInRun, Zenon DEF Goto, InRun, n
<1>6. ASSUME Goto(c, "loop", "body"), UNCHANGED verdict
      PROVE  EarnedInv'
  BY <1>1, <1>3, <1>6, EarnedInRun, Zenon DEF Goto, InRun
<1> QED
  BY <1>4, <1>5, <1>6 DEF Subtest, n

LEMMA EarnedSubtestEnds ==
    ASSUME SuiteInv, EarnedInv, NEW c \in Callers, NEW v \in {"passed", "failed"},
           SubtestEnds(c, v)
    PROVE  EarnedInv'
<1> DEFINE n == Tests[next[c]]
<1>1. pc[c] = "body" /\ pc[c] \in InRun
  BY DEF SubtestEnds, Goto, InRun
<1>2. next[c] <= Len(Tests)
  BY <1>1 DEF SuiteInv, LoopInv
<1>3. n \in Names /\ n \notin Recorded(c) /\ Recorded(c) \subseteq Names
  BY <1>1, <1>2, NextIsNew
<1>4. /\ pc' = [pc EXCEPT ![c] = "record"]
      /\ verdict' = [verdict EXCEPT ![c][n] = v]
      /\ UNCHANGED <<buildVars, next, local, owner>>
  BY DEF SubtestEnds, Goto
<1> HIDE DEF n
<1>5. /\ verdict'[c][n] = v
      /\ \A m \in Recorded(c) : verdict'[c][m] = verdict[c][m]
  BY <1>3, <1>4, Zenon DEF SuiteInv, RunTypes
<1>6. Settled(c, n)'
  BY <1>4, <1>5 DEF Settled, n
<1> QED
  BY <1>1, <1>4, <1>5, <1>6, EarnedInRun, Zenon DEF InRun, n

\* A test that skipped itself without being on the skip list or lacking a
\* feature does so for RunTest only.
LEMMA RecordsWhatIsEarned ==
    ASSUME NEW c, NEW n, NEW ok, Settled(c, n), ok => verdict[c][n] # "failed"
    PROVE  Earned(c, n, Outcome(n, ok))
<1> SUFFICES ASSUME Used.runTest = "", FeaturesOf[n] \subseteq Supported,
                    Outcome(n, ok) # "FAILED", Outcome(n, ok) # "SKIPPED"
             PROVE  verdict[c][n] = "passed"
  BY Zenon DEF Earned
<1>1. ok
  BY Zenon DEF Outcome
<1>2. n \notin Used.skip
  BY <1>1, Zenon DEF Outcome
<1>3. ~SkipsItself(n)
  BY <1>2, Zenon DEF SkipsItself
<1>4. verdict[c][n] # "failed"
  BY <1>1, Zenon
<1> QED
  BY <1>3, <1>4, Zenon DEF Settled

LEMMA EarnedRecord ==
    ASSUME SuiteInv, EarnedInv, NEW c \in Callers, Record(c)
    PROVE  EarnedInv'
<1> DEFINE n == Tests[next[c]]
<1>1. /\ pc[c] = "record" /\ pc[c] \in InRun
      /\ pc' = [pc EXCEPT ![c] = "loop"]
      /\ next' = [next EXCEPT ![c] = @ + 1]
      /\ UNCHANGED <<buildVars, verdict, owner>>
  BY DEF Record, Goto, InRun
<1>2. next[c] \in Nat /\ 1 <= next[c] /\ next[c] <= Len(Tests)
  BY <1>1, Zenon DEF SuiteInv, RunTypes, LoopInv
<1>3. n \in Names /\ n \notin Recorded(c)
  BY <1>1, <1>2, NextIsNew
<1>4. local' = [local EXCEPT ![c] =
                  [m \in DOMAIN local[c] \cup {n} |->
                      IF m = n THEN Outcome(n, succeeded[c]) ELSE local[c][m]]]
  BY DEF Record
<1>5. DOMAIN local = Callers /\ DOMAIN local[c] = Recorded(c)
  BY <1>1, Zenon DEF SuiteInv, RunTypes, LoopInv
<1>6. owner' = "" /\ \A d \in Callers : pc[d] \in InRun => d = c
  BY <1>1, InsideRun, Zenon
<1>7. Recorded(c)' = Recorded(c) \cup {n}
  <2>1. next'[c] = next[c] + 1
    BY <1>1, Zenon DEF SuiteInv, RunTypes
  <2>2. 1..(next'[c] - 1) = (1..(next[c] - 1)) \cup {next[c]}
    BY <1>2, <2>1
  <2> QED
    BY <2>2 DEF Recorded
<1>8. /\ pc'[c] = "loop" /\ \A d \in Callers : pc'[d] \in InRun => d = c
  BY <1>1, <1>6, Zenon DEF SuiteInv, RunTypes
<1>9. UNCHANGED buildVars /\ used' = used /\ used # 0
  BY <1>1, Zenon DEF buildVars, EarnedInv
<1>10. n \notin ParallelTests => Earned(c, n, Outcome(n, succeeded[c]))
  <2>1. ASSUME n \notin ParallelTests PROVE Settled(c, n) /\ (succeeded[c] => verdict[c][n] # "failed")
    BY <1>1, <2>1, Zenon DEF EarnedInv, SuiteInv, HonestInv
  <2> QED
    BY <2>1, RecordsWhatIsEarned
<1> HIDE DEF n
<1>11. /\ local'[c][n] = Outcome(n, succeeded[c])
       /\ \A m \in Recorded(c) : local'[c][m] = local[c][m]
  BY <1>3, <1>4, <1>5
<1>12. ASSUME NEW m \in (Recorded(c) \cup {n}) \ ParallelTests
       PROVE  Earned(c, m, local[c][m])'
  <2>1. Earned(c, m, local'[c][m])
    <3>1. CASE m = n
      BY <1>10, <1>11, <1>12, <3>1
    <3>2. CASE m # n
      BY <1>1, <1>11, <1>12, <3>2, Zenon DEF EarnedInv
    <3> QED
      BY <3>1, <3>2
  <2> QED
    BY <1>1, <1>9, <2>1, SameGates, Zenon DEF Earned
<1> QED
  BY <1>6, <1>7, <1>8, <1>9, <1>12, Zenon DEF EarnedInv

LEMMA EarnedRunEnd ==
    ASSUME SuiteInv, EarnedInv, NEW c \in Callers, RunEnd(c)
    PROVE  EarnedInv'
<1>1. /\ pc[c] = "loop" /\ pc[c] \in InRun /\ next[c] > Len(Tests)
      /\ pc' = [pc EXCEPT ![c] = "idle"]
      /\ results' = local[c] /\ owner' = c
      /\ UNCHANGED <<buildVars, verdict>>
  BY DEF RunEnd, Goto, InRun
<1>2. Recorded(c) = Names
  <2>1. next[c] \in Nat /\ next[c] <= Len(Tests) + 1
    BY <1>1, Zenon DEF SuiteInv, RunTypes, LoopInv
  <2>2. next[c] - 1 = Len(Tests)
    BY <1>1, <2>1, LenNat
  <2> QED
    BY <2>2 DEF Recorded, Names
<1>3. \A d \in Callers : pc'[d] \notin InRun
  BY <1>1, InsideRun, Zenon DEF SuiteInv, RunTypes, InRun
<1>4. UNCHANGED buildVars /\ used' = used /\ used # 0
  BY <1>1, Zenon DEF buildVars, EarnedInv
<1>5. ASSUME NEW n \in Names \ ParallelTests PROVE Earned(owner, n, results[n])'
  <2>1. Earned(c, n, local[c][n])
    BY <1>1, <1>2, Zenon DEF EarnedInv
  <2> QED
    BY <1>1, <1>4, <2>1, SameGates, Zenon DEF Earned
<1> QED
  BY <1>3, <1>4, <1>5, Zenon DEF EarnedInv

\* Outside Run only what happened in parallel tests changes.
LEMMA EarnedOutside ==
    ASSUME SuiteInv, EarnedInv, NEW c \in Callers, NEW to, pc[c] \notin InRun, to \notin InRun,
           pc' = [pc EXCEPT ![c] = to], used # 0,
           UNCHANGED <<buildVars, results, next, local, owner>>,
           \A d \in Callers : \A n \in Names \ ParallelTests : verdict'[d][n] = verdict[d][n],
           \A d \in Callers : d # c => verdict'[d] = verdict[d]
    PROVE  EarnedInv'
<1>1. \A d \in Callers : pc'[d] \in InRun => d # c /\ pc'[d] = pc[d]
  BY Zenon DEF SuiteInv, RunTypes
<1>2. UNCHANGED buildVars /\ used' = used
  BY DEF buildVars
<1>3. ASSUME NEW d \in Callers, pc'[d] \in InRun
      PROVE  /\ \A n \in Recorded(d)' \ ParallelTests : Earned(d, n, local[d][n])'
             /\ pc'[d] = "record" /\ Tests[next'[d]] \notin ParallelTests =>
                    Settled(d, Tests[next[d]])'
  <2>1. /\ pc'[d] = pc[d] /\ verdict'[d] = verdict[d] /\ Recorded(d)' = Recorded(d)
        /\ local'[d] = local[d] /\ next'[d] = next[d]
    BY <1>1, <1>3 DEF Recorded
  <2>2. /\ \A n \in Recorded(d) \ ParallelTests : Earned(d, n, local[d][n])
        /\ pc[d] = "record" /\ Tests[next[d]] \notin ParallelTests => Settled(d, Tests[next[d]])
    BY <1>3, <2>1, Zenon DEF EarnedInv
  <2> QED
    BY <1>2, <2>1, <2>2, SameGates, Zenon DEF Earned, Settled
<1>4. ASSUME owner' # "", NEW n \in Names \ ParallelTests PROVE Earned(owner, n, results[n])'
  <2>1. Earned(owner, n, results[n]) /\ owner \in Callers
    BY <1>4, Zenon DEF EarnedInv, SuiteInv, RunTypes
  <2> QED
    BY <1>2, <2>1, SameGates, Zenon DEF Earned
<1> QED
  BY <1>2, <1>3, <1>4, Zenon DEF EarnedInv

LEMMA EarnedReturns ==
    ASSUME SuiteInv, EarnedInv, NEW c \in Callers, FunctionReturns(c)
    PROVE  EarnedInv'
<1>1. /\ pc[c] = "idle" /\ paused[c] # {} /\ pc' = [pc EXCEPT ![c] = "drain"]
      /\ UNCHANGED <<buildVars, results, next, local, verdict, owner>>
  BY DEF FunctionReturns, Goto
<1>2. used # 0
  BY <1>1, Zenon DEF EarnedInv
<1> QED
  BY <1>1, <1>2, EarnedOutside, Zenon DEF InRun

LEMMA EarnedParallel ==
    ASSUME SuiteInv, EarnedInv, NEW c \in Callers, NEW n \in Names,
           NEW v \in {"skipped", "passed", "failed"}, ParallelSubtest(c, n, v)
    PROVE  EarnedInv'
<1>1. /\ pc[c] = "drain" /\ n \in paused[c]
      /\ verdict' = [verdict EXCEPT ![c][n] = v]
      /\ UNCHANGED <<buildVars, results, next, local, owner>>
  BY DEF ParallelSubtest
<1>2. PICK to \in {"idle", "drain"} : pc' = [pc EXCEPT ![c] = to]
  BY <1>1, Zenon DEF ParallelSubtest, SuiteInv, RunTypes
<1>3. n \in ParallelTests
  BY <1>1, Zenon DEF SuiteInv, RunTypes
<1>4. /\ \A d \in Callers : d # c => verdict'[d] = verdict[d]
      /\ \A d \in Callers : \A m \in Names \ ParallelTests : verdict'[d][m] = verdict[d][m]
  BY <1>1, <1>3, Zenon DEF SuiteInv, RunTypes
<1>5. used # 0
  BY <1>1, Zenon DEF EarnedInv
<1> QED
  BY <1>1, <1>2, <1>4, <1>5, EarnedOutside, Zenon DEF InRun

LEMMA NextEarnedInv == SuiteInv /\ EarnedInv /\ [Next]_vars => EarnedInv'
<1> SUFFICES ASSUME SuiteInv, EarnedInv, [Next]_vars PROVE EarnedInv'
  OBVIOUS
<1>1. CASE Build
  BY <1>1, EarnedBuild DEF Build
<1>2. ASSUME NEW i \in 1..Len(suites), Use(i) PROVE EarnedInv'
  BY <1>2, EarnedBuild DEF Use
<1>3. ASSUME NEW c \in Callers, RunStep(c) PROVE EarnedInv'
  BY <1>3, EarnedSubtest, EarnedSubtestEnds, EarnedRecord, EarnedRunEnd DEF RunStep
<1>4. ASSUME NEW c \in Callers, Report(c) PROVE EarnedInv'
  BY <1>4, EarnedSame DEF Report
<1>5. CASE UNCHANGED vars
  BY <1>5, EarnedSame DEF vars, runVars
<1> QED
  BY <1>1, <1>2, <1>3, <1>4, <1>5, EarnedRunStart, EarnedReturns, EarnedParallel DEF Next

\* A level that compileResults calls a success counts no failed and no skipped
\* test.
LEMMA SuccessCountsNothing ==
    ASSUME NEW passed, NEW failing, NEW skipped,
           Status(passed, failing, skipped).result = "success"
    PROVE  failing = {} /\ skipped = {}
<1>1. CASE failing # {}
  BY <1>1 DEF Status
<1>2. CASE failing = {} /\ skipped # {}
  BY <1>2 DEF Status
<1> QED
  BY <1>1, <1>2

LEMMA LevelFromCells ==
    ASSUME EarnedInv, owner # "", Used.runTest = "", DOMAIN results = Names,
           NEW n, NEW extended \in BOOLEAN
    PROVE  LevelIsEarned(n, extended,
               Status(Counted(results, FeaturesOf, Used.profiles, n, extended, "SUCCEEDED"),
                      Counted(results, FeaturesOf, Used.profiles, n, extended, "FAILED"),
                      Counted(results, FeaturesOf, Used.profiles, n, extended, "SKIPPED")))
<1> DEFINE cell(r) == Counted(results, FeaturesOf, Used.profiles, n, extended, r)
           level == Status(cell("SUCCEEDED"), cell("FAILED"), cell("SKIPPED"))
<1> SUFFICES ASSUME level.result = "success", NEW t \in Names \ ParallelTests,
                    NEW p \in getConformanceProfilesForTest(FeaturesOf[t], Used.profiles),
                    conformanceProfileMap[p].Name = n,
                    isTestExtended(p, FeaturesOf[t]) = extended,
                    FeaturesOf[t] \subseteq Supported
             PROVE  verdict[owner][t] = "passed"
  BY Zenon DEF LevelIsEarned
<1>1. cell("FAILED") = {} /\ cell("SKIPPED") = {}
  BY SuccessCountsNothing, Zenon
<1>2. p \in Used.profiles
  BY Zenon DEF getConformanceProfilesForTest
<1>3. ASSUME NEW r, results[t] = r PROVE <<t, p>> \in cell(r)
  <2>1. <<t, p>> \in (DOMAIN results) \X Used.profiles
    BY <1>2, Zenon
  <2>2. <<t, p>>[1] = t /\ <<t, p>>[2] = p
    BY Zenon
  <2> QED
    BY <1>3, <2>1, <2>2, Zenon DEF Counted
<1>4. results[t] # "FAILED" /\ results[t] # "SKIPPED"
  <2> HIDE DEF cell
  <2> QED
    BY <1>1, <1>3, Zenon
<1>5. Earned(owner, t, results[t])
  BY Zenon DEF EarnedInv
<1> QED
  BY <1>4, <1>5, Zenon DEF Earned

LEMMA FirstOfOne == \A x : <<x>>[1] = x
  OBVIOUS

ReportsType == DOMAIN report = Callers

LEMMA NextReportsType == ReportsType /\ [Next]_vars => ReportsType'
<1> SUFFICES ASSUME ReportsType, [Next]_vars PROVE DOMAIN report' = DOMAIN report
  BY DEF ReportsType
<1>1. ASSUME NEW c \in Callers, RunStep(c) PROVE UNCHANGED report
  BY <1>1, Zenon DEF RunStep, Subtest, SubtestEnds, Record, RunEnd
<1>2. ASSUME NEW c \in Callers, RunStart(c) \/ FunctionReturns(c) PROVE UNCHANGED report
  BY <1>2, Zenon DEF RunStart, FunctionReturns
<1>3. ASSUME NEW c \in Callers, NEW n \in Names, NEW v \in {"skipped", "passed", "failed"},
             ParallelSubtest(c, n, v)
      PROVE  UNCHANGED report
  BY <1>3, Zenon DEF ParallelSubtest
<1>4. ASSUME NEW c \in Callers, Report(c) PROVE DOMAIN report' = DOMAIN report
  BY <1>4, Zenon DEF Report
<1>5. ASSUME Build \/ (\E i \in 1..Len(suites) : Use(i)) \/ UNCHANGED vars PROVE UNCHANGED report
  BY <1>5, Zenon DEF Build, Use, vars, runVars
<1> QED
  BY <1>1, <1>2, <1>3, <1>4, <1>5, Zenon DEF Next

LEMMA ReportIsEarned ==
    ASSUME SuiteInv, EarnedInv, ReportsType, NEW c \in Callers, Report(c), owner # "",
           Used.runTest = "", NEW n \in DOMAIN report'[c].profiles
    PROVE  LET r == report'[c].profiles[n]
           IN  /\ LevelIsEarned(n, FALSE, r.core)
               /\ r.extended # <<>> => LevelIsEarned(n, TRUE, r.extended[1])
<1>1. ~running
  BY Zenon DEF SuiteInv, PublishedInv
<1>2. report'[c].profiles = CompileReport(results, FeaturesOf, Used)
  <2>1. report' = [report EXCEPT ![c] = [kind |-> "report",
                       profiles |-> CompileReport(results, FeaturesOf, Used)]]
    BY <1>1, Zenon DEF Report
  <2> QED
    BY <2>1, Zenon DEF ReportsType
<1> DEFINE names == {conformanceProfileMap[p].Name :
                       p \in UNION {getConformanceProfilesForTest(FeaturesOf[t], Used.profiles) :
                                    t \in DOMAIN results}}
           level(extended) ==
               Status(Counted(results, FeaturesOf, Used.profiles, n, extended, "SUCCEEDED"),
                      Counted(results, FeaturesOf, Used.profiles, n, extended, "FAILED"),
                      Counted(results, FeaturesOf, Used.profiles, n, extended, "SKIPPED"))
<1>3. n \in names /\ report'[c].profiles[n] = ProfileReport(results, FeaturesOf, Used, n)
  <2>1. CompileReport(results, FeaturesOf, Used) =
            [m \in names |-> ProfileReport(results, FeaturesOf, Used, m)]
    BY Zenon DEF CompileReport
  <2> HIDE DEF names
  <2> QED
    BY <1>2, <2>1, Zenon
<1>4. DOMAIN results = Names
  <2>1. DOMAIN results # {}
    BY <1>3, Zenon
  <2>2. results # <<>>
    BY <2>1, EmptyDomain, Zenon
  <2> QED
    BY <2>2, Zenon DEF SuiteInv, ResultsAreWhole
<1>5. LevelIsEarned(n, FALSE, level(FALSE)) /\ LevelIsEarned(n, TRUE, level(TRUE))
  BY <1>4, LevelFromCells, Zenon
<1>6. /\ ProfileReport(results, FeaturesOf, Used, n).core = level(FALSE)
      /\ ProfileReport(results, FeaturesOf, Used, n).extended \in {<<>>, <<level(TRUE)>>}
  BY Zenon DEF ProfileReport
<1> HIDE DEF level, names
<1>7. LevelIsEarned(n, FALSE, report'[c].profiles[n].core)
  BY <1>3, <1>5, <1>6, Zenon
<1>8. ASSUME report'[c].profiles[n].extended # <<>>
      PROVE  LevelIsEarned(n, TRUE, report'[c].profiles[n].extended[1])
  <2>1. PICK x : x = level(TRUE)
    BY Zenon
  <2>2. report'[c].profiles[n].extended = <<x>>
    BY <1>3, <1>6, <1>8, <2>1, Zenon
  <2>3. report'[c].profiles[n].extended[1] = x
    BY <2>2, FirstOfOne, Zenon
  <2> QED
    BY <1>5, <2>1, <2>3, Zenon
<1> QED
  BY <1>7, <1>8, Zenon

\* A level of a report that reads "success" is backed by tests that were run
\* and passed, in the one run the report is about: whatever other suites share
\* the set of features, however many goroutines call Run and Report, and
\* whichever tests are skipped or unsupported.
THEOREM SuccessIsEarned == Spec => SuccessMeansPassed
<1>1. SuiteInv /\ EarnedInv /\ ReportsType =>
        \A c \in Callers : Report(c) /\ owner # "" /\ Used.runTest = "" =>
          \A n \in DOMAIN report'[c].profiles :
              LET r == report'[c].profiles[n] IN
              /\ LevelIsEarned(n, FALSE, r.core)
              /\ r.extended # <<>> => LevelIsEarned(n, TRUE, r.extended[1])
  BY ReportIsEarned, Zenon
<1>2. Init => ReportsType
  BY Zenon DEF Init, ReportsType
<1> QED
  BY <1>1, <1>2, InitSuiteInv, NextSuiteInv, InitEarnedInv, NextEarnedInv, NextReportsType, PTL
     DEF Spec, SuccessMeansPassed

-----------------------------------------------------------------------------
(* A finished suite and those built after it on the same set of features.    *)

AllExtended == UNION {Extended(p) : p \in ProfileNames}

\* The split of suite s agrees with its set, but for the features w that were
\* withdrawn since.  A later construction inserts no extended feature, and what
\* it deletes it withdraws.
Sound(s, w) ==
    /\ s.ref \in DOMAIN sets
    /\ \A p \in DOMAIN s.supported :
         /\ s.supported[p] \cap sets[s.ref] = s.supported[p] \ w
         /\ s.unsupported[p] \cap sets[s.ref] = {}
         /\ s.supported[p] \subseteq AllExtended
         /\ s.unsupported[p] \subseteq AllExtended

SoundInv ==
    /\ \E S : suites \in Seq(S)
    /\ withdrawn \in Seq(SUBSET Features) /\ Len(withdrawn) = Len(suites)
    /\ \A i \in 1..Len(suites) : Sound(suites[i], withdrawn[i])
    /\ options # <<>> =>
         /\ Sound(suite, {})
         /\ sets[suite.ref] \cap options[1].exempt \cap AllExtended = {}

LEMMA SoundMeansTested == SoundInv => ReportedFeaturesAreTested
  BY Zenon DEF SoundInv, Sound, ReportedFeaturesAreTested

LEMMA InitSoundInv == Init => SoundInv
<1> SUFFICES ASSUME Init PROVE SoundInv
  OBVIOUS
<1>1. suites = <<>> /\ options = <<>> /\ withdrawn = <<>>
  BY Zenon DEF Init, NewInit
<1>2. <<>> \in Seq({}) /\ <<>> \in Seq(SUBSET Features) /\ Len(<<>>) = 0
  OBVIOUS
<1> QED
  BY <1>1, <1>2 DEF SoundInv

\* A step that deletes the features e from the set of s and inserts none that
\* is extended.
LEMMA SoundKept ==
    ASSUME NEW s, NEW w, NEW e, Sound(s, w), DOMAIN sets' = DOMAIN sets,
           \A x \in AllExtended : x \in sets'[s.ref] <=> (x \in sets[s.ref] /\ x \notin e)
    PROVE  Sound(s, w \cup e)'
<1>1. s.ref \in DOMAIN sets'
  BY DEF Sound
<1>2. ASSUME NEW p \in DOMAIN s.supported
      PROVE  /\ s.supported[p] \cap sets'[s.ref] = s.supported[p] \ (w \cup e)
             /\ s.unsupported[p] \cap sets'[s.ref] = {}
             /\ s.supported[p] \subseteq AllExtended
             /\ s.unsupported[p] \subseteq AllExtended
  <2>1. /\ s.supported[p] \cap sets[s.ref] = s.supported[p] \ w
        /\ s.unsupported[p] \cap sets[s.ref] = {}
        /\ s.supported[p] \subseteq AllExtended
        /\ s.unsupported[p] \subseteq AllExtended
    BY Zenon DEF Sound
  <2> QED
    BY <2>1
<1> QED
  BY <1>1, <1>2, Zenon DEF Sound

LEMMA SoundBegin ==
    ASSUME SelectionInv, SoundInv, NEW o \in Options, NewBegin(o)
    PROVE  SoundInv'
<1>1. Ref(o) \in DOMAIN sets /\ o.exempt \subseteq Features
  BY OptionsAssumption DEF SelectionInv, Ref
<1>2. /\ options' = <<o>> /\ suites' = suites
      /\ sets' = [sets EXCEPT ![Ref(o)] = @ \ o.exempt]
      /\ suite' = SuiteFor(o)
      /\ withdrawn' = [i \in DOMAIN withdrawn |->
                          IF suites[i].ref = Ref(o) THEN withdrawn[i] \cup o.exempt
                          ELSE withdrawn[i]]
  BY Zenon DEF NewBegin, Withdraw
<1>3. /\ DOMAIN sets' = DOMAIN sets /\ sets'[Ref(o)] = sets[Ref(o)] \ o.exempt
      /\ \A r \in DOMAIN sets : r # Ref(o) => sets'[r] = sets[r]
  BY <1>1, <1>2
<1>4. /\ withdrawn' \in Seq(SUBSET Features) /\ Len(withdrawn') = Len(suites)
      /\ \A i \in 1..Len(suites) :
           withdrawn'[i] = IF suites[i].ref = Ref(o) THEN withdrawn[i] \cup o.exempt
                           ELSE withdrawn[i]
  <2>1. /\ withdrawn \in Seq(SUBSET Features) /\ Len(withdrawn) = Len(suites)
        /\ DOMAIN withdrawn = 1..Len(suites) /\ Len(suites) \in Nat
    BY DEF SoundInv
  <2>2. \A i \in 1..Len(suites) : withdrawn[i] \in SUBSET Features
    BY <2>1
  <2>3. withdrawn' \in [1..Len(suites) -> SUBSET Features]
    BY <1>1, <1>2, <2>1, <2>2
  <2> QED
    BY <1>2, <2>1, <2>3
<1>5. ASSUME NEW i \in 1..Len(suites) PROVE Sound(suites[i], withdrawn[i])'
  <2>1. PICK s, w : s = suites[i] /\ w = withdrawn[i]
    OBVIOUS
  <2>2. Sound(s, w)
    BY <2>1 DEF SoundInv
  <2>3. s.ref \in DOMAIN sets
    BY <2>2 DEF Sound
  <2>4. CASE s.ref = Ref(o)
    <3>1. \A x \in AllExtended : x \in sets'[s.ref] <=> (x \in sets[s.ref] /\ x \notin o.exempt)
      BY <1>3, <2>4
    <3>2. Sound(s, w \cup o.exempt)'
      BY <1>3, <2>2, <3>1, SoundKept
    <3>3. suites'[i] = s /\ withdrawn'[i] = w \cup o.exempt
      BY <1>2, <1>4, <2>1, <2>4
    <3> QED
      BY <3>2, <3>3, Zenon DEF Sound
  <2>5. CASE s.ref # Ref(o)
    <3>1. \A x \in AllExtended : x \in sets'[s.ref] <=> (x \in sets[s.ref] /\ x \notin {})
      BY <1>3, <2>3, <2>5
    <3>2. Sound(s, w \cup {})' /\ w \cup {} = w
      BY <1>3, <2>2, <3>1, SoundKept
    <3>3. suites'[i] = s /\ withdrawn'[i] = w
      BY <1>2, <1>4, <2>1, <2>5
    <3> QED
      BY <3>2, <3>3 DEF Sound
  <2> QED
    BY <2>4, <2>5
<1>6. Sound(suite, {})'
  <2>1. /\ suite'.ref = Ref(o)
        /\ suite'.supported = [p \in o.profiles |-> {}]
        /\ suite'.unsupported = [p \in o.profiles |-> {}]
    BY <1>2 DEF SuiteFor
  <2> QED
    BY <1>1, <1>3, <2>1 DEF Sound
<1>7. options'[1] = o /\ suite'.ref = Ref(o)
  BY <1>2 DEF SuiteFor
<1>8. sets'[suite'.ref] \cap options'[1].exempt \cap AllExtended = {}
  BY <1>3, <1>7
<1> QED
  BY <1>2, <1>4, <1>5, <1>6, <1>8 DEF SoundInv

LEMMA CoreIsNotExtended ==
    ASSUME NEW p \in ProfileNames PROVE Core(p) \cap AllExtended = {}
  BY DisjointLevels DEF AllExtended

LEMMA SoundVisit ==
    ASSUME SelectionInv, SoundInv, NEW p \in todo \cap ProfileNames, VisitProfile(p)
    PROVE  SoundInv'
<1> DEFINE o == options[1]
           now == sets[Ref(o)] \cup Core(p)
<1>1. /\ options # <<>> /\ Building(o) /\ options' = options
      /\ suites' = suites /\ withdrawn' = withdrawn
  BY DEF SelectionInv, VisitProfile
<1>2. /\ o \in Options /\ Ref(o) \in DOMAIN sets /\ p \in o.profiles
      /\ DOMAIN suite.supported = o.profiles /\ DOMAIN suite.unsupported = o.profiles
      /\ suite = [ref |-> Ref(o), profiles |-> o.profiles, skip |-> o.skip,
                  runTest |-> o.runTest, supported |-> suite.supported,
                  unsupported |-> suite.unsupported]
  BY <1>1 DEF Building
<1>3. suite.ref = Ref(o)
  BY <1>2
<1>4. /\ sets' = [sets EXCEPT ![Ref(o)] = now]
      /\ suite' = [suite EXCEPT
                     !.supported[p] = Extended(p) \cap now,
                     !.unsupported[p] = (Extended(p) \ now) \cup (Extended(p) \cap o.exempt)]
  BY <1>3 DEF VisitProfile, Core, Extended
<1>5. /\ DOMAIN sets' = DOMAIN sets /\ sets'[Ref(o)] = now
      /\ \A r \in DOMAIN sets : r # Ref(o) => sets'[r] = sets[r]
  BY <1>2, <1>4
<1>6. Core(p) \cap AllExtended = {} /\ Extended(p) \subseteq AllExtended
  BY CoreIsNotExtended DEF AllExtended
<1>7. now \cap o.exempt \cap AllExtended = {}
  BY <1>1, <1>3, <1>6 DEF SoundInv
<1>8. ASSUME NEW s, NEW w, Sound(s, w) PROVE Sound(s, w)'
  <2>1. s.ref \in DOMAIN sets
    BY <1>8 DEF Sound
  <2>2. \A x \in AllExtended : x \in sets'[s.ref] <=> (x \in sets[s.ref] /\ x \notin {})
    BY <1>5, <1>6, <2>1
  <2>3. Sound(s, w \cup {})' /\ w \cup {} = w
    BY <1>5, <1>8, <2>2, SoundKept
  <2> QED
    BY <2>3 DEF Sound
<1>9. ASSUME NEW i \in 1..Len(suites) PROVE Sound(suites[i], withdrawn[i])'
  <2>1. PICK s, w : s = suites[i] /\ w = withdrawn[i]
    OBVIOUS
  <2>2. Sound(s, w)'
    BY <1>8, <2>1 DEF SoundInv
  <2>3. suites'[i] = s /\ withdrawn'[i] = w
    BY <1>1, <2>1
  <2> QED
    BY <2>2, <2>3, Zenon DEF Sound
<1>10. PICK old : old = suite
  OBVIOUS
<1>11. Sound(old, {})'
  BY <1>1, <1>8, <1>10 DEF SoundInv
<1> DEFINE x == Extended(p) \cap now
           y == (Extended(p) \ now) \cup (Extended(p) \cap o.exempt)
<1>12. /\ suite'.ref = Ref(o)
       /\ suite'.supported = [old.supported EXCEPT ![p] = x]
       /\ suite'.unsupported = [old.unsupported EXCEPT ![p] = y]
  <2> DEFINE ref == Ref(o)
             profiles == o.profiles
             skip == o.skip
             runTest == o.runTest
             s == old.supported
             u == old.unsupported
  <2>1. old = [ref |-> ref, profiles |-> profiles, skip |-> skip, runTest |-> runTest,
               supported |-> s, unsupported |-> u]
    BY <1>2, <1>10
  <2>2. suite' = [old EXCEPT !.supported[p] = x, !.unsupported[p] = y]
    BY <1>4, <1>10
  <2> HIDE DEF x, y, ref, profiles, skip, runTest, s, u, o
  <2>3. suite' = [ref |-> ref, profiles |-> profiles, skip |-> skip, runTest |-> runTest,
                  supported |-> [s EXCEPT ![p] = x], unsupported |-> [u EXCEPT ![p] = y]]
    BY <2>1, <2>2, SplitUpdate, Zenon
  <2> QED
    BY <2>3 DEF ref, s, u
<1>13. x \cap now = x \ {} /\ y \cap now = {} /\ x \subseteq AllExtended /\ y \subseteq AllExtended
  BY <1>6, <1>7
<1> HIDE DEF x, y, now
<1>14. ASSUME NEW q \in DOMAIN suite'.supported
       PROVE  /\ suite'.supported[q] \cap sets'[Ref(o)] = suite'.supported[q] \ {}
              /\ suite'.unsupported[q] \cap sets'[Ref(o)] = {}
              /\ suite'.supported[q] \subseteq AllExtended
              /\ suite'.unsupported[q] \subseteq AllExtended
  <2>1. q \in o.profiles
    BY <1>2, <1>10, <1>12, <1>14
  <2>2. CASE q = p
    <3>1. suite'.supported[q] = x /\ suite'.unsupported[q] = y
      BY <1>2, <1>10, <1>12, <2>2
    <3> QED
      BY <1>5, <1>13, <3>1, Zenon
  <2>3. CASE q # p
    <3>1. suite'.supported[q] = old.supported[q] /\ suite'.unsupported[q] = old.unsupported[q]
      BY <1>2, <1>10, <1>12, <2>1, <2>3
    <3>2. old.ref = Ref(o) /\ q \in DOMAIN old.supported
      BY <1>2, <1>3, <1>10, <2>1
    <3> QED
      BY <1>11, <3>1, <3>2, Zenon DEF Sound
  <2> QED
    BY <2>2, <2>3
<1>15. Sound(suite, {})'
  <2>1. suite'.ref \in DOMAIN sets'
    BY <1>2, <1>5, <1>12
  <2>2. suite'.ref = Ref(o)
    BY <1>12
  <2>3. ASSUME NEW q \in DOMAIN suite'.supported
        PROVE  /\ suite'.supported[q] \cap sets'[suite'.ref] = suite'.supported[q] \ {}
               /\ suite'.unsupported[q] \cap sets'[suite'.ref] = {}
               /\ suite'.supported[q] \subseteq AllExtended
               /\ suite'.unsupported[q] \subseteq AllExtended
    BY <1>14, <2>2, Zenon
  <2> QED
    BY <2>1, <2>3, Zenon DEF Sound
<1>16. sets'[suite'.ref] \cap options'[1].exempt \cap AllExtended = {}
  BY <1>1, <1>5, <1>7, <1>12 DEF now
<1> QED
  BY <1>1, <1>9, <1>15, <1>16 DEF SoundInv

LEMMA SoundEnd ==
    ASSUME SoundInv, NewEnd
    PROVE  SoundInv'
<1>1. /\ options # <<>> /\ suites' = Append(suites, suite) /\ options' = <<>> /\ sets' = sets
      /\ withdrawn' = Append(withdrawn, {})
  BY DEF NewEnd
<1>2. PICK S : suites \in Seq(S)
  BY DEF SoundInv
<1>3. PICK s : s = suite
  OBVIOUS
<1>4. suites \in Seq(S \cup {s}) /\ Len(suites) \in Nat
  BY <1>2
<1>5. /\ suites' \in Seq(S \cup {s}) /\ Len(suites') = Len(suites) + 1
      /\ suites'[Len(suites) + 1] = s /\ \A i \in 1..Len(suites) : suites'[i] = suites[i]
  BY <1>1, <1>3, <1>4
<1>6. withdrawn \in Seq(SUBSET Features) /\ Len(withdrawn) = Len(suites)
  BY DEF SoundInv
<1>7. /\ withdrawn' \in Seq(SUBSET Features) /\ Len(withdrawn') = Len(suites) + 1
      /\ withdrawn'[Len(suites) + 1] = {}
      /\ \A i \in 1..Len(suites) : withdrawn'[i] = withdrawn[i]
  BY <1>1, <1>6
<1>8. ASSUME NEW i \in 1..Len(suites') PROVE Sound(suites'[i], withdrawn'[i])
  <2>1. CASE i = Len(suites) + 1
    BY <1>1, <1>3, <1>5, <1>7, <2>1 DEF SoundInv
  <2>2. CASE i # Len(suites) + 1
    <3>1. i \in 1..Len(suites)
      BY <1>4, <1>5, <2>2
    <3> QED
      BY <1>5, <1>7, <3>1 DEF SoundInv
  <2> QED
    BY <2>1, <2>2
<1>9. ASSUME NEW i \in 1..Len(suites') PROVE Sound(suites[i], withdrawn[i])'
  BY <1>1, <1>8, Zenon DEF Sound
<1> QED
  BY <1>1, <1>5, <1>7, <1>9, Zenon DEF SoundInv

LEMMA SoundSame ==
    ASSUME SoundInv, UNCHANGED <<sets, suites, withdrawn>>,
           options' = <<>> \/ UNCHANGED <<options, suite>>
    PROVE  SoundInv'
<1>1. \A i \in 1..Len(suites') : Sound(suites[i], withdrawn[i])'
  BY DEF SoundInv, Sound
<1>2. UNCHANGED suite => (Sound(suite, {}) => Sound(suite, {})')
  BY DEF Sound
<1> QED
  BY <1>1, <1>2 DEF SoundInv

LEMMA NextSoundInv == SelectionInv /\ SoundInv /\ [Next]_vars => SoundInv'
<1> SUFFICES ASSUME SelectionInv, SoundInv, [Next]_vars PROVE SoundInv'
  OBVIOUS
<1>1. CASE Build
  <2>1. CASE VisitUnregistered
    BY <2>1, SoundSame DEF VisitUnregistered
  <2> QED
    BY <1>1, <2>1, SoundBegin, SoundVisit, SoundEnd DEF Build, NewNext
<1>2. CASE ~Build
  <2>1. UNCHANGED newVars
    BY <1>2, OnlyBuildBuilds
  <2> QED
    BY <2>1, SoundSame DEF newVars
<1> QED
  BY <1>1, <1>2

\* What a suite lists in its report as unsupported is not what its tests are
\* gated on, and what it lists as supported is, also after further suites were
\* built on the same set of features, or on features.AllFeatures itself; but for
\* exactly what one of them was told to exempt, for every choice of options.
THEOREM ReportedIsTested == Spec => []ReportedFeaturesAreTested
  BY InitSelectionInv, NextSelectionInv, InitSoundInv, NextSoundInv, SoundMeansTested, PTL DEF Spec

Entry == [obj : Objects, how : {"manifest", "object"}]
State == [phase : {"absent", "live", "terminating"}, creator : 0..User, spec : 0..User]

ApplierTypes ==
    /\ cluster \in [Objects -> State]
    /\ scope \in Scopes
    /\ step \in {"apply", "write", "test", "cleanup", "finish", "done"}
    /\ resources \in Seq(Entry)
    /\ step = "write" => resources # <<>>
    /\ cleanups \in [Scopes -> Seq(Entry)]
    /\ faults \in Nat

\* Object o is there because scope s created it.
Left(s, o) == cluster[o].phase = "live" /\ cluster[o].creator = s

\* The objects that the registered cleanups of scope s delete.
Listed(s) == {cleanups[s][i].obj : i \in 1..Len(cleanups[s])}

\* As long as no call failed there is a cleanup for everything a scope created.
Covered ==
    faults = 0 =>
        \A s \in Scopes, o \in Objects : Cleanup(s) /\ Left(s, o) => o \in Listed(s)

\* Only the running test and Setup have cleanups to run.
OthersAreEmpty ==
    /\ \A s \in Scopes : s # 0 /\ s # scope => cleanups[s] = <<>>
    /\ step = "finish" /\ scope # 0 => cleanups[scope] = <<>>
    /\ step = "done" => scope = 0 /\ cleanups[0] = <<>>

ApplierInv == ApplierTypes /\ Covered /\ OthersAreEmpty

LEMMA Numbers == Len(Manifests) \in Nat /\ 0 \in Scopes /\ User \notin Scopes
<1>1. Len(Manifests) \in Nat
  BY ApplierAssumption
<1> QED
  BY <1>1 DEF Scopes, User

\* Once a scope has ended its cleanups have all been run.
LEMMA InvMeansRemoved == ApplierInv => CreatedAreRemoved
<1> SUFFICES ASSUME ApplierInv, faults = 0, NEW s \in Scopes, Ended(s), Cleanup(s),
                    NEW o \in Objects, Left(s, o)
             PROVE  FALSE
  BY DEF CreatedAreRemoved, Left
<1>1. cleanups[s] = <<>>
  <2>1. s \in Nat /\ scope \in Nat
    BY Numbers DEF ApplierInv, ApplierTypes, Scopes
  <2>2. CASE step = "done"
    BY <2>2 DEF ApplierInv, OthersAreEmpty
  <2>3. CASE step # "done"
    <3>1. s # 0 /\ (s # scope \/ step = "finish")
      BY <2>1, <2>3 DEF Ended
    <3> QED
      BY <3>1 DEF ApplierInv, OthersAreEmpty
  <2> QED
    BY <2>2, <2>3
<1>2. Listed(s) = {}
  BY <1>1 DEF Listed
<1> QED
  BY <1>2 DEF ApplierInv, Covered

LEMMA ResourcesAreEntries ==
    ASSUME NEW objs \in Seq(Objects), NEW how \in {"manifest", "object"}
    PROVE  Resources(objs, how) \in Seq(Entry)
  BY DEF Resources, Entry

LEMMA InitApplierInv == ApplierInit => ApplierInv
<1> SUFFICES ASSUME ApplierInit PROVE ApplierInv
  OBVIOUS
<1>1. \A o \in Objects : cluster[o] \in State /\ cluster[o].creator = User
  <2>1. Absent \in State /\ Absent.creator = User /\ User \in 0..User
    BY Numbers DEF Absent, State, User
  <2>2. ASSUME NEW o \in Objects
        PROVE  cluster[o] = Absent \/ cluster[o] = [Absent EXCEPT !.phase = "live"]
    BY DEF ApplierInit, Absent
  <2>3. [Absent EXCEPT !.phase = "live"] \in State /\ [Absent EXCEPT !.phase = "live"].creator = User
    BY <2>1 DEF State, Absent
  <2> HIDE DEF Absent
  <2> QED
    BY <2>1, <2>2, <2>3, Zenon
<1>2. cluster \in [Objects -> State]
  BY <1>1 DEF ApplierInit
<1>3. resources \in Seq(Entry)
  BY ResourcesAreEntries, ApplierAssumption DEF ApplierInit, SetupResources
<1>4. cleanups \in [Scopes -> Seq(Entry)] /\ \A s \in Scopes : cleanups[s] = <<>>
  BY DEF ApplierInit
<1>5. ApplierTypes
  BY <1>2, <1>3, <1>4, Numbers DEF ApplierInit, ApplierTypes
<1>6. Covered
  BY <1>1, Numbers DEF Covered, Left
<1>7. OthersAreEmpty
  BY <1>4 DEF ApplierInit, OthersAreEmpty
<1> QED
  BY <1>5, <1>6, <1>7 DEF ApplierInv

-----------------------------------------------------------------------------
\* A cleanup that is registered is added to those of the running scope.
LEMMA Registered ==
    ASSUME ApplierTypes, resources # <<>>, Register, scope' = scope
    PROVE  /\ cleanups' \in [Scopes -> Seq(Entry)]
           /\ \A s \in Scopes : s # scope => cleanups'[s] = cleanups[s]
           /\ \A s \in Scopes : Listed(s) \subseteq Listed(s)'
           /\ Cleanup(scope) => Obj \in Listed(scope)'
<1>1. CASE ~Cleanup(scope)
  BY <1>1 DEF Register, ApplierTypes, Listed
<1>2. CASE Cleanup(scope)
  <2> DEFINE e == Head(resources)
             old == cleanups[scope]
  <2>1. e \in Entry /\ scope \in Scopes /\ old \in Seq(Entry)
    BY DEF ApplierTypes
  <2>2. cleanups' = [cleanups EXCEPT ![scope] = Append(old, e)]
    BY <1>2 DEF Register
  <2>3. cleanups \in [Scopes -> Seq(Entry)]
    BY DEF ApplierTypes
  <2>4. Obj = e.obj
    BY DEF Obj
  <2> HIDE DEF e, old
  <2>5. /\ cleanups'[scope] = Append(old, e)
        /\ \A s \in Scopes : s # scope => cleanups'[s] = cleanups[s]
    BY <2>1, <2>2, <2>3
  <2>6. /\ Append(old, e) \in Seq(Entry) /\ Len(Append(old, e)) = Len(old) + 1
        /\ Append(old, e)[Len(old) + 1] = e
        /\ \A i \in 1..Len(old) : Append(old, e)[i] = old[i]
        /\ Len(old) \in Nat
    BY <2>1
  <2>7. cleanups' \in [Scopes -> Seq(Entry)]
    BY <2>2, <2>3, <2>6, Zenon
  <2>8. Obj \in Listed(scope)'
    <3>1. Len(old) + 1 \in 1..Len(cleanups'[scope]) /\ cleanups'[scope][Len(old) + 1] = e
      BY <2>5, <2>6
    <3> QED
      BY <2>4, <3>1 DEF Listed
  <2>9. Listed(scope) \subseteq Listed(scope)'
    <3>1. ASSUME NEW i \in 1..Len(old)
          PROVE  i \in 1..Len(cleanups'[scope]) /\ cleanups'[scope][i] = old[i]
      BY <2>5, <2>6
    <3> QED
      BY <3>1 DEF Listed, old
  <2>10. \A s \in Scopes : s # scope => Listed(s)' = Listed(s)
    BY <2>5 DEF Listed
  <2> QED
    BY <2>5, <2>7, <2>8, <2>9, <2>10
<1> QED
  BY <1>1, <1>2

\* Applying a resource, also when the call fails: what is created then is
\* covered by the cleanup that is registered, unless the call failed.
LEMMA ApplyStep ==
    ASSUME ApplierInv, step \in {"apply", "write"}, resources # <<>>,
           cluster' \in [Objects -> State], scope' = scope, faults' \in Nat,
           Proceed \/ Fail,
           Register \/ UNCHANGED cleanups,
           faults' = 0 =>
               /\ faults = 0
               /\ \A s \in Scopes, o \in Objects :
                      Left(s, o)' => Left(s, o) \/ (s = scope /\ o = Obj /\ Register)
    PROVE  ApplierInv'
<1>1. /\ cleanups' \in [Scopes -> Seq(Entry)]
      /\ \A s \in Scopes : s # scope => cleanups'[s] = cleanups[s]
      /\ \A s \in Scopes : Listed(s) \subseteq Listed(s)'
      /\ Register /\ Cleanup(scope) => Obj \in Listed(scope)'
  <2>1. CASE Register
    BY <2>1, Registered DEF ApplierInv
  <2>2. CASE UNCHANGED cleanups /\ ~Register
    BY <2>2 DEF ApplierInv, ApplierTypes, Listed
  <2> QED
    BY <2>1, <2>2
<1>2. ApplierTypes'
  <2>1. step' \in {"apply", "cleanup"} /\ resources' \in Seq(Entry)
    <3>1. resources \in Seq(Entry) /\ Tail(resources) \in Seq(Entry) /\ <<>> \in Seq(Entry)
      BY DEF ApplierInv, ApplierTypes
    <3> QED
      BY <3>1, Zenon DEF Proceed, Fail
  <2> QED
    BY <1>1, <2>1 DEF ApplierInv, ApplierTypes
<1>3. Covered'
  BY <1>1 DEF ApplierInv, Covered, Cleanup
<1>4. OthersAreEmpty'
  BY <1>1 DEF ApplierInv, OthersAreEmpty, Proceed, Fail
<1> QED
  BY <1>2, <1>3, <1>4 DEF ApplierInv

\* The two ways in which the applier writes an object.
LEMMA Writes ==
    ASSUME ApplierTypes, resources # <<>>
    PROVE  /\ Obj \in Objects
           /\ [cluster EXCEPT ![Obj] = Written(scope)] \in [Objects -> State]
           /\ [cluster EXCEPT ![Obj].spec = scope] \in [Objects -> State]
<1>1. Obj \in Objects
  <2>1. Head(resources) \in Entry
    BY DEF ApplierTypes
  <2> QED
    BY <2>1 DEF Obj, Entry
<1>2. Written(scope) \in State /\ scope \in 0..User
  BY Numbers DEF ApplierTypes, Written, State, Scopes, User
<1> QED
  BY <1>1, <1>2, Zenon DEF ApplierTypes, State

LEMMA CreateStep == ASSUME ApplierInv, Create \/ CreateObject PROVE ApplierInv'
<1>1. /\ step \in {"apply", "write"} /\ resources # <<>> /\ UNCHANGED <<scope, faults>>
      /\ Proceed \/ Fail
  BY DEF Create, CreateObject, ApplierInv, ApplierTypes
<1>2. Obj \in Objects /\ cluster \in [Objects -> State] /\ faults \in Nat
  BY <1>1, Writes DEF ApplierInv, ApplierTypes
<1>3. CASE UNCHANGED cluster
  <2>1. \A s, o : Left(s, o)' => Left(s, o)
    BY <1>3 DEF Left
  <2> QED
    BY <1>1, <1>2, <1>3, <2>1, ApplyStep DEF Create, CreateObject
<1>4. CASE cluster' = [cluster EXCEPT ![Obj] = Written(scope)] /\ Register
  <2>1. cluster' \in [Objects -> State]
    BY <1>1, <1>4, Writes DEF ApplierInv
  <2>2. ASSUME NEW s \in Scopes, NEW o \in Objects, Left(s, o)'
        PROVE  Left(s, o) \/ (s = scope /\ o = Obj)
    BY <1>2, <1>4, <2>2 DEF Left, Written
  <2> QED
    BY <1>1, <1>2, <1>4, <2>1, <2>2, ApplyStep
<1> QED
  BY <1>3, <1>4 DEF Create, CreateObject

LEMMA UpdateStep == ASSUME ApplierInv, Update PROVE ApplierInv'
<1>1. /\ step = "write" /\ resources # <<>> /\ UNCHANGED <<scope, faults>>
      /\ Register /\ (Proceed \/ Fail)
      /\ cluster' \in {cluster, [cluster EXCEPT ![Obj].spec = scope]}
  BY DEF Update, ApplierInv, ApplierTypes
<1>2. /\ Obj \in Objects /\ cluster \in [Objects -> State] /\ faults \in Nat
      /\ cluster' \in [Objects -> State]
  BY <1>1, Writes, Zenon DEF ApplierInv, ApplierTypes
<1>3. ASSUME NEW s \in Scopes, NEW o \in Objects, Left(s, o)'
      PROVE  Left(s, o)
  BY <1>1, <1>2, <1>3 DEF Left, State
<1> QED
  BY <1>1, <1>2, <1>3, ApplyStep

LEMMA ApplyFaultStep == ASSUME ApplierInv, ApplyFault PROVE ApplierInv'
<1>1. /\ step \in {"apply", "write"} /\ resources # <<>> /\ scope' = scope /\ Fail
      /\ Register \/ UNCHANGED cleanups
      /\ cluster' \in {cluster, [cluster EXCEPT ![Obj] = Written(scope)],
                       [cluster EXCEPT ![Obj].spec = scope]}
  BY DEF ApplyFault, ApplierInv, ApplierTypes
<1>2. faults' \in Nat /\ faults' # 0
  BY DEF ApplyFault, ApplierInv, ApplierTypes
<1>3. cluster' \in [Objects -> State]
  BY <1>1, Writes, Zenon DEF ApplierInv, ApplierTypes
<1> QED
  BY <1>1, <1>2, <1>3, ApplyStep

-----------------------------------------------------------------------------
\* Steps that neither register nor run a cleanup and create nothing for a scope.
LEMMA QuietStep ==
    ASSUME ApplierInv, ApplierTypes', OthersAreEmpty', UNCHANGED <<cleanups, faults>>,
           \A s \in Scopes, o \in Objects : Left(s, o)' => Left(s, o)
    PROVE  ApplierInv'
<1>1. \A s \in Scopes : Listed(s)' = Listed(s)
  BY DEF Listed
<1>2. Covered'
  BY <1>1 DEF ApplierInv, Covered, Cleanup
<1> QED
  BY <1>2 DEF ApplierInv

LEMMA FlowStep ==
    ASSUME ApplierInv, Get \/ ApplyDone \/ TestReturns \/ CleanupsDone \/ Done
    PROVE  ApplierInv'
<1>1. UNCHANGED <<cluster, scope, resources, cleanups, faults>>
  BY DEF Get, ApplyDone, TestReturns, CleanupsDone, Done, applierVars
<1>2. ApplierTypes'
  <2>1. /\ step' \in {"apply", "write", "test", "cleanup", "finish", "done"}
        /\ step' = "write" => resources # <<>>
    BY DEF Get, ApplyDone, TestReturns, CleanupsDone, Done, applierVars, ApplierInv, ApplierTypes
  <2> QED
    BY <1>1, <2>1 DEF ApplierInv, ApplierTypes
<1>3. OthersAreEmpty'
  BY <1>1 DEF Get, ApplyDone, TestReturns, CleanupsDone, Done, applierVars, ApplierInv, OthersAreEmpty
<1>4. \A s \in Scopes, o \in Objects : Left(s, o)' => Left(s, o)
  BY <1>1 DEF Left
<1> QED
  BY <1>1, <1>2, <1>3, <1>4, QuietStep

LEMMA NextScopeStep == ASSUME ApplierInv, NextScope PROVE ApplierInv'
<1>1. step = "finish" /\ UNCHANGED <<cluster, cleanups, faults>>
  BY DEF NextScope
<1>2. scope \in Nat /\ scope <= Len(Manifests)
  BY Numbers DEF ApplierInv, ApplierTypes, Scopes
<1>3. CASE scope < Len(Manifests)
  <2>1. /\ scope' = scope + 1 /\ step' = "apply"
        /\ resources' = Resources(Manifests[scope + 1], "manifest")
    BY <1>3 DEF NextScope
  <2>2. scope + 1 \in 1..Len(Manifests) /\ scope' \in Scopes
    BY <1>2, <1>3, <2>1, Numbers DEF Scopes
  <2>3. Manifests[scope + 1] \in Seq(Objects)
    BY <2>2, ApplierAssumption
  <2>4. resources' \in Seq(Entry)
    BY <2>1, <2>3, ResourcesAreEntries
  <2>5. ApplierTypes'
    BY <1>1, <2>1, <2>2, <2>4 DEF ApplierInv, ApplierTypes
  <2>6. OthersAreEmpty'
    BY <1>1, <2>1 DEF ApplierInv, OthersAreEmpty
  <2> QED
    BY <1>1, <2>5, <2>6, QuietStep DEF Left
<1>4. CASE ~(scope < Len(Manifests))
  <2>1. scope' = 0 /\ step' = "cleanup" /\ resources' = <<>>
    BY <1>4 DEF NextScope
  <2>2. ApplierTypes'
    BY <1>1, <2>1, Numbers DEF ApplierInv, ApplierTypes
  <2>3. OthersAreEmpty'
    BY <1>1, <2>1 DEF ApplierInv, OthersAreEmpty
  <2> QED
    BY <1>1, <2>2, <2>3, QuietStep DEF Left
<1> QED
  BY <1>3, <1>4

\* A deletion takes an object away or marks it, whoever made it.
LEMMA Deletes ==
    ASSUME ApplierTypes, NEW d \in Objects
    PROVE  /\ Deleted(d) \in [Objects -> State]
           /\ Deleted(d)[d].phase # "live"
           /\ \A o \in Objects : o # d => Deleted(d)[o] = cluster[o]
<1>1. cluster \in [Objects -> State] /\ Absent \in State /\ Absent.phase = "absent"
  BY Numbers DEF ApplierTypes, Absent, State, User
<1>2. CASE cluster[d].phase = "absent"
  BY <1>1, <1>2 DEF Deleted
<1>3. CASE cluster[d].phase # "absent" /\ d \in Finalizers
  <2> DEFINE marked == [cluster[d] EXCEPT !.phase = "terminating"]
  <2>1. marked \in State /\ marked.phase = "terminating"
    BY <1>1 DEF State
  <2>2. Deleted(d) = [cluster EXCEPT ![d] = marked]
    BY <1>3 DEF Deleted
  <2> HIDE DEF marked
  <2> QED
    BY <1>1, <2>1, <2>2
<1>4. CASE cluster[d].phase # "absent" /\ d \notin Finalizers
  <2>1. Deleted(d) = [cluster EXCEPT ![d] = Absent]
    BY <1>4 DEF Deleted
  <2> HIDE DEF Absent
  <2> QED
    BY <1>1, <2>1
<1> QED
  BY <1>2, <1>3, <1>4

\* Others finish a deletion, create and delete objects, or write a status.
LEMMA OthersStep ==
    ASSUME ApplierInv, NEW o \in Objects, Touch(o) \/ Finalize(o) \/ Foreign(o)
    PROVE  ApplierInv'
<1>1. UNCHANGED <<scope, step, resources, cleanups, faults>>
  BY DEF Touch, Finalize, Foreign
<1>2. /\ cluster \in [Objects -> State]
      /\ Absent \in State /\ Absent.creator = User /\ Absent.phase = "absent"
  BY Numbers DEF ApplierInv, ApplierTypes, Absent, State, User
<1> DEFINE found == [Absent EXCEPT !.phase = "live"]
<1>3. found \in State /\ found.creator = User
  BY <1>2 DEF State
<1>4. \/ cluster' = cluster
      \/ cluster' = [cluster EXCEPT ![o] = Absent]
      \/ cluster' = [cluster EXCEPT ![o] = found]
      \/ cluster' = Deleted(o)
  BY DEF Touch, Finalize, Foreign
<1>5. Deleted(o) \in [Objects -> State] /\ Deleted(o)[o].phase # "live"
      /\ \A p \in Objects : p # o => Deleted(o)[p] = cluster[p]
  BY Deletes DEF ApplierInv
<1> HIDE DEF found
<1>6. cluster' \in [Objects -> State]
  BY <1>2, <1>3, <1>4, <1>5
<1>7. ASSUME NEW s \in Scopes, NEW p \in Objects, Left(s, p)'
      PROVE  Left(s, p)
  <2>1. s # User
    BY Numbers
  <2>2. cluster'[p].phase = "live" /\ cluster'[p].creator = s
    BY <1>7 DEF Left
  <2>3. CASE p # o
    BY <1>2, <1>4, <1>5, <2>2, <2>3 DEF Left
  <2>4. CASE p = o
    BY <1>2, <1>3, <1>4, <1>5, <2>1, <2>2, <2>4 DEF Left
  <2> QED
    BY <2>3, <2>4
<1>8. ApplierTypes' /\ OthersAreEmpty'
  BY <1>1, <1>6 DEF ApplierInv, ApplierTypes, OthersAreEmpty
<1> QED
  BY <1>1, <1>7, <1>8, QuietStep

\* All but the last element of a sequence.
Front(s) == SubSeq(s, 1, Len(s) - 1)

LEMMA FrontOfSeq ==
    ASSUME NEW S, NEW s \in Seq(S), s # <<>>
    PROVE  /\ Front(s) \in Seq(S)
           /\ Len(Front(s)) = Len(s) - 1
           /\ \A i \in 1..(Len(s) - 1) : Front(s)[i] = s[i]
<1> DEFINE n == Len(s) - 1
<1>1. n \in Nat /\ \A i \in 1..n : s[i] \in S
  OBVIOUS
<1> HIDE DEF n
<1>2. Len(SubSeq(s, 1, n)) = n
  BY <1>1
<1>3. ASSUME NEW i \in 1..n PROVE SubSeq(s, 1, n)[i] = s[i]
  BY <1>1
<1>4. SubSeq(s, 1, n) \in Seq(S)
  BY <1>1
<1> QED
  BY <1>2, <1>3, <1>4 DEF n, Front

\* The cleanup that is run is taken off the list, and its object is gone or
\* marked, unless the call failed.
LEMMA RunCleanupStep == ASSUME ApplierInv, RunCleanup PROVE ApplierInv'
<1> DEFINE list == cleanups[scope]
           d == list[Len(list)].obj
<1>1. /\ step = "cleanup" /\ list # <<>> /\ UNCHANGED <<scope, step, resources>>
      /\ cleanups' = [cleanups EXCEPT ![scope] = Front(list)]
      /\ \/ cluster' = Deleted(d) /\ faults' = faults
         \/ cluster' \in {cluster, Deleted(d)} /\ faults' = faults + 1
  BY DEF RunCleanup, Front
<1>2. /\ list \in Seq(Entry) /\ scope \in Scopes /\ faults \in Nat
      /\ cleanups \in [Scopes -> Seq(Entry)] /\ cluster \in [Objects -> State]
  BY DEF ApplierInv, ApplierTypes
<1> HIDE DEF list
<1>3. /\ Len(list) \in Nat \ {0} /\ list[Len(list)] \in Entry
      /\ Front(list) \in Seq(Entry) /\ Len(Front(list)) = Len(list) - 1
      /\ \A i \in 1..(Len(list) - 1) : Front(list)[i] = list[i]
  <2>1. Len(list) \in Nat /\ Len(list) # 0
    BY <1>1, <1>2
  <2>2. list[Len(list)] \in Entry
    BY <1>2, <2>1
  <2> QED
    BY <1>1, <1>2, <2>1, <2>2, FrontOfSeq
<1>4. d \in Objects /\ d = list[Len(list)].obj
  BY <1>3 DEF Entry
<1> HIDE DEF d
<1>5. /\ Deleted(d) \in [Objects -> State] /\ Deleted(d)[d].phase # "live"
      /\ \A o \in Objects : o # d => Deleted(d)[o] = cluster[o]
  BY <1>4, Deletes DEF ApplierInv
<1>6. /\ cleanups' \in [Scopes -> Seq(Entry)] /\ cleanups'[scope] = Front(list)
      /\ \A s \in Scopes : s # scope => cleanups'[s] = cleanups[s]
  BY <1>1, <1>2, <1>3
<1>7. \A s \in Scopes : Listed(s) \subseteq Listed(s)' \cup {d}
  <2>1. \A s \in Scopes : s # scope => Listed(s)' = Listed(s)
    BY <1>6 DEF Listed
  <2>2. ASSUME NEW i \in 1..Len(list), i # Len(list)
        PROVE  i \in 1..Len(cleanups'[scope]) /\ cleanups'[scope][i] = list[i]
    <3>1. i \in 1..(Len(list) - 1)
      BY <1>3, <2>2
    <3> QED
      BY <1>3, <1>6, <3>1
  <2>3. \A s \in Scopes : s = scope => Listed(s) \subseteq Listed(s)' \cup {d}
    BY <1>4, <2>2 DEF Listed, list
  <2> QED
    BY <2>1, <2>3
<1>8. ApplierTypes'
  BY <1>1, <1>2, <1>5, <1>6 DEF ApplierInv, ApplierTypes
<1>9. Covered'
  <2> SUFFICES ASSUME faults' = 0, NEW s \in Scopes, NEW o \in Objects,
                      Cleanup(s), Left(s, o)'
               PROVE  o \in Listed(s)'
    BY DEF Covered, Cleanup
  <2>1. faults = 0 /\ cluster' = Deleted(d)
    BY <1>1, <1>2
  <2>2. o # d /\ Left(s, o)
    BY <1>4, <1>5, <2>1 DEF Left
  <2>3. o \in Listed(s)
    BY <2>1, <2>2 DEF ApplierInv, Covered
  <2> QED
    BY <1>7, <2>2, <2>3
<1>10. OthersAreEmpty'
  BY <1>1, <1>6 DEF ApplierInv, OthersAreEmpty
<1> QED
  BY <1>8, <1>9, <1>10 DEF ApplierInv

LEMMA NextApplierInv == ApplierInv /\ [ApplierNext]_applierVars => ApplierInv'
<1> SUFFICES ASSUME ApplierInv, [ApplierNext]_applierVars PROVE ApplierInv'
  OBVIOUS
<1>1. CASE UNCHANGED applierVars
  <2>1. ApplierTypes' /\ OthersAreEmpty'
    BY <1>1 DEF applierVars, ApplierInv, ApplierTypes, OthersAreEmpty
  <2> QED
    BY <1>1, <2>1, QuietStep DEF applierVars, Left
<1> QED
  BY <1>1, CreateStep, UpdateStep, ApplyFaultStep, FlowStep, NextScopeStep, RunCleanupStep,
     OthersStep DEF ApplierNext

\* When a scope ends, nothing that MustApplyWithCleanup or
\* MustApplyObjectsWithCleanup created for it is left: however many tests and
\* manifests there are, whichever of them fails on the way, whatever is shared
\* between them and whatever others create and delete meanwhile.  Only a call
\* to the API server that fails can leave something behind.
THEOREM NothingIsLeftBehind == ApplierSpec => []CreatedAreRemoved
  BY InitApplierInv, NextApplierInv, InvMeansRemoved, PTL DEF ApplierSpec
-----------------------------------------------------------------------------
(* What is applied stays until its scope ends.                               *)

\* The objects still to be applied, those of the running test and of Setup.
Waiting == {resources[i].obj : i \in 1..Len(resources)}
Manifest == Named(Manifests[scope])
SetupObjects == Named(Base) \cup Named(Secrets)

\* What Get has seen and nobody has written since is still there; what the
\* running test has applied is as its manifest says, unless Get found it being
\* deleted.
StartInv ==
    /\ foreign \in Nat
    /\ step \in {"test", "cleanup", "finish", "done"} => resources = <<>>
    /\ step = "test" => scope > 0
    /\ scope > 0 => \A i \in 1..Len(resources) : resources[i].how = "manifest"
    /\ step = "write" /\ fetched = "current" =>
         \/ cluster[Obj].phase = "live"
         \/ cluster[Obj].phase = "terminating" /\ Obj \in doomed
    /\ foreign = 0 /\ scope > 0 /\ step \in {"apply", "write", "test"} =>
         \A o \in Manifest \ (doomed \cup Waiting) :
             cluster[o].phase = "live" /\ cluster[o].spec = scope

\* The manifest of no test names an object of Setup: so it is for the manifests
\* in conformance/tests and conformance/base.
TestsAreApart ==
    \A n \in 1..Len(Manifests) : Named(Manifests[n]) \cap SetupObjects = {}

\* No test applies or deletes an object of Setup.  While Setup applies them
\* nothing is being deleted, and from then on they are there.
BaseInv ==
    /\ scope > 0 => Waiting \cap SetupObjects = {}
    /\ \A s \in Scopes : s > 0 => Listed(s) \cap SetupObjects = {}
    /\ foreign = 0 /\ scope = 0 /\ step \in {"apply", "write", "finish"} =>
         /\ \A o \in Objects : cluster[o].phase # "terminating"
         /\ \A o \in SetupObjects \ Waiting : cluster[o].phase = "live"
    /\ foreign = 0 /\ scope > 0 => \A o \in SetupObjects : cluster[o].phase = "live"

LEMMA WaitingOfHead ==
    ASSUME ApplierTypes, resources # <<>>
    PROVE  /\ Obj \in Waiting /\ Waiting \subseteq Objects
           /\ resources' = Tail(resources) => Waiting \subseteq Waiting' \cup {Obj} /\ Waiting' \subseteq Waiting
<1>1. /\ resources \in Seq(Entry) /\ Len(resources) \in Nat \ {0} /\ Head(resources) = resources[1]
      /\ Len(Tail(resources)) = Len(resources) - 1
      /\ \A i \in 1..(Len(resources) - 1) : Tail(resources)[i] = resources[i + 1]
  BY DEF ApplierTypes
<1>2. Obj \in Waiting
  BY <1>1 DEF Obj, Waiting
<1>3. Waiting \subseteq Objects
  <2>1. \A i \in 1..Len(resources) : resources[i] \in Entry
    BY <1>1
  <2> QED
    BY <2>1 DEF Waiting, Entry
<1>4. ASSUME resources' = Tail(resources), NEW i \in 1..Len(resources)
      PROVE  resources[i].obj \in Waiting' \cup {Obj}
  <2>1. CASE i = 1
    BY <1>1, <2>1 DEF Obj
  <2>2. CASE i # 1
    <3>1. i - 1 \in 1..(Len(resources) - 1) /\ (i - 1) + 1 = i
      BY <1>1, <2>2
    <3>2. i - 1 \in 1..Len(resources') /\ resources'[i - 1] = resources[i]
      BY <1>1, <1>4, <3>1
    <3> QED
      BY <3>2 DEF Waiting
  <2> QED
    BY <2>1, <2>2
<1>5. ASSUME resources' = Tail(resources), NEW i \in 1..Len(resources')
      PROVE  resources'[i].obj \in Waiting
  <2>1. i \in 1..(Len(resources) - 1) /\ i + 1 \in 1..Len(resources)
    BY <1>1, <1>5
  <2> QED
    BY <1>1, <1>5, <2>1 DEF Waiting
<1> QED
  BY <1>2, <1>3, <1>4, <1>5 DEF Waiting

LEMMA SetupIsObjects == SetupObjects \subseteq Objects
<1>1. /\ \A i \in 1..Len(Base) : Base[i] \in Objects
      /\ \A i \in 1..Len(Secrets) : Secrets[i] \in Objects
  BY ApplierAssumption
<1> QED
  BY <1>1 DEF SetupObjects, Named

\* A manifest lists its objects.
LEMMA WaitingOfResources ==
    ASSUME NEW objs \in Seq(Objects), NEW how
    PROVE  /\ Len(Resources(objs, how)) = Len(objs)
           /\ \A i \in 1..Len(objs) : /\ Resources(objs, how)[i].obj = objs[i]
                                      /\ Resources(objs, how)[i].how = how
<1>1. Len(objs) \in Nat /\ DOMAIN objs = 1..Len(objs)
  OBVIOUS
<1>2. Len(Resources(objs, how)) = Len(objs)
  BY <1>1 DEF Resources
<1>3. \A i \in 1..Len(objs) : Resources(objs, how)[i].obj = objs[i] /\ Resources(objs, how)[i].how = how
  BY DEF Resources
<1> QED
  BY <1>2, <1>3

LEMMA WaitingOfSetup ==
    ASSUME resources = SetupResources
    PROVE  SetupObjects \subseteq Waiting
<1> DEFINE a == Resources(Base, "manifest")
           b == Resources(Secrets, "object")
<1>1. a \in Seq(Entry) /\ b \in Seq(Entry)
  BY ResourcesAreEntries, ApplierAssumption
<1>2. /\ Len(a) = Len(Base) /\ \A i \in 1..Len(Base) : a[i].obj = Base[i]
      /\ Len(b) = Len(Secrets) /\ \A i \in 1..Len(Secrets) : b[i].obj = Secrets[i]
  BY WaitingOfResources, ApplierAssumption
<1>3. resources = a \o b
  BY DEF SetupResources
<1> HIDE DEF a, b
<1>4. Len(a) \in Nat /\ Len(b) \in Nat /\ Len(resources) = Len(a) + Len(b)
  BY <1>1, <1>3
<1>5. ASSUME NEW i \in 1..Len(a) PROVE a[i].obj \in Waiting
  <2>1. i \in 1..Len(resources) /\ resources[i] = a[i]
    BY <1>1, <1>3, <1>4
  <2> QED
    BY <2>1 DEF Waiting
<1>6. ASSUME NEW i \in 1..Len(b) PROVE b[i].obj \in Waiting
  <2>1. Len(a) + i \in 1..Len(resources) /\ resources[Len(a) + i] = b[i]
    BY <1>1, <1>3, <1>4
  <2> QED
    BY <2>1 DEF Waiting
<1> QED
  BY <1>2, <1>5, <1>6 DEF SetupObjects, Named

-----------------------------------------------------------------------------
LEMMA InitStartInv == ApplierInit => StartInv /\ BaseInv
<1> SUFFICES ASSUME ApplierInit PROVE StartInv /\ BaseInv
  OBVIOUS
<1>1. scope = 0 /\ step = "apply" /\ foreign = 0 /\ resources = SetupResources
  BY DEF ApplierInit
<1>2. StartInv
  BY <1>1 DEF StartInv
<1>3. \A s \in Scopes : Listed(s) = {}
  BY DEF ApplierInit, Listed
<1>4. \A o \in Objects : cluster[o].phase # "terminating"
  <2>1. PICK pre \in PreExisting :
          cluster = [o \in Objects |-> [Absent EXCEPT !.phase = IF o \in pre THEN "live" ELSE @]]
    BY DEF ApplierInit
  <2> QED
    BY <2>1 DEF Absent
<1>5. SetupObjects \subseteq Waiting
  BY <1>1, WaitingOfSetup, Zenon
<1>6. BaseInv
  BY <1>1, <1>3, <1>4, <1>5 DEF BaseInv
<1> QED
  BY <1>2, <1>6

\* What one step of the applier does to the object it applies: others are left
\* alone, and an object that is there stays.
Wrote ==
    /\ \A o \in Objects : o # Obj => cluster'[o] = cluster[o]
    /\ cluster[Obj].phase = "live" => cluster'[Obj].phase = "live"

LEMMA RegisteredIsApart ==
    ASSUME ApplierInv, BaseInv, resources # <<>>, scope' = scope, Register \/ UNCHANGED cleanups
    PROVE  \A s \in Scopes : s > 0 => Listed(s)' \cap SetupObjects = {}
<1> SUFFICES ASSUME NEW s \in Scopes, s > 0 PROVE Listed(s)' \cap SetupObjects = {}
  OBVIOUS
<1>1. Listed(s) \cap SetupObjects = {}
  BY DEF BaseInv
<1>2. CASE cleanups'[s] = cleanups[s]
  BY <1>1, <1>2 DEF Listed
<1>3. CASE s = scope /\ cleanups'[s] = Append(cleanups[s], Head(resources))
  <2>1. cleanups[s] \in Seq(Entry) /\ Head(resources) \in Entry
    BY DEF ApplierInv, ApplierTypes
  <2>2. Obj \notin SetupObjects
    BY <1>3, WaitingOfHead DEF BaseInv, ApplierInv
  <2>3. ASSUME NEW i \in 1..Len(cleanups'[s])
        PROVE  cleanups'[s][i].obj \in Listed(s) \cup {Obj}
    <3>1. Len(cleanups'[s]) = Len(cleanups[s]) + 1 /\ Len(cleanups[s]) \in Nat
      BY <1>3, <2>1
    <3>2. CASE i = Len(cleanups[s]) + 1
      BY <1>3, <2>1, <3>1, <3>2 DEF Obj
    <3>3. CASE i \in 1..Len(cleanups[s])
      BY <1>3, <2>1, <3>3 DEF Listed
    <3> QED
      BY <3>1, <3>2, <3>3
  <2> QED
    BY <1>1, <2>2, <2>3 DEF Listed
<1>4. cleanups \in [Scopes -> Seq(Entry)] /\ scope \in Scopes
  BY DEF ApplierInv, ApplierTypes
<1> QED
  BY <1>2, <1>3, <1>4 DEF Register

-----------------------------------------------------------------------------
\* A call that fails ends the scope: its test is not called, and what was
\* there stays.
LEMMA FailedStep ==
    ASSUME ApplierInv, StartInv, resources # <<>>, step \in {"apply", "write"}, Fail,
           Wrote, Register \/ UNCHANGED cleanups, UNCHANGED <<scope, doomed, foreign>>
    PROVE  StartInv' /\ (BaseInv => BaseInv')
<1>1. step' = "cleanup" /\ resources' = <<>> /\ Waiting' = {}
  BY DEF Fail, Waiting
<1>2. StartInv'
  BY <1>1 DEF StartInv
<1>3. ASSUME BaseInv PROVE BaseInv'
  <2>1. \A s \in Scopes : s > 0 => Listed(s)' \cap SetupObjects = {}
    BY <1>3, RegisteredIsApart
  <2>2. \A o \in Objects : cluster[o].phase = "live" => cluster'[o].phase = "live"
    BY DEF Wrote
  <2>3. foreign' = 0 /\ scope' > 0 => \A o \in SetupObjects : cluster'[o].phase = "live"
    BY <1>3, <2>2, SetupIsObjects DEF BaseInv
  <2> QED
    BY <1>1, <2>1, <2>3 DEF BaseInv
<1> QED
  BY <1>2, <1>3

\* The resource is applied: it is there now, as the manifest of the test says,
\* unless it is being deleted.
LEMMA AppliedStep ==
    ASSUME ApplierInv, StartInv, resources # <<>>, step \in {"apply", "write"}, Proceed,
           Wrote, Register, UNCHANGED <<scope, doomed, foreign>>,
           scope > 0 /\ Obj \notin doomed => cluster'[Obj].phase = "live" /\ cluster'[Obj].spec = scope,
           cluster[Obj].phase # "terminating" => cluster'[Obj].phase = "live"
    PROVE  StartInv' /\ (BaseInv => BaseInv')
<1>1. step' = "apply" /\ resources' = Tail(resources) /\ fetched' = "none"
  BY DEF Proceed
<1>2. /\ Obj \in Waiting /\ Obj \in Objects /\ Waiting \subseteq Waiting' \cup {Obj}
      /\ Waiting' \subseteq Waiting
  BY <1>1, WaitingOfHead DEF ApplierInv
<1>3. scope > 0 => \A i \in 1..Len(resources') : resources'[i].how = "manifest"
  <2>1. resources \in Seq(Entry)
    BY DEF ApplierInv, ApplierTypes
  <2>2. ASSUME NEW i \in 1..Len(resources') PROVE i + 1 \in 1..Len(resources) /\ resources'[i] = resources[i + 1]
    BY <1>1, <2>1
  <2> QED
    BY <2>2 DEF StartInv
<1>4. scope \in Scopes /\ (scope > 0 => Manifest \subseteq Objects)
  <2>1. scope \in Scopes
    BY DEF ApplierInv, ApplierTypes
  <2>2. scope > 0 => Manifests[scope] \in Seq(Objects)
    BY <2>1, ApplierAssumption DEF Scopes
  <2> QED
    BY <2>1, <2>2 DEF Manifest, Named
<1>5. Manifest' = Manifest
  BY DEF Manifest
<1>6. ASSUME foreign' = 0, scope' > 0, NEW o \in Manifest', o \notin doomed', o \notin Waiting'
      PROVE  cluster'[o].phase = "live" /\ cluster'[o].spec = scope
  <2>1. CASE o = Obj
    BY <1>6, <2>1
  <2>2. CASE o # Obj
    <3>1. o \in Manifest \ (doomed \cup Waiting)
      BY <1>2, <1>5, <1>6, <2>2
    <3>2. cluster[o].phase = "live" /\ cluster[o].spec = scope
      BY <1>6, <3>1 DEF StartInv
    <3>3. cluster'[o] = cluster[o]
      BY <1>4, <1>5, <1>6, <2>2 DEF Wrote
    <3> QED
      BY <3>2, <3>3
  <2> QED
    BY <2>1, <2>2
<1>7. StartInv'
  BY <1>1, <1>3, <1>6 DEF StartInv
<1>8. ASSUME BaseInv PROVE BaseInv'
  <2>1. \A s \in Scopes : s > 0 => Listed(s)' \cap SetupObjects = {}
    BY <1>8, RegisteredIsApart
  <2>2. \A o \in Objects : cluster[o].phase = "live" => cluster'[o].phase = "live"
    BY DEF Wrote
  <2>3. foreign' = 0 /\ scope' > 0 => \A o \in SetupObjects : cluster'[o].phase = "live"
    BY <1>8, <2>2, SetupIsObjects DEF BaseInv
  <2>4. ASSUME foreign' = 0, scope' = 0
        PROVE  /\ \A o \in Objects : cluster'[o].phase # "terminating"
               /\ \A o \in SetupObjects \ Waiting' : cluster'[o].phase = "live"
    <3>1. /\ \A o \in Objects : cluster[o].phase # "terminating"
          /\ \A o \in SetupObjects \ Waiting : cluster[o].phase = "live"
      BY <1>8, <2>4 DEF BaseInv
    <3>2. cluster'[Obj].phase = "live"
      BY <1>2, <3>1
    <3> QED
      BY <1>2, <2>2, <3>1, <3>2, SetupIsObjects DEF Wrote
  <2> QED
    BY <1>1, <1>2, <1>8, <2>1, <2>3, <2>4 DEF BaseInv
<1> QED
  BY <1>7, <1>8

\* The object that was created, or whose spec was replaced.
LEMMA Written1 ==
    ASSUME ApplierTypes, resources # <<>>, cluster' = [cluster EXCEPT ![Obj] = Written(scope)]
    PROVE  Wrote /\ cluster'[Obj].phase = "live" /\ cluster'[Obj].spec = scope
<1>1. Obj \in Objects /\ cluster \in [Objects -> State]
  BY Writes DEF ApplierTypes
<1>2. cluster'[Obj] = Written(scope) /\ \A o \in Objects : o # Obj => cluster'[o] = cluster[o]
  BY <1>1
<1> QED
  BY <1>2 DEF Wrote, Written

LEMMA Written2 ==
    ASSUME ApplierTypes, resources # <<>>, cluster' = [cluster EXCEPT ![Obj].spec = scope]
    PROVE  Wrote /\ cluster'[Obj].phase = cluster[Obj].phase /\ cluster'[Obj].spec = scope
<1>1. Obj \in Objects /\ cluster \in [Objects -> State]
  BY Writes DEF ApplierTypes
<1>2. PICK c \in State : c = cluster[Obj]
  BY <1>1
<1>3. /\ cluster'[Obj] = [c EXCEPT !.spec = scope]
      /\ \A o \in Objects : o # Obj => cluster'[o] = cluster[o]
  BY <1>1, <1>2
<1>4. cluster'[Obj].phase = c.phase /\ cluster'[Obj].spec = scope
  BY <1>3 DEF State
<1> QED
  BY <1>2, <1>3, <1>4 DEF Wrote

LEMMA CreateStarts ==
    ASSUME ApplierInv, StartInv, Create \/ CreateObject
    PROVE  StartInv' /\ (BaseInv => BaseInv')
<1>1. /\ step \in {"apply", "write"} /\ resources # <<>> /\ UNCHANGED <<scope, doomed, foreign>>
      /\ ApplierTypes
  BY DEF Create, CreateObject, ApplierInv, ApplierTypes
<1>2. Obj \in Objects /\ cluster[Obj] \in State
  BY <1>1, Writes DEF ApplierTypes
<1>3. CASE cluster' = [cluster EXCEPT ![Obj] = Written(scope)] /\ Register /\ Proceed
  BY <1>1, <1>3, Written1, AppliedStep
<1>4. CASE UNCHANGED cluster /\ cleanups' = cleanups /\ Fail
  <2>1. Wrote
    BY <1>4 DEF Wrote
  <2> QED
    BY <1>1, <1>4, <2>1, FailedStep
<1>5. CASE CreateObject /\ UNCHANGED cluster /\ Register /\ Proceed /\ cluster[Obj].phase # "absent"
  <2>1. Wrote
    BY <1>5 DEF Wrote
  <2>2. ~(scope > 0)
    <3>1. Head(resources).how = "object"
      BY <1>5 DEF CreateObject
    <3>2. resources \in Seq(Entry) /\ Head(resources) = resources[1] /\ 1 \in 1..Len(resources)
      BY <1>1 DEF ApplierTypes
    <3> QED
      BY <3>1, <3>2 DEF StartInv
  <2>3. cluster[Obj].phase # "terminating" => cluster'[Obj].phase = "live"
    BY <1>2, <1>5 DEF State
  <2> QED
    BY <1>1, <1>5, <2>1, <2>2, <2>3, AppliedStep
<1> QED
  BY <1>3, <1>4, <1>5 DEF Create, CreateObject

LEMMA UpdateStarts ==
    ASSUME ApplierInv, StartInv, Update
    PROVE  StartInv' /\ (BaseInv => BaseInv')
<1>1. /\ step = "write" /\ resources # <<>> /\ UNCHANGED <<scope, doomed, foreign>>
      /\ ApplierTypes /\ Register
  BY DEF Update, ApplierInv, ApplierTypes
<1>2. CASE fetched = "current" /\ cluster' = [cluster EXCEPT ![Obj].spec = scope] /\ Proceed
  <2>1. Wrote /\ cluster'[Obj].phase = cluster[Obj].phase /\ cluster'[Obj].spec = scope
    BY <1>1, <1>2, Written2
  <2>2. \/ cluster[Obj].phase = "live"
        \/ cluster[Obj].phase = "terminating" /\ Obj \in doomed
    BY <1>1, <1>2 DEF StartInv
  <2> QED
    BY <1>1, <1>2, <2>1, <2>2, AppliedStep
<1>3. CASE UNCHANGED cluster /\ Fail
  <2>1. Wrote
    BY <1>3 DEF Wrote
  <2> QED
    BY <1>1, <1>3, <2>1, FailedStep
<1> QED
  BY <1>2, <1>3 DEF Update

LEMMA FaultStarts ==
    ASSUME ApplierInv, StartInv, ApplyFault
    PROVE  StartInv' /\ (BaseInv => BaseInv')
<1>1. /\ step \in {"apply", "write"} /\ resources # <<>> /\ UNCHANGED <<scope, doomed, foreign>>
      /\ ApplierTypes /\ (Register \/ UNCHANGED cleanups) /\ Fail
  BY DEF ApplyFault, ApplierInv, ApplierTypes
<1>2. \/ UNCHANGED cluster
      \/ cluster' = [cluster EXCEPT ![Obj] = Written(scope)]
      \/ cluster' = [cluster EXCEPT ![Obj].spec = scope]
  BY DEF ApplyFault
<1>3. Wrote
  BY <1>1, <1>2, Written1, Written2 DEF Wrote
<1> QED
  BY <1>1, <1>3, FailedStep

\* Get marks what it finds being deleted.
LEMMA GetStarts ==
    ASSUME ApplierInv, StartInv, Get
    PROVE  StartInv' /\ (BaseInv => BaseInv')
<1>1. /\ step = "apply" /\ step' = "write" /\ resources # <<>>
      /\ UNCHANGED <<cluster, scope, resources, cleanups, foreign>> /\ doomed \subseteq doomed'
      /\ fetched' = "current" => cluster[Obj].phase # "absent"
      /\ cluster[Obj].phase = "terminating" => Obj \in doomed'
  BY DEF Get
<1>2. Obj' = Obj /\ Waiting' = Waiting /\ Manifest' = Manifest /\ \A s : Listed(s)' = Listed(s)
  BY <1>1 DEF Obj, Waiting, Manifest, Listed
<1>3. cluster[Obj].phase \in {"absent", "live", "terminating"}
  BY <1>1, Writes DEF ApplierInv, ApplierTypes, State
<1>4. foreign = 0 /\ scope > 0 =>
        \A o \in Manifest \ (doomed' \cup Waiting) : cluster[o].phase = "live" /\ cluster[o].spec = scope
  BY <1>1 DEF StartInv
<1>5. StartInv'
  BY <1>1, <1>2, <1>3, <1>4 DEF StartInv
<1>6. BaseInv => BaseInv'
  BY <1>1, <1>2 DEF BaseInv
<1> QED
  BY <1>5, <1>6

LEMMA FlowStarts ==
    ASSUME ApplierInv, StartInv,
           ApplyDone \/ TestReturns \/ CleanupsDone \/ UNCHANGED applierVars
    PROVE  StartInv' /\ (BaseInv => BaseInv')
<1>1. UNCHANGED <<cluster, scope, resources, cleanups, fetched, doomed, foreign>>
  BY DEF ApplyDone, TestReturns, CleanupsDone, applierVars
<1>2. Obj' = Obj /\ Waiting' = Waiting /\ Manifest' = Manifest /\ \A s : Listed(s)' = Listed(s)
  BY <1>1, Zenon DEF Obj, Waiting, Manifest, Listed
<1>3. /\ step' = "write" => step = "write"
      /\ step' \in {"apply", "write", "test"} => step \in {"apply", "write", "test"}
      /\ step' \in {"test", "cleanup", "finish", "done"} =>
           resources = <<>> \/ step \in {"test", "cleanup", "finish", "done"}
      /\ scope = 0 /\ step' \in {"apply", "write", "finish"} => step \in {"apply", "write", "finish"}
  BY DEF ApplyDone, TestReturns, CleanupsDone, applierVars
<1>4. step' = "test" => scope > 0
  <2>1. scope \in Nat
    BY Numbers DEF ApplierInv, ApplierTypes, Scopes
  <2> QED
    BY <2>1 DEF ApplyDone, TestReturns, CleanupsDone, applierVars, StartInv
<1>5. StartInv'
  BY <1>1, <1>2, <1>3, <1>4 DEF StartInv
<1>6. BaseInv => BaseInv'
  BY <1>1, <1>2, <1>3 DEF BaseInv
<1> QED
  BY <1>5, <1>6

\* The next test begins with all of its manifest to apply.
LEMMA NextScopeStarts ==
    ASSUME ApplierInv, StartInv, NextScope
    PROVE  StartInv' /\ (TestsAreApart /\ BaseInv => BaseInv')
<1>1. step = "finish" /\ resources = <<>> /\ UNCHANGED <<cluster, cleanups, foreign>>
  BY DEF NextScope, StartInv
<1>2. scope \in Nat /\ Waiting = {} /\ \A s : Listed(s)' = Listed(s)
  BY <1>1, Numbers DEF ApplierInv, ApplierTypes, Scopes, Waiting, Listed
<1>3. BaseInv /\ foreign = 0 => \A o \in SetupObjects : cluster[o].phase = "live"
  BY <1>1, <1>2 DEF BaseInv
<1>4. CASE scope < Len(Manifests)
  <2>1. scope' = scope + 1 /\ step' = "apply" /\ resources' = Resources(Manifests[scope'], "manifest")
    BY <1>4 DEF NextScope
  <2>2. scope' \in 1..Len(Manifests) /\ Manifests[scope'] \in Seq(Objects)
    BY <1>2, <1>4, <2>1, Numbers, ApplierAssumption
  <2>3. /\ Len(resources') = Len(Manifests[scope'])
        /\ \A i \in 1..Len(resources') : resources'[i].obj = Manifests[scope'][i] /\ resources'[i].how = "manifest"
    BY <2>1, <2>2, WaitingOfResources
  <2>4. Waiting' = Manifest'
    BY <2>2, <2>3 DEF Waiting, Manifest, Named
  <2>5. TestsAreApart => Manifest' \cap SetupObjects = {}
    BY <2>2 DEF TestsAreApart, Manifest
  <2>6. StartInv'
    <3>1. foreign' \in Nat /\ scope' > 0 /\ step' = "apply"
      BY <1>1, <2>1, <2>2 DEF StartInv
    <3> QED
      BY <2>3, <2>4, <3>1 DEF StartInv
  <2>7. ASSUME TestsAreApart, BaseInv PROVE BaseInv'
    <3>1. scope' # 0
      BY <2>2
    <3>2. Waiting' \cap SetupObjects = {}
      BY <2>4, <2>5, <2>7
    <3>3. \A s \in Scopes : s > 0 => Listed(s)' \cap SetupObjects = {}
      BY <1>2, <2>7 DEF BaseInv
    <3>4. foreign' = 0 => \A o \in SetupObjects : cluster'[o].phase = "live"
      BY <1>1, <1>3, <2>7
    <3> QED
      BY <3>1, <3>2, <3>3, <3>4 DEF BaseInv
  <2> QED
    BY <2>6, <2>7
<1>5. CASE ~(scope < Len(Manifests))
  <2>1. scope' = 0 /\ resources' = <<>> /\ step' = "cleanup"
    BY <1>5 DEF NextScope
  <2> QED
    <3>1. StartInv'
      BY <1>1, <1>2, <2>1 DEF StartInv
    <3>2. BaseInv => BaseInv'
      BY <1>1, <1>2, <2>1 DEF BaseInv
    <3> QED
      BY <3>1, <3>2
<1> QED
  BY <1>4, <1>5

\* The cleanups of a test delete nothing of Setup.
LEMMA RunCleanupStarts ==
    ASSUME ApplierInv, StartInv, RunCleanup
    PROVE  StartInv' /\ (BaseInv => BaseInv')
<1> DEFINE list == cleanups[scope]
           d == list[Len(list)].obj
<1>1. /\ step = "cleanup" /\ list # <<>> /\ UNCHANGED <<scope, step, resources, foreign>>
      /\ cleanups' = [cleanups EXCEPT ![scope] = Front(list)]
      /\ cluster' \in {cluster, Deleted(d)}
  BY Zenon DEF RunCleanup, Front
<1>2. /\ list \in Seq(Entry) /\ scope \in Scopes /\ cleanups \in [Scopes -> Seq(Entry)]
  BY DEF ApplierInv, ApplierTypes
<1>3. StartInv'
  BY <1>1 DEF StartInv
<1> HIDE DEF list
<1>4. /\ Len(list) \in Nat \ {0} /\ list[Len(list)] \in Entry
      /\ Len(Front(list)) = Len(list) - 1
      /\ \A i \in 1..(Len(list) - 1) : Front(list)[i] = list[i]
  <2>1. Len(list) \in Nat /\ Len(list) # 0
    BY <1>1, <1>2
  <2>2. list[Len(list)] \in Entry
    BY <1>2, <2>1
  <2> QED
    BY <1>1, <1>2, <2>1, <2>2, FrontOfSeq
<1>5. d \in Objects /\ d \in Listed(scope)
  <2>1. d = list[Len(list)].obj /\ Len(list) \in 1..Len(list)
    BY <1>4 DEF d
  <2> HIDE DEF d
  <2> QED
    BY <1>4, <2>1 DEF Entry, Listed, list
<1> HIDE DEF d
<1>6. \A s \in Scopes : Listed(s)' \subseteq Listed(s)
  <2>1. cleanups'[scope] = Front(list) /\ \A s \in Scopes : s # scope => cleanups'[s] = cleanups[s]
    BY <1>1, <1>2
  <2>2. ASSUME NEW i \in 1..Len(cleanups'[scope]) PROVE cleanups'[scope][i].obj \in Listed(scope)
    <3>1. i \in 1..(Len(list) - 1) /\ i \in 1..Len(list) /\ cleanups'[scope][i] = list[i]
      BY <1>4, <2>1
    <3> QED
      BY <3>1 DEF Listed, list
  <2> QED
    BY <2>1, <2>2 DEF Listed
<1>7. \A o \in Objects : o # d => cluster'[o] = cluster[o]
  BY <1>1, <1>5, Deletes DEF ApplierInv
<1>8. ASSUME BaseInv PROVE BaseInv'
  <2>1. scope > 0 => d \notin SetupObjects
    BY <1>2, <1>5, <1>8 DEF BaseInv
  <2>2. Waiting' = Waiting
    BY <1>1 DEF Waiting
  <2>3. \A s \in Scopes : s > 0 => Listed(s)' \cap SetupObjects = {}
    BY <1>6, <1>8 DEF BaseInv
  <2>4. foreign' = 0 /\ scope' > 0 => \A o \in SetupObjects : cluster'[o].phase = "live"
    BY <1>1, <1>7, <1>8, <2>1, SetupIsObjects DEF BaseInv
  <2> QED
    BY <1>1, <1>8, <2>2, <2>3, <2>4 DEF BaseInv
<1> QED
  BY <1>3, <1>8

\* Another user's write outdates what Get has seen; only a user who creates or
\* deletes objects takes away what is there.
LEMMA OthersStart ==
    ASSUME ApplierInv, StartInv, NEW o \in Objects, Touch(o) \/ Finalize(o) \/ Foreign(o)
    PROVE  StartInv' /\ (BaseInv => BaseInv')
<1>1. UNCHANGED <<scope, step, resources, cleanups, doomed>> /\ Outdate(o)
  BY DEF Touch, Finalize, Foreign
<1>2. Obj' = Obj /\ Waiting' = Waiting /\ Manifest' = Manifest /\ \A s : Listed(s)' = Listed(s)
  BY <1>1 DEF Obj, Waiting, Manifest, Listed
<1>3. \A p \in Objects : p # o => cluster'[p] = cluster[p]
  <2>1. cluster \in [Objects -> State]
    BY DEF ApplierInv, ApplierTypes
  <2>2. CASE Touch(o)
    BY <2>2 DEF Touch
  <2>3. CASE Finalize(o)
    BY <2>1, <2>3 DEF Finalize
  <2>4. CASE Foreign(o)
    BY <2>1, <2>4, Deletes DEF Foreign, ApplierInv
  <2> QED
    BY <2>2, <2>3, <2>4
<1>4. foreign' \in Nat /\ (foreign' = 0 => foreign = 0)
  BY DEF Touch, Finalize, Foreign, StartInv
<1>5. ASSUME foreign' = 0, NEW p \in Objects
      PROVE  /\ cluster[p].phase = "live" => cluster'[p] = cluster[p]
             /\ cluster[p].phase # "terminating" => cluster'[p].phase # "terminating"
  <2>1. ~Foreign(o)
    BY <1>5 DEF Foreign, StartInv
  <2>2. UNCHANGED cluster \/ cluster[o].phase = "terminating"
    BY <2>1 DEF Touch, Finalize
  <2> QED
    BY <1>3, <2>2
<1>6. step = "write" /\ fetched' = "current" => fetched = "current" /\ o # Obj
  BY <1>1 DEF Outdate
<1>7. ASSUME step' = "write", fetched' = "current"
      PROVE  \/ cluster'[Obj].phase = "live"
             \/ cluster'[Obj].phase = "terminating" /\ Obj \in doomed'
  <2>1. fetched = "current" /\ step = "write" /\ Obj # o /\ Obj \in Objects
    BY <1>1, <1>6, <1>7, Writes DEF ApplierInv, ApplierTypes
  <2>2. cluster'[Obj] = cluster[Obj]
    BY <1>3, <2>1
  <2> QED
    BY <1>1, <2>1, <2>2, Zenon DEF StartInv
<1>8. ASSUME foreign' = 0, scope > 0, step \in {"apply", "write", "test"},
             NEW p \in Manifest \ (doomed \cup Waiting)
      PROVE  cluster'[p].phase = "live" /\ cluster'[p].spec = scope
  <2>1. cluster[p].phase = "live" /\ cluster[p].spec = scope
    BY <1>4, <1>8 DEF StartInv
  <2>2. p \in Objects
    <3>1. scope \in 1..Len(Manifests)
      BY <1>8, Numbers DEF ApplierInv, ApplierTypes, Scopes
    <3>2. Manifests[scope] \in Seq(Objects)
      BY <3>1, ApplierAssumption
    <3> QED
      BY <3>2 DEF Manifest, Named
  <2> QED
    BY <1>5, <1>8, <2>1, <2>2
<1>9. StartInv'
  BY <1>1, <1>2, <1>4, <1>7, <1>8 DEF StartInv
<1>10. ASSUME BaseInv PROVE BaseInv'
  BY <1>1, <1>2, <1>4, <1>5, <1>10, SetupIsObjects, Zenon DEF BaseInv
<1> QED
  BY <1>9, <1>10

LEMMA NextStarts ==
    ApplierInv /\ StartInv /\ [ApplierNext]_applierVars => StartInv' /\ (TestsAreApart /\ BaseInv => BaseInv')
  BY CreateStarts, UpdateStarts, FaultStarts, GetStarts, FlowStarts, NextScopeStarts,
     RunCleanupStarts, OthersStart DEF ApplierNext, Done

\* A Test function of the conformance suite is called with everything in place
\* that MustApplyWithCleanup applied for it, whatever tests came before, what
\* they left being deleted and whatever controllers write: a conflicting write
\* or a lost race to create fails the test instead.
THEOREM TestsStartWithTheirObjects == ApplierSpec => []TestStartsWithItsObjects
<1>1. ApplierInv /\ StartInv => TestStartsWithItsObjects
  <2> SUFFICES ASSUME ApplierInv, StartInv, step = "test", foreign = 0,
                      NEW o \in Manifest \ doomed
               PROVE  cluster[o].phase = "live" /\ cluster[o].spec = scope
    BY DEF TestStartsWithItsObjects, Manifest
  <2>1. Waiting = {}
    BY DEF StartInv, Waiting
  <2>2. scope > 0
    BY DEF StartInv
  <2> QED
    BY <2>1, <2>2 DEF StartInv
<1> QED
  BY <1>1, InitApplierInv, NextApplierInv, InitStartInv, NextStarts, PTL DEF ApplierSpec

\* The objects of Setup are there throughout all tests: no test and no cleanup
\* of a test takes them away, because no manifest of a test names them.
THEOREM SetupOutlivesTests == TestsAreApart => (ApplierSpec => []BaseOutlivesTests)
<1>1. BaseInv => BaseOutlivesTests
  BY DEF BaseInv, BaseOutlivesTests, SetupObjects
<1> SUFFICES ASSUME TestsAreApart PROVE ApplierSpec => []BaseOutlivesTests
  OBVIOUS
<1>2. ApplierInv /\ StartInv /\ BaseInv /\ [ApplierNext]_applierVars => StartInv' /\ BaseInv'
  BY NextStarts
<1> QED
  BY <1>1, <1>2, InitApplierInv, NextApplierInv, InitStartInv, PTL DEF ApplierSpec

=============================================================================
