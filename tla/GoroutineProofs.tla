--------------------------- MODULE GoroutineProofs ---------------------------
(* Goroutines that share state under a mutex: the callers of the informer    *)
(* factory, for every set of types, callers and stop channels, and the       *)
(* verdict of the weighted backends test, for any number of goroutines, of   *)
(* requests and of rounds.                                                   *)
EXTENDS InformerFactory, WeightDistribution, FiniteSetTheorems, TLAPS

\* The caller inside Start is the one that holds the lock, and it works on a
\* type that is stored and not yet marked.
LockInv ==
    /\ \A c \in Callers : pc[c] \in InStart <=> lock = c
    /\ \A c \in Callers : pc[c] \in InStart => stopCh[c] \in Stops
    /\ \A c \in Callers : pc[c] \in {"go", "mark"} =>
          /\ current[c] \in Types \ startedInformers
          /\ informers[current[c]] # 0

\* A factory that shuts down has nobody inside Start.
DownInv ==
    /\ shuttingDown => lock = None
    /\ \A c \in Callers : pc[c] = "wait" => shuttingDown
    /\ downReturned => shuttingDown /\ goroutines = {}

\* A type has a goroutine only if it is marked or about to be marked.
SpawnInv ==
    /\ \A t \in Types : spawned[t] <= 1
    /\ \A t \in Types : spawned[t] # 0 =>
          \/ t \in startedInformers
          \/ \E c \in Callers : pc[c] = "mark" /\ current[c] = t
    /\ \A c \in Callers : pc[c] = "go" => spawned[current[c]] = 0
    /\ \A g \in goroutines : g.nth <= spawned[g.type]

CountInv == IsFiniteSet(goroutines) /\ WaitGroupCounts

InstanceInv ==
    /\ \A t \in Types : informers[t] = 0 => handed[t] = {}
    /\ \A t \in startedInformers : informers[t] # 0
    /\ OneInstancePerType

IInv ==
    /\ TypeOK
    /\ LockInv
    /\ DownInv
    /\ SpawnInv
    /\ CountInv
    /\ InstanceInv
    /\ SyncResultsHold

LEMMA InitIInv == Init => IInv
<1> SUFFICES ASSUME Init PROVE IInv
  OBVIOUS
<1> USE FactoryAssumption DEF Init
<1>1. TypeOK
  BY DEF TypeOK, Points
<1>2. LockInv /\ DownInv /\ SpawnInv /\ InstanceInv /\ SyncResultsHold
  BY DEF LockInv, DownInv, SpawnInv, InstanceInv, SyncResultsHold, InStart,
         OneInstancePerType
<1>3. CountInv
  BY FS_EmptySet DEF CountInv, WaitGroupCounts
<1> QED
  BY <1>1, <1>2, <1>3 DEF IInv

LEMMA InformerForStep ==
    ASSUME IInv, NEW c \in Callers, NEW t \in Types,
           InformerFor(c, t)
    PROVE  IInv'
<1> USE FactoryAssumption DEF IInv, TypeOK, Goto, Points, InStart, InformerFor,
        factoryVars, envVars, callerVars, historyVars
<1>0. informers[t] = 0 => Cardinality(handed[t]) = 0
  BY FS_EmptySet DEF InstanceInv
<1>1. TypeOK'
  BY <1>0
<1>2. LockInv'
  BY DEF LockInv, DownInv, InstanceInv
<1>3. DownInv'
  BY DEF DownInv, LockInv
<1>4. SpawnInv'
  BY DEF SpawnInv, LockInv, Goroutines
<1>5. CountInv'
  BY DEF CountInv, WaitGroupCounts, LockInv
<1>6. InstanceInv'
  BY <1>0 DEF InstanceInv, OneInstancePerType
<1>7. SyncResultsHold'
  BY DEF SyncResultsHold, InstanceInv
<1> QED
  BY <1>1, <1>2, <1>3, <1>4, <1>5, <1>6, <1>7

LEMMA StartLockStep ==
    ASSUME IInv, NEW c \in Callers, NEW s \in Stops,
           StartLock(c, s)
    PROVE  IInv'
<1> USE FactoryAssumption DEF IInv, TypeOK, Goto, Points, InStart, StartLock,
        factoryVars, envVars, callerVars, historyVars
<1>1. TypeOK'
  OBVIOUS
<1>2. LockInv'
  BY DEF LockInv, DownInv, InstanceInv
<1>3. DownInv'
  BY DEF DownInv, LockInv
<1>4. SpawnInv'
  BY DEF SpawnInv, LockInv, Goroutines
<1>5. CountInv'
  BY DEF CountInv, WaitGroupCounts, LockInv
<1>6. InstanceInv'
  BY DEF InstanceInv, OneInstancePerType, LockInv
<1>7. SyncResultsHold'
  BY DEF SyncResultsHold, InstanceInv
<1> QED
  BY <1>1, <1>2, <1>3, <1>4, <1>5, <1>6, <1>7

LEMMA StartAddStep ==
    ASSUME IInv, NEW c \in Callers, NEW t \in Types,
           StartAdd(c, t)
    PROVE  IInv'
<1> USE FactoryAssumption DEF IInv, TypeOK, Goto, Points, InStart, StartAdd,
        factoryVars, envVars, callerVars, historyVars
<1>1. TypeOK'
  OBVIOUS
<1>2. LockInv'
  BY DEF LockInv, DownInv, InstanceInv
<1>3. DownInv'
  BY DEF DownInv, LockInv
<1>4. SpawnInv'
  BY DEF SpawnInv, LockInv, Goroutines
<1>5. CountInv'
  <2>1. ~ \E d \in Callers : pc[d] = "go"
    BY DEF LockInv
  <2>2. \E d \in Callers : pc'[d] = "go"
    OBVIOUS
  <2>3. wg = Cardinality(goroutines) /\ wg' = Cardinality(goroutines) + 1
    BY <2>1, FS_CardinalityType DEF CountInv, WaitGroupCounts
  <2> QED
    BY <2>2, <2>3 DEF CountInv, WaitGroupCounts
<1>6. InstanceInv'
  BY DEF InstanceInv, OneInstancePerType, LockInv
<1>7. SyncResultsHold'
  BY DEF SyncResultsHold, InstanceInv
<1> QED
  BY <1>1, <1>2, <1>3, <1>4, <1>5, <1>6, <1>7

LEMMA StartGoStep ==
    ASSUME IInv, NEW c \in Callers,
           StartGo(c)
    PROVE  IInv'
<1> USE FactoryAssumption DEF IInv, TypeOK, Goto, Points, InStart, StartGo,
        factoryVars, envVars, callerVars, historyVars
<1> DEFINE g == [type |-> current[c], nth |-> spawned[current[c]] + 1,
                 stop |-> stopCh[c]]
<1>0. g \in Goroutines \ goroutines
  BY DEF LockInv, SpawnInv, Goroutines
<1>1. TypeOK'
  BY <1>0 DEF LockInv, Goroutines
<1>2. LockInv'
  BY DEF LockInv, DownInv, InstanceInv
<1>3. DownInv'
  BY DEF DownInv, LockInv
<1>4. SpawnInv'
  BY DEF SpawnInv, LockInv, Goroutines
<1>5. CountInv'
  <2>1. \E d \in Callers : pc[d] = "go"
    OBVIOUS
  <2>2. ~ \E d \in Callers : pc'[d] = "go"
    BY DEF LockInv
  <2>3. /\ IsFiniteSet(goroutines')
        /\ Cardinality(goroutines') = Cardinality(goroutines) + 1
    BY <1>0, FS_AddElement DEF CountInv
  <2> QED
    BY <2>1, <2>2, <2>3 DEF CountInv, WaitGroupCounts
<1>6. InstanceInv'
  BY DEF InstanceInv, OneInstancePerType, LockInv
<1>7. SyncResultsHold'
  BY DEF SyncResultsHold, InstanceInv
<1> QED
  BY <1>1, <1>2, <1>3, <1>4, <1>5, <1>6, <1>7

LEMMA StartMarkStep ==
    ASSUME IInv, NEW c \in Callers,
           StartMark(c)
    PROVE  IInv'
<1> USE FactoryAssumption DEF IInv, TypeOK, Goto, Points, InStart, StartMark,
        factoryVars, envVars, callerVars, historyVars
<1>1. TypeOK'
  BY DEF LockInv
<1>2. LockInv'
  BY DEF LockInv, DownInv, InstanceInv
<1>3. DownInv'
  BY DEF DownInv, LockInv
<1>4. SpawnInv'
  BY DEF SpawnInv, LockInv, Goroutines
<1>5. CountInv'
  BY DEF CountInv, WaitGroupCounts, LockInv
<1>6. InstanceInv'
  BY DEF InstanceInv, OneInstancePerType, LockInv
<1>7. SyncResultsHold'
  BY DEF SyncResultsHold, InstanceInv
<1> QED
  BY <1>1, <1>2, <1>3, <1>4, <1>5, <1>6, <1>7

LEMMA StartUnlockStep ==
    ASSUME IInv, NEW c \in Callers,
           StartUnlock(c)
    PROVE  IInv'
<1> USE FactoryAssumption DEF IInv, TypeOK, Goto, Points, InStart, StartUnlock,
        factoryVars, envVars, callerVars, historyVars
<1>1. TypeOK'
  OBVIOUS
<1>2. LockInv'
  BY DEF LockInv, DownInv, InstanceInv
<1>3. DownInv'
  BY DEF DownInv, LockInv
<1>4. SpawnInv'
  BY DEF SpawnInv, LockInv, Goroutines
<1>5. CountInv'
  BY DEF CountInv, WaitGroupCounts, LockInv
<1>6. InstanceInv'
  BY DEF InstanceInv, OneInstancePerType, LockInv
<1>7. SyncResultsHold'
  BY DEF SyncResultsHold, InstanceInv
<1> QED
  BY <1>1, <1>2, <1>3, <1>4, <1>5, <1>6, <1>7

LEMMA ShutdownStep ==
    ASSUME IInv, NEW c \in Callers,
           Shutdown(c)
    PROVE  IInv'
<1> USE FactoryAssumption DEF IInv, TypeOK, Goto, Points, InStart, Shutdown,
        factoryVars, envVars, callerVars, historyVars
<1>1. TypeOK'
  OBVIOUS
<1>2. LockInv'
  BY DEF LockInv, DownInv, InstanceInv
<1>3. DownInv'
  BY DEF DownInv, LockInv
<1>4. SpawnInv'
  BY DEF SpawnInv, LockInv, Goroutines
<1>5. CountInv'
  BY DEF CountInv, WaitGroupCounts, LockInv
<1>6. InstanceInv'
  BY DEF InstanceInv, OneInstancePerType, LockInv
<1>7. SyncResultsHold'
  BY DEF SyncResultsHold, InstanceInv
<1> QED
  BY <1>1, <1>2, <1>3, <1>4, <1>5, <1>6, <1>7

LEMMA ShutdownReturnStep ==
    ASSUME IInv, NEW c \in Callers,
           ShutdownReturn(c)
    PROVE  IInv'
<1> USE FactoryAssumption DEF IInv, TypeOK, Goto, Points, InStart, ShutdownReturn,
        factoryVars, envVars, callerVars, historyVars
<1>1. TypeOK'
  OBVIOUS
<1>2. LockInv'
  BY DEF LockInv, DownInv, InstanceInv
<1>3. DownInv'
  <2>1. goroutines = {}
    <3>1. Cardinality(goroutines) \in Nat
      BY FS_CardinalityType DEF CountInv
    <3>2. Cardinality(goroutines) = 0
      BY <3>1 DEF CountInv, WaitGroupCounts
    <3> QED
      BY <3>2, FS_EmptySet DEF CountInv
  <2> QED
    BY <2>1 DEF DownInv
<1>4. SpawnInv'
  BY DEF SpawnInv, LockInv, Goroutines
<1>5. CountInv'
  BY DEF CountInv, WaitGroupCounts, LockInv
<1>6. InstanceInv'
  BY DEF InstanceInv, OneInstancePerType, LockInv
<1>7. SyncResultsHold'
  BY DEF SyncResultsHold, InstanceInv
<1> QED
  BY <1>1, <1>2, <1>3, <1>4, <1>5, <1>6, <1>7

LEMMA SyncSnapshotStep ==
    ASSUME IInv, NEW c \in Callers, NEW s \in Stops,
           SyncSnapshot(c, s)
    PROVE  IInv'
<1> USE FactoryAssumption DEF IInv, TypeOK, Goto, Points, InStart, SyncSnapshot,
        factoryVars, envVars, callerVars, historyVars
<1>1. TypeOK'
  OBVIOUS
<1>2. LockInv'
  BY DEF LockInv, DownInv, InstanceInv
<1>3. DownInv'
  BY DEF DownInv, LockInv
<1>4. SpawnInv'
  BY DEF SpawnInv, LockInv, Goroutines
<1>5. CountInv'
  BY DEF CountInv, WaitGroupCounts, LockInv
<1>6. InstanceInv'
  BY DEF InstanceInv, OneInstancePerType, LockInv
<1>7. SyncResultsHold'
  BY DEF SyncResultsHold, InstanceInv
<1> QED
  BY <1>1, <1>2, <1>3, <1>4, <1>5, <1>6, <1>7

LEMMA SyncOneStep ==
    ASSUME IInv, NEW c \in Callers, NEW t \in Types, NEW ok \in BOOLEAN,
           SyncOne(c, t, ok)
    PROVE  IInv'
<1> USE FactoryAssumption DEF IInv, TypeOK, Goto, Points, InStart, SyncOne,
        factoryVars, envVars, callerVars, historyVars
<1>1. TypeOK'
  OBVIOUS
<1>2. LockInv'
  BY DEF LockInv, DownInv, InstanceInv
<1>3. DownInv'
  BY DEF DownInv, LockInv
<1>4. SpawnInv'
  BY DEF SpawnInv, LockInv, Goroutines
<1>5. CountInv'
  BY DEF CountInv, WaitGroupCounts, LockInv
<1>6. InstanceInv'
  BY DEF InstanceInv, OneInstancePerType, LockInv
<1>7. SyncResultsHold'
  BY DEF SyncResultsHold, InstanceInv
<1> QED
  BY <1>1, <1>2, <1>3, <1>4, <1>5, <1>6, <1>7

LEMMA SyncReturnStep ==
    ASSUME IInv, NEW c \in Callers,
           SyncReturn(c)
    PROVE  IInv'
<1> USE FactoryAssumption DEF IInv, TypeOK, Goto, Points, InStart, SyncReturn,
        factoryVars, envVars, callerVars, historyVars
<1>1. TypeOK'
  OBVIOUS
<1>2. LockInv'
  BY DEF LockInv, DownInv, InstanceInv
<1>3. DownInv'
  BY DEF DownInv, LockInv
<1>4. SpawnInv'
  BY DEF SpawnInv, LockInv, Goroutines
<1>5. CountInv'
  BY DEF CountInv, WaitGroupCounts, LockInv
<1>6. InstanceInv'
  BY DEF InstanceInv, OneInstancePerType, LockInv
<1>7. SyncResultsHold'
  BY DEF SyncResultsHold, InstanceInv
<1> QED
  BY <1>1, <1>2, <1>3, <1>4, <1>5, <1>6, <1>7

LEMMA RunSyncStep ==
    ASSUME IInv, NEW g \in goroutines,
           RunSync(g)
    PROVE  IInv'
<1> USE FactoryAssumption DEF IInv, TypeOK, Goto, Points, InStart, RunSync,
        factoryVars, envVars, callerVars, historyVars
<1>1. TypeOK'
  BY DEF Goroutines
<1>2. LockInv'
  BY DEF LockInv, DownInv, InstanceInv
<1>3. DownInv'
  BY DEF DownInv, LockInv
<1>4. SpawnInv'
  BY DEF SpawnInv, LockInv, Goroutines
<1>5. CountInv'
  BY DEF CountInv, WaitGroupCounts, LockInv
<1>6. InstanceInv'
  BY DEF InstanceInv, OneInstancePerType, LockInv
<1>7. SyncResultsHold'
  BY DEF SyncResultsHold, InstanceInv
<1> QED
  BY <1>1, <1>2, <1>3, <1>4, <1>5, <1>6, <1>7

LEMMA RunExitStep ==
    ASSUME IInv, NEW g \in goroutines,
           RunExit(g)
    PROVE  IInv'
<1> USE FactoryAssumption DEF IInv, TypeOK, Goto, Points, InStart, RunExit,
        factoryVars, envVars, callerVars, historyVars
<1>0. /\ IsFiniteSet(goroutines')
      /\ Cardinality(goroutines') = Cardinality(goroutines) - 1
      /\ Cardinality(goroutines) \in Nat \ {0}
  <2>1. Cardinality(goroutines) \in Nat /\ Cardinality(goroutines) # 0
    BY FS_CardinalityType, FS_EmptySet DEF CountInv
  <2> QED
    BY <2>1, FS_RemoveElement DEF CountInv
<1>1. TypeOK'
  BY <1>0 DEF CountInv, WaitGroupCounts
<1>2. LockInv'
  BY DEF LockInv, DownInv, InstanceInv
<1>3. DownInv'
  BY DEF DownInv, LockInv
<1>4. SpawnInv'
  BY DEF SpawnInv, LockInv, Goroutines
<1>5. CountInv'
  BY <1>0 DEF CountInv, WaitGroupCounts
<1>6. InstanceInv'
  BY DEF InstanceInv, OneInstancePerType, LockInv
<1>7. SyncResultsHold'
  BY DEF SyncResultsHold, InstanceInv
<1> QED
  BY <1>1, <1>2, <1>3, <1>4, <1>5, <1>6, <1>7

LEMMA CloseStopStep ==
    ASSUME IInv, NEW s \in Stops,
           CloseStop(s)
    PROVE  IInv'
<1> USE FactoryAssumption DEF IInv, TypeOK, Goto, Points, InStart, CloseStop,
        factoryVars, envVars, callerVars, historyVars
<1>1. TypeOK'
  OBVIOUS
<1>2. LockInv'
  BY DEF LockInv, DownInv, InstanceInv
<1>3. DownInv'
  BY DEF DownInv, LockInv
<1>4. SpawnInv'
  BY DEF SpawnInv, LockInv, Goroutines
<1>5. CountInv'
  BY DEF CountInv, WaitGroupCounts, LockInv
<1>6. InstanceInv'
  BY DEF InstanceInv, OneInstancePerType, LockInv
<1>7. SyncResultsHold'
  BY DEF SyncResultsHold, InstanceInv
<1> QED
  BY <1>1, <1>2, <1>3, <1>4, <1>5, <1>6, <1>7

LEMMA NextIInv == IInv /\ [Next]_vars => IInv'
<1> SUFFICES ASSUME IInv, [Next]_vars PROVE IInv'
  OBVIOUS
<1>1. CASE UNCHANGED vars
  BY <1>1 DEF vars, factoryVars, envVars, callerVars, historyVars, IInv, TypeOK,
       LockInv, DownInv, SpawnInv, CountInv, WaitGroupCounts, InstanceInv,
       OneInstancePerType, SyncResultsHold
<1>2. ASSUME NEW c \in Callers, CallerStep(c) PROVE IInv'
  BY <1>2, InformerForStep, StartLockStep, StartAddStep, StartGoStep,
     StartMarkStep, StartUnlockStep, ShutdownStep, ShutdownReturnStep,
     SyncSnapshotStep, SyncOneStep, SyncReturnStep DEF CallerStep
<1>3. ASSUME NEW g \in goroutines, RunSync(g) \/ RunExit(g) PROVE IInv'
  BY <1>3, RunSyncStep, RunExitStep
<1>4. ASSUME NEW s \in Stops, CloseStop(s) PROVE IInv'
  BY <1>4, CloseStopStep
<1> QED
  BY <1>1, <1>2, <1>3, <1>4 DEF Next

THEOREM IInvHolds == Spec => []IInv
BY InitIInv, NextIInv, PTL DEF Spec

\* The WaitGroup protocol of the factory is right for any number of callers:
\* types are respected, no wg.Add meets a wg.Wait, and the counter is the
\* number of goroutines.
THEOREM WaitGroupProtocol ==
    Spec => [](TypeOK /\ NoAddDuringWait /\ WaitGroupCounts)
<1>1. IInv => TypeOK /\ NoAddDuringWait /\ WaitGroupCounts
  BY FactoryAssumption DEF IInv, LockInv, DownInv, CountInv, NoAddDuringWait
<1> QED
  BY <1>1, IInvHolds, PTL

\* After a Shutdown has returned no informer goroutine is alive, in any
\* interleaving of Start, Shutdown and the goroutines.
THEOREM ShutdownBarrier == Spec => []ShutdownIsFinal
<1>1. IInv => ShutdownIsFinal
  BY DEF IInv, DownInv, ShutdownIsFinal
<1> QED
  BY <1>1, IInvHolds, PTL

\* Informers are singletons: one instance per type, run by one goroutine.
THEOREM InformersAreShared == Spec => []OneRunOfOneInstance
<1>1. IInv => OneRunOfOneInstance
  BY DEF IInv, SpawnInv, InstanceInv, RunAtMostOnce, OneRunOfOneInstance
<1> QED
  BY <1>1, IInvHolds, PTL

\* What WaitForCacheSync reports is true, and it waits for every informer that
\* was started when it was called.
THEOREM SyncIsHonest == Spec => []SyncResultsHold
<1>1. IInv => SyncResultsHold
  BY DEF IInv
<1> QED
  BY <1>1, IInvHolds, PTL

Stages == {"idle", "request", "lock", "count"}

Goroutine == [at : Stages, backend : Backends \cup {Unexpected}, read : Nat]

WeightTypes ==
    /\ status \in {"send", "passed", "failed"} /\ sent \in Nat
    /\ worker \in [Workers -> Goroutine]
    /\ seen \in [Backends -> Nat] /\ served \in [Backends -> Nat]
    /\ err \in BOOLEAN /\ good \in BOOLEAN

\* A goroutine between its read and its write holds the mutex, and what it read
\* is still what seen has.
MutexInv ==
    \A w \in Workers : worker[w].at = "count" =>
        /\ seenMutex = w
        /\ worker[w].backend # Unexpected => worker[w].read = seen[worker[w].backend]

\* Requests that no backend of the route has served so far, and those that one
\* has served and that are not counted yet.
Unserved ==
    {w \in Workers : \/ worker[w].at = "request"
                     \/ worker[w].at \in {"lock", "count"} /\ worker[w].backend = Unexpected}
Uncounted(b) ==
    {w \in Workers : worker[w].at \in {"lock", "count"} /\ worker[w].backend = b}

\* Every request was served, is under way or has left an error.
ServedInv ==
    /\ Total(served) + Cardinality(Unserved) <= sent
    /\ ~err => Total(served) + Cardinality(Unserved) = sent
    /\ err => Total(served) + Cardinality(Unserved) < sent

\* Every request that was served is counted or about to be.
SeenInv == \A b \in Backends : seen[b] + Cardinality(Uncounted(b)) = served[b]

\* A good round ends the test.
EndInv ==
    /\ status # "send" => \A w \in Workers : worker[w].at = "idle"
    /\ status = "passed" => GoodRound
    /\ status # "passed" => ~good

WeightInv == WeightTypes /\ MutexInv /\ ServedInv /\ SeenInv /\ EndInv

-----------------------------------------------------------------------------
LEMMA BackendsAre == Backends = {"v1", "v2", "v3"} /\ Unexpected \notin Backends
  BY DEF Backends, expectedWeights, Unexpected

LEMMA CardinalityIsNat ==
    ASSUME NEW S \in SUBSET Workers
    PROVE  IsFiniteSet(S) /\ Cardinality(S) \in Nat
<1>1. IsFiniteSet(Workers)
  BY WeightAssumption, FS_Interval DEF Workers
<1>2. IsFiniteSet(S)
  BY <1>1, FS_Subset
<1> QED
  BY <1>2, FS_CardinalityType

LEMMA OneMore ==
    ASSUME NEW S \in SUBSET Workers, NEW w \in Workers, w \notin S
    PROVE  Cardinality(S \cup {w}) = Cardinality(S) + 1
  BY CardinalityIsNat, FS_AddElement

LEMMA OneLess ==
    ASSUME NEW S \in SUBSET Workers, NEW w \in S
    PROVE  Cardinality(S \ {w}) = Cardinality(S) - 1
  BY CardinalityIsNat, FS_RemoveElement

LEMMA NoneIsUnderWay ==
    ASSUME \A w \in Workers : worker[w].at = "idle"
    PROVE  /\ Cardinality(Unserved) = 0
           /\ \A b \in Backends : Cardinality(Uncounted(b)) = 0
<1>1. Unserved = {} /\ \A b \in Backends : Uncounted(b) = {}
  BY DEF Unserved, Uncounted
<1> QED
  BY <1>1, FS_EmptySet

LEMMA InitWeightInv == WeightInit => WeightInv
<1> SUFFICES ASSUME WeightInit PROVE WeightInv
  OBVIOUS
<1>1. WeightTypes
  BY BackendsAre DEF WeightInit, WeightTypes, Goroutine, Idle, Stages, NoneSeen
<1>2. \A w \in Workers : worker[w].at = "idle"
  BY DEF WeightInit, Idle
<1>3. MutexInv /\ EndInv
  BY <1>2 DEF WeightInit, MutexInv, EndInv
<1>4. ServedInv
  BY <1>2, NoneIsUnderWay, BackendsAre DEF WeightInit, ServedInv, Total, NoneSeen
<1>5. SeenInv
  BY <1>2, NoneIsUnderWay, BackendsAre DEF WeightInit, SeenInv, NoneSeen
<1> QED
  BY <1>1, <1>3, <1>4, <1>5 DEF WeightInv

LEMMA GoStep ==
    ASSUME WeightInv, NEW w \in Workers, Go(w)
    PROVE  WeightInv'
<1> USE DEF WeightInv
<1>1. WeightTypes'
  BY DEF WeightTypes, Goroutine, Go, Stages
<1>2. MutexInv' /\ EndInv'
  BY DEF WeightTypes, Goroutine, MutexInv, EndInv, Go, GoodRound
<1>3. Unserved' = Unserved \cup {w} /\ w \notin Unserved
  BY DEF WeightTypes, Goroutine, Unserved, Go
<1>4. \A b \in Backends : Uncounted(b)' = Uncounted(b)
  BY DEF WeightTypes, Goroutine, Uncounted, Go
<1>5. Cardinality(Unserved') = Cardinality(Unserved) + 1 /\ Cardinality(Unserved) \in Nat
  BY <1>3, OneMore, CardinalityIsNat DEF Unserved
<1>6. Total(served) \in Nat
  BY BackendsAre DEF WeightTypes, Goroutine, Total
<1>7. ServedInv'
  <2>1. sent \in Nat /\ sent' = sent + 1 /\ UNCHANGED <<err, served>>
    BY DEF WeightTypes, Go
  <2> QED
    BY <1>5, <1>6, <2>1 DEF ServedInv
<1>8. SeenInv'
  BY <1>4 DEF SeenInv, Go
<1> QED
  BY <1>1, <1>2, <1>7, <1>8

LEMMA RequestFailsStep ==
    ASSUME WeightInv, NEW w \in Workers, RequestFails(w)
    PROVE  WeightInv'
<1> USE DEF WeightInv
<1>1. WeightTypes'
  BY DEF WeightTypes, Goroutine, RequestFails, Stages, Idle
<1>2. MutexInv' /\ EndInv'
  BY DEF WeightTypes, Goroutine, MutexInv, EndInv, RequestFails, GoodRound, Idle
<1>3. Unserved' = Unserved \ {w} /\ w \in Unserved
  BY DEF WeightTypes, Goroutine, Unserved, RequestFails, Idle
<1>4. \A b \in Backends : Uncounted(b)' = Uncounted(b)
  BY DEF WeightTypes, Goroutine, Uncounted, RequestFails, Idle
<1>5. Cardinality(Unserved') = Cardinality(Unserved) - 1 /\ Cardinality(Unserved) \in Nat
  BY <1>3, OneLess, CardinalityIsNat DEF Unserved
<1>6. Total(served) \in Nat
  BY BackendsAre DEF WeightTypes, Goroutine, Total
<1>7. ServedInv'
  <2>1. sent \in Nat /\ err' = TRUE /\ UNCHANGED <<sent, served>>
    BY DEF WeightTypes, RequestFails
  <2> QED
    BY <1>5, <1>6, <2>1 DEF ServedInv
<1>8. SeenInv'
  BY <1>4 DEF SeenInv, RequestFails
<1> QED
  BY <1>1, <1>2, <1>7, <1>8

LEMMA RequestSucceedsStep ==
    ASSUME WeightInv, NEW w \in Workers, NEW b \in Backends \cup {Unexpected}, RequestSucceeds(w, b)
    PROVE  WeightInv'
<1> USE DEF WeightInv
<1>1. WeightTypes'
  <2>1. [worker[w] EXCEPT !.at = "lock", !.backend = b] \in Goroutine
    BY DEF WeightTypes, Goroutine, Stages
  <2>2. worker' \in [Workers -> Goroutine]
    BY <2>1 DEF WeightTypes, RequestSucceeds
  <2> QED
    BY <2>2, BackendsAre DEF WeightTypes, RequestSucceeds
<1>2. MutexInv'
  BY DEF WeightTypes, Goroutine, MutexInv, RequestSucceeds
<1>3. EndInv'
  BY DEF EndInv, RequestSucceeds
<1>4. \A c \in Backends \ {b} : Uncounted(c)' = Uncounted(c)
  BY DEF WeightTypes, Goroutine, Uncounted, RequestSucceeds
<1>5. Total(served) \in Nat /\ Cardinality(Unserved) \in Nat
  BY BackendsAre, CardinalityIsNat DEF WeightTypes, Goroutine, Total, Unserved
<1>6. CASE b = Unexpected
  <2>1. Unserved' = Unserved /\ UNCHANGED served
    BY <1>6 DEF WeightTypes, Goroutine, Unserved, RequestSucceeds
  <2>2. ServedInv'
    BY <2>1 DEF ServedInv, RequestSucceeds
  <2>3. SeenInv'
    BY <1>4, <1>6, <2>1, BackendsAre DEF SeenInv, RequestSucceeds
  <2> QED
    BY <1>1, <1>2, <1>3, <2>2, <2>3
<1>7. CASE b \in Backends
  <2>1. Unserved' = Unserved \ {w} /\ w \in Unserved
    BY <1>7, BackendsAre DEF WeightTypes, Goroutine, Unserved, RequestSucceeds
  <2>2. Cardinality(Unserved') = Cardinality(Unserved) - 1
    BY <2>1, OneLess DEF Unserved
  <2>3. served' = [served EXCEPT ![b] = @ + 1]
    BY <1>7, BackendsAre DEF RequestSucceeds
  <2>4. Total(served') = Total(served) + 1
    BY <1>7, <2>3, BackendsAre DEF WeightTypes, Goroutine, Total
  <2>5. ServedInv'
    <3>1. sent \in Nat /\ UNCHANGED <<sent, err>>
      BY DEF WeightTypes, RequestSucceeds
    <3> QED
      BY <1>5, <2>2, <2>4, <3>1 DEF ServedInv
  <2>6. Uncounted(b)' = Uncounted(b) \cup {w} /\ w \notin Uncounted(b)
    BY DEF WeightTypes, Goroutine, Uncounted, RequestSucceeds
  <2>7. Cardinality(Uncounted(b)') = Cardinality(Uncounted(b)) + 1 /\ Cardinality(Uncounted(b)) \in Nat
    BY <2>6, OneMore, CardinalityIsNat DEF Uncounted
  <2>8. SeenInv'
    <3> SUFFICES ASSUME NEW c \in Backends
                 PROVE  seen'[c] + Cardinality(Uncounted(c)') = served'[c]
      BY DEF SeenInv
    <3>1. CASE c = b
      BY <1>7, <2>3, <2>7, <3>1 DEF WeightTypes, Goroutine, SeenInv, RequestSucceeds
    <3>2. CASE c # b
      BY <1>4, <1>7, <2>3, <3>2 DEF WeightTypes, Goroutine, SeenInv, RequestSucceeds
    <3> QED
      BY <3>1, <3>2
  <2> QED
    BY <1>1, <1>2, <1>3, <2>5, <2>8
<1> QED
  BY <1>6, <1>7

LEMMA LockStep ==
    ASSUME WeightInv, NEW w \in Workers, Lock(w)
    PROVE  WeightInv'
<1> USE DEF WeightInv
<1>0. 0 \notin Workers
  BY WeightAssumption DEF Workers
<1>1. WeightTypes'
  <2> DEFINE n == IF worker[w].backend = Unexpected THEN 0 ELSE seen[worker[w].backend]
  <2>1. n \in Nat
    BY DEF WeightTypes, Goroutine
  <2>2. [worker[w] EXCEPT !.at = "count", !.read = n] \in Goroutine
    BY <2>1 DEF WeightTypes, Goroutine, Stages
  <2>3. worker' \in [Workers -> Goroutine]
    BY <2>2 DEF WeightTypes, Lock
  <2> QED
    BY <2>3 DEF WeightTypes, Lock
<1>2. MutexInv'
  BY <1>0 DEF WeightTypes, Goroutine, MutexInv, Lock
<1>3. EndInv'
  BY DEF EndInv, Lock, GoodRound
<1>4. Unserved' = Unserved
  BY DEF WeightTypes, Goroutine, Unserved, Lock
<1>5. \A b \in Backends : Uncounted(b)' = Uncounted(b)
  BY DEF WeightTypes, Goroutine, Uncounted, Lock
<1>6. ServedInv' /\ SeenInv'
  BY <1>4, <1>5 DEF ServedInv, SeenInv, Lock
<1> QED
  BY <1>1, <1>2, <1>3, <1>6

LEMMA CountStep ==
    ASSUME WeightInv, NEW w \in Workers, Count(w)
    PROVE  WeightInv'
<1> USE DEF WeightInv
<1>0. PICK b \in Backends \cup {Unexpected} : b = worker[w].backend
  BY DEF WeightTypes, Goroutine
<1>1. WeightTypes'
  <2>1. Idle \in Goroutine
    BY DEF Goroutine, Stages, Idle
  <2>2. worker' \in [Workers -> Goroutine]
    BY <2>1 DEF WeightTypes, Count
  <2>3. err' \in BOOLEAN
    BY Zenon DEF WeightTypes, Count
  <2>4. worker[w].read + 1 \in Nat
    BY DEF WeightTypes, Goroutine
  <2>5. seen' \in [Backends -> Nat]
    BY <2>4 DEF WeightTypes, Count
  <2> QED
    BY <2>2, <2>3, <2>5 DEF WeightTypes, Count
<1>2. MutexInv'
  BY DEF WeightTypes, Goroutine, MutexInv, Count, Idle
<1>3. EndInv'
  BY DEF EndInv, Count, GoodRound
<1>4. \A c \in Backends \ {b} : Uncounted(c)' = Uncounted(c)
  BY <1>0 DEF WeightTypes, Goroutine, Uncounted, Count, Idle
<1>5. Total(served) \in Nat /\ Cardinality(Unserved) \in Nat
  BY BackendsAre, CardinalityIsNat DEF WeightTypes, Goroutine, Total, Unserved
<1>6. CASE b = Unexpected
  <2>1. Unserved' = Unserved \ {w} /\ w \in Unserved
    BY <1>0, <1>6 DEF WeightTypes, Goroutine, Unserved, Count, Idle
  <2>2. Cardinality(Unserved') = Cardinality(Unserved) - 1
    BY <2>1, OneLess DEF Unserved
  <2>3. ServedInv'
    <3>1. sent \in Nat /\ err' = TRUE /\ UNCHANGED <<sent, served>>
      BY <1>0, <1>6 DEF WeightTypes, Count
    <3> QED
      BY <1>5, <2>2, <3>1 DEF ServedInv
  <2>4. SeenInv'
    BY <1>0, <1>4, <1>6, BackendsAre DEF SeenInv, Count
  <2> QED
    BY <1>1, <1>2, <1>3, <2>3, <2>4
<1>7. CASE b # Unexpected
  <2>1. Unserved' = Unserved
    BY <1>0, <1>7 DEF WeightTypes, Goroutine, Unserved, Count, Idle
  <2>2. ServedInv'
    BY <1>0, <1>7, <2>1 DEF ServedInv, Count
  <2>3. Uncounted(b)' = Uncounted(b) \ {w} /\ w \in Uncounted(b)
    BY <1>0 DEF WeightTypes, Goroutine, Uncounted, Count, Idle
  <2>4. Cardinality(Uncounted(b)') = Cardinality(Uncounted(b)) - 1 /\ Cardinality(Uncounted(b)) \in Nat
    BY <2>3, OneLess, CardinalityIsNat DEF Uncounted
  <2>5. seen' = [seen EXCEPT ![b] = seen[b] + 1]
    BY <1>0, <1>7 DEF MutexInv, Count
  <2>6. SeenInv'
    <3> SUFFICES ASSUME NEW c \in Backends
                 PROVE  seen'[c] + Cardinality(Uncounted(c)') = served'[c]
      BY DEF SeenInv
    <3>1. CASE c = b
      BY <2>4, <2>5, <3>1 DEF WeightTypes, Goroutine, SeenInv, Count
    <3>2. CASE c # b
      BY <1>4, <2>5, <3>2 DEF WeightTypes, Goroutine, SeenInv, Count
    <3> QED
      BY <3>1, <3>2
  <2> QED
    BY <1>1, <1>2, <1>3, <2>2, <2>6
<1> QED
  BY <1>6, <1>7

\* When g.Wait returns, seen has what was served if there was no error, and
\* otherwise some request was not served.
LEMMA WaitStep ==
    ASSUME WeightInv, Wait
    PROVE  WeightInv'
<1> USE DEF WeightInv
<1>1. \A w \in Workers : worker[w].at = "idle" /\ worker'[w].at = "idle"
  BY DEF Wait
<1>2. Total(served) \in Nat /\ totalRequests \in Nat
  BY BackendsAre, WeightAssumption DEF WeightTypes, Total
<1>3. /\ ~err => Total(served) = totalRequests
      /\ err => Total(served) < totalRequests
  BY <1>1, <1>2, NoneIsUnderWay DEF ServedInv, Wait
<1>4. seen = served
  <2>1. \A b \in Backends : seen[b] = served[b]
    BY <1>1, NoneIsUnderWay DEF WeightTypes, SeenInv
  <2> QED
    BY <2>1 DEF WeightTypes
<1>5. GoodRound <=> ~err /\ Distributed(seen)
  BY <1>2, <1>3, <1>4 DEF GoodRound
<1>6. ~good
  BY DEF EndInv, Wait
<1>7. MutexInv' /\ good' \in BOOLEAN
  <2>1. good' \in BOOLEAN
    BY Zenon DEF Wait
  <2> QED
    BY <1>1, <2>1 DEF MutexInv
<1>8. CASE ~err /\ Distributed(seen)
  <2>1. UNCHANGED <<round, sent, worker, seenMutex, seen, err, served>> /\ status' = "passed" /\ good'
    BY <1>5, <1>8 DEF Wait
  <2>2. WeightTypes' /\ ServedInv' /\ SeenInv'
    BY <1>7, <2>1 DEF WeightTypes, ServedInv, Unserved, SeenInv, Uncounted
  <2>3. EndInv'
    BY <1>1, <1>5, <1>8, <2>1 DEF EndInv, GoodRound
  <2> QED
    BY <1>7, <2>2, <2>3
<1>9. CASE ~(~err /\ Distributed(seen)) /\ round = Rounds
  <2>1. UNCHANGED <<round, sent, worker, seenMutex, seen, err, served>> /\ status' = "failed" /\ ~good'
    BY <1>5, <1>6, <1>9 DEF Wait
  <2>2. WeightTypes' /\ ServedInv' /\ SeenInv'
    BY <1>7, <2>1 DEF WeightTypes, ServedInv, Unserved, SeenInv, Uncounted
  <2>3. EndInv'
    BY <1>1, <2>1 DEF EndInv
  <2> QED
    BY <1>7, <2>2, <2>3
<1>10. CASE ~(~err /\ Distributed(seen)) /\ round # Rounds
  <2>1. /\ sent' = 0 /\ err' = FALSE /\ seen' = NoneSeen /\ served' = NoneSeen
        /\ UNCHANGED <<status, worker, seenMutex>> /\ ~good'
    BY <1>5, <1>6, <1>10 DEF Wait
  <2>2. WeightTypes'
    BY <1>7, <2>1 DEF WeightTypes, NoneSeen
  <2>3. EndInv'
    BY <1>1, <2>1 DEF EndInv, Wait
  <2>4. Unserved' = {} /\ \A b \in Backends : Uncounted(b)' = {}
    BY <1>1 DEF Unserved, Uncounted
  <2>5. ServedInv'
    BY <2>1, <2>4, FS_EmptySet, BackendsAre DEF ServedInv, Total, NoneSeen
  <2>6. SeenInv'
    BY <2>1, <2>4, FS_EmptySet DEF SeenInv, NoneSeen
  <2> QED
    BY <1>7, <2>2, <2>3, <2>5, <2>6
<1> QED
  BY <1>8, <1>9, <1>10

LEMMA NextWeightInv == WeightInv /\ [WeightNext]_weightVars => WeightInv'
<1> SUFFICES ASSUME WeightInv, [WeightNext]_weightVars PROVE WeightInv'
  OBVIOUS
<1>1. CASE UNCHANGED weightVars
  BY <1>1 DEF weightVars, WeightInv, WeightTypes, MutexInv, ServedInv, SeenInv, EndInv, Unserved, Uncounted, GoodRound
<1> QED
  BY <1>1, GoStep, RequestFailsStep, RequestSucceedsStep, LockStep, CountStep, WaitStep
     DEF WeightNext, Ended

\* For any number of goroutines, requests and rounds, and whatever the order in
\* which responses arrive and goroutines take the mutex: the test passes only
\* if all requests of its last round were served by weight, and fails only if
\* that was so in no round.
THEOREM VerdictHolds == WeightSpec => []VerdictIsJustified
<1>1. WeightInv => VerdictIsJustified
  BY DEF WeightInv, EndInv, VerdictIsJustified
<1> QED
  BY <1>1, InitWeightInv, NextWeightInv, PTL DEF WeightSpec

=============================================================================
