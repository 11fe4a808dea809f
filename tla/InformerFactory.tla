--------------------------- MODULE InformerFactory ---------------------------
(* The shared informer factory of the generated client                      *)
(* (pkg/client/informers/externalversions/factory.go).                      *)
(*                                                                          *)
(* Any number of goroutines (Callers) use one factory: InformerFor creates  *)
(* the informer of a type on demand, Start runs every informer that is not  *)
(* running yet in a goroutine of its own, WaitForCacheSync waits for the    *)
(* informers started so far, Shutdown forbids further starts and waits for  *)
(* the goroutines.  Start is the only operation that leaves and re-enters   *)
(* the scheduler while it holds f.lock, because the goroutines it spawns    *)
(* and a Shutdown inside wg.Wait do not take the lock: it has one action    *)
(* per statement.  The other critical sections are one action each.         *)
EXTENDS Integers, FiniteSets

CONSTANTS
    Types,      \* informer types (reflect.Type keys)
    Stops,      \* stop channels that callers may pass
    Callers,    \* goroutines that call the factory
    None        \* no caller, no type, no channel

ASSUME FactoryAssumption ==
    /\ IsFiniteSet(Types)
    /\ None \notin Types \cup Stops \cup Callers

VARIABLES
    lock,               \* the caller that holds f.lock, or None
    informers,          \* type -> number of the instance stored, 0 if absent
    startedInformers,   \* types whose flag is set
    wg,                 \* counter of the WaitGroup
    shuttingDown,
    goroutines,         \* live informer goroutines [type, nth, stop]
    closed,             \* stop channels that are closed
    synced,             \* types whose informer has synced
    pc, stopCh, current,    \* per caller: control point and locals
    pending, res,           \* per caller: types WaitForCacheSync has still to
                            \* visit, and types it reported as synced
    spawned,            \* history: type -> number of goroutines ever spawned
    handed,             \* history: type -> instances returned by InformerFor
    startedAtCall,      \* history, per caller: started types at the snapshot
    downReturned        \* history: some Shutdown has returned

factoryVars == <<lock, informers, startedInformers, wg, shuttingDown>>
envVars == <<goroutines, closed, synced>>
callerVars == <<pc, stopCh, current, pending, res>>
historyVars == <<spawned, handed, startedAtCall, downReturned>>
vars == <<factoryVars, envVars, callerVars, historyVars>>

\* Control points.  "range" to "mark" are the body of Start, under the lock.
InStart == {"range", "go", "mark"}
Points == {"idle", "wait", "sync"} \cup InStart

Goroutines == [type : Types, nth : Nat, stop : Stops]

TypeOK ==
    /\ lock \in Callers \cup {None}
    /\ informers \in [Types -> Nat]
    /\ startedInformers \subseteq Types
    /\ wg \in Nat
    /\ shuttingDown \in BOOLEAN
    /\ goroutines \subseteq Goroutines
    /\ closed \subseteq Stops
    /\ synced \subseteq Types
    /\ pc \in [Callers -> Points]
    /\ stopCh \in [Callers -> Stops \cup {None}]
    /\ current \in [Callers -> Types \cup {None}]
    /\ pending \in [Callers -> SUBSET Types]
    /\ res \in [Callers -> SUBSET Types]
    /\ spawned \in [Types -> Nat]
    /\ handed \in [Types -> SUBSET Nat]
    /\ startedAtCall \in [Callers -> SUBSET Types]
    /\ downReturned \in BOOLEAN

\* NewSharedInformerFactoryWithOptions.
Init ==
    /\ lock = None
    /\ informers = [t \in Types |-> 0]
    /\ startedInformers = {}
    /\ wg = 0
    /\ shuttingDown = FALSE
    /\ goroutines = {}
    /\ closed = {}
    /\ synced = {}
    /\ pc = [c \in Callers |-> "idle"]
    /\ stopCh = [c \in Callers |-> None]
    /\ current = [c \in Callers |-> None]
    /\ pending = [c \in Callers |-> {}]
    /\ res = [c \in Callers |-> {}]
    /\ spawned = [t \in Types |-> 0]
    /\ handed = [t \in Types |-> {}]
    /\ startedAtCall = [c \in Callers |-> {}]
    /\ downReturned = FALSE

Goto(c, from, to) ==
    /\ pc[c] = from
    /\ pc' = [pc EXCEPT ![c] = to]

-----------------------------------------------------------------------------
\* Mutant: the instance is created without looking for an existing one.
InformerForAlwaysNew(c, t) ==
    /\ pc[c] = "idle"
    /\ lock = None
    /\ informers' = [informers EXCEPT ![t] = Cardinality(handed[t]) + 1]
    /\ handed' = [handed EXCEPT ![t] = @ \cup {informers'[t]}]
    /\ UNCHANGED <<lock, startedInformers, wg, shuttingDown, envVars,
                   callerVars, spawned, startedAtCall, downReturned>>

\* InformerFor(obj, newFunc): the stored instance, or a new one.
InformerFor(c, t) ==
    /\ pc[c] = "idle"
    /\ lock = None
    /\ informers' = IF informers[t] # 0 THEN informers
                    ELSE [informers EXCEPT ![t] = Cardinality(handed[t]) + 1]
    /\ handed' = [handed EXCEPT ![t] = @ \cup {informers'[t]}]
    /\ UNCHANGED <<lock, startedInformers, wg, shuttingDown, envVars,
                   callerVars, spawned, startedAtCall, downReturned>>

\* Start takes the lock and leaves at once when the factory shuts down.
StartLock(c, s) ==
    /\ pc[c] = "idle"
    /\ lock = None
    /\ IF shuttingDown
       THEN UNCHANGED <<lock, pc, stopCh>>
       ELSE /\ lock' = c
            /\ pc' = [pc EXCEPT ![c] = "range"]
            /\ stopCh' = [stopCh EXCEPT ![c] = s]
    /\ UNCHANGED <<informers, startedInformers, wg, shuttingDown, envVars,
                   current, pending, res, historyVars>>

\* f.wg.Add(1) for an informer that is not started; map order is arbitrary.
StartAdd(c, t) ==
    /\ Goto(c, "range", "go")
    /\ informers[t] # 0
    /\ t \notin startedInformers
    /\ wg' = wg + 1
    /\ current' = [current EXCEPT ![c] = t]
    /\ UNCHANGED <<lock, informers, startedInformers, shuttingDown, envVars,
                   stopCh, pending, res, historyVars>>

\* go func() { defer f.wg.Done(); informer.Run(stopCh) }()
StartGo(c) ==
    /\ Goto(c, "go", "mark")
    /\ LET t == current[c] IN
       /\ goroutines' = goroutines \cup
              {[type |-> t, nth |-> spawned[t] + 1, stop |-> stopCh[c]]}
       /\ spawned' = [spawned EXCEPT ![t] = @ + 1]
    /\ UNCHANGED <<factoryVars, closed, synced, stopCh, current, pending, res,
                   handed, startedAtCall, downReturned>>

\* Mutant: startedInformers is never set.
StartForgetsMark(c) ==
    /\ Goto(c, "mark", "range")
    /\ UNCHANGED <<factoryVars, envVars, stopCh, current, pending, res,
                   historyVars>>

\* f.startedInformers[informerType] = true
StartMark(c) ==
    /\ Goto(c, "mark", "range")
    /\ startedInformers' = startedInformers \cup {current[c]}
    /\ UNCHANGED <<lock, informers, wg, shuttingDown, envVars, stopCh, current,
                   pending, res, historyVars>>

\* The range loop is exhausted: the deferred Unlock.
StartUnlock(c) ==
    /\ Goto(c, "range", "idle")
    /\ \A t \in Types : informers[t] # 0 => t \in startedInformers
    /\ lock' = None
    /\ UNCHANGED <<informers, startedInformers, wg, shuttingDown, envVars,
                   stopCh, current, pending, res, historyVars>>

-----------------------------------------------------------------------------
\* Mutant: Shutdown sets the flag without taking the lock.
ShutdownUnlocked(c) ==
    /\ Goto(c, "idle", "wait")
    /\ shuttingDown' = TRUE
    /\ UNCHANGED <<lock, informers, startedInformers, wg, envVars, stopCh,
                   current, pending, res, historyVars>>

\* Shutdown sets the flag under the lock, then blocks in wg.Wait.
Shutdown(c) ==
    /\ Goto(c, "idle", "wait")
    /\ lock = None
    /\ shuttingDown' = TRUE
    /\ UNCHANGED <<lock, informers, startedInformers, wg, envVars, stopCh,
                   current, pending, res, historyVars>>

\* Mutant: Shutdown does not wait.
ShutdownReturnEarly(c) ==
    /\ Goto(c, "wait", "idle")
    /\ downReturned' = TRUE
    /\ UNCHANGED <<factoryVars, envVars, stopCh, current, pending, res,
                   spawned, handed, startedAtCall>>

ShutdownReturn(c) ==
    /\ Goto(c, "wait", "idle")
    /\ wg = 0
    /\ downReturned' = TRUE
    /\ UNCHANGED <<factoryVars, envVars, stopCh, current, pending, res,
                   spawned, handed, startedAtCall>>

-----------------------------------------------------------------------------
\* WaitForCacheSync copies the started informers under the lock ...
SyncSnapshot(c, s) ==
    /\ Goto(c, "idle", "sync")
    /\ lock = None
    /\ stopCh' = [stopCh EXCEPT ![c] = s]
    /\ pending' = [pending EXCEPT ![c] =
                     {t \in Types : informers[t] # 0 /\ t \in startedInformers}]
    /\ res' = [res EXCEPT ![c] = {}]
    /\ startedAtCall' = [startedAtCall EXCEPT ![c] = startedInformers]
    /\ UNCHANGED <<factoryVars, envVars, current, spawned, handed, downReturned>>

\* Mutant: a closed channel ends the wait with TRUE as well.
SyncOneStopIsSuccess(c, t, ok) ==
    /\ pc[c] = "sync"
    /\ t \in pending[c]
    /\ t \in synced \/ stopCh[c] \in closed
    /\ ok
    /\ pending' = [pending EXCEPT ![c] = @ \ {t}]
    /\ res' = [res EXCEPT ![c] = @ \cup {t}]
    /\ UNCHANGED <<factoryVars, envVars, pc, stopCh, current, historyVars>>

\* ... and waits for them one by one.  cache.WaitForCacheSync answers TRUE once
\* the informer has synced, FALSE once the channel is closed.
SyncOne(c, t, ok) ==
    /\ pc[c] = "sync"
    /\ t \in pending[c]
    /\ IF ok THEN t \in synced ELSE stopCh[c] \in closed
    /\ pending' = [pending EXCEPT ![c] = @ \ {t}]
    /\ res' = IF ok THEN [res EXCEPT ![c] = @ \cup {t}] ELSE res
    /\ UNCHANGED <<factoryVars, envVars, pc, stopCh, current, historyVars>>

SyncReturn(c) ==
    /\ Goto(c, "sync", "idle")
    /\ pending[c] = {}
    /\ UNCHANGED <<factoryVars, envVars, stopCh, current, pending, res,
                   historyVars>>

-----------------------------------------------------------------------------
\* The goroutine of an informer: Run syncs the cache at some point ...
RunSync(g) ==
    /\ g \in goroutines
    /\ synced' = synced \cup {g.type}
    /\ UNCHANGED <<factoryVars, goroutines, closed, callerVars, historyVars>>

\* Mutant: the informer does not watch the channel of Start.
RunExitNever(g) == g \in goroutines /\ UNCHANGED vars

\* ... and returns once its stop channel is closed; wg.Done is deferred.
RunExit(g) ==
    /\ g \in goroutines
    /\ g.stop \in closed
    /\ goroutines' = goroutines \ {g}
    /\ wg' = wg - 1
    /\ UNCHANGED <<lock, informers, startedInformers, shuttingDown, closed,
                   synced, callerVars, historyVars>>

\* Whoever owns a stop channel closes it.
CloseStop(s) ==
    /\ s \notin closed
    /\ closed' = closed \cup {s}
    /\ UNCHANGED <<factoryVars, goroutines, synced, callerVars, historyVars>>

-----------------------------------------------------------------------------
CallerStep(c) ==
    \/ \E t \in Types : InformerFor(c, t) \/ StartAdd(c, t)
    \/ \E s \in Stops : StartLock(c, s) \/ SyncSnapshot(c, s)
    \/ StartGo(c)
    \/ StartMark(c)
    \/ StartUnlock(c)
    \/ Shutdown(c)
    \/ ShutdownReturn(c)
    \/ \E t \in Types, ok \in BOOLEAN : SyncOne(c, t, ok)
    \/ SyncReturn(c)

Next ==
    \/ \E c \in Callers : CallerStep(c)
    \/ \E g \in goroutines : RunSync(g) \/ RunExit(g)
    \/ \E s \in Stops : CloseStop(s)

\* Goroutines that are runnable run: a caller continues the operation it is
\* in, and an informer whose channel is closed returns.  Nobody is obliged to
\* call an operation or to close a channel.
Fairness ==
    /\ \A c \in Callers :
          /\ WF_vars(\E t \in Types : StartAdd(c, t))
          /\ WF_vars(StartGo(c) \/ StartMark(c) \/ StartUnlock(c))
          /\ WF_vars(ShutdownReturn(c))
          /\ WF_vars(\E t \in Types, ok \in BOOLEAN : SyncOne(c, t, ok))
          /\ WF_vars(SyncReturn(c))
    /\ \A t \in Types, s \in Stops :
          WF_vars(\E g \in goroutines : g.type = t /\ g.stop = s /\ RunExit(g))

Spec == Init /\ [][Next]_vars /\ Fairness

-----------------------------------------------------------------------------
\* wg.Add is never called while a Shutdown is in wg.Wait: the factory does not
\* reuse the WaitGroup during a Wait, which the sync package forbids.
NoAddDuringWait ==
    \A c, d \in Callers : ~(pc[c] = "wait" /\ pc[d] \in InStart)

\* Once any Shutdown has returned no informer goroutine is alive, and because
\* this is an invariant none is ever started again.
ShutdownIsFinal == downReturned => goroutines = {}

\* An informer is run by at most one goroutine.
RunAtMostOnce == \A t \in Types : spawned[t] <= 1

\* All callers of InformerFor share one instance per type, the one Start runs.
OneInstancePerType == \A t \in Types : handed[t] \subseteq {informers[t]}

\* However often and however concurrently Start and InformerFor are called, all
\* callers share one instance per type and it is run by at most one goroutine.
OneRunOfOneInstance == RunAtMostOnce /\ OneInstancePerType

\* The WaitGroup counts the live goroutines and the one between Add and go, so
\* wg.Done never takes it below zero and wg.Wait never returns early.
WaitGroupCounts ==
    wg = Cardinality(goroutines)
         + IF \E c \in Callers : pc[c] = "go" THEN 1 ELSE 0

\* WaitForCacheSync reports only synced caches, and it does not return while an
\* informer that was started before the call is unsynced and the channel open.
SyncResultsHold ==
    \A c \in Callers :
        /\ res[c] \subseteq synced
        /\ pc[c] = "sync" =>
             \A t \in startedAtCall[c] \ pending[c] :
                 t \in res[c] \/ stopCh[c] \in closed

\* A Shutdown returns when all stop channels are closed, before or during the
\* wait.
ShutdownReturns ==
    \A c \in Callers : (pc[c] = "wait" /\ closed = Stops) ~> (pc[c] = "idle")
=============================================================================
