-------------------------- MODULE MirroredRequests ---------------------------
(* ExpectMirroredRequest of conformance/utils/http: a goroutine per mirror   *)
(* polls the logs of its pods for a line with the path of the request.  A    *)
(* pod that is restarted has a new log; until then its log keeps the lines   *)
(* of earlier requests with that path.                                       *)
EXTENDS ConvergenceBounds, FiniteSets

CONSTANTS
    Targets,        \* sets of mirrors that tests expect; "" has no name
    Pods            \* the pods of every mirror

VARIABLES
    mirrorPods,     \* the mirrors of this test
    stage,          \* "check", "wait", "done" or "fatal"
    ticks,          \* mirror -> time its goroutine has polled
    ended,          \* mirrors whose goroutine has ended
    failed,         \* some goroutine has failed the test
    logged,         \* <<mirror, pod>>: a line with the path is in the log of the pod
    earlier,        \* history: mirrors where it was before the request,
    mirrored,       \*   mirrors that have got the request,
    early,          \*   those that had before the test began to look,
    disturbed       \*   and whether a log was lost or could not be read

mirrorVars ==
    <<mirrorPods, stage, ticks, ended, failed, logged, earlier, mirrored, early, disturbed>>

Init ==
    /\ mirrorPods \in Targets
    /\ stage = "check" /\ ticks = [m \in mirrorPods |-> 0]
    /\ ended = {} /\ failed = FALSE
    /\ logged \in SUBSET (mirrorPods \X Pods) /\ earlier = {l[1] : l \in logged}
    /\ mirrored = {} /\ early = {} /\ disturbed = FALSE

\* The data plane mirrors the request, at any time or never.
Mirror(m, p) ==
    /\ stage \in {"check", "wait"}
    /\ m \in mirrorPods \ mirrored
    /\ logged' = logged \cup {<<m, p>>} /\ mirrored' = mirrored \cup {m}
    /\ UNCHANGED <<mirrorPods, stage, ticks, ended, failed, earlier, early, disturbed>>

Restart(m, p) ==
    /\ stage = "wait" /\ <<m, p>> \in logged
    /\ logged' = logged \ {<<m, p>>} /\ disturbed' = TRUE
    /\ UNCHANGED <<mirrorPods, stage, ticks, ended, failed, earlier, mirrored, early>>

\* Every mirror needs a name; then the goroutines are started.
Begin ==
    /\ stage = "check"
    /\ stage' = IF "" \in mirrorPods THEN "fatal" ELSE "wait"
    /\ early' = mirrored
    /\ UNCHANGED <<mirrorPods, ticks, ended, failed, logged, earlier, mirrored, disturbed>>

\* DumpEchoLogs: none if the pods cannot be listed, else the logs of those
\* whose log can be read.
DumpEchoLogs(m, readable) == {p \in readable : <<m, p>> \in logged}

\* A poll of require.Eventually that takes d ticks.  A result that comes after
\* the timeout is not looked at: the goroutine fails the test and exits.
Poll(m, readable, d) ==
    LET late == ticks[m] + d > MirrorTime
        found == DumpEchoLogs(m, readable) # {}
    IN  /\ stage = "wait" /\ m \notin ended
        /\ ended' = IF late \/ found THEN ended \cup {m} ELSE ended
        /\ failed' = (failed \/ late)
        /\ ticks' = [ticks EXCEPT ![m] = IF late THEN MirrorTime ELSE @ + d]
        /\ disturbed' = (disturbed \/ readable # Pods)
        /\ UNCHANGED <<mirrorPods, stage, logged, earlier, mirrored, early>>

\* Mutant: the WaitGroup counts one goroutine for all mirrors.
ReturnEarly ==
    /\ stage = "wait" /\ (ended # {} \/ mirrorPods = {})
    /\ stage' = "done"
    /\ UNCHANGED <<mirrorPods, ticks, ended, failed, logged, earlier, mirrored, early, disturbed>>

\* wg.Wait returns.
Return ==
    /\ stage = "wait" /\ ended = mirrorPods
    /\ stage' = "done"
    /\ UNCHANGED <<mirrorPods, ticks, ended, failed, logged, earlier, mirrored, early, disturbed>>

Ended == stage \in {"done", "fatal"} /\ UNCHANGED mirrorVars

Next ==
    \/ \E m \in mirrorPods, p \in Pods : Mirror(m, p) \/ Restart(m, p)
    \/ Begin
    \/ \E m \in mirrorPods, readable \in SUBSET Pods, d \in 1..MaxRead : Poll(m, readable, d)
    \/ Return
    \/ Ended

Spec == Init /\ [][Next]_mirrorVars

-----------------------------------------------------------------------------
\* A test that goes on has seen the request, or one before it with the same
\* path, at every mirror; it fails only if at some mirror there was no such line
\* when the test began to look, or if a log was lost or not readable.
MirrorsAreJudged ==
    stage = "done" =>
        /\ ~failed => mirrorPods \subseteq mirrored \cup earlier
        /\ failed => disturbed \/ ~(mirrorPods \subseteq early \cup earlier)
=============================================================================
