--------------------------- MODULE AwaitConvergence --------------------------
(* AwaitConvergence of conformance/utils/http: a function is called until it *)
(* has returned true threshold times in a row, with a delay after each       *)
(* failure, against one overall timer.                                       *)
EXTENDS ConvergenceBounds, Sequences

VARIABLES
    threshold,
    maxTimeToConsistency,
    pc,         \* "check", "call", "delay", "returned" or "fatal"
    clock,      \* time since start
    successes,
    log         \* history: outcomes of all attempts

vars == <<threshold, maxTimeToConsistency, pc, clock, successes, log>>

params == <<threshold, maxTimeToConsistency>>

\* The values that a complete configuration has.
DefaultTimeoutConfig ==
    [RequiredConsecutiveSuccesses |-> 3, MaxTimeToConsistency |-> DefaultTime]

\* Durations that are zero get their defaults; RequiredConsecutiveSuccesses
\* stays as it is.
SetupTimeoutConfig(c) ==
    [c EXCEPT !.MaxTimeToConsistency =
        IF @ = 0 THEN DefaultTimeoutConfig.MaxTimeToConsistency ELSE @]

Init ==
    /\ \E c \in Configs \cup {DefaultTimeoutConfig} :
         /\ threshold = SetupTimeoutConfig(c).RequiredConsecutiveSuccesses
         /\ maxTimeToConsistency = SetupTimeoutConfig(c).MaxTimeToConsistency
    /\ pc = "check"
    /\ clock = 0
    /\ successes = 0
    /\ log = <<>>

\* The overall timer has fired.
Fired == clock >= maxTimeToConsistency

\* The first select of the loop.
CheckTimeout ==
    /\ pc = "check"
    /\ pc' = IF Fired THEN "fatal" ELSE "call"
    /\ UNCHANGED <<params, clock, successes, log>>

\* Mutant: a failed attempt does not start the count again.
AttemptKeepsCount(completed, d) ==
    /\ pc = "call"
    /\ clock' = clock + d
    /\ log' = Append(log, completed)
    /\ successes' = IF completed THEN successes + 1 ELSE successes
    /\ pc' = IF ~completed THEN "delay"
             ELSE IF successes' >= threshold THEN "returned" ELSE "check"
    /\ UNCHANGED params

\* The function is called, takes d ticks and returns completed.
Attempt(completed, d) ==
    /\ pc = "call"
    /\ clock' = clock + d
    /\ log' = Append(log, completed)
    /\ successes' = IF completed THEN successes + 1 ELSE 0
    /\ pc' = IF ~completed THEN "delay"
             ELSE IF successes' >= threshold THEN "returned" ELSE "check"
    /\ UNCHANGED params

\* Mutant: only the delay is selected on, with a timer that is never set.
WaitDelayForever == pc = "delay" /\ UNCHANGED vars

\* The second select: the overall timer or the delay, whichever is first.
WaitDelay ==
    /\ pc = "delay"
    /\ \/ /\ clock + Delay <= maxTimeToConsistency
          /\ clock' = clock + Delay
          /\ pc' = "check"
       \/ /\ clock + Delay >= maxTimeToConsistency
          /\ clock' = IF Fired THEN clock ELSE maxTimeToConsistency
          /\ pc' = "fatal"
    /\ UNCHANGED <<params, successes, log>>

Ended == pc \in {"returned", "fatal"} /\ UNCHANGED vars

Next ==
    \/ CheckTimeout
    \/ \E completed \in BOOLEAN, d \in 0..MaxCall : Attempt(completed, d)
    \/ WaitDelay
    \/ Ended

Spec == Init /\ [][Next]_vars

-----------------------------------------------------------------------------
\* The number of successful attempts since the last failed one, read off the
\* history.
Row ==
    LET failures == {i \in 1..Len(log) : ~log[i]}
        last == CHOOSE m \in failures : \A i \in failures : m >= i
    IN  IF failures = {} THEN Len(log) ELSE Len(log) - last

\* The wait implements Consistency: it returns when and only when the last
\* threshold attempts have all succeeded, the last of them begun in time; it
\* gives up only once the time is up, and begins no attempt after that.
Promise == INSTANCE Consistency WITH
               row <- Row,
               expired <- Fired,
               verdict <- CASE pc = "returned" -> IF Fired THEN "late" ELSE "consistent"
                            [] pc = "fatal" -> "timeout"
                            [] OTHER -> "waiting"

PromiseKept == Promise!Spec

\* No attempt starts after the timer has fired and no delay outlives it, so
\* that the wait ends at most one call after maxTimeToConsistency.
EndsInTime == clock <= maxTimeToConsistency + MaxCall
=============================================================================
