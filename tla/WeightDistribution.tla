-------------------------- MODULE WeightDistribution -------------------------
(* The weighted backends test (conformance/tests/httproute-weight.go):       *)
(* rounds of requests sent by a bounded group of goroutines that count the   *)
(* backends they were served by in a map guarded by a mutex, until the       *)
(* counts of one round are close enough to the weights.                      *)
EXTENDS Integers, FiniteSets

CONSTANTS
    concurrentRequests, totalRequests, Rounds

ASSUME WeightAssumption ==
    /\ concurrentRequests \in Nat \ {0} /\ totalRequests \in Nat \ {0}
    /\ Rounds \in Nat \ {0}

\* In per cent.
expectedWeights == [v1 |-> 70, v2 |-> 30, v3 |-> 0]

Backends == DOMAIN expectedWeights
Workers == 1..concurrentRequests
Unexpected == "unexpected"      \* any other pod

VARIABLES
    status,     \* "send", "passed" or "failed"
    round,
    sent,       \* calls of g.Go in this round
    worker,     \* Workers -> [at, backend, read]
    seenMutex,  \* the worker that holds it, or 0
    seen,
    err,        \* some goroutine of this round returned an error
    served,     \* history: backends that requests of this round came from
    good        \* history: some round was free of errors and well distributed

weightVars == <<status, round, sent, worker, seenMutex, seen, err, served, good>>

Idle == [at |-> "idle", backend |-> Unexpected, read |-> 0]
NoneSeen == [b \in Backends |-> 0]

WeightInit ==
    /\ status = "send" /\ round = 1 /\ sent = 0
    /\ worker = [w \in Workers |-> Idle]
    /\ seenMutex = 0
    /\ seen = NoneSeen /\ err = FALSE
    /\ served = NoneSeen /\ good = FALSE

\* g.Go, which blocks while all of the group are busy.
Go(w) ==
    /\ status = "send" /\ sent < totalRequests
    /\ worker[w].at = "idle"
    /\ worker' = [worker EXCEPT ![w].at = "request"]
    /\ sent' = sent + 1
    /\ UNCHANGED <<status, round, seenMutex, seen, err, served, good>>

\* CaptureRoundTrip or CompareRequest returns an error.
RequestFails(w) ==
    /\ worker[w].at = "request"
    /\ worker' = [worker EXCEPT ![w] = Idle]
    /\ err' = TRUE
    /\ UNCHANGED <<status, round, sent, seenMutex, seen, served, good>>

\* A response as expected, from a pod of backend b or from another one.
RequestSucceeds(w, b) ==
    /\ worker[w].at = "request"
    /\ worker' = [worker EXCEPT ![w] = [@ EXCEPT !.at = "lock", !.backend = b]]
    /\ served' = IF b = Unexpected THEN served ELSE [served EXCEPT ![b] = @ + 1]
    /\ UNCHANGED <<status, round, sent, seenMutex, seen, err, good>>

\* seenMutex.Lock and the read of seen[expectedBackend].
Lock(w) ==
    /\ worker[w].at = "lock" /\ seenMutex = 0
    /\ seenMutex' = w
    /\ worker' = [worker EXCEPT ![w] = [@ EXCEPT !.at = "count",
                    !.read = IF worker[w].backend = Unexpected THEN 0
                             ELSE seen[worker[w].backend]]]
    /\ UNCHANGED <<status, round, sent, seen, err, served, good>>

\* The write, or the error about an unexpected pod, and the deferred Unlock.
Count(w) ==
    /\ worker[w].at = "count"
    /\ IF worker[w].backend = Unexpected
       THEN err' = TRUE /\ UNCHANGED seen
       ELSE /\ seen' = [seen EXCEPT ![worker[w].backend] = worker[w].read + 1]
            /\ UNCHANGED err
    /\ worker' = [worker EXCEPT ![w] = Idle]
    /\ seenMutex' = 0
    /\ UNCHANGED <<status, round, sent, served, good>>

\* Deviation of the share of a backend from its weight, in per cent of
\* totalRequests.
Deviation(counts, b) == 100 * counts[b] - expectedWeights[b] * totalRequests

\* A deviation of exactly five per cent is within the tolerance except above
\* 70: in float64 0.75 - 0.7 is a little more than 0.05.
WithinTolerance(counts, b) ==
    LET d == Deviation(counts, b)
    IN  /\ -5 * totalRequests <= d /\ d <= 5 * totalRequests
        /\ expectedWeights[b] = 70 => d # 5 * totalRequests

\* The checks after g.Wait: no error is left.
Distributed(counts) ==
    /\ Cardinality({b \in Backends : counts[b] > 0}) = 2
    /\ \A b \in Backends :
         /\ expectedWeights[b] # 0 => counts[b] > 0
         /\ WithinTolerance(counts, b)

Total(counts) == counts["v1"] + counts["v2"] + counts["v3"]

\* What a round is meant to find out: all requests were served by backends of
\* the route, in shares close to the weights.
GoodRound ==
    /\ Total(served) = totalRequests
    /\ Distributed(served)

\* Mutant: the error of g.Wait is only logged.
WaitIgnoresError ==
    /\ status = "send" /\ sent = totalRequests
    /\ \A w \in Workers : worker[w].at = "idle"
    /\ good' = (good \/ GoodRound)
    /\ IF Distributed(seen)
       THEN status' = "passed" /\ UNCHANGED <<round, sent, seen, err, served>>
       ELSE IF round = Rounds
       THEN status' = "failed" /\ UNCHANGED <<round, sent, seen, err, served>>
       ELSE /\ round' = round + 1 /\ sent' = 0 /\ err' = FALSE
            /\ seen' = NoneSeen /\ served' = NoneSeen /\ UNCHANGED status
    /\ UNCHANGED <<worker, seenMutex>>

\* g.Wait, the checks, and the next round if there is one.
Wait ==
    /\ status = "send" /\ sent = totalRequests
    /\ \A w \in Workers : worker[w].at = "idle"
    /\ good' = (good \/ GoodRound)
    /\ IF ~err /\ Distributed(seen)
       THEN status' = "passed" /\ UNCHANGED <<round, sent, seen, err, served>>
       ELSE IF round = Rounds
       THEN status' = "failed" /\ UNCHANGED <<round, sent, seen, err, served>>
       ELSE /\ round' = round + 1 /\ sent' = 0 /\ err' = FALSE
            /\ seen' = NoneSeen /\ served' = NoneSeen /\ UNCHANGED status
    /\ UNCHANGED <<worker, seenMutex>>

Ended == status # "send" /\ UNCHANGED weightVars

WeightNext ==
    \/ \E w \in Workers :
         \/ Go(w) \/ RequestFails(w) \/ Lock(w) \/ Count(w)
         \/ \E b \in Backends \cup {Unexpected} : RequestSucceeds(w, b)
    \/ Wait
    \/ Ended

WeightSpec == WeightInit /\ [][WeightNext]_weightVars

-----------------------------------------------------------------------------

\* The test passes only if in its last round every request was served as
\* expected and the backends that served them were distributed by weight, and
\* it fails only if that was so in none of the rounds.
VerdictIsJustified ==
    /\ status = "passed" => GoodRound
    /\ status = "failed" => ~good
=============================================================================
