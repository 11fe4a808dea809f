----------------------------- MODULE Consistency -----------------------------
(* What waiting for consistency promises, without a clock: attempts begin    *)
(* only before the time is up and succeed or fail.  When threshold attempts  *)
(* in a row have succeeded the wait ends at once, as "consistent" or, if the *)
(* time ran out during the last of them, as "late", which the tests take for *)
(* the same.  Otherwise it ends in "timeout", and only once the time is up.  *)
EXTENDS Naturals

VARIABLES
    threshold,  \* successes in a row that are asked for
    row,        \* successful attempts since the last failed one
    expired,    \* the time is up
    verdict     \* "waiting", "consistent", "late" or "timeout"

vars == <<threshold, row, expired, verdict>>

Init == threshold \in Nat /\ row = 0 /\ expired = FALSE /\ verdict = "waiting"

\* The time may run out during an attempt ...
Succeed ==
    /\ verdict = "waiting" /\ ~expired
    /\ row' = row + 1
    /\ expired' \in BOOLEAN
    /\ verdict' = IF row' < threshold THEN "waiting"
                  ELSE IF expired' THEN "late" ELSE "consistent"
    /\ UNCHANGED threshold

Failed ==
    /\ verdict = "waiting" /\ ~expired
    /\ row' = 0
    /\ expired' \in BOOLEAN
    /\ UNCHANGED <<threshold, verdict>>

\* ... or between attempts.
Expire ==
    /\ verdict = "waiting" /\ ~expired
    /\ expired' = TRUE
    /\ UNCHANGED <<threshold, row, verdict>>

Timeout ==
    /\ verdict = "waiting"
    /\ expired' = TRUE
    /\ verdict' = "timeout"
    /\ UNCHANGED <<threshold, row>>

Next == Succeed \/ Failed \/ Expire \/ Timeout

Spec == Init /\ [][Next]_vars
=============================================================================
