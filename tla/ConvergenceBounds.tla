-------------------------- MODULE ConvergenceBounds --------------------------
(* What is configured for the waits of conformance tests, and how long the   *)
(* calls that they make may take, in ticks.                                  *)
EXTENDS Naturals

CONSTANTS
    Configs,        \* the parts of TimeoutConfig used here, as configured
    DefaultTime,    \* default of MaxTimeToConsistency
    Delay,          \* delay of AwaitConvergence after a failed attempt
    MaxCall,        \* bound on the time of an attempt
    MirrorTime,     \* timeout of ExpectMirroredRequest, in polls
    MaxRead         \* bound on the time of reading the logs, in polls

ASSUME ConvergenceAssumption ==
    /\ Configs \subseteq [RequiredConsecutiveSuccesses : Nat,
                          MaxTimeToConsistency : Nat]
    /\ DefaultTime \in Nat \ {0} /\ Delay \in Nat \ {0} /\ MaxCall \in Nat
    /\ MirrorTime \in Nat /\ MaxRead \in 1..MirrorTime
=============================================================================
