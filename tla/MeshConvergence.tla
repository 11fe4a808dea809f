--------------------------- MODULE MeshConvergence ---------------------------
(* MakeRequestAndExpectEventuallyConsistentResponse of a MeshPod             *)
(* (conformance/utils/echo): AwaitConvergence whose function executes a      *)
(* client in a pod of the mesh and compares what it prints.  The stream of   *)
(* the execution has no deadline.                                            *)
EXTENDS ConvergenceBounds, Sequences

CONSTANTS
    MeshCases,      \* [status, headers, absent, backend]: what tests expect
    Outputs         \* what the client prints: [status, lines, pod], lines
                    \* being pairs of a header of the response and its value

VARIABLES
    threshold, maxTimeToConsistency, pc, clock, successes, log,
    exp,        \* the expectation of the test
    meshPod     \* "running", "gone" or "hanging": the pod the test chose

waitVars == <<threshold, maxTimeToConsistency, pc, clock, successes, log>>
meshVars == <<exp, meshPod>>

Wait == INSTANCE AwaitConvergence

\* ConnectToApp chooses a pod once.
Init == Wait!Init /\ exp \in MeshCases /\ meshPod = "running"

\* Of a header that is printed repeatedly the last line counts.
LastLine(lines, k) ==
    CHOOSE i \in DOMAIN lines :
        lines[i][1] = k /\ \A j \in DOMAIN lines : lines[j][1] = k => j <= i

ParseResponse(output) ==
    [Code |-> output.status, Hostname |-> output.pod,
     ResponseHeaders |->
        [k \in {output.lines[i][1] : i \in DOMAIN output.lines} |->
            output.lines[LastLine(output.lines, k)][2]]]

\* No error.  A pod is represented by the workload its name starts with.
compareRequest(want, resp) ==
    /\ want.status = resp.Code
    /\ want.absent \cap DOMAIN resp.ResponseHeaders = {}
    /\ \A k \in DOMAIN want.headers :
         k \in DOMAIN resp.ResponseHeaders /\ resp.ResponseHeaders[k] = want.headers[k]
    /\ want.backend \in {"", resp.Hostname}

\* The execution fails, always when the pod is gone, or the client prints
\* something.
request(d) ==
    /\ meshPod # "hanging"
    /\ \/ Wait!Attempt(FALSE, d)
       \/ /\ meshPod = "running"
          /\ \E output \in Outputs :
                Wait!Attempt(compareRequest(exp, ParseResponse(output)), d)
    /\ UNCHANGED meshVars

\* The pod is deleted, or a stream to it stops and is not closed.
PodEnds(how) ==
    /\ meshPod = "running" /\ pc \notin {"returned", "fatal"}
    /\ how = "hanging" => pc = "call"
    /\ meshPod' = how
    /\ UNCHANGED <<waitVars, exp>>

Hangs == meshPod = "hanging" /\ UNCHANGED <<waitVars, meshVars>>

Next ==
    \/ Wait!CheckTimeout /\ UNCHANGED meshVars
    \/ Wait!WaitDelay /\ UNCHANGED meshVars
    \/ \E d \in 0..MaxCall : request(d)
    \/ \E how \in {"gone", "hanging"} : PodEnds(how)
    \/ Hangs
    \/ Wait!Ended /\ UNCHANGED meshVars
=============================================================================
