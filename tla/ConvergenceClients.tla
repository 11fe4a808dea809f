------------------------- MODULE ConvergenceClients --------------------------
(* The waits of conformance tests for the data plane: a request made with    *)
(* the HTTP client, the gRPC client or the client in a pod of the mesh, each *)
(* repeated by the AwaitConvergence they share, or the search for a mirrored *)
(* request in the logs of its mirrors.                                       *)
EXTENDS ConvergenceBounds, Sequences

CONSTANTS
    Proxies, Cases, Answers(_, _),          \* of HTTPConvergence
    Expectations, Responses,                \* of GrpcConvergence
    MeshCases, Outputs,                     \* of MeshConvergence
    Targets, Pods                           \* of MirroredRequests

VARIABLES
    protocol,   \* "http", "grpc", "mesh" or "mirror"
    threshold, maxTimeToConsistency, pc, clock, successes, log,
    test, redirect, updated, last,
    expected, stage, Conn, dialled, open, broken,
    exp, meshPod,
    mirrorPods, ticks, ended, failed, logged, earlier, mirrored, early, disturbed

waitVars == <<threshold, maxTimeToConsistency, pc, clock, successes, log>>
httpVars == <<test, redirect, updated, last>>
grpcVars == <<expected, Conn, dialled, open, broken>>
meshVars == <<exp, meshPod>>
mirrorVars == <<mirrorPods, ticks, ended, failed, logged, earlier, mirrored, early, disturbed>>
vars == <<protocol, waitVars, httpVars, grpcVars, meshVars, mirrorVars, stage>>

Wait == INSTANCE AwaitConvergence
HTTP == INSTANCE HTTPConvergence
GRPC == INSTANCE GrpcConvergence
Mesh == INSTANCE MeshConvergence
Mirrors == INSTANCE MirroredRequests

ASSUME CasesAssumption == HTTP!CasesAreWellFormed

\* The variables of what is not used; stage is used by two.
NoWait ==
    /\ threshold = 0 /\ maxTimeToConsistency = DefaultTime
    /\ pc = "unused" /\ clock = 0 /\ successes = 0 /\ log = <<>>
NoHTTP == test = <<>> /\ redirect = <<>> /\ updated = {} /\ last = <<>>
NoGRPC == expected = <<>> /\ Conn = 0 /\ dialled = 0 /\ open = {} /\ broken = {}
NoMesh == exp = <<>> /\ meshPod = "unused"
NoMirrors ==
    /\ mirrorPods = {} /\ ticks = <<>> /\ ended = {} /\ failed = FALSE
    /\ logged = {} /\ earlier = {} /\ mirrored = {} /\ early = {} /\ disturbed = FALSE

Init ==
    \/ protocol = "http" /\ HTTP!Init /\ NoGRPC /\ NoMesh /\ NoMirrors /\ stage = ""
    \/ protocol = "grpc" /\ GRPC!Init /\ NoHTTP /\ NoMesh /\ NoMirrors
    \/ protocol = "mesh" /\ Mesh!Init /\ NoHTTP /\ NoGRPC /\ NoMirrors /\ stage = ""
    \/ protocol = "mirror" /\ Mirrors!Init /\ NoWait /\ NoHTTP /\ NoGRPC /\ NoMesh

Next ==
    /\ \/ /\ protocol = "http" /\ HTTP!Next
          /\ UNCHANGED <<grpcVars, meshVars, mirrorVars, stage>>
       \/ /\ protocol = "grpc" /\ GRPC!Next
          /\ UNCHANGED <<httpVars, meshVars, mirrorVars>>
       \/ /\ protocol = "mesh" /\ Mesh!Next
          /\ UNCHANGED <<httpVars, grpcVars, mirrorVars, stage>>
       \/ /\ protocol = "mirror" /\ Mirrors!Next
          /\ UNCHANGED <<waitVars, httpVars, grpcVars, meshVars>>
    /\ UNCHANGED protocol

\* An attempt returns: requests have a timeout, except those of the mesh, whose
\* hanging is a state.  Delays and the overall timeouts are timers.
Spec == Init /\ [][Next]_vars /\ WF_vars(Next)

-----------------------------------------------------------------------------
\* With any client the wait implements Consistency: it returns when and
\* only when the last threshold attempts have all succeeded, each of them begun
\* in time, and gives up only when maxTimeToConsistency is over.  The last of
\* them may end after that: AwaitConvergence does not look at its timer between
\* an attempt and its return, so that a late success is one.
PromiseKept == Wait!PromiseKept

\* No attempt starts after the timer has fired and no delay outlives it, so
\* that the wait ends at most one request after maxTimeToConsistency; and an
\* RPC, whose deadline is what is left of the time, ends on time.
EndsInTime ==
    /\ Wait!EndsInTime
    /\ protocol = "grpc" => GRPC!EndsOnTime

\* The wait ends, also when the data plane never converges; unless a request of
\* the mesh client hangs, which nothing limits.
Converges ==
    <>(\/ pc \in {"returned", "fatal"}
       \/ stage \in {"failed", "done", "fatal"}
       \/ meshPod = "hanging")

\* A response is judged by what the test expects and not by the responses
\* before it, although setRedirectRequestDefaults updates the expectation in
\* place; with the host of a redirect given.
VerdictsAreIndependent == protocol = "http" => HTTP!VerdictsAreIndependent

\* Whatever the order of errors, successes and the timeout, no connection of
\* the gRPC client is left open, there are never two, and no RPC is sent on one
\* that was closed or had an Internal error.
ConnectionsAreSound == GRPC!NothingIsLeftOpen /\ GRPC!ConnectionIsUsable

\* When a test goes on after ExpectMirroredRequest, its request, or one before
\* it with the same path, was mirrored everywhere: the logs are read as a whole
\* and a line is recognised by its path.  It fails only if some mirror got such a
\* request late or never, or if a log was lost or could not be read.
MirrorsAreJudged == protocol = "mirror" => Mirrors!MirrorsAreJudged
=============================================================================
