--------------------------- MODULE GrpcConvergence ---------------------------
(* MakeRequestAndExpectEventuallyConsistentResponse of conformance/utils/    *)
(* grpc: AwaitConvergence whose function sends an RPC over a connection that *)
(* is dialled when needed, kept between attempts and given up on an Internal *)
(* error, with what is left of the overall time as the RPC's deadline.       *)
EXTENDS ConvergenceBounds, Sequences, FiniteSets

CONSTANTS
    Expectations,   \* [requests, code, namespace, backend]
    Responses       \* answers of servers: [code] or with assertions

VARIABLES
    threshold, maxTimeToConsistency, pc, clock, successes, log,
    expected,
    stage,      \* "validate", "wait", "failed" or "closed"
    Conn,       \* the client's connection, 0 for none
    dialled,    \* connections made so far
    open,       \* connections that are open
    broken      \* history: connections on which Internal was received

waitVars == <<threshold, maxTimeToConsistency, pc, clock, successes, log>>
connVars == <<Conn, dialled, open, broken>>
vars == <<waitVars, expected, stage, connVars>>

Wait == INSTANCE AwaitConvergence

Init ==
    /\ Wait!Init
    /\ expected \in Expectations
    /\ stage = "validate"
    /\ Conn = 0 /\ dialled = 0 /\ open = {} /\ broken = {}

\* Exactly one of the requests has to be given.
validateExpectedResponse ==
    /\ stage = "validate"
    /\ stage' = IF Cardinality(expected.requests) = 1 THEN "wait" ELSE "failed"
    /\ UNCHANGED <<waitVars, expected, connVars>>

getMethodName ==
    CASE "Echo" \in expected.requests -> "Echo"
      [] "Echo" \notin expected.requests /\ "EchoTwo" \in expected.requests -> "EchoTwo"
      [] expected.requests \cap {"Echo", "EchoTwo"} = {} -> "EchoThree"

compareResponse(r) ==
    /\ expected.code = r.code
    /\ r.code = "OK" =>
        /\ r.method = getMethodName
        /\ expected.namespace \in {"", r.namespace}
        /\ expected.backend \in {"", r.pod}

\* Dialling does not connect yet; it fails for an address it cannot parse.
ensureConnection ==
    IF Conn # 0 THEN UNCHANGED <<dialled>> ELSE dialled' = dialled + 1

\* The connection after ensureConnection.
Ensured == IF Conn # 0 THEN Conn ELSE dialled + 1

\* Mutant: the connection is forgotten but not closed.
resetConnectionOpen ==
    /\ Conn' = 0
    /\ open' = open \cup {Ensured}

\* Mutant: the connection is closed but kept.
resetConnectionKept ==
    /\ Conn' = Ensured
    /\ open' = open \ {Ensured}

resetConnection ==
    /\ Conn' = 0
    /\ open' = open \ {Ensured}

\* Mutant: every RPC has the whole of maxTimeToConsistency.
RemainingWhole == maxTimeToConsistency

\* The timeout of an RPC.
Remaining == IF clock > maxTimeToConsistency THEN 0 ELSE maxTimeToConsistency - clock

DialFails ==
    /\ stage = "wait" /\ Conn = 0
    /\ Wait!Attempt(FALSE, 0)
    /\ UNCHANGED <<expected, stage, connVars>>

\* An RPC that is answered after d ticks, by the server, a proxy or with
\* DeadlineExceeded by the client itself.
SendRPC(r, d) ==
    /\ stage = "wait"
    /\ d <= Remaining
    /\ ensureConnection
    /\ Wait!Attempt(compareResponse(r), d)
    /\ IF r.code = "Internal"
       THEN resetConnection /\ broken' = broken \cup {Ensured}
       ELSE Conn' = Ensured /\ open' = open \cup {Ensured} /\ UNCHANGED broken
    /\ UNCHANGED <<expected, stage>>

\* The deferred Close, after a success as well as after Fatalf.
Close ==
    /\ stage = "wait" /\ pc \in {"returned", "fatal"}
    /\ open' = open \ {Conn}
    /\ stage' = "closed"
    /\ UNCHANGED <<waitVars, expected, Conn, dialled, broken>>

Ended == stage \in {"failed", "closed"} /\ UNCHANGED vars

Next ==
    \/ validateExpectedResponse
    \/ /\ stage = "wait"
       /\ Wait!CheckTimeout \/ Wait!WaitDelay
       /\ UNCHANGED <<expected, stage, connVars>>
    \/ DialFails
    \/ \E r \in Responses, d \in 0..MaxCall : SendRPC(r, d)
    \/ Close
    \/ Ended

Spec == Init /\ [][Next]_vars

-----------------------------------------------------------------------------
\* Whatever the order of errors, successes and the timeout: no connection is
\* left open when the helper returns or has failed, and there are never two.
NothingIsLeftOpen ==
    /\ \A c, d \in open : c = d
    /\ stage \in {"failed", "closed"} => open = {}

\* While the wait goes on no RPC is sent on a closed connection, nor on one
\* that had an Internal error.
ConnectionIsUsable ==
    stage = "wait" /\ Conn # 0 => Conn \in open /\ Conn \notin broken

\* With what is left of the time as the deadline of an RPC, the wait never
\* takes longer than maxTimeToConsistency.
EndsOnTime == clock <= maxTimeToConsistency
=============================================================================
