----------------------- MODULE ConvergenceClientsProofs ----------------------
(* The waits of conformance tests, for every configuration, expectation and  *)
(* set of answers: first the loop that they share and each client by itself, *)
(* then ConvergenceClients, which has them all.                              *)
EXTENDS ConvergenceClients, TLAPS

(* The loop of AwaitConvergence, for every configuration and every function  *)
(* it may be given: it ends in time, and it implements Consistency.          *)

\* The attempts of the history that failed.
Failures == {i \in 1..Len(log) : ~log[i]}

\* The count of the loop is the number of attempts since the last failed one.
CountIsRow ==
    \/ Failures = {} /\ successes = Len(log)
    \/ \E m \in Failures : (\A i \in Failures : m >= i) /\ successes = Len(log) - m

\* The timer has not fired when the function is called.
WaitInv ==
    /\ threshold \in Nat /\ maxTimeToConsistency \in Nat
    /\ clock \in Nat /\ successes \in Nat /\ log \in Seq(BOOLEAN)
    /\ pc \in {"check", "call", "delay", "returned", "fatal"}
    /\ pc = "call" => clock < maxTimeToConsistency
    /\ Wait!EndsInTime
    /\ CountIsRow

LEMMA InitWaitInv == Wait!Init => WaitInv
<1> SUFFICES ASSUME Wait!Init PROVE WaitInv
  OBVIOUS
<1>1. PICK c \in Configs \cup {Wait!DefaultTimeoutConfig} :
        /\ threshold = Wait!SetupTimeoutConfig(c).RequiredConsecutiveSuccesses
        /\ maxTimeToConsistency = Wait!SetupTimeoutConfig(c).MaxTimeToConsistency
  BY DEF Wait!Init
<1>2. c \in [RequiredConsecutiveSuccesses : Nat, MaxTimeToConsistency : Nat]
  BY ConvergenceAssumption DEF Wait!DefaultTimeoutConfig
<1>3. threshold \in Nat /\ maxTimeToConsistency \in Nat
  BY <1>1, <1>2, ConvergenceAssumption DEF Wait!SetupTimeoutConfig, Wait!DefaultTimeoutConfig
<1> QED
  BY <1>3, ConvergenceAssumption DEF Wait!Init, WaitInv, CountIsRow, Failures, Wait!EndsInTime

LEMMA AttemptStep ==
    ASSUME WaitInv, NEW completed \in BOOLEAN, NEW d \in 0..MaxCall,
           Wait!Attempt(completed, d)
    PROVE  WaitInv'
<1> USE ConvergenceAssumption DEF WaitInv, Wait!Attempt, Wait!params, Wait!EndsInTime
<1>1. /\ Len(log') = Len(log) + 1 /\ log' \in Seq(BOOLEAN)
      /\ log'[Len(log) + 1] = completed
      /\ \A i \in 1..Len(log) : log'[i] = log[i]
  OBVIOUS
<1>2. CASE completed
  <2>1. Failures' = Failures /\ successes' = successes + 1
    BY <1>1, <1>2 DEF Failures
  <2>2. CountIsRow'
    BY <2>1, <1>1 DEF CountIsRow, Failures
  <2> QED
    BY <2>1, <2>2, <1>1, <1>2
<1>3. CASE ~completed
  <2>1. Failures' = Failures \cup {Len(log) + 1} /\ successes' = 0
    BY <1>1, <1>3 DEF Failures
  <2>2. CountIsRow'
    BY <2>1, <1>1 DEF CountIsRow, Failures
  <2> QED
    BY <2>1, <2>2, <1>1, <1>3
<1> QED
  BY <1>2, <1>3

LEMMA NextWaitInv == WaitInv /\ [Wait!Next]_(Wait!vars) => WaitInv'
<1> SUFFICES ASSUME WaitInv, [Wait!Next]_(Wait!vars) PROVE WaitInv'
  OBVIOUS
<1> USE ConvergenceAssumption
<1>1. CASE Wait!CheckTimeout
  BY <1>1 DEF Wait!CheckTimeout, Wait!Fired, WaitInv, Wait!params, Wait!EndsInTime, CountIsRow, Failures
<1>2. CASE \E completed \in BOOLEAN, d \in 0..MaxCall : Wait!Attempt(completed, d)
  BY <1>2, AttemptStep
<1>3. CASE Wait!WaitDelay
  BY <1>3 DEF Wait!WaitDelay, Wait!Fired, WaitInv, Wait!params, Wait!EndsInTime, CountIsRow, Failures
<1>4. CASE UNCHANGED Wait!vars
  BY <1>4 DEF Wait!vars, WaitInv, Wait!EndsInTime, CountIsRow, Failures
<1> QED
  BY <1>1, <1>2, <1>3, <1>4 DEF Wait!Next, Wait!Ended

\* The wait ends at most one call after maxTimeToConsistency: AwaitConvergence
\* calls the function only before its timer has fired, and no delay outlives
\* the timer.
THEOREM WaitEndsInTime == Wait!Spec => []Wait!EndsInTime
<1>1. WaitInv => Wait!EndsInTime
  BY DEF WaitInv
<1> QED
  BY <1>1, InitWaitInv, NextWaitInv, PTL DEF Wait!Spec

-----------------------------------------------------------------------------

LEMMA RowIsCount == WaitInv => Wait!Row = successes
<1> SUFFICES ASSUME WaitInv PROVE Wait!Row = successes
  OBVIOUS
<1>1. CASE Failures = {}
  BY <1>1 DEF Wait!Row, Failures, WaitInv, CountIsRow
<1>2. CASE Failures # {}
  <2>1. PICK m \in Failures : (\A i \in Failures : m >= i) /\ successes = Len(log) - m
    BY <1>2 DEF WaitInv, CountIsRow
  <2>2. Failures \subseteq Nat
    BY DEF Failures, WaitInv
  <2> DEFINE x == CHOOSE n \in Failures : \A i \in Failures : n >= i
  <2>3. x \in Failures /\ \A i \in Failures : x >= i
    BY <2>1, Zenon
  <2>4. Wait!Row = Len(log) - x
    BY <1>2, Zenon DEF Wait!Row, Failures
  <2> HIDE DEF x
  <2>5. x = m
    BY <2>1, <2>2, <2>3
  <2> QED
    BY <2>1, <2>4, <2>5
<1> QED
  BY <1>1, <1>2

LEMMA RowIsCountNext == WaitInv' => (Wait!Row = successes)'
  BY RowIsCount, PTL

LEMMA InitPromise == Wait!Init => Wait!Promise!Init
<1> SUFFICES ASSUME Wait!Init PROVE Wait!Promise!Init
  OBVIOUS
<1>1. ~Wait!Fired
  <2>1. PICK c \in Configs \cup {Wait!DefaultTimeoutConfig} :
          maxTimeToConsistency = Wait!SetupTimeoutConfig(c).MaxTimeToConsistency
    BY DEF Wait!Init
  <2>2. c \in [RequiredConsecutiveSuccesses : Nat, MaxTimeToConsistency : Nat]
    BY ConvergenceAssumption DEF Wait!DefaultTimeoutConfig
  <2>3. maxTimeToConsistency \in Nat \ {0}
    BY <2>1, <2>2, ConvergenceAssumption DEF Wait!SetupTimeoutConfig, Wait!DefaultTimeoutConfig
  <2> QED
    BY <2>3 DEF Wait!Init, Wait!Fired
<1> QED
  BY <1>1, InitWaitInv, RowIsCount DEF Wait!Init, WaitInv, Wait!Promise!Init

LEMMA NextPromise ==
    WaitInv /\ WaitInv' /\ [Wait!Next]_(Wait!vars) => [Wait!Promise!Next]_(Wait!Promise!vars)
<1> SUFFICES ASSUME WaitInv, WaitInv', [Wait!Next]_(Wait!vars)
             PROVE  [Wait!Promise!Next]_(Wait!Promise!vars)
  OBVIOUS
<1>0. Wait!Row = successes /\ Wait!Row' = successes'
  BY RowIsCount, RowIsCountNext
<1> USE DEF Wait!Promise!Next, Wait!Promise!vars, Wait!Promise!Timeout, Wait!Promise!Succeed,
           Wait!Promise!Failed, Wait!Promise!Expire, Wait!Fired, WaitInv
<1>1. CASE Wait!CheckTimeout
  BY <1>0, <1>1 DEF Wait!CheckTimeout, Wait!params
<1>2. CASE Wait!WaitDelay
  BY <1>0, <1>2, ConvergenceAssumption DEF Wait!WaitDelay, Wait!params
<1>3. ASSUME NEW completed \in BOOLEAN, NEW d \in 0..MaxCall, Wait!Attempt(completed, d)
      PROVE  Wait!Promise!Next
  BY <1>0, <1>3 DEF Wait!Attempt, Wait!params
<1>4. CASE UNCHANGED Wait!vars
  BY <1>0, <1>4 DEF Wait!vars
<1> QED
  BY <1>1, <1>2, <1>3, <1>4 DEF Wait!Next, Wait!Ended

\* AwaitConvergence keeps the promise of Consistency: it returns if and only
\* if the last threshold calls of the function have succeeded, the last of them
\* begun in time though it may end late, and gives up only when its time is over.
THEOREM WaitIsConsistent == Wait!Spec => Wait!PromiseKept
  BY InitPromise, NextPromise, InitWaitInv, NextWaitInv, PTL
     DEF Wait!Spec, Wait!PromiseKept, Wait!Promise!Spec

-----------------------------------------------------------------------------
(* Responses are judged alike, whatever came before them: the defaults that  *)
(* setRedirectRequestDefaults leaves in the expectation of a test change     *)
(* nothing for the responses that follow.                                    *)

\* With its host given, a redirect with the defaults filled in.
WithDefaults(url, e) ==
    [e EXCEPT !.scheme = IF @ = "" THEN url.scheme ELSE @,
              !.path = IF @ = "" THEN url.path ELSE @]

\* The expectation is as the test gave it, or has the defaults filled in.
RedirectInv ==
    /\ HTTP!WellFormed(test.expected)
    /\ HTTP!Expected = <<>> => redirect = <<>>
    /\ HTTP!Expected # <<>> /\ HTTP!Expected[1].host # "" =>
         redirect \in {HTTP!Expected, <<WithDefaults(test.url, HTTP!Expected[1])>>}

\* Filling in the defaults again changes nothing.
LEMMA DefaultsOnce ==
    ASSUME NEW url, NEW e, NEW got, e = [f \in HTTP!RedirectFields |-> e[f]], e.host # ""
    PROVE  /\ HTTP!setRedirectRequestDefaults(url, e, got) = WithDefaults(url, e)
           /\ HTTP!setRedirectRequestDefaults(url, WithDefaults(url, e), got)
                = WithDefaults(url, e)
  BY DEF HTTP!setRedirectRequestDefaults, WithDefaults, HTTP!RedirectFields

LEMMA RedirectFilled ==
    ASSUME RedirectInv, HTTP!Expected # <<>>, HTTP!Expected[1].host # "", NEW got
    PROVE  /\ redirect # <<>>
           /\ HTTP!setRedirectRequestDefaults(test.url, redirect[1], got)
                = WithDefaults(test.url, HTTP!Expected[1])
           /\ HTTP!setRedirectRequestDefaults(test.url, HTTP!Expected[1], got)
                = WithDefaults(test.url, HTTP!Expected[1])
<1> DEFINE e == HTTP!Expected[1]
           w == WithDefaults(test.url, e)
           d(x) == HTTP!setRedirectRequestDefaults(test.url, x, got)
<1>1. e = [f \in HTTP!RedirectFields |-> e[f]]
  BY DEF RedirectInv, HTTP!WellFormed, HTTP!Expected
<1>2. d(e) = w /\ d(w) = w
  BY <1>1, DefaultsOnce, Zenon
<1>3. redirect = HTTP!Expected \/ redirect = <<w>>
  BY DEF RedirectInv
<1> HIDE DEF w
<1>4. redirect # <<>> /\ (redirect[1] = e \/ redirect[1] = w)
  <2>1. CASE redirect = HTTP!Expected
    BY <2>1
  <2>2. CASE redirect = <<w>>
    <3>1. Len(<<w>>) = 1 /\ Len(<<>>) = 0 /\ <<w>>[1] = w
      OBVIOUS
    <3> QED
      BY <2>2, <3>1
  <2> QED
    BY <1>3, <2>1, <2>2
<1> QED
  BY <1>2, <1>4 DEF w

LEMMA JudgedAlike ==
    ASSUME RedirectInv, HTTP!Expected = <<>> \/ HTTP!Expected[1].host # "", NEW r
    PROVE  HTTP!CompareRequest(test.url, HTTP!Current, r) <=> HTTP!CompareRequest(test.url, test.expected, r)
<1>1. /\ HTTP!Current.status = test.expected.status /\ HTTP!Current.request = test.expected.request
      /\ HTTP!Current.namespace = test.expected.namespace
      /\ HTTP!Current.backend = test.expected.backend
      /\ HTTP!Current.headers = test.expected.headers /\ HTTP!Current.absent = test.expected.absent
      /\ HTTP!Current.redirect = redirect
  BY DEF RedirectInv, HTTP!WellFormed, HTTP!ExpectedFields, HTTP!Current
<1>2. HTTP!BackendMatches(HTTP!Current, r) <=> HTTP!BackendMatches(test.expected, r)
  BY <1>1 DEF HTTP!BackendMatches
<1>3. CASE HTTP!Expected = <<>>
  BY <1>1, <1>2, <1>3 DEF HTTP!CompareRequest, HTTP!ReachesRedirect, RedirectInv, HTTP!Expected
<1>4. CASE HTTP!Expected # <<>>
  BY <1>1, <1>2, <1>4, RedirectFilled DEF HTTP!CompareRequest, HTTP!ReachesRedirect, HTTP!Expected
<1> QED
  BY <1>3, <1>4

LEMMA ResponseStep ==
    ASSUME RedirectInv, NEW p \in Proxies, NEW d \in 0..MaxCall, HTTP!Response(p, d)
    PROVE  RedirectInv' /\ HTTP!VerdictsAreIndependent'
<1>1. PICK r \in Answers(p, p \in updated) :
        /\ redirect' = HTTP!Filled(r)
        /\ last' = [response |-> r, completed |-> HTTP!CompareRequest(test.url, HTTP!Current, r)]
        /\ test' = test
  BY DEF HTTP!Response
<1>2. HTTP!Expected' = HTTP!Expected
  BY <1>1 DEF HTTP!Expected
<1>3. RedirectInv'
  <2>1. HTTP!Current.redirect = redirect
    BY DEF RedirectInv, HTTP!WellFormed, HTTP!ExpectedFields, HTTP!Current
  <2>2. CASE HTTP!Expected = <<>>
    BY <1>1, <1>2, <2>1, <2>2 DEF RedirectInv, HTTP!Filled, HTTP!ReachesRedirect
  <2>3. CASE HTTP!Expected # <<>>
    BY <1>1, <1>2, <2>1, <2>3, RedirectFilled DEF RedirectInv, HTTP!Filled
  <2> QED
    BY <2>2, <2>3
<1>4. HTTP!VerdictsAreIndependent'
  <2> SUFFICES ASSUME HTTP!Expected = <<>> \/ HTTP!Expected[1].host # ""
               PROVE  last'.completed = HTTP!CompareRequest(test.url, test.expected, r)
    BY <1>1, <1>2 DEF HTTP!VerdictsAreIndependent
  <2>1. last'.completed = HTTP!CompareRequest(test.url, HTTP!Current, r)
    BY <1>1
  <2>2. HTTP!CompareRequest(test.url, HTTP!Current, r) <=> HTTP!CompareRequest(test.url, test.expected, r)
    BY JudgedAlike
  <2>3. HTTP!CompareRequest(test.url, HTTP!Current, r) = HTTP!CompareRequest(test.url, test.expected, r)
    BY <2>2, Zenon DEF HTTP!CompareRequest
  <2> QED
    BY <2>1, <2>3, Zenon
<1> QED
  BY <1>3, <1>4

LEMMA InitRedirectInv == HTTP!Init => RedirectInv /\ HTTP!VerdictsAreIndependent
  BY CasesAssumption
     DEF HTTP!Init, RedirectInv, HTTP!Expected, HTTP!CasesAreWellFormed,
         HTTP!VerdictsAreIndependent

LEMMA NextRedirectInv ==
    RedirectInv /\ HTTP!VerdictsAreIndependent /\ [HTTP!Next]_(HTTP!vars)
        => RedirectInv' /\ HTTP!VerdictsAreIndependent'
<1> DEFINE Inv == RedirectInv /\ HTTP!VerdictsAreIndependent
<1> SUFFICES ASSUME Inv, [HTTP!Next]_(HTTP!vars) PROVE Inv'
  OBVIOUS
<1>1. CASE UNCHANGED <<test, redirect, last>>
  BY <1>1 DEF RedirectInv, HTTP!Expected, HTTP!VerdictsAreIndependent
<1>2. ASSUME NEW d \in 0..MaxCall, HTTP!Failure(d) PROVE Inv'
  BY <1>2 DEF HTTP!Failure, RedirectInv, HTTP!Expected, HTTP!VerdictsAreIndependent
<1>3. ASSUME NEW p \in Proxies, NEW d \in 0..MaxCall, HTTP!Response(p, d) PROVE Inv'
  BY <1>3, ResponseStep
<1> QED
  BY <1>1, <1>2, <1>3 DEF HTTP!Next, HTTP!Update, HTTP!vars

\* The HTTP client by itself judges each response by what the test expects and
\* not by the responses before it, although setRedirectRequestDefaults updates
\* the expectation in place; with the host of a redirect given.
THEOREM IndependentVerdicts == HTTP!Spec => []HTTP!VerdictsAreIndependent
  BY InitRedirectInv, NextRedirectInv, PTL DEF HTTP!Spec

-----------------------------------------------------------------------------
(* The connection of the gRPC client and the time it takes, for every        *)
(* configuration, expectation and set of answers.                            *)

\* The timer has not fired when an RPC is sent, and the RPC ends with it.
DeadlineInv ==
    /\ maxTimeToConsistency \in Nat /\ clock \in Nat
    /\ pc = "call" => clock < maxTimeToConsistency
    /\ GRPC!EndsOnTime

\* Until it is closed, the connection of the client is the only one that is
\* open; connections have numbers, and one that broke is never the client's.
ConnInv ==
    /\ stage \in {"validate", "wait", "failed", "closed"}
    /\ Conn \in Nat /\ dialled \in Nat /\ Conn <= dialled
    /\ broken \subseteq 1..dialled /\ Conn \notin broken
    /\ open = IF Conn = 0 \/ stage = "closed" THEN {} ELSE {Conn}
    /\ stage \in {"validate", "failed"} => Conn = 0

LEMMA InitDeadlineInv == GRPC!Init => DeadlineInv
<1> SUFFICES ASSUME GRPC!Init PROVE DeadlineInv
  OBVIOUS
<1>1. PICK c \in Configs \cup {GRPC!Wait!DefaultTimeoutConfig} :
        maxTimeToConsistency = GRPC!Wait!SetupTimeoutConfig(c).MaxTimeToConsistency
  BY DEF GRPC!Init, GRPC!Wait!Init
<1>2. c \in [RequiredConsecutiveSuccesses : Nat, MaxTimeToConsistency : Nat]
  BY ConvergenceAssumption DEF GRPC!Wait!DefaultTimeoutConfig
<1>3. maxTimeToConsistency \in Nat
  BY <1>1, <1>2, ConvergenceAssumption
     DEF GRPC!Wait!SetupTimeoutConfig, GRPC!Wait!DefaultTimeoutConfig
<1> QED
  BY <1>3 DEF GRPC!Init, GRPC!Wait!Init, DeadlineInv, GRPC!EndsOnTime

LEMMA SendRPCStep ==
    ASSUME DeadlineInv, ConnInv, NEW r \in Responses, NEW d \in 0..MaxCall, GRPC!SendRPC(r, d)
    PROVE  DeadlineInv' /\ ConnInv'
<1>1. DeadlineInv'
  BY ConvergenceAssumption
     DEF GRPC!SendRPC, GRPC!Wait!Attempt, GRPC!Wait!params, GRPC!Remaining, DeadlineInv, GRPC!EndsOnTime
<1>2. /\ GRPC!Ensured \in Nat \ {0} /\ GRPC!Ensured <= dialled' /\ dialled' \in Nat
      /\ dialled <= dialled' /\ GRPC!Ensured \notin broken
  BY DEF GRPC!SendRPC, GRPC!ensureConnection, GRPC!Ensured, ConnInv
<1>3. open \subseteq {GRPC!Ensured}
  BY DEF GRPC!SendRPC, GRPC!Ensured, ConnInv
<1>4. CASE r.code = "Internal"
  <2>1. Conn' = 0 /\ open' = {} /\ broken' = broken \cup {GRPC!Ensured} /\ stage' = "wait"
    BY <1>3, <1>4 DEF GRPC!SendRPC, GRPC!resetConnection
  <2> QED
    BY <1>1, <1>2, <2>1 DEF ConnInv
<1>5. CASE r.code # "Internal"
  <2>1. Conn' = GRPC!Ensured /\ open' = {GRPC!Ensured} /\ broken' = broken /\ stage' = "wait"
    BY <1>3, <1>5 DEF GRPC!SendRPC
  <2> QED
    BY <1>1, <1>2, <2>1 DEF ConnInv
<1> QED
  BY <1>4, <1>5

LEMMA NextGrpcInv == DeadlineInv /\ ConnInv /\ [GRPC!Next]_(GRPC!vars) => DeadlineInv' /\ ConnInv'
<1> SUFFICES ASSUME DeadlineInv, ConnInv, [GRPC!Next]_(GRPC!vars) PROVE DeadlineInv' /\ ConnInv'
  OBVIOUS
<1> USE ConvergenceAssumption DEF GRPC!waitVars, GRPC!connVars
<1>1. CASE GRPC!validateExpectedResponse
  BY <1>1 DEF GRPC!validateExpectedResponse, DeadlineInv, GRPC!EndsOnTime, ConnInv
<1>2. CASE /\ stage = "wait"
           /\ GRPC!Wait!CheckTimeout \/ GRPC!Wait!WaitDelay
           /\ UNCHANGED <<expected, stage, GRPC!connVars>>
  <2>1. DeadlineInv'
    BY <1>2 DEF GRPC!Wait!CheckTimeout, GRPC!Wait!WaitDelay, GRPC!Wait!Fired, GRPC!Wait!params, DeadlineInv,
                GRPC!EndsOnTime
  <2> QED
    BY <1>2, <2>1 DEF ConnInv
<1>3. CASE GRPC!DialFails
  BY <1>3 DEF GRPC!DialFails, GRPC!Wait!Attempt, GRPC!Wait!params, DeadlineInv, GRPC!EndsOnTime, ConnInv
<1>4. CASE \E r \in Responses, d \in 0..MaxCall : GRPC!SendRPC(r, d)
  BY <1>4, SendRPCStep
<1>5. CASE GRPC!Close
  BY <1>5 DEF GRPC!Close, DeadlineInv, GRPC!EndsOnTime, ConnInv
<1>6. CASE UNCHANGED GRPC!vars
  BY <1>6 DEF GRPC!vars, DeadlineInv, GRPC!EndsOnTime, ConnInv
<1> QED
  BY <1>1, <1>2, <1>3, <1>4, <1>5, <1>6 DEF GRPC!Next, GRPC!Ended

LEMMA GrpcInvariance == GRPC!Spec => [](DeadlineInv /\ ConnInv)
<1>1. GRPC!Init => ConnInv
  BY DEF GRPC!Init, ConnInv
<1> QED
  BY <1>1, InitDeadlineInv, NextGrpcInv, PTL DEF GRPC!Spec

\* With what is left of the time as the deadline of every RPC, the wait of the
\* gRPC client never takes longer than maxTimeToConsistency.
THEOREM GrpcEndsOnTime == GRPC!Spec => []GRPC!EndsOnTime
<1>1. DeadlineInv => GRPC!EndsOnTime
  BY DEF DeadlineInv
<1> QED
  BY <1>1, GrpcInvariance, PTL

\* Whatever the order of errors, successes and the timeout, DefaultClient never
\* has two connections open, leaves none open, and sends no RPC on one that was
\* closed or had an Internal error.
THEOREM GrpcConnections == GRPC!Spec => [](GRPC!NothingIsLeftOpen /\ GRPC!ConnectionIsUsable)
<1>1. ConnInv => GRPC!NothingIsLeftOpen
  BY DEF ConnInv, GRPC!NothingIsLeftOpen
<1>2. ConnInv => GRPC!ConnectionIsUsable
  BY DEF ConnInv, GRPC!ConnectionIsUsable
<1> QED
  BY <1>1, <1>2, GrpcInvariance, PTL

-----------------------------------------------------------------------------
(* ExpectMirroredRequest judges a test rightly, for every set of mirrors and *)
(* of pods and every timeout.                                                *)

\* Goroutines run only between the check of the names and the return.
StageInv ==
    /\ stage \in {"check", "wait", "done", "fatal"}
    /\ stage \in {"check", "fatal"} => ended = {} /\ ~failed
    /\ stage = "done" => ended = mirrorPods

\* What is in a log was mirrored, or was there before; as long as nothing is
\* disturbed, what was mirrored or there before is in a log.
LogInv ==
    /\ logged \subseteq (mirrored \cup earlier) \X Pods
    /\ ~disturbed => \A m \in mirrored \cup earlier : \E p \in Pods : <<m, p>> \in logged

\* A mirror that had the line when its goroutine began is found by the first
\* poll, so that the goroutine has used none of its time before that.
TimeInv ==
    /\ ticks \in [mirrorPods -> 0..MirrorTime]
    /\ stage = "check" => \A m \in mirrorPods : ticks[m] = 0
    /\ early \subseteq mirrored
    /\ ~disturbed => \A m \in (mirrorPods \cap (early \cup earlier)) \ ended : ticks[m] = 0

VerdictInv ==
    /\ ended \subseteq mirrorPods /\ failed \in BOOLEAN /\ disturbed \in BOOLEAN
    /\ ~failed => ended \subseteq mirrored \cup earlier
    /\ failed => disturbed \/ ~(mirrorPods \subseteq early \cup earlier)

MirrorInv == StageInv /\ LogInv /\ TimeInv /\ VerdictInv

LEMMA InitMirrorInv == Mirrors!Init => MirrorInv
<1> SUFFICES ASSUME Mirrors!Init PROVE MirrorInv
  OBVIOUS
<1>1. StageInv /\ VerdictInv
  BY Zenon DEF Mirrors!Init, StageInv, VerdictInv
<1>3. LogInv
  <2>1. logged \subseteq mirrorPods \X Pods /\ earlier = {l[1] : l \in logged} /\ mirrored = {}
    BY DEF Mirrors!Init
  <2>2. ASSUME NEW l \in logged PROVE l = <<l[1], l[2]>> /\ l[1] \in earlier /\ l[2] \in Pods
    BY <2>1
  <2> QED
    BY <2>1, <2>2 DEF LogInv
<1>2. TimeInv
  BY ConvergenceAssumption DEF Mirrors!Init, TimeInv
<1> QED
  BY <1>1, <1>2, <1>3 DEF MirrorInv

LEMMA PollStep ==
    ASSUME MirrorInv, NEW m \in mirrorPods, NEW readable \in SUBSET Pods,
           NEW d \in 1..MaxRead, Mirrors!Poll(m, readable, d)
    PROVE  MirrorInv'
<1> DEFINE late == ticks[m] + d > MirrorTime
           found == Mirrors!DumpEchoLogs(m, readable) # {}
<1>1. /\ stage = "wait" /\ m \notin ended
      /\ ended' = IF late \/ found THEN ended \cup {m} ELSE ended
      /\ failed' = (failed \/ late)
      /\ ticks' = [ticks EXCEPT ![m] = IF late THEN MirrorTime ELSE @ + d]
      /\ disturbed' = (disturbed \/ readable # Pods)
      /\ UNCHANGED <<mirrorPods, stage, logged, earlier, mirrored, early>>
  BY DEF Mirrors!Poll
<1>2. found => m \in mirrored \cup earlier
  BY DEF Mirrors!DumpEchoLogs, MirrorInv, LogInv
<1>3. ASSUME ~disturbed', m \in early \cup earlier PROVE ~late /\ found
  <2>1. ~disturbed /\ readable = Pods
    BY <1>1, <1>3, Zenon
  <2>2. ticks[m] = 0
    BY <2>1, <1>1, <1>3 DEF MirrorInv, TimeInv
  <2>3. ~late
    BY <2>2, ConvergenceAssumption
  <2>4. found
    BY <2>1, <1>3 DEF Mirrors!DumpEchoLogs, MirrorInv, LogInv, TimeInv
  <2> QED
    BY <2>3, <2>4
<1> HIDE DEF found
<1>4. StageInv' /\ LogInv'
  BY <1>1 DEF MirrorInv, StageInv, LogInv
<1>5. TimeInv'
  <2>1. ticks' \in [mirrorPods -> 0..MirrorTime]
    BY <1>1, ConvergenceAssumption DEF MirrorInv, TimeInv
  <2>2. ASSUME ~disturbed', NEW n \in (mirrorPods \cap (early \cup earlier)) \ ended'
        PROVE  ticks'[n] = 0
    <3>1. n # m
      BY <1>1, <1>3, <2>2
    <3>2. ~disturbed
      BY <1>1, <2>2, Zenon
    <3> QED
      BY <1>1, <3>1, <3>2 DEF MirrorInv, TimeInv
  <2> QED
    BY <1>1, <2>1, <2>2 DEF MirrorInv, TimeInv
<1>6. VerdictInv'
  <2> HIDE DEF late
  <2> QED
    BY <1>1, <1>2, <1>3 DEF MirrorInv, VerdictInv
<1> QED
  BY <1>4, <1>5, <1>6 DEF MirrorInv

LEMMA NextMirrorInv == MirrorInv /\ [Mirrors!Next]_(Mirrors!mirrorVars) => MirrorInv'
<1> SUFFICES ASSUME MirrorInv, [Mirrors!Next]_(Mirrors!mirrorVars) PROVE MirrorInv'
  OBVIOUS
<1> USE DEF MirrorInv, StageInv, LogInv, TimeInv, VerdictInv
<1>1. ASSUME NEW m \in mirrorPods, NEW p \in Pods, Mirrors!Mirror(m, p)
      PROVE  MirrorInv'
  <2>1. StageInv' /\ TimeInv'
    BY <1>1 DEF Mirrors!Mirror
  <2>2. LogInv'
    <3>1. logged' \subseteq (mirrored' \cup earlier') \X Pods
      BY <1>1 DEF Mirrors!Mirror
    <3>2. ASSUME ~disturbed', NEW n \in mirrored' \cup earlier' PROVE \E q \in Pods : <<n, q>> \in logged'
      <4>1. CASE n = m
        BY <1>1, <4>1 DEF Mirrors!Mirror
      <4>2. CASE n # m
        BY <1>1, <3>2, <4>2 DEF Mirrors!Mirror
      <4> QED
        BY <4>1, <4>2
    <3> QED
      BY <3>1, <3>2
  <2>3. VerdictInv'
    BY <1>1 DEF Mirrors!Mirror
  <2> QED
    BY <2>1, <2>2, <2>3
<1>2. ASSUME NEW m \in mirrorPods, NEW p \in Pods, Mirrors!Restart(m, p)
      PROVE  MirrorInv'
  BY <1>2 DEF Mirrors!Restart
<1>3. CASE Mirrors!Begin
  BY <1>3 DEF Mirrors!Begin
<1>4. ASSUME NEW m \in mirrorPods, NEW readable \in SUBSET Pods, NEW d \in 1..MaxRead,
             Mirrors!Poll(m, readable, d)
      PROVE  MirrorInv'
  BY <1>4, PollStep
<1>5. CASE Mirrors!Return
  BY <1>5 DEF Mirrors!Return
<1>6. CASE UNCHANGED Mirrors!mirrorVars
  BY <1>6 DEF Mirrors!mirrorVars
<1> QED
  BY <1>1, <1>2, <1>3, <1>4, <1>5, <1>6 DEF Mirrors!Next, Mirrors!Ended

\* When a test goes on after ExpectMirroredRequest, its request or one before it
\* with the same path was mirrored everywhere; it fails only if some mirror had
\* no such line when its goroutine began, or if a log was lost or could not be
\* read.
THEOREM MirrorVerdict == Mirrors!Spec => []Mirrors!MirrorsAreJudged
<1>1. MirrorInv => Mirrors!MirrorsAreJudged
  BY DEF MirrorInv, StageInv, VerdictInv, Mirrors!MirrorsAreJudged
<1> QED
  BY <1>1, InitMirrorInv, NextMirrorInv, PTL DEF Mirrors!Spec

-----------------------------------------------------------------------------
(* All of them.  Every step of a client is a step of the loop or leaves it   *)
(* alone, and no client touches the variables of another.                    *)

LEMMA HTTPStepIsWaitStep == HTTP!Next => [Wait!Next]_(Wait!vars)
<1> SUFFICES ASSUME HTTP!Next PROVE [Wait!Next]_(Wait!vars)
  OBVIOUS
<1>1. CASE HTTP!Wait!CheckTimeout
  BY <1>1, Zenon DEF HTTP!Wait!CheckTimeout, HTTP!Wait!Fired, HTTP!Wait!params,
     Wait!Next, Wait!CheckTimeout, Wait!Fired, Wait!params
<1>2. CASE HTTP!Wait!WaitDelay
  BY <1>2, Zenon DEF HTTP!Wait!WaitDelay, HTTP!Wait!Fired, HTTP!Wait!params,
     Wait!Next, Wait!WaitDelay, Wait!Fired, Wait!params
<1>3. ASSUME NEW completed \in BOOLEAN, NEW d \in 0..MaxCall, HTTP!Wait!Attempt(completed, d)
      PROVE  Wait!Next
  BY <1>3, Zenon DEF HTTP!Wait!Attempt, HTTP!Wait!params, Wait!Next, Wait!Attempt, Wait!params
<1>4. ASSUME NEW p \in Proxies, NEW d \in 0..MaxCall, HTTP!Response(p, d)
      PROVE  Wait!Next
  <2>1. PICK r \in Answers(p, p \in updated) :
           HTTP!Wait!Attempt(HTTP!CompareRequest(test.url, HTTP!Current, r), d)
    BY <1>4, Zenon DEF HTTP!Response
  <2>2. HTTP!CompareRequest(test.url, HTTP!Current, r) \in BOOLEAN
    BY Zenon DEF HTTP!CompareRequest
  <2> QED
    BY <1>3, <2>1, <2>2, Zenon
<1>5. ASSUME NEW d \in 0..MaxCall, HTTP!Failure(d) PROVE Wait!Next
  BY <1>3, <1>5, Zenon DEF HTTP!Failure
<1>6. CASE UNCHANGED waitVars
  BY <1>6, Zenon DEF waitVars, Wait!vars
<1> QED
  BY <1>1, <1>2, <1>4, <1>5, <1>6 DEF HTTP!Next, HTTP!Update, HTTP!vars, HTTP!waitVars, waitVars

LEMMA GRPCStepIsWaitStep == GRPC!Next => [Wait!Next]_(Wait!vars)
<1> SUFFICES ASSUME GRPC!Next PROVE [Wait!Next]_(Wait!vars)
  OBVIOUS
<1>1. CASE GRPC!Wait!CheckTimeout
  BY <1>1, Zenon DEF GRPC!Wait!CheckTimeout, GRPC!Wait!Fired, GRPC!Wait!params,
     Wait!Next, Wait!CheckTimeout, Wait!Fired, Wait!params
<1>2. CASE GRPC!Wait!WaitDelay
  BY <1>2, Zenon DEF GRPC!Wait!WaitDelay, GRPC!Wait!Fired, GRPC!Wait!params,
     Wait!Next, Wait!WaitDelay, Wait!Fired, Wait!params
<1>3. ASSUME NEW completed \in BOOLEAN, NEW d \in 0..MaxCall, GRPC!Wait!Attempt(completed, d)
      PROVE  Wait!Next
  BY <1>3, Zenon DEF GRPC!Wait!Attempt, GRPC!Wait!params, Wait!Next, Wait!Attempt, Wait!params
<1>4. ASSUME NEW r \in Responses, NEW d \in 0..MaxCall, GRPC!SendRPC(r, d)
      PROVE  Wait!Next
  <2>1. GRPC!compareResponse(r) \in BOOLEAN
    BY Zenon DEF GRPC!compareResponse
  <2> QED
    BY <1>3, <1>4, <2>1, Zenon DEF GRPC!SendRPC
<1>5. CASE GRPC!DialFails
  <2>1. 0 \in 0..MaxCall
    BY ConvergenceAssumption
  <2> QED
    BY <1>3, <1>5, <2>1, Zenon DEF GRPC!DialFails
<1>6. CASE UNCHANGED waitVars
  BY <1>6, Zenon DEF waitVars, Wait!vars
<1> QED
  BY <1>1, <1>2, <1>4, <1>5, <1>6
     DEF GRPC!Next, GRPC!validateExpectedResponse, GRPC!Close, GRPC!Ended, GRPC!vars,
         GRPC!waitVars, waitVars

LEMMA MeshStepIsWaitStep == Mesh!Next => [Wait!Next]_(Wait!vars)
<1> SUFFICES ASSUME Mesh!Next PROVE [Wait!Next]_(Wait!vars)
  OBVIOUS
<1>1. CASE Mesh!Wait!CheckTimeout
  BY <1>1, Zenon DEF Mesh!Wait!CheckTimeout, Mesh!Wait!Fired, Mesh!Wait!params,
     Wait!Next, Wait!CheckTimeout, Wait!Fired, Wait!params
<1>2. CASE Mesh!Wait!WaitDelay
  BY <1>2, Zenon DEF Mesh!Wait!WaitDelay, Mesh!Wait!Fired, Mesh!Wait!params,
     Wait!Next, Wait!WaitDelay, Wait!Fired, Wait!params
<1>3. ASSUME NEW completed \in BOOLEAN, NEW d \in 0..MaxCall, Mesh!Wait!Attempt(completed, d)
      PROVE  Wait!Next
  BY <1>3, Zenon DEF Mesh!Wait!Attempt, Mesh!Wait!params, Wait!Next, Wait!Attempt, Wait!params
<1>4. ASSUME NEW d \in 0..MaxCall, Mesh!request(d) PROVE Wait!Next
  <2>1. \A output \in Outputs :
           Mesh!compareRequest(exp, Mesh!ParseResponse(output)) \in BOOLEAN
    BY Zenon DEF Mesh!compareRequest
  <2> QED
    BY <1>3, <1>4, <2>1, Zenon DEF Mesh!request
<1>5. CASE UNCHANGED waitVars
  BY <1>5, Zenon DEF waitVars, Wait!vars
<1> QED
  BY <1>1, <1>2, <1>4, <1>5
     DEF Mesh!Next, Mesh!PodEnds, Mesh!Hangs, Mesh!Wait!Ended, Mesh!Wait!vars,
         Mesh!waitVars, waitVars

-----------------------------------------------------------------------------
(* The inductive invariant of all clients: what is used has its invariant,   *)
(* what is not is idle.                                                      *)

ClientInv ==
    /\ protocol \in {"http", "grpc", "mesh", "mirror"}
    /\ IF protocol = "mirror" THEN NoWait /\ MirrorInv ELSE WaitInv
    /\ IF protocol = "grpc" THEN DeadlineInv /\ ConnInv ELSE Conn = 0 /\ open = {}
    /\ protocol = "http" => RedirectInv /\ HTTP!VerdictsAreIndependent

LEMMA InitIsWaitInit == Init => Wait!Init \/ protocol = "mirror"
<1>1. HTTP!Wait!Init => Wait!Init
  BY Zenon DEF HTTP!Wait!Init, Wait!Init, HTTP!Wait!SetupTimeoutConfig, Wait!SetupTimeoutConfig,
     HTTP!Wait!DefaultTimeoutConfig, Wait!DefaultTimeoutConfig
<1>2. GRPC!Wait!Init => Wait!Init
  BY Zenon DEF GRPC!Wait!Init, Wait!Init, GRPC!Wait!SetupTimeoutConfig, Wait!SetupTimeoutConfig,
     GRPC!Wait!DefaultTimeoutConfig, Wait!DefaultTimeoutConfig
<1>3. Mesh!Wait!Init => Wait!Init
  BY Zenon DEF Mesh!Wait!Init, Wait!Init, Mesh!Wait!SetupTimeoutConfig, Wait!SetupTimeoutConfig,
     Mesh!Wait!DefaultTimeoutConfig, Wait!DefaultTimeoutConfig
<1> QED
  BY <1>1, <1>2, <1>3 DEF Init, HTTP!Init, GRPC!Init, Mesh!Init

LEMMA InitClientInv == Init => ClientInv
<1> SUFFICES ASSUME Init PROVE ClientInv
  OBVIOUS
<1>0. protocol # "mirror" => WaitInv
  BY InitIsWaitInit, InitWaitInv
<1>1. CASE protocol = "http" /\ HTTP!Init /\ NoGRPC
  BY <1>0, <1>1, InitRedirectInv DEF ClientInv, NoGRPC
<1>2. CASE protocol = "grpc" /\ GRPC!Init
  <2>1. ConnInv
    BY <1>2 DEF GRPC!Init, ConnInv
  <2> QED
    BY <1>0, <1>2, <2>1, InitDeadlineInv DEF ClientInv
<1>3. CASE protocol = "mesh" /\ NoGRPC
  BY <1>0, <1>3 DEF ClientInv, NoGRPC
<1>4. CASE protocol = "mirror" /\ Mirrors!Init /\ NoWait /\ NoGRPC
  BY <1>4, InitMirrorInv DEF ClientInv, NoGRPC
<1> QED
  BY <1>1, <1>2, <1>3, <1>4 DEF Init

LEMMA NoRow == NoWait => Wait!Row = 0
<1> SUFFICES ASSUME NoWait PROVE Wait!Row = 0
  OBVIOUS
<1>1. Failures = {} /\ Len(log) = 0
  BY DEF NoWait, Failures
<1> QED
  BY <1>1 DEF Wait!Row, Failures

\* One step of all clients is one of the client that is used, and of the loop
\* if the client has one.
LEMMA ClientSteps ==
    [Next]_vars =>
        /\ UNCHANGED protocol
        /\ protocol = "http" => [HTTP!Next]_(HTTP!vars) /\ UNCHANGED grpcVars
        /\ protocol = "grpc" => [GRPC!Next]_(GRPC!vars)
        /\ protocol = "mesh" => UNCHANGED grpcVars
        /\ protocol = "mirror" =>
              [Mirrors!Next]_(Mirrors!mirrorVars) /\ UNCHANGED waitVars /\ UNCHANGED grpcVars
        /\ [Wait!Next]_(Wait!vars)
<1> SUFFICES ASSUME [Next]_vars
             PROVE  /\ UNCHANGED protocol
                    /\ protocol = "http" => [HTTP!Next]_(HTTP!vars) /\ UNCHANGED grpcVars
                    /\ protocol = "grpc" => [GRPC!Next]_(GRPC!vars)
                    /\ protocol = "mesh" => UNCHANGED grpcVars
                    /\ protocol = "mirror" =>
                          /\ [Mirrors!Next]_(Mirrors!mirrorVars)
                          /\ UNCHANGED waitVars /\ UNCHANGED grpcVars
                    /\ [Wait!Next]_(Wait!vars)
  OBVIOUS
<1>1. CASE UNCHANGED vars
  BY <1>1, Zenon DEF vars, waitVars, httpVars, grpcVars, mirrorVars, HTTP!vars, HTTP!waitVars,
     GRPC!vars, GRPC!waitVars, GRPC!connVars, Mirrors!mirrorVars, Wait!vars
<1>2. CASE /\ protocol = "http" /\ HTTP!Next /\ UNCHANGED protocol
           /\ UNCHANGED <<grpcVars, meshVars, mirrorVars, stage>>
  BY <1>2, HTTPStepIsWaitStep
<1>3. CASE protocol = "grpc" /\ GRPC!Next /\ UNCHANGED protocol
  BY <1>3, GRPCStepIsWaitStep
<1>4. CASE /\ protocol = "mesh" /\ Mesh!Next /\ UNCHANGED protocol
           /\ UNCHANGED <<httpVars, grpcVars, mirrorVars, stage>>
  BY <1>4, MeshStepIsWaitStep
<1>5. CASE /\ protocol = "mirror" /\ Mirrors!Next /\ UNCHANGED protocol
           /\ UNCHANGED <<waitVars, httpVars, grpcVars, meshVars>>
  BY <1>5 DEF waitVars, Wait!vars
<1> QED
  BY <1>1, <1>2, <1>3, <1>4, <1>5, Zenon DEF Next

LEMMA NextClientInv == ClientInv /\ [Next]_vars => ClientInv'
<1> SUFFICES ASSUME ClientInv, [Next]_vars PROVE ClientInv'
  OBVIOUS
<1>0. UNCHANGED protocol
  BY ClientSteps
<1>1. CASE protocol = "http"
  BY <1>0, <1>1, ClientSteps, NextWaitInv, NextRedirectInv DEF ClientInv, grpcVars
<1>2. CASE protocol = "grpc"
  BY <1>0, <1>2, ClientSteps, NextWaitInv, NextGrpcInv DEF ClientInv
<1>3. CASE protocol = "mesh"
  BY <1>0, <1>3, ClientSteps, NextWaitInv DEF ClientInv, grpcVars
<1>4. CASE protocol = "mirror"
  BY <1>0, <1>4, ClientSteps, NextMirrorInv DEF ClientInv, grpcVars, waitVars, NoWait
<1> QED
  BY <1>1, <1>2, <1>3, <1>4 DEF ClientInv

LEMMA ClientInvariance == Spec => []ClientInv
  BY InitClientInv, NextClientInv, PTL DEF Spec

\* The wait of every client implements Consistency: it returns when and only
\* when the last threshold attempts have all succeeded, whatever the client does
\* in between, late if the last one outlives the timer, and gives up only when the
\* time is over.
THEOREM ClientsKeepPromise == Spec => PromiseKept
<1>1. Init => Wait!Promise!Init
  <2> SUFFICES ASSUME Init PROVE Wait!Promise!Init
    OBVIOUS
  <2>1. CASE protocol = "mirror"
    BY <2>1, NoRow, InitClientInv, ConvergenceAssumption
       DEF ClientInv, NoWait, Wait!Promise!Init, Wait!Fired
  <2>2. CASE Wait!Init
    BY <2>2, InitPromise
  <2> QED
    BY <2>1, <2>2, InitIsWaitInit
<1>2. ClientInv /\ ClientInv' /\ [Next]_vars => [Wait!Promise!Next]_(Wait!Promise!vars)
  <2> SUFFICES ASSUME ClientInv, ClientInv', [Next]_vars
               PROVE  [Wait!Promise!Next]_(Wait!Promise!vars)
    OBVIOUS
  <2>1. CASE protocol = "mirror"
    <3>1. UNCHANGED waitVars
      BY <2>1, ClientSteps
    <3>2. UNCHANGED Wait!Row
      BY <3>1 DEF waitVars, Wait!Row
    <3> QED
      BY <3>1, <3>2 DEF waitVars, Wait!Promise!vars, Wait!Fired
  <2>2. CASE protocol # "mirror"
    <3>1. WaitInv /\ WaitInv'
      BY <2>2, ClientSteps DEF ClientInv
    <3> QED
      BY <3>1, ClientSteps, NextPromise
  <2> QED
    BY <2>1, <2>2
<1> QED
  BY <1>1, <1>2, InitClientInv, NextClientInv, PTL
     DEF Spec, PromiseKept, Wait!PromiseKept, Wait!Promise!Spec

\* No wait takes longer than its time and one request, although attempts,
\* delays and the timer interleave; that of the gRPC client, whose RPCs have
\* what is left of the time as their deadline, not even that.
THEOREM ClientsEndInTime == Spec => []EndsInTime
<1>1. ClientInv => EndsInTime
  BY ConvergenceAssumption
     DEF ClientInv, EndsInTime, WaitInv, NoWait, Wait!EndsInTime, DeadlineInv
<1> QED
  BY <1>1, ClientInvariance, PTL

\* Responses are judged alike, although CompareRequest fills in the expected
\* redirect in place and the next attempts see it.
THEOREM ClientVerdicts == Spec => []VerdictsAreIndependent
<1>1. ClientInv => VerdictsAreIndependent
  BY DEF ClientInv, VerdictsAreIndependent
<1> QED
  BY <1>1, ClientInvariance, PTL

\* With any client there is at most one gRPC connection, it is usable while the
\* wait goes on, and none is left open.
THEOREM ClientConnections == Spec => []ConnectionsAreSound
<1>1. ClientInv => ConnectionsAreSound
  BY DEF ClientInv, ConnInv, ConnectionsAreSound, GRPC!NothingIsLeftOpen, GRPC!ConnectionIsUsable
<1> QED
  BY <1>1, ClientInvariance, PTL

\* ExpectMirroredRequest goes on only if every mirror has got the request or one
\* before it with the same path, and it fails a test only for a mirror that got
\* such a request late or never, or for a log that was lost or not readable.
THEOREM ClientMirrors == Spec => []MirrorsAreJudged
<1>1. MirrorInv => Mirrors!MirrorsAreJudged
  BY DEF MirrorInv, StageInv, VerdictInv, Mirrors!MirrorsAreJudged
<1>2. ClientInv => MirrorsAreJudged
  BY <1>1 DEF ClientInv, MirrorsAreJudged
<1> QED
  BY <1>2, ClientInvariance, PTL
=============================================================================
