-------------------------- MODULE HTTPConvergence ---------------------------
(* WaitForConsistentResponse of conformance/utils/http: AwaitConvergence     *)
(* whose function sends the request of a test and compares the response.     *)
(* The expectation holds its RedirectRequest by pointer, so that defaults    *)
(* filled in for one attempt are there in the next.  The Gateway has several *)
(* proxies; each of them takes over the new configuration when it likes, and *)
(* any of them answers a request.                                            *)
EXTENDS ConvergenceBounds, Sequences

(* CompareRequest of conformance/utils/http: a captured response against the *)
(* expectation of a test.  Strings that are not set are "".  Header maps are *)
(* functions from lower-case names to joined values.  A pod is represented   *)
(* by the workload whose name its own name starts with.                      *)

IsRedirect(status) == status \in (300..308) \ {306}

IsTimeoutError(status) == status \in {408, 504}

\* want is a subset of the headers got, absent names are not among them.
HeadersMatch(want, absent, got) ==
    /\ \A n \in DOMAIN want : n \in DOMAIN got /\ got[n] = want[n]
    /\ absent \cap DOMAIN got = {}

\* What arrived at the backend and what the backend was.
BackendMatches(expected, r) ==
    LET e == expected.request
    IN  /\ e.host # "" => e.host = r.host
        /\ e.path = r.path
        /\ (IF e.method = "" THEN "GET" ELSE e.method) = r.method
        /\ expected.namespace = r.namespace
        /\ HeadersMatch(e.headers, e.absent, r.headers)
        /\ HeadersMatch(expected.headers, expected.absent, r.responseHeaders)
        /\ expected.backend \in {"", r.pod}

\* What is not expected in particular is taken from the request, the host from
\* the response itself.
setRedirectRequestDefaults(url, redirect, got) ==
    [redirect EXCEPT
        !.host = IF @ = "" THEN got.host ELSE @,
        !.scheme = IF @ = "" THEN url.scheme ELSE @,
        !.path = IF @ = "" THEN url.path ELSE @]

\* With no port expected, a well-known scheme may leave out its own port.
PortMatches(want, got) ==
    IF want = ""
    THEN /\ got.scheme = "http" => got.port \in {"", "80"}
         /\ got.scheme = "https" => got.port \in {"", "443"}
    ELSE want = got.port

RedirectMatches(want, got) ==
    /\ want.host = got.host
    /\ PortMatches(want.port, got)
    /\ want.scheme = got.scheme
    /\ want.path = got.path

\* Whether defaults are filled in, that is whether the comparison gets to the
\* redirect of the response.
ReachesRedirect(expected, r) ==
    /\ expected.status = r.status
    /\ IsRedirect(r.status)
    /\ expected.redirect # <<>>

\* No error.  expected.redirect is <<>> or <<redirect>>.
CompareRequest(url, expected, r) ==
    \/ IsTimeoutError(r.status) /\ IsTimeoutError(expected.status)
    \/ /\ expected.status = r.status
       /\ r.status = 200 => BackendMatches(expected, r)
       /\ ReachesRedirect(expected, r) =>
            RedirectMatches(
                setRedirectRequestDefaults(url, expected.redirect[1], r.redirect),
                r.redirect)

-----------------------------------------------------------------------------
CONSTANTS
    Proxies,        \* the proxies of the data plane
    Cases,          \* [url, expected]: the requests of tests
    Answers(_, _)   \* responses of a proxy, by proxy and whether it is updated

\* A test case has the fields of ExpectedResponse and of RedirectRequest.
ExpectedFields == {"request", "status", "redirect", "namespace", "backend", "headers", "absent"}
RedirectFields == {"host", "port", "scheme", "path"}
WellFormed(expected) ==
    /\ expected = [f \in ExpectedFields |-> expected[f]]
    /\ \/ expected.redirect = <<>>
       \/ /\ expected.redirect = <<expected.redirect[1]>>
          /\ expected.redirect[1] = [f \in RedirectFields |-> expected.redirect[1][f]]

CasesAreWellFormed == \A c \in Cases : WellFormed(c.expected)

VARIABLES
    threshold, maxTimeToConsistency, pc, clock, successes, log,
    test,       \* the test case
    redirect,   \* expected.RedirectRequest as filled in so far
    updated,    \* proxies that have the new configuration
    last        \* history: the last response and what was made of it

waitVars == <<threshold, maxTimeToConsistency, pc, clock, successes, log>>
vars == <<waitVars, test, redirect, updated, last>>

Wait == INSTANCE AwaitConvergence

\* CaptureRoundTrip returned an error.
NoResponse == [status |-> 0]

Init ==
    /\ Wait!Init
    /\ test \in Cases
    /\ redirect = test.expected.redirect
    /\ updated = {}
    /\ last = [response |-> NoResponse, completed |-> FALSE]

\* A proxy gets the new configuration.
Update(p) ==
    /\ pc \notin {"returned", "fatal"}
    /\ p \notin updated
    /\ updated' = updated \cup {p}
    /\ UNCHANGED <<waitVars, test, redirect, last>>

Failure(d) ==
    /\ Wait!Attempt(FALSE, d)
    /\ last' = [response |-> NoResponse, completed |-> FALSE]
    /\ UNCHANGED <<test, redirect, updated>>

\* The expectation as it is now.
Current == [test.expected EXCEPT !.redirect = redirect]

\* Mutant: the redirect of the response is the expectation from now on.
FilledFromResponse(r) ==
    IF ReachesRedirect(Current, r) THEN <<r.redirect>> ELSE redirect

\* The redirect that is expected after a response has been compared.
Filled(r) ==
    IF ReachesRedirect(Current, r)
    THEN <<setRedirectRequestDefaults(test.url, redirect[1], r.redirect)>>
    ELSE redirect

Response(p, d) ==
    \E r \in Answers(p, p \in updated) :
        LET completed == CompareRequest(test.url, Current, r)
        IN  /\ Wait!Attempt(completed, d)
            /\ redirect' = Filled(r)
            /\ last' = [response |-> r, completed |-> completed]
            /\ UNCHANGED <<test, updated>>

Next ==
    \/ Wait!CheckTimeout /\ UNCHANGED <<test, redirect, updated, last>>
    \/ Wait!WaitDelay /\ UNCHANGED <<test, redirect, updated, last>>
    \/ \E d \in 0..MaxCall : Failure(d)
    \/ \E p \in Proxies, d \in 0..MaxCall : Response(p, d)
    \/ \E p \in Proxies : Update(p)
    \/ Wait!Ended /\ UNCHANGED vars

Spec == Init /\ [][Next]_vars

-----------------------------------------------------------------------------
Expected == test.expected.redirect

\* A response is judged by what the test expects and not by the responses
\* that came before it, although the expectation is updated in place; with
\* the host of a redirect given.
VerdictsAreIndependent ==
    /\ last.response # NoResponse
    /\ Expected = <<>> \/ Expected[1].host # ""
    => last.completed = CompareRequest(test.url, test.expected, last.response)
=============================================================================
