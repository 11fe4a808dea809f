---------------------------- MODULE RoutePolling -----------------------------
(* The helpers that wait for the status of a route                           *)
(* (conformance/utils/kubernetes/helpers.go), against a route whose spec     *)
(* changes and whose parents' controllers write status from what they last   *)
(* saw of it.  A helper polls at once and then every second until its        *)
(* timeout; a poll is one Get and the comparison of what it returned.        *)
EXTENDS StatusChecks

VARIABLES
    gen,        \* metadata.generation of the route
    spec,       \* generation -> the parents that accept the route as of it
    status,     \* status.parents
    seen,       \* parent -> generation its controller last read, 0 if none
    call,       \* the helper called and what it expects
    actual,     \* parents kept from the previous poll
    emptyChecked,
    polls,      \* polls of this call
    result,     \* outcome of the last call
    good,       \* history: a poll of this call saw what is waited for
    faults

\* The calls of the helpers, with the arguments they have.
Calls ==
    [helper : {"RouteMustHaveParents", "TLSRouteMustHaveParents"},
     value : {"True", "False"}, namespaceRequired : BOOLEAN]
    \cup [helper : {"HTTPRouteMustHaveCondition"},
          value : {"True", "False"}, ref : Refs]
    \cup [helper : {"HTTPRouteMustHaveNoAcceptedParents"}]

NoCall == [helper |-> "none"]

Init ==
    /\ gen = 1
    /\ spec \in [1..MaxGen -> SUBSET Refs]
    /\ status = <<>>
    /\ seen = [r \in Refs |-> 0]
    /\ call = NoCall
    /\ actual = <<>>
    /\ emptyChecked = FALSE
    /\ polls = 0
    /\ result = "idle"
    /\ good = FALSE
    /\ faults = 0

-----------------------------------------------------------------------------
helperVars == <<call, actual, emptyChecked, polls, result, good, faults>>

\* The spec is edited.
Edit ==
    /\ gen < MaxGen
    /\ gen' = gen + 1
    /\ UNCHANGED <<spec, status, seen, helperVars>>

\* A parent's controller reads the route ...
Observe(r) ==
    /\ seen[r] # gen
    /\ seen' = [seen EXCEPT ![r] = gen]
    /\ UNCHANGED <<gen, spec, status, helperVars>>

Entry(r) ==
    [ref |-> r,
     namespace |-> IF r \in OmitNamespace THEN "nil" ELSE "same",
     conditions |-> [Accepted |-> [value |-> IF r \in spec[seen[r]]
                                             THEN "True" ELSE "False",
                                   gen |-> seen[r]]]]

\* ... and writes its entry of the status: in place, or at the end.
WriteStatus(r) ==
    /\ seen[r] > 0
    /\ LET mine == {i \in 1..Len(status) : status[i].ref = r}
       IN  status' = IF mine = {} THEN Append(status, Entry(r))
                     ELSE [status EXCEPT ![CHOOSE i \in mine : TRUE] = Entry(r)]
    /\ status' # status
    /\ UNCHANGED <<gen, spec, seen, helperVars>>

-----------------------------------------------------------------------------
\* A test calls a helper; the locals of the helper are fresh.
Begin(c) ==
    /\ result # "polling"
    /\ call' = c
    /\ actual' = <<>>
    /\ emptyChecked' = FALSE
    /\ polls' = 0
    /\ result' = "polling"
    /\ good' = FALSE
    /\ UNCHANGED <<gen, spec, status, seen, faults>>

Expected ==
    [i \in 1..Len(Parents) |->
        [ref |-> Parents[i], conditions |-> [Accepted |-> call.value]]]

Matches == parentsForRouteMatch(Expected, status, call.namespaceRequired)

Polling(helper) == result = "polling" /\ call.helper = helper

\* The end of a poll: the helper returns, or waits for the next one.
EndPoll(done, isGood) ==
    /\ polls' = polls + 1
    /\ good' = (good \/ isGood)
    /\ result' = CASE done -> "ok"
                   [] ~done /\ polls + 1 = Timeout -> "timeout"
                   [] ~done /\ polls + 1 < Timeout -> "polling"
    /\ UNCHANGED <<gen, spec, status, seen, call, faults>>

\* Mutant: each Get fills an object of its own, as a copying client does.
RouteMustHaveParentsCopied ==
    /\ Polling("RouteMustHaveParents")
    /\ LET latest == ParentsAreLatest(gen, actual)
       IN  /\ actual' = IF latest THEN status ELSE actual
           /\ EndPoll(latest /\ Matches, ParentsAreLatest(gen, status) /\ Matches)
    /\ UNCHANGED emptyChecked

\* The previous poll's parents are checked for staleness before the new ones
\* are assigned.  A decoder that reuses the slices of the object shows the new
\* parents through the old slice, up to its length.
RouteMustHaveParents ==
    /\ Polling("RouteMustHaveParents")
    /\ LET checked == IF DecoderReuses
                      THEN [i \in 1..Len(actual) |-> status[i]] ELSE actual
           latest == ParentsAreLatest(gen, checked)
       IN  /\ actual' = IF latest THEN status ELSE checked
           /\ EndPoll(latest /\ Matches, ParentsAreLatest(gen, status) /\ Matches)
    /\ UNCHANGED emptyChecked

\* No check for staleness.
TLSRouteMustHaveParents ==
    /\ Polling("TLSRouteMustHaveParents")
    /\ actual' = status
    /\ EndPoll(Matches, Matches)
    /\ UNCHANGED emptyChecked

\* Some parent that is the Gateway has the condition; stale conditions of any
\* parent are waited for.  The same for TLSRouteMustHaveCondition.
ConditionFound ==
    /\ ParentsAreLatest(gen, status)
    /\ \E i \in 1..Len(status) :
         /\ status[i].ref = call.ref
         /\ findConditionInList(status[i].conditions, "Accepted", call.value)

HTTPRouteMustHaveCondition ==
    /\ Polling("HTTPRouteMustHaveCondition")
    /\ EndPoll(ConditionFound, ConditionFound)
    /\ UNCHANGED <<actual, emptyChecked>>

\* Mutant: an empty status is believed at the first poll.
NotAcceptedAtOnce ==
    \/ status = <<>>
    \/ /\ Len(status) = 1
       /\ ParentsAreLatest(gen, status)
       /\ conditionsMatch([Accepted |-> "False"], status[1].conditions)

\* An empty status has been seen before, or the only parent has not accepted.
NotAccepted ==
    \/ status = <<>> /\ emptyChecked
    \/ /\ Len(status) = 1
       /\ ParentsAreLatest(gen, status)
       /\ conditionsMatch([Accepted |-> "False"], status[1].conditions)

HTTPRouteMustHaveNoAcceptedParents ==
    /\ Polling("HTTPRouteMustHaveNoAcceptedParents")
    /\ actual' = status
    /\ emptyChecked' = (emptyChecked \/ status = <<>>)
    /\ EndPoll(NotAccepted, NotAccepted)

\* A failing Get ends every helper at once.
GetFails ==
    /\ result = "polling"
    /\ faults < MaxFaults
    /\ faults' = faults + 1
    /\ result' = "error"
    /\ UNCHANGED <<gen, spec, status, seen, call, actual, emptyChecked, polls, good>>

Poll ==
    \/ RouteMustHaveParents \/ TLSRouteMustHaveParents
    \/ HTTPRouteMustHaveCondition \/ HTTPRouteMustHaveNoAcceptedParents

Next ==
    \/ Edit
    \/ \E r \in Refs : Observe(r) \/ WriteStatus(r)
    \/ \E c \in Calls : Begin(c)
    \/ Poll
    \/ GetFails

-----------------------------------------------------------------------------
\* A helper of the given set returns without error.
Succeeds(helpers) ==
    result = "polling" /\ result' = "ok" /\ call.helper \in helpers

\* HTTPRouteMustHaveCondition succeeds only when the condition is true of the
\* current spec: a verdict that a controller gave about an earlier generation
\* never counts, whenever that controller writes it.
ConditionIsCurrent ==
    Succeeds({"HTTPRouteMustHaveCondition"}) =>
        (call.ref \in spec[gen]) = (call.value = "True")

\* HTTPRouteMustHaveNoAcceptedParents succeeds on a status that is empty only
\* at its second poll or later, and otherwise only if the route is rejected as
\* it is now.
RejectionIsCurrent ==
    Succeeds({"HTTPRouteMustHaveNoAcceptedParents"}) =>
        IF status = <<>> THEN polls > 0
                         ELSE status[1].ref \notin spec[gen]

\* A helper that times out has met no poll at which the route had the status
\* that it waits for, up to date.
TimeoutMeansNeverSeen == result = "timeout" => ~good

\* RouteMustHaveParents succeeds only when the parents' verdicts are of the
\* current generation: "expected observedGeneration to be updated to %d for
\* all conditions".
ParentsAreCurrent ==
    Succeeds({"RouteMustHaveParents"}) => ParentsAreLatest(gen, status)
=============================================================================
