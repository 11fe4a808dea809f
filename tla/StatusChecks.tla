---------------------------- MODULE StatusChecks ----------------------------
(* The comparisons of conformance/utils/kubernetes/helpers.go, without       *)
(* their polling loops.  A list of conditions is a function from condition   *)
(* types to [value, gen]: value stands for status and reason, gen is the     *)
(* observedGeneration.  A Go slice of status entries is a sequence.          *)
EXTENDS Naturals, Sequences, FiniteSets

\* "an empty Status string means Match any status".
AnyValue == "any"

\* Mutant: conditions of earlier generations count as up to date.
FilterStaleConditionsOlder(gen, conditions) ==
    {t \in DOMAIN conditions : conditions[t].gen > gen}

FilterStaleConditions(gen, conditions) ==
    {t \in DOMAIN conditions : conditions[t].gen # gen}

\* True when the error is nil; in particular for no conditions at all.
ConditionsHaveLatestObservedGeneration(gen, conditions) ==
    FilterStaleConditions(gen, conditions) = {}

findConditionInList(conditions, type, value) ==
    /\ type \in DOMAIN conditions
    /\ value = AnyValue \/ conditions[type].value = value

\* expected: type -> value.
conditionsMatch(expected, actual) ==
    /\ Cardinality(DOMAIN actual) >= Cardinality(DOMAIN expected)
    /\ \A t \in DOMAIN expected : findConditionInList(actual, t, expected[t])

\* Position by position; a parent's controller, group, kind and name are one
\* ref, its namespace is "nil", "same" or another one.
parentsForRouteMatch(expected, actual, namespaceRequired) ==
    /\ Len(expected) = Len(actual)
    /\ \A i \in 1..Len(expected) :
         /\ actual[i].ref = expected[i].ref
         /\ \/ actual[i].namespace = "same"
            \/ ~namespaceRequired /\ actual[i].namespace = "nil"
         /\ conditionsMatch(expected[i].conditions, actual[i].conditions)

\* A route kind without group belongs to the group of the Gateway API.
WithGroup(k) == [k EXCEPT !.group = IF @ = "nil" THEN "gateway" ELSE @]

SupportedKindsMatch(expected, actual) ==
    /\ expected = {} => actual = {}
    /\ \A e \in expected : \E a \in actual : WithGroup(e) = WithGroup(a)

\* Listeners are found by name, so expected and actual are functions.
listenersMatch(expected, actual) ==
    /\ Cardinality(DOMAIN expected) = Cardinality(DOMAIN actual)
    /\ \A l \in DOMAIN expected :
         /\ l \in DOMAIN actual
         /\ SupportedKindsMatch(expected[l].kinds, actual[l].kinds)
         /\ actual[l].attached = expected[l].attached
         /\ conditionsMatch(expected[l].conditions, actual[l].conditions)

\* All conditions of all parents are of the route's generation.
ParentsAreLatest(gen, parents) ==
    \A i \in 1..Len(parents) :
        ConditionsHaveLatestObservedGeneration(gen, parents[i].conditions)

-----------------------------------------------------------------------------
(* What the helpers that poll a status are called with, and the bounds of    *)
(* the models of them.                                                       *)

CONSTANTS
    Listeners,      \* names of the listeners in the Gateway's spec
    Parents,        \* sequence of parents a test expects of a route, in order
    OmitNamespace,  \* parents whose controllers leave the namespace out
    DecoderReuses,  \* Get decodes into the slices of the object passed to it
    MaxGen,         \* bound on generations of the Gateway and of the route
    Timeout,        \* polls before a helper's timeout
    MaxFaults       \* bound on failing calls of the API

Refs == {Parents[i] : i \in 1..Len(Parents)}

ASSUME PollingAssumption ==
    /\ Listeners # {} /\ IsFiniteSet(Listeners)
    /\ Len(Parents) \in Nat \ {0} /\ Cardinality(Refs) = Len(Parents)
    /\ OmitNamespace \subseteq Refs
    /\ DecoderReuses \in BOOLEAN
    /\ MaxGen \in Nat \ {0} /\ Timeout \in Nat \ {0} /\ MaxFaults \in Nat
=============================================================================
