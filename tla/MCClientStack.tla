---------------------------- MODULE MCClientStack ----------------------------
(* Every typed client of the clientset, with what the CRDs and the generated  *)
(* deep copies say about its kind.                                           *)
EXTENDS ClientStack, DeepCopies

K == INSTANCE CRDGenerator

AllClients == NewForConfigAndClient

KindOf(c) == K!kubeKinds[c.resource]

StatusEndpoints ==
    {c \in AllClients : \E v \in KindOf(c).versions :
        v.name = c.version /\ "status" \in v.subresources}

RECURSIVE HasDefaults(_)
HasDefaults(s) ==
    CASE s.t = "struct" -> \E f \in DOMAIN s.fields :
            s.fields[f].default # <<>> \/ HasDefaults(s.fields[f].schema)
      [] s.t = "list" -> HasDefaults(s.of)
      [] OTHER -> FALSE

KindsWithDefaults == {c \in AllClients : HasDefaults(KindOf(c).schema.fields["spec"].schema)}

SharedWithCopies ==
    [c \in AllClients |-> [object |-> SharedParts(c.version, KindOf(c).schema),
                           list |-> SharedInList(c.version, c.list, KindOf(c).schema)]]

\* Everything, for a controller that leaves the spec alone; a selection of one
\* namespace, for one that does not.
TwoScopes ==
    { [namespace |-> "", tweak |-> FALSE, normalises |-> FALSE],
      [namespace |-> "a", tweak |-> TRUE, normalises |-> TRUE] }

\* One more request for one client, so that an object can be made again after it
\* was deleted and read; one less where there are objects to begin with.
Writes ==
    [c \in AllClients |-> CASE c = hTTPRoutesV1 -> 3
                            [] c \in {backendLBPoliciesV1alpha2, gatewaysV1beta1} -> 1
                            [] OTHER -> 2]

\* Kinds whose plural ends in "es", in "ies" and in "ys".
GivenClients == {gatewayClassesV1, backendLBPoliciesV1alpha2, gatewaysV1beta1}
=============================================================================
