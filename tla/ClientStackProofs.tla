-------------------------- MODULE ClientStackProofs --------------------------
(* What caches, controllers and the fake clientset can rely on, for all typed *)
(* clients, namespaces and names and any number of requests and watches.      *)
EXTENDS ClientStack, Integers, TLAPS

\* Editing a DeepCopy changes nothing but the copy.  TLC evaluates the tables
\* of DeepCopies to that.
CopiesAreDeep == \A c \in Clients : Shared[c] = [object |-> {}, list |-> {}]

Objects ==
    [namespace : Spaces \cup {""}, name : Names, spec : Int, status : Int, label : BOOLEAN,
     rv : Nat]

\* At most one object, which has this key and a version of that time or before.
Slot(found, k, time) ==
    found # <<>> =>
        /\ found = <<found[1]>> /\ found[1] \in Objects
        /\ found[1].namespace = k[1] /\ found[1].name = k[2] /\ found[1].rv <= time

KeyOf(found) == <<found[1].namespace, found[1].name>>

SettingInv == \E c \in Clients, scope \in Scopes : setting = Setting(c, scope)

StoreInv ==
    /\ clock \in Nat
    /\ objects = [k \in Keys |-> objects[k]] /\ \A k \in Keys : Slot(objects[k], k, clock)
    /\ cache = [k \in Keys |-> cache[k]] /\ \A k \in Keys : Slot(cache[k], k, clock)
    /\ \E S : pending \in Seq(S)
    /\ \A i \in 1..Len(pending) :
         /\ DOMAIN pending[i] \subseteq Keys
         /\ \A k \in DOMAIN pending[i] : Slot(pending[i][k], k, clock)
    /\ mine # <<>> => KeyOf(mine) \in Keys /\ Slot(mine, KeyOf(mine), clock)
    /\ held # <<>> => KeyOf(held) \in Keys /\ Slot(held, KeyOf(held), clock)

\* The object found has the resource version of the object stored.
Current(found, stored) == found # <<>> /\ stored # <<>> /\ found[1].rv = stored[1].rv

\* A resource version stands for an object: what was read is what is stored as
\* long as the versions agree.
VersionInv ==
    /\ \A k \in Keys : Current(cache[k], objects[k]) => cache[k] = objects[k]
    /\ \A i \in 1..Len(pending) : \A k \in DOMAIN pending[i] :
         Current(pending[i][k], objects[k]) => pending[i][k] = objects[k]
    /\ \A k \in Keys : cache[k] # <<>> => InScope(cache[k][1])
    /\ held # <<>> => InScope(held[1])
    /\ held # <<>> /\ Current(held, objects[KeyOf(held)]) =>
         /\ held[1].status = objects[KeyOf(held)][1].spec
         /\ held[1].label = objects[KeyOf(held)][1].label
    /\ mine # <<>> /\ Current(mine, objects[KeyOf(mine)]) =>
         mine[1].status = objects[KeyOf(mine)][1].status

\* The tracker has what the server has, up to resource versions; what it has
\* under the plural of another resource is out of reach.
Plain(o) == [o EXCEPT !.rv = 0]
Place(k) == <<client.resource, k[1], k[2]>>

FakeInv ==
    /\ fidelity \in {"yes", "no"}
    /\ fidelity = "yes" =>
        /\ tracker = [t \in DOMAIN tracker |-> tracker[t]]
        /\ \A t \in DOMAIN tracker : t[1] = client.resource => \E k \in Keys : t = Place(k)
        /\ \A k \in Keys :
             IF Exists(k)
             THEN /\ Place(k) \in DOMAIN tracker /\ tracker[Place(k)] \in Objects
                  /\ Plain(tracker[Place(k)]) = Plain(objects[k][1])
             ELSE Place(k) \notin DOMAIN tracker
-----------------------------------------------------------------------------
(* The tables of the generated code: the informer, the lister and the fake of *)
(* a typed client are for its resource.                                       *)

LEMMA InformersAreBound ==
    \A c \in NewForConfigAndClient : ForResource(c.version, c.resource).client = c
<1> SUFFICES ASSUME NEW c \in NewForConfigAndClient
             PROVE  ForResource(c.version, c.resource).client = c
  OBVIOUS
<1>1. CASE c = gatewayClassesV1
  BY <1>1, Zenon DEF gatewayClassesV1, newClient, GatewayV1Client, ForResource, Gateway, V1,
     gatewayClassInformerV1, Informer
<1>2. CASE c = gatewaysV1
  BY <1>2, Zenon DEF gatewaysV1, newClient, GatewayV1Client, ForResource, Gateway, V1,
     gatewayInformerV1, Informer
<1>3. CASE c = hTTPRoutesV1
  BY <1>3, Zenon DEF hTTPRoutesV1, newClient, GatewayV1Client, ForResource, Gateway, V1,
     hTTPRouteInformerV1, Informer
<1>4. CASE c = gRPCRoutesV1
  BY <1>4, Zenon DEF gRPCRoutesV1, newClient, GatewayV1Client, ForResource, Gateway, V1,
     gRPCRouteInformerV1, Informer
<1>5. CASE c = gatewayClassesV1beta1
  BY <1>5, Zenon DEF gatewayClassesV1beta1, newClient, GatewayV1beta1Client, ForResource, Gateway, V1beta1,
     gatewayClassInformerV1beta1, Informer
<1>6. CASE c = gatewaysV1beta1
  BY <1>6, Zenon DEF gatewaysV1beta1, newClient, GatewayV1beta1Client, ForResource, Gateway, V1beta1,
     gatewayInformerV1beta1, Informer
<1>7. CASE c = hTTPRoutesV1beta1
  BY <1>7, Zenon DEF hTTPRoutesV1beta1, newClient, GatewayV1beta1Client, ForResource, Gateway, V1beta1,
     hTTPRouteInformerV1beta1, Informer
<1>8. CASE c = referenceGrantsV1beta1
  BY <1>8, Zenon DEF referenceGrantsV1beta1, newClient, GatewayV1beta1Client, ForResource, Gateway, V1beta1,
     referenceGrantInformerV1beta1, Informer
<1>9. CASE c = backendLBPoliciesV1alpha2
  BY <1>9, Zenon DEF backendLBPoliciesV1alpha2, newClient, GatewayV1alpha2Client, ForResource, Gateway, V1alpha2,
     backendLBPolicyInformerV1alpha2, Informer
<1>10. CASE c = gRPCRoutesV1alpha2
  BY <1>10, Zenon DEF gRPCRoutesV1alpha2, newClient, GatewayV1alpha2Client, ForResource, Gateway, V1alpha2,
     gRPCRouteInformerV1alpha2, Informer
<1>11. CASE c = referenceGrantsV1alpha2
  BY <1>11, Zenon DEF referenceGrantsV1alpha2, newClient, GatewayV1alpha2Client, ForResource, Gateway, V1alpha2,
     referenceGrantInformerV1alpha2, Informer
<1>12. CASE c = tCPRoutesV1alpha2
  BY <1>12, Zenon DEF tCPRoutesV1alpha2, newClient, GatewayV1alpha2Client, ForResource, Gateway, V1alpha2,
     tCPRouteInformerV1alpha2, Informer
<1>13. CASE c = tLSRoutesV1alpha2
  BY <1>13, Zenon DEF tLSRoutesV1alpha2, newClient, GatewayV1alpha2Client, ForResource, Gateway, V1alpha2,
     tLSRouteInformerV1alpha2, Informer
<1>14. CASE c = uDPRoutesV1alpha2
  BY <1>14, Zenon DEF uDPRoutesV1alpha2, newClient, GatewayV1alpha2Client, ForResource, Gateway, V1alpha2,
     uDPRouteInformerV1alpha2, Informer
<1>15. CASE c = backendTLSPoliciesV1alpha3
  BY <1>15, Zenon DEF backendTLSPoliciesV1alpha3, newClient, GatewayV1alpha3Client, ForResource, Gateway, V1alpha3,
     backendTLSPolicyInformerV1alpha3, Informer
<1> QED
  BY <1>1, <1>2, <1>3, <1>4, <1>5, <1>6, <1>7, <1>8, <1>9, <1>10, <1>11, <1>12, <1>13, <1>14, <1>15 DEF NewForConfigAndClient

\* Only GatewayClasses have no namespace.
LEMMA ClientScopes ==
    \A c \in NewForConfigAndClient :
        /\ c.resource = "gatewayclasses" => c.namespaced = FALSE
        /\ c.resource # "gatewayclasses" => c.namespaced = TRUE
  BY DEF NewForConfigAndClient, newClient,
     gatewayClassesV1, gatewaysV1, hTTPRoutesV1, gRPCRoutesV1, gatewayClassesV1beta1,
     gatewaysV1beta1, hTTPRoutesV1beta1, referenceGrantsV1beta1,
     backendLBPoliciesV1alpha2, gRPCRoutesV1alpha2, referenceGrantsV1alpha2,
     tCPRoutesV1alpha2, tLSRoutesV1alpha2, uDPRoutesV1alpha2,
     backendTLSPoliciesV1alpha3

LEMMA ListerScopes ==
    \A l \in Listers.v1 \cup Listers.v1beta1 \cup Listers.v1alpha2 \cup Listers.v1alpha3 :
        /\ l.resource = "gatewayclasses" => l.namespaced = FALSE
        /\ l.resource # "gatewayclasses" => l.namespaced = TRUE
  BY DEF Listers, Lister,
     gatewayClassListerV1, gatewayListerV1, hTTPRouteListerV1, gRPCRouteListerV1,
     gatewayClassListerV1beta1, gatewayListerV1beta1, hTTPRouteListerV1beta1,
     referenceGrantListerV1beta1, backendLBPolicyListerV1alpha2,
     gRPCRouteListerV1alpha2, referenceGrantListerV1alpha2, tCPRouteListerV1alpha2,
     tLSRouteListerV1alpha2, uDPRouteListerV1alpha2, backendTLSPolicyListerV1alpha3

AllFakes ==
    FakeGatewayV1 \cup FakeGatewayV1beta1 \cup FakeGatewayV1alpha2 \cup FakeGatewayV1alpha3

LEMMA FakeScopes ==
    \A f \in AllFakes :
        /\ f.resource = "gatewayclasses" => f.namespaced = FALSE
        /\ f.resource # "gatewayclasses" => f.namespaced = TRUE
  BY DEF AllFakes, FakeGatewayV1, FakeGatewayV1beta1, FakeGatewayV1alpha2, FakeGatewayV1alpha3,
     newFake,
     FakeGatewayClassesV1, FakeGatewaysV1, FakeHTTPRoutesV1, FakeGRPCRoutesV1,
     FakeGatewayClassesV1beta1, FakeGatewaysV1beta1, FakeHTTPRoutesV1beta1,
     FakeReferenceGrantsV1beta1, FakeBackendLBPoliciesV1alpha2, FakeGRPCRoutesV1alpha2,
     FakeReferenceGrantsV1alpha2, FakeTCPRoutesV1alpha2, FakeTLSRoutesV1alpha2,
     FakeUDPRoutesV1alpha2, FakeBackendTLSPoliciesV1alpha3

LEMMA ListersExist ==
    \A c \in NewForConfigAndClient : \E l \in Listers[c.version] : l.resource = c.resource
<1> SUFFICES ASSUME NEW c \in NewForConfigAndClient
             PROVE  \E l \in Listers[c.version] : l.resource = c.resource
  OBVIOUS
<1>1. CASE c = gatewayClassesV1
  <2>1. c.version = GatewayV1Client /\ gatewayClassListerV1.resource = c.resource
    BY <1>1 DEF gatewayClassesV1, newClient, gatewayClassListerV1, Lister
  <2>2. gatewayClassListerV1 \in Listers[GatewayV1Client]
    BY DEF Listers, GatewayV1Client
  <2> QED
    BY <2>1, <2>2
<1>2. CASE c = gatewaysV1
  <2>1. c.version = GatewayV1Client /\ gatewayListerV1.resource = c.resource
    BY <1>2 DEF gatewaysV1, newClient, gatewayListerV1, Lister
  <2>2. gatewayListerV1 \in Listers[GatewayV1Client]
    BY DEF Listers, GatewayV1Client
  <2> QED
    BY <2>1, <2>2
<1>3. CASE c = hTTPRoutesV1
  <2>1. c.version = GatewayV1Client /\ hTTPRouteListerV1.resource = c.resource
    BY <1>3 DEF hTTPRoutesV1, newClient, hTTPRouteListerV1, Lister
  <2>2. hTTPRouteListerV1 \in Listers[GatewayV1Client]
    BY DEF Listers, GatewayV1Client
  <2> QED
    BY <2>1, <2>2
<1>4. CASE c = gRPCRoutesV1
  <2>1. c.version = GatewayV1Client /\ gRPCRouteListerV1.resource = c.resource
    BY <1>4 DEF gRPCRoutesV1, newClient, gRPCRouteListerV1, Lister
  <2>2. gRPCRouteListerV1 \in Listers[GatewayV1Client]
    BY DEF Listers, GatewayV1Client
  <2> QED
    BY <2>1, <2>2
<1>5. CASE c = gatewayClassesV1beta1
  <2>1. c.version = GatewayV1beta1Client /\ gatewayClassListerV1beta1.resource = c.resource
    BY <1>5 DEF gatewayClassesV1beta1, newClient, gatewayClassListerV1beta1, Lister
  <2>2. gatewayClassListerV1beta1 \in Listers[GatewayV1beta1Client]
    BY DEF Listers, GatewayV1beta1Client
  <2> QED
    BY <2>1, <2>2
<1>6. CASE c = gatewaysV1beta1
  <2>1. c.version = GatewayV1beta1Client /\ gatewayListerV1beta1.resource = c.resource
    BY <1>6 DEF gatewaysV1beta1, newClient, gatewayListerV1beta1, Lister
  <2>2. gatewayListerV1beta1 \in Listers[GatewayV1beta1Client]
    BY DEF Listers, GatewayV1beta1Client
  <2> QED
    BY <2>1, <2>2
<1>7. CASE c = hTTPRoutesV1beta1
  <2>1. c.version = GatewayV1beta1Client /\ hTTPRouteListerV1beta1.resource = c.resource
    BY <1>7 DEF hTTPRoutesV1beta1, newClient, hTTPRouteListerV1beta1, Lister
  <2>2. hTTPRouteListerV1beta1 \in Listers[GatewayV1beta1Client]
    BY DEF Listers, GatewayV1beta1Client
  <2> QED
    BY <2>1, <2>2
<1>8. CASE c = referenceGrantsV1beta1
  <2>1. c.version = GatewayV1beta1Client /\ referenceGrantListerV1beta1.resource = c.resource
    BY <1>8 DEF referenceGrantsV1beta1, newClient, referenceGrantListerV1beta1, Lister
  <2>2. referenceGrantListerV1beta1 \in Listers[GatewayV1beta1Client]
    BY DEF Listers, GatewayV1beta1Client
  <2> QED
    BY <2>1, <2>2
<1>9. CASE c = backendLBPoliciesV1alpha2
  <2>1. c.version = GatewayV1alpha2Client /\ backendLBPolicyListerV1alpha2.resource = c.resource
    BY <1>9 DEF backendLBPoliciesV1alpha2, newClient, backendLBPolicyListerV1alpha2, Lister
  <2>2. backendLBPolicyListerV1alpha2 \in Listers[GatewayV1alpha2Client]
    BY DEF Listers, GatewayV1alpha2Client
  <2> QED
    BY <2>1, <2>2
<1>10. CASE c = gRPCRoutesV1alpha2
  <2>1. c.version = GatewayV1alpha2Client /\ gRPCRouteListerV1alpha2.resource = c.resource
    BY <1>10 DEF gRPCRoutesV1alpha2, newClient, gRPCRouteListerV1alpha2, Lister
  <2>2. gRPCRouteListerV1alpha2 \in Listers[GatewayV1alpha2Client]
    BY DEF Listers, GatewayV1alpha2Client
  <2> QED
    BY <2>1, <2>2
<1>11. CASE c = referenceGrantsV1alpha2
  <2>1. c.version = GatewayV1alpha2Client /\ referenceGrantListerV1alpha2.resource = c.resource
    BY <1>11 DEF referenceGrantsV1alpha2, newClient, referenceGrantListerV1alpha2, Lister
  <2>2. referenceGrantListerV1alpha2 \in Listers[GatewayV1alpha2Client]
    BY DEF Listers, GatewayV1alpha2Client
  <2> QED
    BY <2>1, <2>2
<1>12. CASE c = tCPRoutesV1alpha2
  <2>1. c.version = GatewayV1alpha2Client /\ tCPRouteListerV1alpha2.resource = c.resource
    BY <1>12 DEF tCPRoutesV1alpha2, newClient, tCPRouteListerV1alpha2, Lister
  <2>2. tCPRouteListerV1alpha2 \in Listers[GatewayV1alpha2Client]
    BY DEF Listers, GatewayV1alpha2Client
  <2> QED
    BY <2>1, <2>2
<1>13. CASE c = tLSRoutesV1alpha2
  <2>1. c.version = GatewayV1alpha2Client /\ tLSRouteListerV1alpha2.resource = c.resource
    BY <1>13 DEF tLSRoutesV1alpha2, newClient, tLSRouteListerV1alpha2, Lister
  <2>2. tLSRouteListerV1alpha2 \in Listers[GatewayV1alpha2Client]
    BY DEF Listers, GatewayV1alpha2Client
  <2> QED
    BY <2>1, <2>2
<1>14. CASE c = uDPRoutesV1alpha2
  <2>1. c.version = GatewayV1alpha2Client /\ uDPRouteListerV1alpha2.resource = c.resource
    BY <1>14 DEF uDPRoutesV1alpha2, newClient, uDPRouteListerV1alpha2, Lister
  <2>2. uDPRouteListerV1alpha2 \in Listers[GatewayV1alpha2Client]
    BY DEF Listers, GatewayV1alpha2Client
  <2> QED
    BY <2>1, <2>2
<1>15. CASE c = backendTLSPoliciesV1alpha3
  <2>1. c.version = GatewayV1alpha3Client /\ backendTLSPolicyListerV1alpha3.resource = c.resource
    BY <1>15 DEF backendTLSPoliciesV1alpha3, newClient, backendTLSPolicyListerV1alpha3, Lister
  <2>2. backendTLSPolicyListerV1alpha3 \in Listers[GatewayV1alpha3Client]
    BY DEF Listers, GatewayV1alpha3Client
  <2> QED
    BY <2>1, <2>2
<1> QED
  BY <1>1, <1>2, <1>3, <1>4, <1>5, <1>6, <1>7, <1>8, <1>9, <1>10, <1>11, <1>12, <1>13, <1>14, <1>15 DEF NewForConfigAndClient

LEMMA FakesExist ==
    \A c \in NewForConfigAndClient :
        \E f \in AllFakes : f.version = c.version /\ f.resource = c.resource
<1> SUFFICES ASSUME NEW c \in NewForConfigAndClient
             PROVE  \E f \in AllFakes : f.version = c.version /\ f.resource = c.resource
  OBVIOUS
<1>1. CASE c = gatewayClassesV1
  <2>1. FakeGatewayClassesV1.version = c.version /\ FakeGatewayClassesV1.resource = c.resource
    BY <1>1 DEF gatewayClassesV1, newClient, GatewayV1Client, FakeGatewayClassesV1, newFake
  <2> QED
    BY <2>1 DEF AllFakes, FakeGatewayV1
<1>2. CASE c = gatewaysV1
  <2>1. FakeGatewaysV1.version = c.version /\ FakeGatewaysV1.resource = c.resource
    BY <1>2 DEF gatewaysV1, newClient, GatewayV1Client, FakeGatewaysV1, newFake
  <2> QED
    BY <2>1 DEF AllFakes, FakeGatewayV1
<1>3. CASE c = hTTPRoutesV1
  <2>1. FakeHTTPRoutesV1.version = c.version /\ FakeHTTPRoutesV1.resource = c.resource
    BY <1>3 DEF hTTPRoutesV1, newClient, GatewayV1Client, FakeHTTPRoutesV1, newFake
  <2> QED
    BY <2>1 DEF AllFakes, FakeGatewayV1
<1>4. CASE c = gRPCRoutesV1
  <2>1. FakeGRPCRoutesV1.version = c.version /\ FakeGRPCRoutesV1.resource = c.resource
    BY <1>4 DEF gRPCRoutesV1, newClient, GatewayV1Client, FakeGRPCRoutesV1, newFake
  <2> QED
    BY <2>1 DEF AllFakes, FakeGatewayV1
<1>5. CASE c = gatewayClassesV1beta1
  <2>1. FakeGatewayClassesV1beta1.version = c.version /\ FakeGatewayClassesV1beta1.resource = c.resource
    BY <1>5 DEF gatewayClassesV1beta1, newClient, GatewayV1beta1Client, FakeGatewayClassesV1beta1, newFake
  <2> QED
    BY <2>1 DEF AllFakes, FakeGatewayV1beta1
<1>6. CASE c = gatewaysV1beta1
  <2>1. FakeGatewaysV1beta1.version = c.version /\ FakeGatewaysV1beta1.resource = c.resource
    BY <1>6 DEF gatewaysV1beta1, newClient, GatewayV1beta1Client, FakeGatewaysV1beta1, newFake
  <2> QED
    BY <2>1 DEF AllFakes, FakeGatewayV1beta1
<1>7. CASE c = hTTPRoutesV1beta1
  <2>1. FakeHTTPRoutesV1beta1.version = c.version /\ FakeHTTPRoutesV1beta1.resource = c.resource
    BY <1>7 DEF hTTPRoutesV1beta1, newClient, GatewayV1beta1Client, FakeHTTPRoutesV1beta1, newFake
  <2> QED
    BY <2>1 DEF AllFakes, FakeGatewayV1beta1
<1>8. CASE c = referenceGrantsV1beta1
  <2>1. FakeReferenceGrantsV1beta1.version = c.version /\ FakeReferenceGrantsV1beta1.resource = c.resource
    BY <1>8 DEF referenceGrantsV1beta1, newClient, GatewayV1beta1Client, FakeReferenceGrantsV1beta1, newFake
  <2> QED
    BY <2>1 DEF AllFakes, FakeGatewayV1beta1
<1>9. CASE c = backendLBPoliciesV1alpha2
  <2>1. FakeBackendLBPoliciesV1alpha2.version = c.version /\ FakeBackendLBPoliciesV1alpha2.resource = c.resource
    BY <1>9 DEF backendLBPoliciesV1alpha2, newClient, GatewayV1alpha2Client, FakeBackendLBPoliciesV1alpha2, newFake
  <2> QED
    BY <2>1 DEF AllFakes, FakeGatewayV1alpha2
<1>10. CASE c = gRPCRoutesV1alpha2
  <2>1. FakeGRPCRoutesV1alpha2.version = c.version /\ FakeGRPCRoutesV1alpha2.resource = c.resource
    BY <1>10 DEF gRPCRoutesV1alpha2, newClient, GatewayV1alpha2Client, FakeGRPCRoutesV1alpha2, newFake
  <2> QED
    BY <2>1 DEF AllFakes, FakeGatewayV1alpha2
<1>11. CASE c = referenceGrantsV1alpha2
  <2>1. FakeReferenceGrantsV1alpha2.version = c.version /\ FakeReferenceGrantsV1alpha2.resource = c.resource
    BY <1>11 DEF referenceGrantsV1alpha2, newClient, GatewayV1alpha2Client, FakeReferenceGrantsV1alpha2, newFake
  <2> QED
    BY <2>1 DEF AllFakes, FakeGatewayV1alpha2
<1>12. CASE c = tCPRoutesV1alpha2
  <2>1. FakeTCPRoutesV1alpha2.version = c.version /\ FakeTCPRoutesV1alpha2.resource = c.resource
    BY <1>12 DEF tCPRoutesV1alpha2, newClient, GatewayV1alpha2Client, FakeTCPRoutesV1alpha2, newFake
  <2> QED
    BY <2>1 DEF AllFakes, FakeGatewayV1alpha2
<1>13. CASE c = tLSRoutesV1alpha2
  <2>1. FakeTLSRoutesV1alpha2.version = c.version /\ FakeTLSRoutesV1alpha2.resource = c.resource
    BY <1>13 DEF tLSRoutesV1alpha2, newClient, GatewayV1alpha2Client, FakeTLSRoutesV1alpha2, newFake
  <2> QED
    BY <2>1 DEF AllFakes, FakeGatewayV1alpha2
<1>14. CASE c = uDPRoutesV1alpha2
  <2>1. FakeUDPRoutesV1alpha2.version = c.version /\ FakeUDPRoutesV1alpha2.resource = c.resource
    BY <1>14 DEF uDPRoutesV1alpha2, newClient, GatewayV1alpha2Client, FakeUDPRoutesV1alpha2, newFake
  <2> QED
    BY <2>1 DEF AllFakes, FakeGatewayV1alpha2
<1>15. CASE c = backendTLSPoliciesV1alpha3
  <2>1. FakeBackendTLSPoliciesV1alpha3.version = c.version /\ FakeBackendTLSPoliciesV1alpha3.resource = c.resource
    BY <1>15 DEF backendTLSPoliciesV1alpha3, newClient, GatewayV1alpha3Client, FakeBackendTLSPoliciesV1alpha3, newFake
  <2> QED
    BY <2>1 DEF AllFakes, FakeGatewayV1alpha3
<1> QED
  BY <1>1, <1>2, <1>3, <1>4, <1>5, <1>6, <1>7, <1>8, <1>9, <1>10, <1>11, <1>12, <1>13, <1>14, <1>15 DEF NewForConfigAndClient

LEMMA ListersAreBound ==
    \A c \in NewForConfigAndClient : ListerOf(c.version, c.resource).namespaced = c.namespaced
<1> SUFFICES ASSUME NEW c \in NewForConfigAndClient
             PROVE  ListerOf(c.version, c.resource).namespaced = c.namespaced
  OBVIOUS
<1> DEFINE l == ListerOf(c.version, c.resource)
<1>1. l \in Listers[c.version] /\ l.resource = c.resource
  BY ListersExist, Zenon DEF ListerOf
<1>2. c.version \in {"v1", "v1beta1", "v1alpha2", "v1alpha3"}
  BY DEF NewForConfigAndClient, newClient, GatewayV1Client, GatewayV1beta1Client,
     GatewayV1alpha2Client, GatewayV1alpha3Client,
     gatewayClassesV1, gatewaysV1, hTTPRoutesV1, gRPCRoutesV1, gatewayClassesV1beta1,
     gatewaysV1beta1, hTTPRoutesV1beta1, referenceGrantsV1beta1,
     backendLBPoliciesV1alpha2, gRPCRoutesV1alpha2, referenceGrantsV1alpha2,
     tCPRoutesV1alpha2, tLSRoutesV1alpha2, uDPRoutesV1alpha2,
     backendTLSPoliciesV1alpha3
<1>3. /\ l.resource = "gatewayclasses" => l.namespaced = FALSE
      /\ l.resource # "gatewayclasses" => l.namespaced = TRUE
  BY <1>1, <1>2, ListerScopes
<1> QED
  BY <1>1, <1>3, ClientScopes, Zenon

LEMMA FakesAreBound ==
    \A c \in NewForConfigAndClient :
        /\ FakeOf(c.version, c.resource).resource = c.resource
        /\ FakeOf(c.version, c.resource).namespaced = c.namespaced
<1> SUFFICES ASSUME NEW c \in NewForConfigAndClient
             PROVE  /\ FakeOf(c.version, c.resource).resource = c.resource
                    /\ FakeOf(c.version, c.resource).namespaced = c.namespaced
  OBVIOUS
<1> DEFINE f == FakeOf(c.version, c.resource)
<1>1. f \in AllFakes /\ f.resource = c.resource
  BY FakesExist, Zenon DEF FakeOf, AllFakes
<1> QED
  BY <1>1, FakeScopes, ClientScopes, Zenon

-----------------------------------------------------------------------------
(* The setting and the requests.                                              *)

LEMMA SettingFacts ==
    ASSUME SettingInv
    PROVE  /\ client \in Clients /\ client \in NewForConfigAndClient
           /\ setting.namespace \in Spaces \cup {""}
           /\ setting.tweak \in BOOLEAN
           /\ CopiesAreDeep => setting.shared.object = {} /\ setting.shared.list = {}
<1>1. PICK c \in Clients, scope \in Scopes : setting = Setting(c, scope)
  BY DEF SettingInv
<1>2. /\ client = c /\ setting.namespace = scope.namespace /\ setting.tweak = scope.tweak
      /\ setting.shared = Shared[c]
  BY <1>1 DEF Setting, client
<1>3. CopiesAreDeep => setting.shared.object = {} /\ setting.shared.list = {}
  BY <1>2 DEF CopiesAreDeep
<1>4. scope.namespace \in Spaces \cup {""} /\ scope.tweak \in BOOLEAN
  BY StackAssumption, Zenon
<1> QED
  BY <1>2, <1>3, <1>4, StackAssumption, Zenon

LEMMA KeyFacts ==
    ASSUME SettingInv, NEW k \in Keys
    PROVE  /\ k = <<k[1], k[2]>> /\ k[1] \in Spaces \cup {""} /\ k[2] \in Names
           /\ client.namespaced => k[1] # ""
           /\ ~client.namespaced => k[1] = ""
<1>1. k = <<k[1], k[2]>> /\ k[1] \in Namespaces /\ k[2] \in Names
  BY DEF Keys
<1>2. CASE client.namespaced
  BY <1>1, <1>2, StackAssumption, Zenon DEF Namespaces
<1>3. CASE ~client.namespaced
  BY <1>1, <1>3, StackAssumption, Zenon DEF Namespaces
<1> QED
  BY <1>2, <1>3, Zenon

Answer(ok, f) == [ok |-> ok, objects |-> f]
Stored(k, o) == [objects EXCEPT ![k] = << [o EXCEPT !.rv = clock + 1] >>]

\* What is stored is what was sent, unless the server has something to add.
LEMMA DefaultedSpec ==
    ASSUME NEW v \in Int
    PROVE  /\ Defaulted(v) \in Int
           /\ Imitable(v) => Defaulted(v) = v /\ v # Invalid
  BY DEF Defaulted, Imitable

LEMMA NewObjects ==
    ASSUME SettingInv, NEW k \in Keys, NEW l \in BOOLEAN, NEW v \in Int
    PROVE  /\ Object(k, v, l) \in Objects
           /\ Object(k, v, l).namespace = k[1] /\ Object(k, v, l).name = k[2]
<1>1. k[1] \in Spaces \cup {""} /\ k[2] \in Names
  BY KeyFacts, Zenon
<1>2. Object(k, v, l).namespace = k[1] /\ Object(k, v, l).name = k[2]
  BY DEF Object
<1>3. 0 \in Int /\ 0 \in Nat
  OBVIOUS
<1>4. Object(k, v, l) \in Objects
  BY <1>1, <1>3, Zenon DEF Object, Objects, None
<1> QED
  BY <1>2, <1>4

LEMMA SameObject ==
    ASSUME NEW a \in Objects, NEW b \in Objects, a.namespace = b.namespace, a.name = b.name,
           a.spec = b.spec, a.status = b.status, a.label = b.label, a.rv = b.rv
    PROVE  a = b
<1>1. /\ DOMAIN a = {"namespace", "name", "spec", "status", "label", "rv"}
      /\ DOMAIN b = {"namespace", "name", "spec", "status", "label", "rv"}
      /\ a = [f \in DOMAIN a |-> a[f]] /\ b = [f \in DOMAIN b |-> b[f]]
  BY Zenon DEF Objects
<1>2. \A f \in DOMAIN a : a[f] = b[f]
  BY <1>1
<1> QED
  BY <1>1, <1>2

LEMMA CreatedObject ==
    ASSUME SettingInv, NEW k \in Keys, NEW l \in BOOLEAN, NEW v \in Int
    PROVE  [Object(k, v, l) EXCEPT !.spec = Defaulted(@), !.status = None]
             = Object(k, Defaulted(v), l)
<1> DEFINE o == Object(k, v, l)
           w == Defaulted(v)
           n == Object(k, w, l)
           m == [o EXCEPT !.spec = Defaulted(@), !.status = None]
<1>1. w \in Int /\ o \in Objects /\ n \in Objects
  BY DefaultedSpec, NewObjects, Zenon
<1>2. /\ o.spec = v
      /\ o.namespace = n.namespace /\ o.name = n.name /\ o.label = n.label /\ o.rv = n.rv
      /\ n.spec = w /\ n.status = None
  BY Zenon DEF Object
<1> HIDE DEF o, n
<1>3. None \in Int
  BY DEF None
<1>4. /\ m \in Objects /\ m.namespace = o.namespace /\ m.name = o.name /\ m.spec = w
      /\ m.status = None /\ m.label = o.label /\ m.rv = o.rv
  BY <1>1, <1>2, <1>3, Zenon DEF Objects
<1> HIDE DEF m
<1>5. m = n
  BY <1>1, <1>2, <1>4, SameObject, Zenon
<1> QED
  BY <1>5 DEF m, n, o

LEMMA ServeCreate ==
    ASSUME SettingInv, StoreInv, NEW k \in Keys, NEW l \in BOOLEAN, NEW v \in Int
    PROVE  Serve(Create(client, k[1], Object(k, v, l))) =
             IF Exists(k) \/ v = Invalid THEN Answer(FALSE, objects)
             ELSE Answer(TRUE, Stored(k, Object(k, Defaulted(v), l)))
<1> DEFINE o == Object(k, v, l)
           n == Object(k, Defaulted(v), l)
           r == Create(client, k[1], o)
<1>0. o.name = k[2] /\ o.spec = v
  BY DEF Object
<1>1. [o EXCEPT !.spec = Defaulted(@), !.status = None] = n
  BY CreatedObject
<1> HIDE DEF o, n
<1>2. r.verb = "post" /\ r.subresource = "" /\ r.body = o /\ r.name = k[2]
  BY <1>0 DEF Create, NewRequest
<1>3. r.namespace = k[1]
  BY KeyFacts, Zenon DEF Create, NewRequest
<1>4. <<r.namespace, r.name>> = k
  BY <1>2, <1>3, KeyFacts, Zenon
<1>5. k \in DOMAIN objects
  BY DEF StoreInv
<1> HIDE DEF r
<1>6. Refused(r) <=> Exists(k) \/ v = Invalid
  BY <1>0, <1>2, <1>4, <1>5, Zenon DEF Refused, WritesSpec
<1>7. Written(r) = n
  BY <1>1, <1>2, Zenon DEF Written
<1>8. Serve(r) = IF Exists(k) \/ v = Invalid THEN Answer(FALSE, objects)
                 ELSE Answer(TRUE, Stored(k, n))
  BY <1>2, <1>4, <1>6, <1>7, Zenon DEF Serve, Answer, Stored
<1> QED
  BY <1>8, Zenon DEF r, o, n

LEMMA ServeDelete ==
    ASSUME SettingInv, StoreInv, NEW k \in Keys
    PROVE  Serve(Delete(client, k[1], k[2])) =
             IF Exists(k) THEN Answer(TRUE, [objects EXCEPT ![k] = <<>>])
             ELSE Answer(FALSE, objects)
<1> DEFINE r == Delete(client, k[1], k[2])
<1>1. r.verb = "delete" /\ r.subresource = "" /\ r.name = k[2]
  BY DEF Delete, NewRequest
<1>2. r.namespace = k[1]
  BY KeyFacts, Zenon DEF Delete, NewRequest
<1>3. <<r.namespace, r.name>> = k
  BY <1>1, <1>2, KeyFacts, Zenon
<1>4. k \in DOMAIN objects
  BY DEF StoreInv
<1> HIDE DEF r
<1>5. Refused(r) <=> ~Exists(k)
  BY <1>1, <1>3, <1>4, Zenon DEF Refused, WritesSpec
<1>6. Serve(r) = IF Exists(k) THEN Answer(TRUE, [objects EXCEPT ![k] = <<>>])
                 ELSE Answer(FALSE, objects)
  BY <1>1, <1>3, <1>5, Zenon DEF Serve, Answer
<1> QED
  BY <1>6 DEF r

LEMMA ServeGet ==
    ASSUME SettingInv, StoreInv, NEW k \in Keys
    PROVE  Serve(Get(client, k[1], k[2])).ok <=> Exists(k)
<1> DEFINE r == Get(client, k[1], k[2])
<1>1. r.verb = "get" /\ r.subresource = "" /\ r.name = k[2]
  BY DEF Get, NewRequest
<1>2. r.namespace = k[1]
  BY KeyFacts, Zenon DEF Get, NewRequest
<1>3. <<r.namespace, r.name>> = k
  BY <1>1, <1>2, KeyFacts, Zenon
<1>4. k \in DOMAIN objects
  BY DEF StoreInv
<1> HIDE DEF r
<1>5. Refused(r) <=> ~Exists(k)
  BY <1>1, <1>3, <1>4, Zenon DEF Refused, WritesSpec
<1>6. Serve(r).ok <=> Exists(k)
  BY <1>1, <1>5, Zenon DEF Serve
<1> QED
  BY <1>6 DEF r

\* A patch or an apply configuration of the spec.
LEMMA Merged ==
    ASSUME NEW o \in Objects, NEW v \in Int
    PROVE  /\ MergePatch(o, [spec |-> v]) = [o EXCEPT !.spec = v]
           /\ MergePatch(o, [name |-> o.name, spec |-> v]) = [o EXCEPT !.spec = v]
<1> DEFINE d == [spec |-> v]
           c == [name |-> o.name, spec |-> v]
           e == [o EXCEPT !.spec = v]
<1>1. DOMAIN o = {"namespace", "name", "spec", "status", "label", "rv"}
  BY Zenon DEF Objects
<1>2. \A x : MergePatch(o, x) = [f \in DOMAIN o |-> IF f \in DOMAIN x THEN x[f] ELSE o[f]]
  BY DEF MergePatch
<1>3. e = [f \in DOMAIN o |-> e[f]] /\ \A f \in DOMAIN o : e[f] = IF f = "spec" THEN v ELSE o[f]
  BY Zenon DEF Objects
<1>4. \A f \in DOMAIN o : MergePatch(o, d)[f] = IF f = "spec" THEN v ELSE o[f]
  BY <1>2
<1>5. \A f \in DOMAIN o : MergePatch(o, c)[f] = IF f = "spec" THEN v ELSE o[f]
  BY <1>2
<1> HIDE DEF d, c, e
<1>6. MergePatch(o, d) = e
  BY <1>2, <1>3, <1>4
<1>7. MergePatch(o, c) = e
  BY <1>2, <1>3, <1>5
<1> QED
  BY <1>6, <1>7 DEF d, c, e

\* The status that a write of the whole object leaves.
Kept(k, status) == IF setting.statusEndpoint THEN objects[k][1].status ELSE status

\* What is stored for a write of the whole object.
Whole(k, o) == [o EXCEPT !.spec = Defaulted(o.spec), !.status = Kept(k, o.status)]

LEMMA ServeUpdate ==
    ASSUME SettingInv, StoreInv, NEW k \in Keys, NEW o \in Objects,
           k = <<o.namespace, o.name>>
    PROVE  Serve(Update(client, o.namespace, o)) =
             IF Exists(k) /\ o.rv = objects[k][1].rv /\ o.spec # Invalid
             THEN Answer(TRUE, Stored(k, Whole(k, o)))
             ELSE Answer(FALSE, objects)
<1> DEFINE r == Update(client, o.namespace, o)
<1>1. r.verb = "put" /\ r.subresource = "" /\ r.name = k[2] /\ r.body = o
  BY DEF Update, NewRequest
<1>2. r.namespace = k[1]
  BY KeyFacts, Zenon DEF Update, NewRequest
<1>3. <<r.namespace, r.name>> = k
  BY <1>1, <1>2, KeyFacts, Zenon
<1>4. k \in DOMAIN objects
  BY DEF StoreInv
<1> HIDE DEF r
<1>5. Refused(r) <=> ~(Exists(k) /\ o.rv = objects[k][1].rv /\ o.spec # Invalid)
  BY <1>1, <1>3, <1>4, Zenon DEF Refused, WritesSpec
<1>6. Written(r) = Whole(k, o)
  BY <1>1, <1>3, Zenon DEF Written, Whole, Kept
<1>7. Serve(r) = IF Exists(k) /\ o.rv = objects[k][1].rv /\ o.spec # Invalid
                 THEN Answer(TRUE, Stored(k, Whole(k, o)))
                 ELSE Answer(FALSE, objects)
  BY <1>1, <1>3, <1>5, <1>6, Zenon DEF Serve, Answer, Stored
<1> QED
  BY <1>7 DEF r

LEMMA ServeUpdateStatus ==
    ASSUME SettingInv, StoreInv, NEW k \in Keys, NEW o \in Objects,
           k = <<o.namespace, o.name>>
    PROVE  Serve(UpdateStatus(client, o.namespace, o)) =
             IF setting.statusEndpoint /\ Exists(k) /\ o.rv = objects[k][1].rv
             THEN Answer(TRUE, Stored(k, [objects[k][1] EXCEPT !.status = o.status]))
             ELSE Answer(FALSE, objects)
<1> DEFINE r == UpdateStatus(client, o.namespace, o)
<1>1. r.verb = "put" /\ r.subresource = "status" /\ r.name = k[2] /\ r.body = o
  BY DEF UpdateStatus, NewRequest
<1>2. r.namespace = k[1]
  BY KeyFacts, Zenon DEF UpdateStatus, NewRequest
<1>3. <<r.namespace, r.name>> = k
  BY <1>1, <1>2, KeyFacts, Zenon
<1>4. k \in DOMAIN objects
  BY DEF StoreInv
<1> HIDE DEF r
<1>5. Refused(r) <=> ~(setting.statusEndpoint /\ Exists(k) /\ o.rv = objects[k][1].rv)
  BY <1>1, <1>3, <1>4 DEF Refused, WritesSpec
<1>6. Written(r) = [objects[k][1] EXCEPT !.status = o.status]
  BY <1>1, <1>3 DEF Written
<1>7. Serve(r) = IF setting.statusEndpoint /\ Exists(k) /\ o.rv = objects[k][1].rv
                 THEN Answer(TRUE, Stored(k, [objects[k][1] EXCEPT !.status = o.status]))
                 ELSE Answer(FALSE, objects)
  BY <1>1, <1>3, <1>5, <1>6, Zenon DEF Serve, Answer, Stored
<1> QED
  BY <1>7 DEF r

\* A patch that changes the spec of an old object leaves the rest.
LEMMA PatchedObject ==
    ASSUME NEW old \in Objects, NEW v \in Int
    PROVE  [[old EXCEPT !.spec = v] EXCEPT
              !.spec = Defaulted(@), !.status = IF setting.statusEndpoint THEN old.status ELSE @]
             = [old EXCEPT !.spec = Defaulted(v)]
  BY Zenon DEF Objects

LEMMA ServePatch ==
    ASSUME SettingInv, StoreInv, NEW k \in Keys, NEW v \in Int
    PROVE  Serve(Patch(client, k[1], k[2], [spec |-> v], "")) =
             IF Exists(k) /\ v # Invalid
             THEN Answer(TRUE, Stored(k, [objects[k][1] EXCEPT !.spec = Defaulted(v)]))
             ELSE Answer(FALSE, objects)
<1> DEFINE d == [spec |-> v]
           r == Patch(client, k[1], k[2], d, "")
           old == objects[k][1]
           n == [old EXCEPT !.spec = Defaulted(v)]
<1>1. r.verb = "patch" /\ r.subresource = "" /\ r.name = k[2] /\ r.body = d /\ r.body.spec = v
  BY DEF Patch, NewRequest
<1>2. r.namespace = k[1]
  BY KeyFacts, Zenon DEF Patch, NewRequest
<1>3. <<r.namespace, r.name>> = k
  BY <1>1, <1>2, KeyFacts, Zenon
<1>4. k \in DOMAIN objects
  BY DEF StoreInv
<1> HIDE DEF r
<1>5. Refused(r) <=> ~(Exists(k) /\ v # Invalid)
  BY <1>1, <1>3, <1>4, Zenon DEF Refused, WritesSpec
<1>6. Exists(k) => Written(r) = n
  <2> SUFFICES ASSUME Exists(k) PROVE Written(r) = n
    OBVIOUS
  <2>1. old \in Objects
    BY DEF StoreInv, Slot, Exists
  <2>2. Written(r) = [MergePatch(old, d) EXCEPT
                        !.spec = Defaulted(@),
                        !.status = IF setting.statusEndpoint THEN old.status ELSE @]
    <3> HIDE DEF d
    <3> QED
      BY <1>1, <1>3, Zenon DEF Written
  <2>3. MergePatch(old, d) = [old EXCEPT !.spec = v]
    BY <2>1, Merged
  <2> HIDE DEF old, d
  <2>4. [[old EXCEPT !.spec = v] EXCEPT
           !.spec = Defaulted(@), !.status = IF setting.statusEndpoint THEN old.status ELSE @] = n
    BY <2>1, PatchedObject, Zenon
  <2> QED
    BY <2>2, <2>3, <2>4, Zenon
<1> HIDE DEF n, d
<1>7. Serve(r) = IF Exists(k) /\ v # Invalid THEN Answer(TRUE, Stored(k, n))
                 ELSE Answer(FALSE, objects)
  BY <1>1, <1>3, <1>5, <1>6, Zenon DEF Serve, Answer, Stored
<1> QED
  BY <1>7, Zenon DEF r, n, d

LEMMA ServeApply ==
    ASSUME SettingInv, StoreInv, NEW k \in Keys, NEW v \in Int
    PROVE  Serve(Apply(client, k[1], [name |-> k[2], spec |-> v])) =
             IF v = Invalid THEN Answer(FALSE, objects)
             ELSE IF Exists(k)
             THEN Answer(TRUE, Stored(k, [objects[k][1] EXCEPT !.spec = Defaulted(v)]))
             ELSE Answer(TRUE, Stored(k, Object(k, Defaulted(v), FALSE)))
<1> DEFINE d == [name |-> k[2], spec |-> v]
           r == Apply(client, k[1], d)
           old == objects[k][1]
           n == [old EXCEPT !.spec = Defaulted(v)]
           o == Object(k, Defaulted(v), FALSE)
<1>1. r.verb = "apply" /\ r.subresource = "" /\ r.name = k[2] /\ r.body = d /\ r.body.spec = v
  BY DEF Apply, NewRequest
<1>2. r.namespace = k[1]
  BY KeyFacts, Zenon DEF Apply, NewRequest
<1>3. <<r.namespace, r.name>> = k
  BY <1>1, <1>2, KeyFacts, Zenon
<1>4. k \in DOMAIN objects
  BY DEF StoreInv
<1> HIDE DEF r
<1>5. Refused(r) <=> v = Invalid
  BY <1>1, <1>3, <1>4, Zenon DEF Refused, WritesSpec
<1>6. Exists(k) => Written(r) = n
  <2> SUFFICES ASSUME Exists(k) PROVE Written(r) = n
    OBVIOUS
  <2>1. old \in Objects /\ old.name = k[2]
    BY DEF StoreInv, Slot, Exists
  <2>2. Written(r) = [MergePatch(old, d) EXCEPT
                        !.spec = Defaulted(@),
                        !.status = IF setting.statusEndpoint THEN old.status ELSE @]
    <3> HIDE DEF d
    <3> QED
      BY <1>1, <1>3, Zenon DEF Written
  <2>3. MergePatch(old, d) = [old EXCEPT !.spec = v]
    BY <2>1, Merged
  <2> HIDE DEF old, d
  <2>4. [[old EXCEPT !.spec = v] EXCEPT
           !.spec = Defaulted(@), !.status = IF setting.statusEndpoint THEN old.status ELSE @] = n
    BY <2>1, PatchedObject, Zenon
  <2> QED
    BY <2>2, <2>3, <2>4, Zenon
<1> HIDE DEF n, d
<1>7. ~Exists(k) => Written(r) = o
  BY <1>1, <1>3, Zenon DEF Written
<1> HIDE DEF o
<1>8. Serve(r) = IF v = Invalid THEN Answer(FALSE, objects)
                 ELSE IF Exists(k) THEN Answer(TRUE, Stored(k, n)) ELSE Answer(TRUE, Stored(k, o))
  BY <1>1, <1>3, <1>5, <1>6, <1>7, Zenon DEF Serve, Answer, Stored
<1> QED
  BY <1>8, Zenon DEF r, n, d, o

-----------------------------------------------------------------------------
(* What a request does to the objects, and to what was read of them.          *)

\* The objects f differ from those stored in objects that are gone or have the
\* next resource version.
Moves(f) ==
    /\ f = [k \in Keys |-> f[k]]
    /\ \A k \in Keys :
         \/ f[k] = objects[k]
         \/ f[k] = <<>>
         \/ /\ f[k] = <<f[k][1]>> /\ f[k][1] \in Objects
            /\ f[k][1].namespace = k[1] /\ f[k][1].name = k[2] /\ f[k][1].rv = clock + 1

LEMMA StoredMoves ==
    ASSUME StoreInv, NEW k \in Keys, NEW o \in Objects, o.namespace = k[1], o.name = k[2]
    PROVE  Moves(Stored(k, o))
<1> DEFINE f == Stored(k, o)
           n == [o EXCEPT !.rv = clock + 1]
<1>1. objects = [j \in Keys |-> objects[j]] /\ clock + 1 \in Nat
  BY DEF StoreInv
<1>2. n \in Objects /\ n.namespace = k[1] /\ n.name = k[2] /\ n.rv = clock + 1
  BY <1>1, Zenon DEF Objects
<1>3. f = [objects EXCEPT ![k] = <<n>>]
  BY DEF Stored
<1> HIDE DEF n
<1>4. \A j \in Keys : f[j] = IF j = k THEN <<n>> ELSE objects[j]
  BY <1>1, <1>3
<1>5. f = [j \in Keys |-> f[j]]
  BY <1>1, <1>3
<1> QED
  BY <1>2, <1>4, <1>5 DEF Moves

LEMMA EmptiedMoves ==
    ASSUME StoreInv, NEW k \in Keys
    PROVE  Moves([objects EXCEPT ![k] = <<>>])
  BY DEF Moves, StoreInv

LEMMA SameMoves ==
    ASSUME StoreInv
    PROVE  Moves(objects)
  BY DEF Moves, StoreInv

LEMMA DeletedMoves ==
    ASSUME SettingInv, StoreInv, NEW ns, NEW l
    PROVE  /\ Serve(DeleteCollection(client, ns, [labelled |-> l])).ok
           /\ Moves(Serve(DeleteCollection(client, ns, [labelled |-> l])).objects)
<1> DEFINE r == DeleteCollection(client, ns, [labelled |-> l])
<1>1. r.verb = "deletecollection"
  BY DEF DeleteCollection, NewRequest
<1> HIDE DEF r
<1>2. Serve(r) = [ok |-> TRUE,
          objects |-> [k \in DOMAIN objects |->
                          IF Exists(k) /\ Selected(r.namespace, r.options, objects[k][1])
                          THEN <<>> ELSE objects[k]]]
  BY <1>1 DEF Serve
<1>3. Serve(r).ok /\ Moves(Serve(r).objects)
  BY <1>2 DEF Moves, StoreInv
<1> QED
  BY <1>3 DEF r

\* What Change does, key by key.
LEMMA Changes ==
    ASSUME StoreInv, NEW r, Moves(Serve(r).objects), Change(r), setting' = setting
    PROVE  /\ Keys' = Keys
           /\ clock' \in Nat /\ clock <= clock'
           /\ objects' = [k \in Keys |-> objects'[k]]
           /\ \A k \in Keys :
                \/ objects'[k] = objects[k]
                \/ objects'[k] = <<>>
                \/ /\ objects'[k] = <<objects'[k][1]>> /\ objects'[k][1] \in Objects
                   /\ objects'[k][1].namespace = k[1] /\ objects'[k][1].name = k[2]
                   /\ objects'[k][1].rv = clock + 1 /\ clock' = clock + 1
           /\ \/ pending' = pending /\ objects' = objects
              \/ \E D \in SUBSET Keys :
                   /\ pending' = Append(pending, [k \in D |-> objects'[k]])
                   /\ \A k \in Keys \ D : objects'[k] = objects[k]
<1> DEFINE f == Serve(r).objects
           D == {k \in DOMAIN objects : f[k] # objects[k]}
<1>1. /\ objects' = f
      /\ clock' = IF D = {} THEN clock ELSE clock + 1
      /\ pending' = IF D = {} THEN pending ELSE Append(pending, [k \in D |-> f[k]])
  BY DEF Change
<1>2. /\ f = [k \in Keys |-> f[k]]
      /\ \A k \in Keys :
         \/ f[k] = objects[k]
         \/ f[k] = <<>>
         \/ /\ f[k] = <<f[k][1]>> /\ f[k][1] \in Objects
            /\ f[k][1].namespace = k[1] /\ f[k][1].name = k[2] /\ f[k][1].rv = clock + 1
  BY DEF Moves
<1>3. clock \in Nat /\ objects = [k \in Keys |-> objects[k]]
  BY DEF StoreInv
<1> HIDE DEF f
<1>4. Keys' = Keys
  BY DEF Keys, Namespaces, client
<1>5. D \subseteq Keys /\ \A k \in Keys \ D : f[k] = objects[k]
  BY <1>3
<1>6. D = {} => f = objects
  BY <1>2, <1>3, <1>5
<1> HIDE DEF D
<1>7. CASE D = {}
  BY <1>1, <1>2, <1>3, <1>4, <1>6, <1>7
<1>8. CASE D # {}
  <2>1. clock' = clock + 1 /\ pending' = Append(pending, [k \in D |-> objects'[k]])
    BY <1>1, <1>8
  <2>2. clock' \in Nat /\ clock <= clock'
    BY <1>3, <2>1
  <2>3. \A k \in Keys \ D : objects'[k] = objects[k]
    BY <1>1, <1>5
  <2>4. \E E \in SUBSET Keys : /\ pending' = Append(pending, [k \in E |-> objects'[k]])
                              /\ \A k \in Keys \ E : objects'[k] = objects[k]
    BY <1>5, <2>1, <2>3, Zenon
  <2>5. objects' = [k \in Keys |-> objects'[k]]
    BY <1>1, <1>2
  <2>6. \A k \in Keys :
          \/ objects'[k] = objects[k]
          \/ objects'[k] = <<>>
          \/ /\ objects'[k] = <<objects'[k][1]>> /\ objects'[k][1] \in Objects
             /\ objects'[k][1].namespace = k[1] /\ objects'[k][1].name = k[2]
             /\ objects'[k][1].rv = clock + 1 /\ clock' = clock + 1
    BY <1>1, <1>2, <2>1
  <2> QED
    BY <1>4, <2>2, <2>4, <2>5, <2>6, Zenon
<1> QED
  BY <1>7, <1>8

LEMMA SlotsLast ==
    ASSUME NEW found, NEW k, NEW t \in Nat, NEW u \in Nat, t <= u, Slot(found, k, t)
    PROVE  Slot(found, k, u)
<1>1. CASE found = <<>>
  BY <1>1 DEF Slot
<1>2. CASE found # <<>>
  <2>1. found[1] \in Objects /\ found[1].rv <= t
    BY <1>2 DEF Slot
  <2>2. found[1].rv \in Nat
    BY <2>1, Zenon DEF Objects
  <2>3. found[1].rv <= u
    BY <2>1, <2>2
  <2> QED
    BY <2>3 DEF Slot
<1> QED
  BY <1>1, <1>2

LEMMA ChangeKeepsStore ==
    ASSUME SettingInv, StoreInv, NEW r, Moves(Serve(r).objects), Change(r),
           UNCHANGED << setting, cache >>, mine' \in {mine, <<>>}, held' \in {held, <<>>}
    PROVE  SettingInv' /\ StoreInv'
<1>1. SettingInv'
  BY DEF SettingInv
<1>2. /\ Keys' = Keys /\ clock \in Nat /\ clock' \in Nat /\ clock <= clock'
      /\ objects' = [k \in Keys |-> objects'[k]]
  BY Changes DEF StoreInv
<1>3. \A found, k : Slot(found, k, clock) => Slot(found, k, clock')
  BY <1>2, SlotsLast
<1>4. ASSUME NEW k \in Keys PROVE Slot(objects'[k], k, clock')
  <2>1. CASE objects'[k] = objects[k]
    BY <1>3, <2>1 DEF StoreInv
  <2>2. CASE objects'[k] = <<>>
    BY <2>2 DEF Slot
  <2>3. CASE /\ objects'[k] = <<objects'[k][1]>> /\ objects'[k][1] \in Objects
             /\ objects'[k][1].namespace = k[1] /\ objects'[k][1].name = k[2]
             /\ objects'[k][1].rv = clock + 1 /\ clock' = clock + 1
    BY <1>2, <2>3 DEF Slot
  <2> QED
    BY <2>1, <2>2, <2>3, Changes
<1>5. cache' = [k \in Keys |-> cache'[k]] /\ \A k \in Keys : Slot(cache'[k], k, clock')
  BY <1>3 DEF StoreInv
<1>6. /\ \E S : pending' \in Seq(S)
      /\ \A i \in 1..Len(pending') :
           /\ DOMAIN pending'[i] \subseteq Keys
           /\ \A k \in DOMAIN pending'[i] : Slot(pending'[i][k], k, clock')
  <2>1. PICK S : pending \in Seq(S)
    BY DEF StoreInv
  <2>2. \A i \in 1..Len(pending) :
          /\ DOMAIN pending[i] \subseteq Keys
          /\ \A k \in DOMAIN pending[i] : Slot(pending[i][k], k, clock')
    BY <1>3 DEF StoreInv
  <2>3. CASE pending' = pending
    BY <2>1, <2>2, <2>3
  <2>4. ASSUME NEW D \in SUBSET Keys, pending' = Append(pending, [k \in D |-> objects'[k]])
        PROVE  <1>6
    <3> DEFINE n == [k \in D |-> objects'[k]]
    <3>1. /\ Len(pending) \in Nat /\ Len(pending') = Len(pending) + 1
          /\ pending'[Len(pending) + 1] = n
          /\ \A i \in 1..Len(pending) : pending'[i] = pending[i]
      BY <2>1, <2>4
    <3>2. DOMAIN n = D /\ \A k \in D : Slot(n[k], k, clock')
      BY <1>4
    <3>3. pending' \in Seq(S \cup {n})
      BY <2>1, <2>4
    <3> HIDE DEF n
    <3> QED
      BY <2>2, <3>1, <3>2, <3>3
  <2> QED
    BY <2>3, <2>4, Changes, Zenon
<1>7. mine' # <<>> => KeyOf(mine') \in Keys /\ Slot(mine', KeyOf(mine'), clock')
  BY <1>3 DEF StoreInv
<1>8. held' # <<>> => KeyOf(held') \in Keys /\ Slot(held', KeyOf(held'), clock')
  BY <1>3 DEF StoreInv
<1> QED
  BY <1>1, <1>2, <1>4, <1>5, <1>6, <1>7, <1>8 DEF StoreInv

\* What was read before a change is current afterwards only where it was.
LEMMA StaleStays ==
    ASSUME StoreInv, NEW r, Moves(Serve(r).objects), Change(r), setting' = setting,
           NEW k \in Keys, NEW found, Slot(found, k, clock), Current(found, objects'[k])
    PROVE  objects'[k] = objects[k]
<1>1. found[1].rv \in Nat /\ found[1].rv <= clock
  BY Zenon DEF Slot, Current, Objects
<1>2. clock \in Nat
  BY DEF StoreInv
<1>3. objects'[k] # <<>> /\ objects'[k][1].rv # clock + 1
  BY <1>1, <1>2 DEF Current
<1> QED
  BY <1>3, Changes

LEMMA ChangeKeepsVersions ==
    ASSUME SettingInv, StoreInv, VersionInv, NEW r, Moves(Serve(r).objects), Change(r),
           UNCHANGED << setting, cache >>, mine' \in {mine, <<>>}, held' \in {held, <<>>}
    PROVE  VersionInv'
<1>1. Keys' = Keys
  BY Changes
<1>2. \A o : InScope(o)' <=> InScope(o)
  BY DEF InScope, client
<1>3. \A k \in Keys : Current(cache'[k], objects'[k]) => cache'[k] = objects'[k]
  <2> SUFFICES ASSUME NEW k \in Keys, Current(cache[k], objects'[k])
               PROVE  cache[k] = objects'[k]
    OBVIOUS
  <2>1. Slot(cache[k], k, clock)
    BY DEF StoreInv
  <2>2. objects'[k] = objects[k]
    BY <2>1, StaleStays
  <2> QED
    BY <2>2 DEF VersionInv
<1>4. \A i \in 1..Len(pending') : \A k \in DOMAIN pending'[i] :
        Current(pending'[i][k], objects'[k]) => pending'[i][k] = objects'[k]
  <2>1. PICK S : pending \in Seq(S)
    BY DEF StoreInv
  <2>2. ASSUME NEW i \in 1..Len(pending), NEW k \in DOMAIN pending[i],
               Current(pending[i][k], objects'[k])
        PROVE  pending[i][k] = objects'[k]
    <3>1. k \in Keys /\ Slot(pending[i][k], k, clock)
      BY DEF StoreInv
    <3>2. objects'[k] = objects[k]
      BY <2>2, <3>1, StaleStays
    <3> QED
      BY <2>2, <3>2 DEF VersionInv
  <2>3. CASE pending' = pending
    BY <2>2, <2>3
  <2>4. ASSUME NEW D \in SUBSET Keys, pending' = Append(pending, [k \in D |-> objects'[k]])
        PROVE  <1>4
    <3> DEFINE n == [k \in D |-> objects'[k]]
    <3>1. /\ Len(pending) \in Nat /\ Len(pending') = Len(pending) + 1
          /\ pending'[Len(pending) + 1] = n
          /\ \A i \in 1..Len(pending) : pending'[i] = pending[i]
      BY <2>1, <2>4
    <3>2. \A k \in DOMAIN n : n[k] = objects'[k]
      OBVIOUS
    <3> HIDE DEF n
    <3> QED
      BY <2>2, <3>1, <3>2
  <2> QED
    BY <2>3, <2>4, Changes, Zenon
<1>5. /\ \A k \in Keys : cache'[k] # <<>> => InScope(cache'[k][1])
      /\ held' # <<>> => InScope(held'[1])
  BY DEF VersionInv
<1>6. held' # <<>> /\ Current(held', objects'[KeyOf(held')]) =>
        /\ held'[1].status = objects'[KeyOf(held')][1].spec
        /\ held'[1].label = objects'[KeyOf(held')][1].label
  <2> SUFFICES ASSUME held' = held, held # <<>>, Current(held, objects'[KeyOf(held)])
               PROVE  /\ held[1].status = objects'[KeyOf(held)][1].spec
                      /\ held[1].label = objects'[KeyOf(held)][1].label
    OBVIOUS
  <2>1. objects'[KeyOf(held)] = objects[KeyOf(held)]
    BY StaleStays DEF StoreInv
  <2> QED
    BY <2>1 DEF VersionInv
<1>7. mine' # <<>> /\ Current(mine', objects'[KeyOf(mine')]) =>
        mine'[1].status = objects'[KeyOf(mine')][1].status
  <2> SUFFICES ASSUME mine' = mine, mine # <<>>, Current(mine, objects'[KeyOf(mine)])
               PROVE  mine[1].status = objects'[KeyOf(mine)][1].status
    OBVIOUS
  <2>1. objects'[KeyOf(mine)] = objects[KeyOf(mine)]
    BY StaleStays DEF StoreInv
  <2> QED
    BY <2>1 DEF VersionInv
<1>8. /\ \A k \in Keys : cache'[k] # <<>> => InScope(cache[k][1])'
      /\ held' # <<>> => InScope(held[1])'
  BY <1>5, Zenon DEF InScope, client
<1> QED
  BY <1>1, <1>3, <1>4, <1>6, <1>7, <1>8 DEF VersionInv

\* What of this is in the scope of the informer, and which of these changes
\* are about a key.
Scoped(found) == IF found # <<>> /\ InScope(found[1]) THEN found ELSE <<>>
Told(news, k) == {i \in 1..Len(news) : k \in DOMAIN news[i]}

\* With these news to come, what is cached for a key is what is stored.
Follows(k, news, cached, stored) ==
    /\ Told(news, k) = {} => Scoped(cached) = Scoped(stored)
    /\ \A i \in Told(news, k) :
         (\A j \in Told(news, k) : j <= i) => Scoped(news[i][k]) = Scoped(stored)

LEMMA CatchesUp ==
    CacheCatchesUp <=>
        (informer # "list" => \A k \in Keys : Follows(k, pending, cache[k], objects[k]))
  BY DEF CacheCatchesUp, Follows, Told, Scoped

LEMMA CatchesUpNext ==
    ASSUME setting' = setting,
           informer' # "list" => \A k \in Keys : Follows(k, pending', cache'[k], objects'[k])
    PROVE  CacheCatchesUp'
<1>1. Keys' = Keys
  BY Zenon DEF Keys, Namespaces, client
<1>2. ASSUME NEW k \in Keys, Follows(k, pending', cache'[k], objects'[k])
      PROVE  Follows(k, pending, cache[k], objects[k])'
  BY <1>2, Zenon DEF Follows, Told, Scoped, InScope, client
<1>3. (informer # "list" => \A k \in Keys : Follows(k, pending, cache[k], objects[k]))'
  BY <1>1, <1>2
<1> QED
  BY <1>3, CatchesUp, PTL

LEMMA ChangeKeepsCache ==
    ASSUME StoreInv, CacheCatchesUp, NEW r, Moves(Serve(r).objects), Change(r),
           UNCHANGED << setting, informer, cache >>
    PROVE  CacheCatchesUp'
<1> SUFFICES ASSUME informer # "list", NEW k \in Keys
             PROVE  Follows(k, pending', cache[k], objects'[k])
  BY CatchesUpNext
<1>1. Follows(k, pending, cache[k], objects[k])
  BY CatchesUp
<1>2. CASE pending' = pending /\ objects' = objects
  BY <1>1, <1>2
<1>3. ASSUME NEW D \in SUBSET Keys, pending' = Append(pending, [j \in D |-> objects'[j]]),
             \A j \in Keys \ D : objects'[j] = objects[j]
      PROVE  Follows(k, pending', cache[k], objects'[k])
  <2> DEFINE n == [j \in D |-> objects'[j]]
             m == Len(pending)
  <2>1. PICK S : pending \in Seq(S)
    BY DEF StoreInv
  <2>2. /\ m \in Nat /\ Len(pending') = m + 1 /\ pending'[m + 1] = n
        /\ \A i \in 1..m : pending'[i] = pending[i]
    BY <1>3, <2>1
  <2>3. DOMAIN n = D /\ \A j \in D : n[j] = objects'[j]
    OBVIOUS
  <2> HIDE DEF n, m
  <2>4. CASE k \in D
    <3>1. m + 1 \in Told(pending', k)
      BY <2>2, <2>3, <2>4 DEF Told
    <3>2. \A i \in Told(pending', k) : i <= m + 1
      BY <2>2 DEF Told
    <3>3. \A i \in Told(pending', k) : (\A j \in Told(pending', k) : j <= i) => i = m + 1
      BY <2>2, <3>1, <3>2 DEF Told
    <3> QED
      BY <2>2, <2>3, <2>4, <3>1, <3>3 DEF Follows
  <2>5. CASE k \notin D
    <3>1. Told(pending', k) = Told(pending, k)
      BY <2>2, <2>3, <2>5 DEF Told, m
    <3>2. \A i \in Told(pending, k) : pending'[i] = pending[i]
      BY <2>2 DEF Told, m
    <3> QED
      BY <1>1, <1>3, <2>5, <3>1, <3>2, Zenon DEF Follows
  <2> QED
    BY <2>4, <2>5
<1> QED
  BY <1>2, <1>3, Changes, Zenon

-----------------------------------------------------------------------------
(* The informer *)

LEMMA ListsItsScope ==
    ASSUME SettingInv, NEW f
    PROVE  Shown(f, ListFunc(theInformer, setting.namespace, setting.tweak)) =
             [k \in DOMAIN f |-> Scoped(f[k])]
<1> DEFINE r == ListFunc(theInformer, setting.namespace, setting.tweak)
<1>1. theInformer.client = client
  BY SettingFacts, InformersAreBound, Zenon DEF theInformer
<1>2. r = List(client, setting.namespace, [labelled |-> setting.tweak])
  BY <1>1 DEF ListFunc
<1>3. /\ client.namespaced => r.namespace = setting.namespace
      /\ ~client.namespaced => r.namespace = ""
      /\ r.options = [labelled |-> setting.tweak]
  BY <1>2, Zenon DEF List, NewRequest
<1> HIDE DEF r
<1>4. r.options.labelled <=> setting.tweak
  <2>1. CASE setting.tweak = TRUE
    <3>1. r.options = [labelled |-> TRUE]
      BY <1>3, <2>1, Zenon
    <3> QED
      BY <2>1, <3>1
  <2>2. CASE setting.tweak = FALSE
    <3>1. r.options = [labelled |-> FALSE]
      BY <1>3, <2>2, Zenon
    <3> QED
      BY <2>2, <3>1
  <2> QED
    BY <2>1, <2>2, SettingFacts, Zenon
<1>5. \A o : (r.options.labelled => o.label) <=> (setting.tweak => o.label)
  BY <1>4
<1>6. \A o : (r.namespace # "" => o.namespace = r.namespace) <=>
             (client.namespaced /\ setting.namespace # "" => o.namespace = setting.namespace)
  BY <1>3, Zenon
<1>7. \A o : Selected(r.namespace, r.options, o) <=> InScope(o)
  BY <1>5, <1>6, Zenon DEF Selected, InScope
<1> QED
  BY <1>7 DEF Shown, Scoped, r

LEMMA WatchesItsScope ==
    ASSUME SettingInv, NEW f
    PROVE  Shown(f, WatchFunc(theInformer, setting.namespace, setting.tweak, clock)) =
             [k \in DOMAIN f |-> Scoped(f[k])]
<1> DEFINE r == WatchFunc(theInformer, setting.namespace, setting.tweak, clock)
<1>1. theInformer.client = client
  BY SettingFacts, InformersAreBound, Zenon DEF theInformer
<1>2. r = Watch(client, setting.namespace, [labelled |-> setting.tweak, from |-> clock])
  BY <1>1 DEF WatchFunc
<1>3. /\ client.namespaced => r.namespace = setting.namespace
      /\ ~client.namespaced => r.namespace = ""
      /\ r.options = [labelled |-> setting.tweak, from |-> clock]
  BY <1>2, Zenon DEF Watch, NewRequest
<1> HIDE DEF r
<1>4. r.options.labelled <=> setting.tweak
  <2>1. CASE setting.tweak = TRUE
    <3>1. r.options = [labelled |-> TRUE, from |-> clock]
      BY <1>3, <2>1, Zenon
    <3> QED
      BY <2>1, <3>1
  <2>2. CASE setting.tweak = FALSE
    <3>1. r.options = [labelled |-> FALSE, from |-> clock]
      BY <1>3, <2>2, Zenon
    <3> QED
      BY <2>2, <3>1
  <2> QED
    BY <2>1, <2>2, SettingFacts, Zenon
<1>5. \A o : (r.options.labelled => o.label) <=> (setting.tweak => o.label)
  BY <1>4
<1>6. \A o : (r.namespace # "" => o.namespace = r.namespace) <=>
             (client.namespaced /\ setting.namespace # "" => o.namespace = setting.namespace)
  BY <1>3, Zenon
<1>7. \A o : Selected(r.namespace, r.options, o) <=> InScope(o)
  BY <1>5, <1>6, Zenon DEF Selected, InScope
<1> QED
  BY <1>7 DEF Shown, Scoped, r

\* The invariants are about the setting, which never changes, and about what was
\* read: they say of each read the same as before.
LEMMA InformerListsKeeps ==
    ASSUME SettingInv, StoreInv, VersionInv, InformerLists
    PROVE  StoreInv' /\ VersionInv' /\ CacheCatchesUp'
<1>1. /\ cache' = [k \in Keys |-> Scoped(objects[k])] /\ pending' = <<>>
      /\ UNCHANGED << setting, objects, clock, mine, held >>
  BY ListsItsScope DEF InformerLists, StoreInv
<1>2. Keys' = Keys
  BY <1>1, Zenon DEF Keys, Namespaces, client
<1>3. \A k \in Keys : cache'[k] \in {objects[k], <<>>} /\ cache'[k] = Scoped(objects[k])
  BY <1>1 DEF Scoped
<1>4. \A k \in Keys : Slot(cache'[k], k, clock)
  BY <1>3 DEF StoreInv, Slot
<1>5. Len(pending') = 0 /\ pending' \in Seq({})
  BY <1>1
<1>6. cache' = [k \in Keys |-> cache'[k]]
  BY <1>1
<1>7. StoreInv'
  BY <1>1, <1>2, <1>4, <1>5, <1>6 DEF StoreInv
<1>8. \A k \in Keys : cache'[k] # <<>> => InScope(cache[k][1])'
  BY <1>1, <1>3, Zenon DEF Scoped, InScope, client
<1>9. held' # <<>> => InScope(held[1])'
  BY <1>1, Zenon DEF VersionInv, InScope, client
<1>10. VersionInv'
  BY <1>1, <1>2, <1>3, <1>5, <1>8, <1>9 DEF VersionInv, Current
<1>11. ASSUME NEW k \in Keys PROVE Follows(k, pending', cache'[k], objects'[k])
  <2>1. Told(pending', k) = {}
    BY <1>5 DEF Told
  <2>2. Scoped(cache'[k]) = Scoped(objects'[k])
    BY <1>1, <1>3 DEF Scoped
  <2> QED
    BY <2>1, <2>2 DEF Follows
<1> QED
  BY <1>1, <1>7, <1>10, <1>11, CatchesUpNext

LEMMA InformerReceivesKeeps ==
    ASSUME SettingInv, StoreInv, VersionInv, CacheCatchesUp, InformerReceives
    PROVE  StoreInv' /\ VersionInv' /\ CacheCatchesUp'
<1> DEFINE h == Head(pending)
<1>1. PICK S : pending \in Seq(S)
  BY DEF StoreInv
<1>2. /\ Len(pending) \in Nat \ {0} /\ h = pending[1]
      /\ pending' = Tail(pending) /\ pending' \in Seq(S) /\ Len(pending') = Len(pending) - 1
      /\ \A i \in 1..Len(pending') : i + 1 \in 1..Len(pending) /\ pending'[i] = pending[i + 1]
      /\ \A i \in 2..Len(pending) : i - 1 \in 1..Len(pending') /\ pending[i] = pending'[i - 1]
  BY <1>1 DEF InformerReceives
<1>3. /\ cache' = [k \in Keys |-> IF k \in DOMAIN h THEN Scoped(h[k]) ELSE cache[k]]
      /\ UNCHANGED << setting, objects, clock, mine, held, informer >>
  <2> DEFINE r == WatchFunc(theInformer, setting.namespace, setting.tweak, clock)
  <2>1. \A k \in DOMAIN h : Shown(h, r)[k] = Scoped(h[k])
    BY WatchesItsScope, Zenon
  <2>2. DOMAIN cache = Keys
    BY DEF StoreInv
  <2> HIDE DEF r
  <2>3. cache' = [k \in DOMAIN cache |-> IF k \in DOMAIN h THEN Shown(h, r)[k] ELSE cache[k]]
    BY DEF InformerReceives, r
  <2>4. UNCHANGED << setting, objects, clock, mine, held, informer >>
    BY DEF InformerReceives
  <2> QED
    BY <2>1, <2>2, <2>3, <2>4
<1>4. Keys' = Keys
  BY <1>3, Zenon DEF Keys, Namespaces, client
<1>5. /\ DOMAIN h \subseteq Keys
      /\ \A k \in DOMAIN h : /\ Slot(h[k], k, clock)
                             /\ Current(h[k], objects[k]) => h[k] = objects[k]
  <2>1. 1 \in 1..Len(pending) /\ h = pending[1]
    BY <1>2
  <2> HIDE DEF h
  <2>2. DOMAIN h \subseteq Keys /\ \A k \in DOMAIN h : Slot(h[k], k, clock)
    BY <2>1 DEF StoreInv
  <2>3. \A k \in DOMAIN h : Current(h[k], objects[k]) => h[k] = objects[k]
    BY <2>1 DEF VersionInv
  <2> QED
    BY <2>2, <2>3
<1> HIDE DEF h
<1>6. \A k \in Keys : /\ k \in DOMAIN h => cache'[k] \in {h[k], <<>>} /\ cache'[k] = Scoped(h[k])
                      /\ k \notin DOMAIN h => cache'[k] = cache[k]
  BY <1>3 DEF Scoped
<1>7. StoreInv'
  <2>1. ASSUME NEW k \in Keys PROVE Slot(cache'[k], k, clock)
    <3>1. Slot(<<>>, k, clock) /\ Slot(cache[k], k, clock)
      BY DEF StoreInv, Slot
    <3> QED
      BY <1>5, <1>6, <3>1
  <2>2. cache' = [k \in Keys |-> cache'[k]]
    BY <1>3
  <2>3. \A i \in 1..Len(pending') :
          /\ DOMAIN pending'[i] \subseteq Keys
          /\ \A k \in DOMAIN pending'[i] : Slot(pending'[i][k], k, clock)
    BY <1>2 DEF StoreInv
  <2> QED
    BY <1>2, <1>3, <1>4, <2>1, <2>2, <2>3 DEF StoreInv
<1>8. VersionInv'
  <2>1. \A k \in Keys : Current(cache'[k], objects[k]) => cache'[k] = objects[k]
    BY <1>5, <1>6 DEF VersionInv, Current
  <2>2. \A i \in 1..Len(pending') : \A k \in DOMAIN pending'[i] :
          Current(pending'[i][k], objects[k]) => pending'[i][k] = objects[k]
    BY <1>2 DEF VersionInv
  <2>3. \A k \in Keys : cache'[k] # <<>> => InScope(cache'[k][1])
    BY <1>6 DEF VersionInv, Scoped
  <2>4. \A k \in Keys : cache'[k] # <<>> => InScope(cache[k][1])'
    BY <1>3, <2>3, Zenon DEF InScope, client
  <2>5. held' # <<>> => InScope(held[1])'
    BY <1>3, Zenon DEF VersionInv, InScope, client
  <2> QED
    BY <1>3, <1>4, <2>1, <2>2, <2>4, <2>5 DEF VersionInv
<1>9. ASSUME NEW k \in Keys PROVE Follows(k, pending', cache'[k], objects[k])
  <2>1. Follows(k, pending, cache[k], objects[k])
    BY CatchesUp DEF InformerReceives
  <2>2. /\ \A i \in Told(pending', k) : i + 1 \in Told(pending, k)
        /\ \A i \in Told(pending, k) : i \in Nat /\ (i = 1 \/ i - 1 \in Told(pending', k))
    BY <1>2 DEF Told
  <2>3. CASE Told(pending', k) = {}
    <3>1. CASE k \in DOMAIN h
      <4>1. 1 \in Told(pending, k) /\ \A j \in Told(pending, k) : j <= 1
        <5>1. 1 \in Told(pending, k)
          BY <1>2, <3>1 DEF Told
        <5>2. \A j \in Told(pending, k) : j = 1
          BY <2>2, <2>3
        <5> QED
          BY <5>1, <5>2
      <4>2. Scoped(h[k]) = Scoped(objects[k])
        BY <1>2, <2>1, <4>1 DEF Follows
      <4>3. Scoped(cache'[k]) = Scoped(h[k])
        BY <1>6, <3>1 DEF Scoped
      <4> QED
        BY <2>3, <4>2, <4>3 DEF Follows
    <3>2. CASE k \notin DOMAIN h
      <4>1. Told(pending, k) = {}
        BY <1>2, <2>2, <2>3, <3>2, Zenon DEF Told
      <4> QED
        BY <1>6, <2>1, <2>3, <3>2, <4>1 DEF Follows
    <3> QED
      BY <3>1, <3>2
  <2>4. CASE Told(pending', k) # {}
    <3>1. ASSUME NEW i \in Told(pending', k), \A j \in Told(pending', k) : j <= i
          PROVE  Scoped(pending'[i][k]) = Scoped(objects[k])
      <4>1. i \in Nat /\ i >= 1 /\ i + 1 \in Told(pending, k) /\ pending'[i] = pending[i + 1]
        BY <1>2, <2>2 DEF Told
      <4>2. \A j \in Told(pending, k) : j <= i + 1
        <5> SUFFICES ASSUME NEW j \in Told(pending, k) PROVE j <= i + 1
          OBVIOUS
        <5>1. CASE j = 1
          BY <4>1, <5>1
        <5>2. CASE j - 1 \in Told(pending', k)
          <6>1. j \in Nat /\ j - 1 <= i
            BY <2>2, <3>1, <5>2
          <6> QED
            BY <4>1, <6>1
        <5> QED
          BY <2>2, <5>1, <5>2
      <4> QED
        BY <2>1, <4>1, <4>2 DEF Follows
    <3> QED
      BY <2>4, <3>1 DEF Follows
  <2> QED
    BY <2>3, <2>4
<1> QED
  BY <1>3, <1>7, <1>8, <1>9, CatchesUpNext

-----------------------------------------------------------------------------
(* Reading *)

LEMMA StillKeeps ==
    ASSUME StoreInv, VersionInv,
           UNCHANGED << setting, objects, clock, pending, cache, mine, held >>
    PROVE  StoreInv' /\ VersionInv'
<1>1. Keys' = Keys
  BY DEF Keys, Namespaces, client
<1>2. StoreInv'
  BY <1>1 DEF StoreInv
<1>3. /\ \A k \in Keys : cache'[k] # <<>> => InScope(cache[k][1])'
      /\ held' # <<>> => InScope(held[1])'
  BY Zenon DEF VersionInv, InScope, client
<1> QED
  BY <1>1, <1>2, <1>3 DEF VersionInv

LEMMA StillCached ==
    ASSUME CacheCatchesUp, UNCHANGED << setting, objects, pending, cache >>,
           informer' # "list" => informer # "list"
    PROVE  CacheCatchesUp'
  BY CatchesUp, CatchesUpNext

LEMMA ObjectFields ==
    ASSUME NEW o \in Objects
    PROVE  o.spec \in Int /\ o.status \in Int /\ o.label \in BOOLEAN /\ o.rv \in Nat
  BY Zenon DEF Objects

LEMMA CopiesDoNotAlias ==
    ASSUME NEW o \in Objects, NEW copy
    PROVE  Aliased(o, copy, {}) = o
  BY Zenon DEF Aliased, Objects

LEMMA UserReadsKeeps ==
    ASSUME SettingInv, StoreInv, VersionInv, NEW k \in Keys, NEW l \in BOOLEAN, NEW how,
           UserReads(k, l, how)
    PROVE  StoreInv' /\ VersionInv'
<1> DEFINE old == objects[k][1]
           e == [old EXCEPT !.spec = Other(@), !.label = l]
<1>1. /\ mine' = <<e>> /\ Exists(k)
      /\ UNCHANGED << setting, objects, clock, pending, cache, held >>
  BY DEF UserReads
<1>2. /\ old \in Objects /\ old.namespace = k[1] /\ old.name = k[2] /\ old.rv <= clock
      /\ clock \in Nat
  BY <1>1 DEF StoreInv, Slot, Exists
<1>3. /\ e \in Objects /\ e.namespace = k[1] /\ e.name = k[2] /\ e.rv <= clock
      /\ e.status = old.status
  <2>1. old.spec \in Int /\ Other(old.spec) \in Int
    BY <1>2, ObjectFields DEF Other
  <2>2. e = [old EXCEPT !.spec = Other(old.spec), !.label = l]
    OBVIOUS
  <2>3. e \in Objects
    BY <1>2, <2>1, <2>2, Zenon DEF Objects
  <2> QED
    BY <1>2, <2>2, <2>3, Zenon DEF Objects
<1> HIDE DEF e
<1>4. mine'[1] = e /\ mine' # <<>> /\ KeyOf(mine') = k
  BY <1>1, <1>3, KeyFacts, Zenon DEF KeyOf
<1>5. Slot(mine', k, clock)
  BY <1>1, <1>3 DEF Slot
<1>6. Keys' = Keys
  BY <1>1, Zenon DEF Keys, Namespaces, client
<1>7. StoreInv'
  BY <1>1, <1>4, <1>5, <1>6 DEF StoreInv
<1>8. mine'[1].status = objects[KeyOf(mine')][1].status
  BY <1>3, <1>4
<1>9. /\ \A j \in Keys : cache'[j] # <<>> => InScope(cache[j][1])'
      /\ held' # <<>> => InScope(held[1])'
  BY <1>1, Zenon DEF VersionInv, InScope, client
<1>10. VersionInv'
  BY <1>1, <1>6, <1>8, <1>9 DEF VersionInv
<1> QED
  BY <1>7, <1>10

\* A controller's copy of a cached object, and the cache after it was edited.
LEMMA ControllerCopies ==
    ASSUME CopiesAreDeep, SettingInv, StoreInv, NEW k \in Keys, ControllerReads(k)
    PROVE  /\ cache' = cache /\ cache[k] # <<>> /\ held' = <<held'[1]>>
           /\ held'[1] \in Objects
           /\ held'[1].namespace = k[1] /\ held'[1].name = k[2]
           /\ held'[1].label = cache[k][1].label /\ held'[1].rv = cache[k][1].rv
           /\ held'[1].status = cache[k][1].spec
<1> DEFINE found == ListerGet(theLister, cache, k[1], k[2])
           copy == [found[1] EXCEPT !.spec = IF setting.normalises THEN None ELSE @,
                                    !.status = found[1].spec]
<1>1. theLister.namespaced = client.namespaced
  BY SettingFacts, ListersAreBound, Zenon DEF theLister
<1>2. KeyIn(theLister, k[1], k[2]) = k
  BY <1>1, KeyFacts, Zenon DEF KeyIn
<1>3. found = cache[k] /\ cache = [j \in Keys |-> cache[j]]
  BY <1>2 DEF ListerGet, StoreInv
<1>4. /\ found # <<>> /\ held' = <<copy>>
      /\ cache' = [cache EXCEPT ![k] = << Aliased(@[1], copy, setting.shared.object) >>]
  BY <1>2 DEF ControllerReads
<1>5. setting.shared.object = {}
  BY SettingFacts, Zenon
<1>6. /\ cache[k] # <<>> /\ cache[k] = <<cache[k][1]>> /\ cache[k][1] \in Objects
      /\ cache[k][1].namespace = k[1] /\ cache[k][1].name = k[2]
  BY <1>3, <1>4 DEF StoreInv, Slot
<1>7. copy = [cache[k][1] EXCEPT !.spec = IF setting.normalises THEN None ELSE @,
                                 !.status = cache[k][1].spec]
  BY <1>3
<1>8. /\ copy \in Objects /\ copy.namespace = k[1] /\ copy.name = k[2]
      /\ copy.label = cache[k][1].label /\ copy.rv = cache[k][1].rv
      /\ copy.status = cache[k][1].spec
  <2> DEFINE o == cache[k][1]
             v == IF setting.normalises THEN None ELSE o.spec
  <2>1. v \in Int /\ o.spec \in Int
    BY <1>6, ObjectFields DEF None
  <2>2. copy = [o EXCEPT !.spec = v, !.status = o.spec]
    BY <1>7
  <2> HIDE DEF copy, v, o
  <2>3. o \in Objects
    BY <1>6 DEF o
  <2>4. copy \in Objects /\ copy.namespace = o.namespace /\ copy.name = o.name
    BY <2>1, <2>2, <2>3, Zenon DEF Objects
  <2>5. copy.label = o.label
    BY <2>2, <2>3, Zenon DEF Objects
  <2>6. copy.rv = o.rv /\ copy.status = o.spec
    BY <2>2, <2>3, Zenon DEF Objects
  <2> QED
    BY <1>6, <2>4, <2>5, <2>6 DEF o
<1> HIDE DEF copy, found
<1>9. Aliased(cache[k][1], copy, {}) = cache[k][1]
  BY <1>6, CopiesDoNotAlias
<1>10. cache' = cache
  BY <1>3, <1>4, <1>5, <1>6, <1>9
<1> QED
  BY <1>4, <1>6, <1>8, <1>10

LEMMA ControllerReadsKeeps ==
    ASSUME CopiesAreDeep, SettingInv, StoreInv, VersionInv, NEW k \in Keys, ControllerReads(k)
    PROVE  StoreInv' /\ VersionInv'
<1> DEFINE copy == held'[1]
<1>1. UNCHANGED << setting, objects, clock, pending, mine, cache >>
  BY ControllerCopies, Zenon DEF ControllerReads
<1>2. /\ cache[k] # <<>> /\ held' = <<copy>> /\ copy \in Objects
      /\ copy.namespace = k[1] /\ copy.name = k[2] /\ copy.label = cache[k][1].label
      /\ copy.rv = cache[k][1].rv /\ copy.status = cache[k][1].spec
  BY ControllerCopies
<1>3. held' # <<>> /\ KeyOf(held') = k
  <2>1. k = <<k[1], k[2]>>
    BY KeyFacts, Zenon
  <2>2. KeyOf(held') = <<copy.namespace, copy.name>>
    BY DEF KeyOf
  <2> HIDE DEF copy
  <2>3. held' # <<>>
    BY <1>2
  <2>4. copy.namespace = k[1] /\ copy.name = k[2]
    BY <1>2
  <2> QED
    BY <2>1, <2>2, <2>3, <2>4
<1>4. cache[k][1].rv <= clock /\ cache[k][1].namespace = k[1]
  BY <1>2 DEF StoreInv, Slot
<1>5. Slot(held', k, clock)
  BY <1>2, <1>4 DEF Slot
<1>6. Keys' = Keys
  BY <1>1, Zenon DEF Keys, Namespaces, client
<1>7. StoreInv'
  BY <1>1, <1>3, <1>5, <1>6 DEF StoreInv
<1>8. InScope(cache[k][1])
  BY <1>2 DEF VersionInv
<1>9. InScope(copy)
  BY <1>2, <1>4, <1>8, Zenon DEF InScope
<1>10. /\ \A j \in Keys : cache'[j] # <<>> => InScope(cache[j][1])'
       /\ held' # <<>> => InScope(held[1])'
  BY <1>1, <1>9, Zenon DEF VersionInv, InScope, client
<1>11. Current(held', objects[k]) =>
         copy.status = objects[k][1].spec /\ copy.label = objects[k][1].label
  BY <1>2, Zenon DEF VersionInv, Current
<1>12. VersionInv'
  BY <1>1, <1>3, <1>6, <1>10, <1>11 DEF VersionInv
<1> QED
  BY <1>7, <1>12

-----------------------------------------------------------------------------
(* Writing *)

LEMMA AnsweredMoves ==
    ASSUME NEW r, NEW ok \in {TRUE, FALSE}, NEW f, Serve(r) = Answer(ok, f), Moves(f)
    PROVE  Moves(Serve(r).objects)
<1>1. Serve(r).objects = f
  BY DEF Answer
<1> QED
  BY <1>1

LEMMA LabelsAreBoolean ==
    ASSUME NEW l \in Labels
    PROVE  l \in BOOLEAN
  BY Zenon DEF Labels

LEMMA UserCreatesMoves ==
    ASSUME SettingInv, StoreInv, NEW k \in Keys, NEW l \in BOOLEAN, NEW v \in Int
    PROVE  Moves(Serve(Create(client, k[1], Object(k, v, l))).objects)
<1> DEFINE r == Create(client, k[1], Object(k, v, l))
           n == Object(k, Defaulted(v), l)
<1>1. CASE Exists(k) \/ v = Invalid
  <2>1. Serve(r) = Answer(FALSE, objects)
    BY <1>1, ServeCreate, Zenon
  <2> QED
    BY <2>1, AnsweredMoves, SameMoves, Zenon
<1>2. CASE ~(Exists(k) \/ v = Invalid)
  <2>1. Serve(r) = Answer(TRUE, Stored(k, n))
    BY <1>2, ServeCreate, Zenon
  <2>2. n \in Objects /\ n.namespace = k[1] /\ n.name = k[2]
    BY DefaultedSpec, NewObjects, Zenon
  <2>3. Moves(Stored(k, n))
    <3> HIDE DEF n
    <3> QED
      BY <2>2, StoredMoves
  <2> QED
    BY <2>1, <2>3, AnsweredMoves, Zenon
<1> QED
  BY <1>1, <1>2

LEMMA UserDeletesMoves ==
    ASSUME SettingInv, StoreInv, NEW k \in Keys
    PROVE  Moves(Serve(Delete(client, k[1], k[2])).objects)
<1> DEFINE r == Delete(client, k[1], k[2])
<1>1. CASE ~Exists(k)
  <2>1. Serve(r) = Answer(FALSE, objects)
    BY <1>1, ServeDelete, Zenon
  <2> QED
    BY <2>1, AnsweredMoves, SameMoves, Zenon
<1>2. CASE Exists(k)
  <2>1. Serve(r) = Answer(TRUE, [objects EXCEPT ![k] = <<>>])
    BY <1>2, ServeDelete, Zenon
  <2>2. Moves([objects EXCEPT ![k] = <<>>])
    BY EmptiedMoves
  <2> QED
    BY <2>1, <2>2, AnsweredMoves, Zenon
<1> QED
  BY <1>1, <1>2

\* What a user sends for an object that was read.
LEMMA Edited ==
    ASSUME StoreInv, mine # <<>>, NEW s \in {None, mine[1].status},
           NEW v \in {mine[1].spec} \cup Flawed
    PROVE  LET o == [mine[1] EXCEPT !.status = s, !.spec = v] IN
           /\ o \in Objects /\ KeyOf(mine) \in Keys /\ KeyOf(mine) = <<o.namespace, o.name>>
           /\ o.status = s /\ o.rv = mine[1].rv /\ o.spec = v
<1> DEFINE m == mine[1]
           o == [m EXCEPT !.status = s, !.spec = v]
<1>1. m \in Objects /\ KeyOf(mine) \in Keys
  BY DEF StoreInv, Slot
<1>2. KeyOf(mine) = <<m.namespace, m.name>>
  BY DEF KeyOf
<1>3. s \in Int /\ v \in Int
  BY <1>1, ObjectFields DEF None, Flawed, Invalid, Terse
<1> HIDE DEF m
<1>4. /\ o \in Objects /\ o.namespace = m.namespace /\ o.name = m.name
      /\ o.status = s /\ o.rv = m.rv /\ o.spec = v
  BY <1>1, <1>3, Zenon DEF Objects
<1> HIDE DEF o
<1>5. /\ o \in Objects /\ KeyOf(mine) \in Keys /\ KeyOf(mine) = <<o.namespace, o.name>>
      /\ o.status = s /\ o.rv = m.rv /\ o.spec = v
  BY <1>1, <1>2, <1>4, Zenon
<1> QED
  BY <1>5 DEF o, m

\* Keeping the status that is stored, or not.
LEMMA WithStatus ==
    ASSUME NEW o \in Objects, NEW s \in Int
    PROVE  /\ [o EXCEPT !.status = s] \in Objects
           /\ [o EXCEPT !.status = s].namespace = o.namespace
           /\ [o EXCEPT !.status = s].name = o.name
           /\ [o EXCEPT !.status = s].status = s
           /\ [o EXCEPT !.status = s].spec = o.spec
           /\ [o EXCEPT !.status = s].label = o.label
  BY Zenon DEF Objects

LEMMA WithSpec ==
    ASSUME NEW o \in Objects, NEW s \in Int
    PROVE  /\ [o EXCEPT !.spec = s] \in Objects
           /\ [o EXCEPT !.spec = s].namespace = o.namespace
           /\ [o EXCEPT !.spec = s].name = o.name
           /\ [o EXCEPT !.spec = s].status = o.status
           /\ [o EXCEPT !.spec = s].label = o.label
  BY Zenon DEF Objects

LEMMA StoredObjects ==
    ASSUME StoreInv, NEW k \in Keys, Exists(k)
    PROVE  /\ objects[k] = <<objects[k][1]>> /\ objects[k][1] \in Objects
           /\ objects[k][1].namespace = k[1] /\ objects[k][1].name = k[2]
  BY DEF StoreInv, Slot, Exists

LEMMA WholeObject ==
    ASSUME StoreInv, NEW k \in Keys, Exists(k), NEW o \in Objects
    PROVE  LET n == Whole(k, o) IN
           /\ n \in Objects /\ n.namespace = o.namespace /\ n.name = o.name
           /\ n.status = Kept(k, o.status)
<1>1. objects[k][1] \in Objects
  BY StoredObjects
<1>2. Kept(k, o.status) \in Int /\ Defaulted(o.spec) \in Int
  BY <1>1, ObjectFields, DefaultedSpec DEF Kept
<1> QED
  BY <1>2, Zenon DEF Objects, Whole

LEMMA UpdateMoves ==
    ASSUME SettingInv, StoreInv, NEW k \in Keys, NEW o \in Objects, k = <<o.namespace, o.name>>
    PROVE  Moves(Serve(Update(client, o.namespace, o)).objects)
<1>1. CASE Exists(k) /\ o.rv = objects[k][1].rv /\ o.spec # Invalid
  <2> DEFINE n == Whole(k, o)
  <2>1. n \in Objects /\ n.namespace = k[1] /\ n.name = k[2]
    BY <1>1, WholeObject
  <2> HIDE DEF n
  <2>2. Moves(Stored(k, n))
    BY <2>1, StoredMoves
  <2>3. Serve(Update(client, o.namespace, o)) = Answer(TRUE, Stored(k, n))
    BY <1>1, ServeUpdate, Zenon DEF n
  <2> QED
    BY <2>2, <2>3, AnsweredMoves, Zenon
<1>2. CASE ~(Exists(k) /\ o.rv = objects[k][1].rv /\ o.spec # Invalid)
  <2>1. Serve(Update(client, o.namespace, o)) = Answer(FALSE, objects)
    BY <1>2, ServeUpdate, Zenon
  <2> QED
    BY <2>1, AnsweredMoves, SameMoves, Zenon
<1> QED
  BY <1>1, <1>2

LEMMA UpdateStatusMoves ==
    ASSUME SettingInv, StoreInv, NEW k \in Keys, NEW o \in Objects, k = <<o.namespace, o.name>>
    PROVE  Moves(Serve(UpdateStatus(client, o.namespace, o)).objects)
<1>1. CASE setting.statusEndpoint /\ Exists(k) /\ o.rv = objects[k][1].rv
  <2> DEFINE n == [objects[k][1] EXCEPT !.status = o.status]
  <2>1. /\ objects[k][1] \in Objects /\ o.status \in Int
        /\ objects[k][1].namespace = k[1] /\ objects[k][1].name = k[2]
    BY <1>1, StoredObjects, ObjectFields
  <2>2. n \in Objects /\ n.namespace = k[1] /\ n.name = k[2]
    BY <2>1, WithStatus
  <2> HIDE DEF n
  <2>3. Moves(Stored(k, n))
    BY <2>2, StoredMoves
  <2>4. Serve(UpdateStatus(client, o.namespace, o)) = Answer(TRUE, Stored(k, n))
    BY <1>1, ServeUpdateStatus, Zenon DEF n
  <2> QED
    BY <2>3, <2>4, AnsweredMoves, Zenon
<1>2. CASE ~(setting.statusEndpoint /\ Exists(k) /\ o.rv = objects[k][1].rv)
  <2>1. Serve(UpdateStatus(client, o.namespace, o)) = Answer(FALSE, objects)
    BY <1>2, ServeUpdateStatus, Zenon
  <2> QED
    BY <2>1, AnsweredMoves, SameMoves, Zenon
<1> QED
  BY <1>1, <1>2

LEMMA RespecMoves ==
    ASSUME SettingInv, StoreInv, NEW k \in Keys, Exists(k), NEW v \in Int
    PROVE  Moves(Stored(k, [objects[k][1] EXCEPT !.spec = Defaulted(v)]))
<1> DEFINE n == [objects[k][1] EXCEPT !.spec = Defaulted(v)]
<1>1. /\ objects[k][1] \in Objects
      /\ objects[k][1].namespace = k[1] /\ objects[k][1].name = k[2]
  BY StoredObjects
<1>2. n \in Objects /\ n.namespace = k[1] /\ n.name = k[2]
  BY <1>1, WithSpec, DefaultedSpec
<1> HIDE DEF n
<1>3. Moves(Stored(k, n))
  BY <1>2, StoredMoves
<1> QED
  BY <1>3 DEF n

LEMMA PatchMoves ==
    ASSUME SettingInv, StoreInv, NEW k \in Keys, NEW v \in Int
    PROVE  Moves(Serve(Patch(client, k[1], k[2], [spec |-> v], "")).objects)
<1> DEFINE r == Patch(client, k[1], k[2], [spec |-> v], "")
           f == Stored(k, [objects[k][1] EXCEPT !.spec = Defaulted(v)])
<1>1. Serve(r) = IF Exists(k) /\ v # Invalid THEN Answer(TRUE, f) ELSE Answer(FALSE, objects)
  BY ServePatch, Zenon
<1>2. Exists(k) => Moves(f)
  BY RespecMoves
<1> SUFFICES Moves(Serve(r).objects)
  BY Zenon
<1> HIDE DEF r, f
<1>3. CASE Exists(k) /\ v # Invalid
  BY <1>1, <1>2, <1>3, AnsweredMoves, Zenon
<1>4. CASE ~(Exists(k) /\ v # Invalid)
  BY <1>1, <1>4, AnsweredMoves, SameMoves, Zenon
<1> QED
  BY <1>3, <1>4

LEMMA ApplyMoves ==
    ASSUME SettingInv, StoreInv, NEW k \in Keys, NEW v \in Int
    PROVE  Moves(Serve(Apply(client, k[1], [name |-> k[2], spec |-> v])).objects)
<1> DEFINE r == Apply(client, k[1], [name |-> k[2], spec |-> v])
           f == Stored(k, [objects[k][1] EXCEPT !.spec = Defaulted(v)])
           n == Object(k, Defaulted(v), FALSE)
           g == Stored(k, n)
<1>1. Serve(r) = IF v = Invalid THEN Answer(FALSE, objects)
                 ELSE IF Exists(k) THEN Answer(TRUE, f) ELSE Answer(TRUE, g)
  BY ServeApply, Zenon
<1>2. Exists(k) => Moves(f)
  BY RespecMoves
<1>3. Moves(g)
  <2>1. n \in Objects /\ n.namespace = k[1] /\ n.name = k[2]
    BY DefaultedSpec, NewObjects, Zenon
  <2> HIDE DEF n
  <2> QED
    BY <2>1, StoredMoves
<1> SUFFICES Moves(Serve(r).objects)
  BY Zenon
<1> HIDE DEF r, f, g
<1>4. CASE v = Invalid
  BY <1>1, <1>4, AnsweredMoves, SameMoves, Zenon
<1>5. CASE v # Invalid /\ Exists(k)
  BY <1>1, <1>2, <1>5, AnsweredMoves, Zenon
<1>6. CASE v # Invalid /\ ~Exists(k)
  BY <1>1, <1>3, <1>6, AnsweredMoves, Zenon
<1> QED
  BY <1>4, <1>5, <1>6

\* The spec a user patches in.
LEMMA PatchedSpec ==
    ASSUME StoreInv, NEW k \in Keys, NEW v \in {NewSpec(k)} \cup Flawed
    PROVE  v \in Int
<1>1. NewSpec(k) \in Int
  <2>1. CASE Exists(k)
    <3>1. objects[k][1].spec \in Int
      BY <2>1, StoredObjects, ObjectFields
    <3> QED
      BY <2>1, <3>1 DEF NewSpec, Other
  <2> QED
    BY <2>1 DEF NewSpec
<1> QED
  BY <1>1 DEF Flawed, Invalid, Terse

LEMMA CreatedSpec ==
    ASSUME NEW v \in {1} \cup Flawed
    PROVE  v \in Int
  BY DEF Flawed, Invalid, Terse

-----------------------------------------------------------------------------
(* The invariant *)

Inv == SettingInv /\ StoreInv /\ VersionInv /\ CacheCatchesUp

LEMMA Initially ==
    Init => Inv
<1> SUFFICES ASSUME Init PROVE Inv
  OBVIOUS
<1>1. SettingInv
  BY DEF Init, SettingInv
<1>2. PICK stored :
        objects = [k \in Keys |-> IF Object(k, 1, FALSE) \in stored
                                  THEN << Object(k, 1, FALSE) >> ELSE <<>>]
  BY Zenon DEF Init
<1>3. /\ clock = 0 /\ mine = <<>> /\ informer = "list" /\ pending = <<>> /\ held = <<>>
      /\ cache = [k \in Keys |-> <<>>]
  BY DEF Init
<1>4. ASSUME NEW k \in Keys PROVE Slot(objects[k], k, clock)
  <2> DEFINE o == Object(k, 1, FALSE)
  <2>0. 1 \in Int /\ FALSE \in BOOLEAN
    OBVIOUS
  <2>1. o \in Objects /\ o.namespace = k[1] /\ o.name = k[2]
    BY <1>1, <2>0, NewObjects, Zenon
  <2>2. o.rv = 0
    BY DEF Object
  <2>3. objects[k] \in {<<>>, <<o>>}
    BY <1>2
  <2> HIDE DEF o
  <2> QED
    BY <1>3, <2>1, <2>2, <2>3 DEF Slot
<1>5. \A k \in Keys : cache[k] = <<>> /\ Slot(cache[k], k, clock)
  BY <1>3 DEF Slot
<1>6. pending \in Seq({}) /\ Len(pending) = 0
  BY <1>3
<1>7. objects = [k \in Keys |-> objects[k]] /\ cache = [k \in Keys |-> cache[k]] /\ clock \in Nat
  BY <1>2, <1>3
<1>8. StoreInv
  BY <1>3, <1>4, <1>5, <1>6, <1>7 DEF StoreInv
<1>9. VersionInv
  BY <1>3, <1>5, <1>6 DEF VersionInv, Current
<1> QED
  BY <1>1, <1>3, <1>8, <1>9 DEF Inv, CacheCatchesUp

LEMMA RequestKeeps ==
    ASSUME Inv, NEW r, Moves(Serve(r).objects), Change(r), UNCHANGED << setting, informer, cache >>,
           mine' \in {mine, <<>>}, held' \in {held, <<>>}
    PROVE  Inv'
<1>1. SettingInv' /\ StoreInv'
  BY ChangeKeepsStore DEF Inv
<1>2. VersionInv'
  BY ChangeKeepsVersions DEF Inv
<1>3. CacheCatchesUp'
  BY ChangeKeepsCache DEF Inv
<1> QED
  BY <1>1, <1>2, <1>3 DEF Inv

LEMMA Inductive ==
    ASSUME CopiesAreDeep, Inv, [Next]_vars
    PROVE  Inv'
<1> USE DEF Inv
<1>1. ASSUME UNCHANGED setting PROVE SettingInv'
  BY <1>1 DEF SettingInv
<1>2. ASSUME NEW k \in Keys, NEW l \in Labels, NEW v \in {1} \cup Flawed, UserCreates(k, l, v)
      PROVE  Inv'
  <2>1. l \in BOOLEAN /\ v \in Int
    BY LabelsAreBoolean, CreatedSpec
  <2>2. Moves(Serve(Create(client, k[1], Object(k, v, l))).objects)
    BY <2>1, UserCreatesMoves
  <2>3. /\ Change(Create(client, k[1], Object(k, v, l)))
        /\ UNCHANGED << setting, informer, cache, mine, held >>
    BY <1>2 DEF UserCreates, Send
  <2> QED
    BY <2>2, <2>3, RequestKeeps
<1>3. ASSUME NEW k \in Keys, NEW l \in Labels, NEW how \in {"object", "list"}, UserReads(k, l, how)
      PROVE  Inv'
  <2>1. StoreInv' /\ VersionInv'
    BY <1>3, LabelsAreBoolean, UserReadsKeeps
  <2>2. UNCHANGED << setting, objects, pending, cache, informer >>
    BY <1>3 DEF UserReads
  <2> QED
    BY <1>1, <2>1, <2>2, StillCached
<1>4. ASSUME mine # <<>>, NEW status \in {None, mine[1].status},
             NEW v \in {mine[1].spec} \cup Flawed, UserUpdates(status, v)
      PROVE  Inv'
  <2> DEFINE o == [mine[1] EXCEPT !.status = status, !.spec = v]
  <2>1. o \in Objects /\ KeyOf(mine) \in Keys /\ KeyOf(mine) = <<o.namespace, o.name>>
    BY <1>4, Edited
  <2>2. /\ Change(Update(client, o.namespace, o))
        /\ UNCHANGED << setting, informer, cache, held >> /\ mine' = <<>>
    BY <1>4 DEF UserUpdates, Send
  <2> HIDE DEF o
  <2>3. Moves(Serve(Update(client, o.namespace, o)).objects)
    BY <2>1, UpdateMoves
  <2> QED
    BY <2>2, <2>3, RequestKeeps
<1>5. ASSUME NEW k \in Keys, NEW v \in {NewSpec(k)} \cup Flawed, UserPatches(k, v) PROVE Inv'
  <2>1. v \in Int
    BY PatchedSpec
  <2>2. /\ Change(Patch(client, k[1], k[2], [spec |-> v], ""))
        /\ UNCHANGED << setting, informer, cache, mine, held >>
    BY <1>5, Zenon DEF UserPatches, Send
  <2>3. Moves(Serve(Patch(client, k[1], k[2], [spec |-> v], "")).objects)
    BY <2>1, PatchMoves, Zenon
  <2> QED
    BY <2>2, <2>3, RequestKeeps, Zenon
<1>6. ASSUME NEW k \in Keys, UserDeletes(k) PROVE Inv'
  <2>1. Moves(Serve(Delete(client, k[1], k[2])).objects)
    BY UserDeletesMoves
  <2>2. /\ Change(Delete(client, k[1], k[2]))
        /\ UNCHANGED << setting, informer, cache, mine, held >>
    BY <1>6 DEF UserDeletes, Send
  <2> QED
    BY <2>1, <2>2, RequestKeeps
<1>7. ASSUME NEW ns, NEW l, UserDeletesCollection(ns, l) PROVE Inv'
  <2> DEFINE r == DeleteCollection(client, ns, [labelled |-> l])
  <2>1. Moves(Serve(r).objects)
    BY DeletedMoves
  <2>2. Change(r) /\ UNCHANGED << setting, informer, cache, mine, held >>
    BY <1>7 DEF UserDeletesCollection, Send
  <2> QED
    BY <2>1, <2>2, RequestKeeps
<1>8. CASE InformerLists
  BY <1>1, <1>8, InformerListsKeeps DEF InformerLists
<1>9. ASSUME UNCHANGED << setting, objects, clock, pending, cache, mine, held >>,
             informer' # "list" => informer # "list"
      PROVE  Inv'
  BY <1>1, <1>9, StillKeeps, StillCached
<1>10. CASE InformerWatches
  BY <1>9, <1>10 DEF InformerWatches
<1>11. CASE InformerReceives
  BY <1>1, <1>11, InformerReceivesKeeps DEF InformerReceives
<1>12. ASSUME NEW next \in {"watch", "list"}, InformerBreaks(next) PROVE Inv'
  BY <1>9, <1>12 DEF InformerBreaks
<1>13. ASSUME NEW k \in Keys, ControllerReads(k) PROVE Inv'
  <2>1. StoreInv' /\ VersionInv'
    BY <1>13, ControllerReadsKeeps
  <2>2. UNCHANGED << setting, objects, pending, cache, informer >>
    BY <1>13, ControllerCopies, Zenon DEF ControllerReads
  <2> QED
    BY <1>1, <2>1, <2>2, StillCached
<1>14. CASE ControllerWrites
  <2> DEFINE o == held[1]
  <2>1. o \in Objects /\ KeyOf(held) \in Keys /\ KeyOf(held) = <<o.namespace, o.name>>
    BY <1>14 DEF ControllerWrites, StoreInv, Slot, KeyOf
  <2>2. /\ Change(UpdateStatus(client, o.namespace, o))
        /\ UNCHANGED << setting, informer, cache, mine >> /\ held' = <<>>
    BY <1>14, Zenon DEF ControllerWrites, Send
  <2> HIDE DEF o
  <2>3. Moves(Serve(UpdateStatus(client, o.namespace, o)).objects)
    BY <2>1, UpdateStatusMoves
  <2> QED
    BY <2>2, <2>3, RequestKeeps
<1>15. ASSUME NEW k \in Keys, NEW v \in {NewSpec(k)} \cup Flawed, UserApplies(k, v) PROVE Inv'
  <2> DEFINE r == Apply(client, k[1], [name |-> k[2], spec |-> v])
  <2>1. Moves(Serve(r).objects)
    BY PatchedSpec, ApplyMoves, Zenon
  <2>2. Change(r) /\ UNCHANGED << setting, informer, cache, mine, held >>
    BY <1>15, Zenon DEF UserApplies, Send
  <2> HIDE DEF r
  <2> QED
    BY <2>1, <2>2, RequestKeeps, Zenon
<1>16. CASE UNCHANGED vars
  BY <1>9, <1>16 DEF vars
<1> HIDE DEF Inv
<1> QED
  BY <1>2, <1>3, <1>4, <1>5, <1>6, <1>7, <1>8, <1>10, <1>11, <1>12, <1>13, <1>14, <1>15, <1>16, Zenon
     DEF Next, User

LEMMA Invariance ==
    CopiesAreDeep => (Spec => []Inv)
<1> SUFFICES ASSUME CopiesAreDeep PROVE Spec => []Inv
  OBVIOUS
<1>1. Inv /\ [Next]_vars => Inv'
  BY Inductive
<1> QED
  BY <1>1, Initially, PTL DEF Spec

\* For any typed clients, namespaces, names and scopes, any number of requests
\* and of watches that end: a cache filled through ListFunc and WatchFunc is, with
\* the changes that have yet to arrive, what is stored in its scope, whatever a
\* controller does to a DeepCopy of what it reads there.
THEOREM CacheFollows ==
    CopiesAreDeep => (Spec => []CacheCatchesUp)
<1>1. Inv => CacheCatchesUp
  BY DEF Inv
<1> QED
  BY <1>1, Invariance, PTL

-----------------------------------------------------------------------------
(* Who writes what *)

LEMMA AnsweredObjects ==
    ASSUME NEW r, NEW ok \in {TRUE, FALSE}, NEW f, Serve(r) = Answer(ok, f)
    PROVE  Serve(r).objects = f
  BY DEF Answer

LEMMA StoredAt ==
    ASSUME StoreInv, NEW k \in Keys, NEW o, objects' = Stored(k, o)
    PROVE  /\ objects'[k] = << [o EXCEPT !.rv = clock + 1] >>
           /\ objects'[k][1] = [o EXCEPT !.rv = clock + 1]
           /\ \A j \in Keys : j # k => objects'[j] = objects[j]
<1> DEFINE n == [o EXCEPT !.rv = clock + 1]
<1>1. objects' = [objects EXCEPT ![k] = <<n>>]
  BY DEF Stored
<1> HIDE DEF n
<1>2. objects'[k] = <<n>> /\ \A j \in Keys : j # k => objects'[j] = objects[j]
  BY <1>1 DEF StoreInv
<1>3. objects'[k][1] = n
  BY <1>2
<1> QED
  BY <1>2, <1>3 DEF n

LEMMA NextVersion ==
    ASSUME StoreInv, NEW o \in Objects
    PROVE  LET n == [o EXCEPT !.rv = clock + 1] IN
           /\ n \in Objects /\ n.namespace = o.namespace /\ n.name = o.name
           /\ n.spec = o.spec /\ n.status = o.status /\ n.label = o.label
           /\ n.rv = clock + 1
<1>1. clock + 1 \in Nat
  BY DEF StoreInv
<1> QED
  BY <1>1, Zenon DEF Objects

\* A request of the user leaves the status of what is there before and after.
Respects ==
    \A k \in Keys :
        Exists(k) /\ objects'[k] # <<>> /\ setting.statusEndpoint =>
            objects'[k][1].status = objects[k][1].status

LEMMA SameRespects ==
    ASSUME objects' = objects
    PROVE  Respects
  BY DEF Respects

LEMMA NewRespects ==
    ASSUME StoreInv, NEW k \in Keys, ~Exists(k), NEW o, objects' = Stored(k, o)
    PROVE  Respects
<1>1. \A j \in Keys : j # k => objects'[j] = objects[j]
  BY StoredAt, Zenon
<1> QED
  BY <1>1 DEF Respects

LEMMA CreateRespects ==
    ASSUME SettingInv, StoreInv, NEW k \in Keys, NEW l \in BOOLEAN, NEW v \in Int,
           objects' = Serve(Create(client, k[1], Object(k, v, l))).objects
    PROVE  Respects
<1> DEFINE r == Create(client, k[1], Object(k, v, l))
           n == Object(k, Defaulted(v), l)
<1>1. Serve(r) = IF Exists(k) \/ v = Invalid THEN Answer(FALSE, objects)
                 ELSE Answer(TRUE, Stored(k, n))
  BY ServeCreate, Zenon
<1>2. objects' = Serve(r).objects
  OBVIOUS
<1> HIDE DEF r, n
<1>3. CASE Exists(k) \/ v = Invalid
  BY <1>1, <1>2, <1>3, AnsweredObjects, SameRespects, Zenon
<1>4. CASE ~(Exists(k) \/ v = Invalid)
  <2>1. objects' = Stored(k, n)
    BY <1>1, <1>2, <1>4, AnsweredObjects, Zenon
  <2> QED
    BY <1>4, <2>1, NewRespects, Zenon
<1> QED
  BY <1>3, <1>4

LEMMA DeleteRespects ==
    ASSUME SettingInv, StoreInv, NEW k \in Keys,
           objects' = Serve(Delete(client, k[1], k[2])).objects
    PROVE  Respects
<1>1. CASE ~Exists(k)
  <2>1. objects' = objects
    <3>1. Serve(Delete(client, k[1], k[2])) = Answer(FALSE, objects)
      BY <1>1, ServeDelete, Zenon
    <3> QED
      BY <3>1, AnsweredObjects, Zenon
  <2> QED
    BY <2>1, SameRespects
<1>2. CASE Exists(k)
  <2>1. objects' = [objects EXCEPT ![k] = <<>>]
    <3>1. Serve(Delete(client, k[1], k[2])) = Answer(TRUE, [objects EXCEPT ![k] = <<>>])
      BY <1>2, ServeDelete, Zenon
    <3> QED
      BY <3>1, AnsweredObjects, Zenon
  <2>2. \A j \in Keys : objects'[j] \in {objects[j], <<>>}
    BY <2>1 DEF StoreInv
  <2> QED
    BY <2>2 DEF Respects
<1> QED
  BY <1>1, <1>2

LEMMA UpdateRespects ==
    ASSUME SettingInv, StoreInv, NEW k \in Keys, NEW o \in Objects, k = <<o.namespace, o.name>>,
           objects' = Serve(Update(client, o.namespace, o)).objects
    PROVE  Respects
<1>1. CASE ~(Exists(k) /\ o.rv = objects[k][1].rv /\ o.spec # Invalid)
  <2>1. objects' = objects
    <3>1. Serve(Update(client, o.namespace, o)) = Answer(FALSE, objects)
      BY <1>1, ServeUpdate, Zenon
    <3> QED
      BY <3>1, AnsweredObjects, Zenon
  <2> QED
    BY <2>1, SameRespects
<1>2. CASE Exists(k) /\ o.rv = objects[k][1].rv /\ o.spec # Invalid
  <2> DEFINE n == Whole(k, o)
  <2>1. objects' = Stored(k, n)
    <3>1. Serve(Update(client, o.namespace, o)) = Answer(TRUE, Stored(k, n))
      BY <1>2, ServeUpdate, Zenon
    <3> QED
      BY <3>1, AnsweredObjects, Zenon
  <2>3. n \in Objects /\ n.status = Kept(k, o.status)
    BY <1>2, WholeObject
  <2> HIDE DEF n
  <2>4. \A j \in Keys : j # k => objects'[j] = objects[j]
    BY <2>1, StoredAt, Zenon
  <2>5. [n EXCEPT !.rv = clock + 1].status = Kept(k, o.status)
    BY <2>3, NextVersion
  <2>6. setting.statusEndpoint => objects'[k][1].status = objects[k][1].status
    <3>1. objects'[k][1] = [n EXCEPT !.rv = clock + 1]
      BY <2>1, StoredAt
    <3>2. objects'[k][1].status = Kept(k, o.status)
      BY <2>5, <3>1
    <3> QED
      BY <3>2 DEF Kept
  <2> QED
    BY <2>4, <2>6 DEF Respects
<1> QED
  BY <1>1, <1>2

LEMMA RespecRespects ==
    ASSUME StoreInv, NEW k \in Keys, Exists(k), NEW v \in Int,
           objects' = Stored(k, [objects[k][1] EXCEPT !.spec = Defaulted(v)])
    PROVE  Respects
<1> DEFINE n == [objects[k][1] EXCEPT !.spec = Defaulted(v)]
<1>1. objects' = Stored(k, n)
  OBVIOUS
<1>2. n \in Objects /\ n.status = objects[k][1].status
  BY StoredObjects, WithSpec, DefaultedSpec, Zenon
<1> HIDE DEF n
<1>3. \A j \in Keys : j # k => objects'[j] = objects[j]
  BY <1>1, StoredAt, Zenon
<1>4. [n EXCEPT !.rv = clock + 1].status = n.status
  BY <1>2, NextVersion, Zenon
<1>5. objects'[k][1] = [n EXCEPT !.rv = clock + 1]
  BY <1>1, StoredAt, Zenon
<1>6. objects'[k][1].status = objects[k][1].status
  BY <1>2, <1>4, <1>5, Zenon
<1> QED
  BY <1>3, <1>6, Zenon DEF Respects

LEMMA PatchRespects ==
    ASSUME SettingInv, StoreInv, NEW k \in Keys, NEW v \in Int,
           objects' = Serve(Patch(client, k[1], k[2], [spec |-> v], "")).objects
    PROVE  Respects
<1> DEFINE r == Patch(client, k[1], k[2], [spec |-> v], "")
           f == Stored(k, [objects[k][1] EXCEPT !.spec = Defaulted(v)])
<1>1. Serve(r) = IF Exists(k) /\ v # Invalid THEN Answer(TRUE, f) ELSE Answer(FALSE, objects)
  BY ServePatch, Zenon
<1>2. objects' = Serve(r).objects
  BY Zenon
<1> HIDE DEF r, f
<1>3. CASE Exists(k) /\ v # Invalid
  <2>1. objects' = f
    BY <1>1, <1>2, <1>3, AnsweredObjects, Zenon
  <2> QED
    BY <1>3, <2>1, RespecRespects, Zenon DEF f
<1>4. CASE ~(Exists(k) /\ v # Invalid)
  BY <1>1, <1>2, <1>4, AnsweredObjects, SameRespects, Zenon
<1> QED
  BY <1>3, <1>4, Zenon

LEMMA ApplyRespects ==
    ASSUME SettingInv, StoreInv, NEW k \in Keys, NEW v \in Int,
           objects' = Serve(Apply(client, k[1], [name |-> k[2], spec |-> v])).objects
    PROVE  Respects
<1> DEFINE r == Apply(client, k[1], [name |-> k[2], spec |-> v])
           f == Stored(k, [objects[k][1] EXCEPT !.spec = Defaulted(v)])
           n == Object(k, Defaulted(v), FALSE)
<1>1. Serve(r) = IF v = Invalid THEN Answer(FALSE, objects)
                 ELSE IF Exists(k) THEN Answer(TRUE, f) ELSE Answer(TRUE, Stored(k, n))
  BY ServeApply, Zenon
<1>2. objects' = Serve(r).objects
  OBVIOUS
<1> HIDE DEF r, f, n
<1>3. CASE v = Invalid
  BY <1>1, <1>2, <1>3, AnsweredObjects, SameRespects, Zenon
<1>4. CASE v # Invalid /\ Exists(k)
  <2>1. objects' = f
    BY <1>1, <1>2, <1>4, AnsweredObjects, Zenon
  <2> QED
    BY <1>4, <2>1, RespecRespects, Zenon DEF f
<1>5. CASE v # Invalid /\ ~Exists(k)
  <2>1. objects' = Stored(k, n)
    BY <1>1, <1>2, <1>5, AnsweredObjects, Zenon
  <2> QED
    BY <1>5, <2>1, NewRespects, Zenon
<1> QED
  BY <1>3, <1>4, <1>5

LEMMA DeleteCollectionRespects ==
    ASSUME SettingInv, StoreInv, NEW ns, NEW l,
           objects' = Serve(DeleteCollection(client, ns, [labelled |-> l])).objects
    PROVE  Respects
<1> DEFINE r == DeleteCollection(client, ns, [labelled |-> l])
<1>1. r.verb = "deletecollection"
  BY Zenon DEF DeleteCollection, NewRequest
<1>2. objects' = Serve(r).objects
  OBVIOUS
<1> HIDE DEF r
<1>3. objects' = [k \in DOMAIN objects |->
                    IF Exists(k) /\ Selected(r.namespace, r.options, objects[k][1])
                    THEN <<>> ELSE objects[k]]
  BY <1>1, <1>2, Zenon DEF Serve
<1>4. \A k \in Keys : objects'[k] \in {objects[k], <<>>}
  BY <1>3 DEF StoreInv
<1> QED
  BY <1>4 DEF Respects

\* A status write changes one object, if its version was read, and that only in
\* its status and its version.
LEMMA StatusIsWritten ==
    ASSUME Inv, ControllerWrites
    PROVE  LET k == KeyOf(held)
               n == [objects[k][1] EXCEPT !.status = held[1].status] IN
           \/ objects' = objects
           \/ /\ k \in Keys /\ Current(held, objects[k]) /\ Exists(k)
              /\ objects[k][1] \in Objects /\ n \in Objects /\ held[1].status \in Int
              /\ \A j \in Keys : j # k => objects'[j] = objects[j]
              /\ objects'[k] = << [n EXCEPT !.rv = clock + 1] >>
<1> DEFINE k == KeyOf(held)
           o == held[1]
           n == [objects[k][1] EXCEPT !.status = o.status]
<1>1. /\ o \in Objects /\ k \in Keys /\ k = <<o.namespace, o.name>> /\ held # <<>>
      /\ StoreInv /\ SettingInv
  BY Zenon DEF ControllerWrites, Inv, StoreInv, Slot, KeyOf
<1>2. objects' = Serve(UpdateStatus(client, o.namespace, o)).objects
  BY Zenon DEF ControllerWrites, Send, Change
<1> HIDE DEF k, o
<1>3. CASE setting.statusEndpoint /\ Exists(k) /\ o.rv = objects[k][1].rv
  <2>1. objects' = Stored(k, n)
    <3>1. Serve(UpdateStatus(client, o.namespace, o)) = Answer(TRUE, Stored(k, n))
      BY <1>1, <1>2, <1>3, ServeUpdateStatus, Zenon
    <3> QED
      BY <1>2, <3>1, AnsweredObjects, Zenon
  <2>2. /\ \A j \in Keys : j # k => objects'[j] = objects[j]
        /\ objects'[k] = << [n EXCEPT !.rv = clock + 1] >>
    <3> HIDE DEF n
    <3> QED
      BY <1>1, <2>1, StoredAt
  <2>3. objects[k][1] \in Objects /\ o.status \in Int
    BY <1>1, <1>3, StoredObjects, ObjectFields
  <2>4. n \in Objects
    BY <2>3, WithStatus
  <2>5. Current(held, objects[k])
    BY <1>1, <1>3 DEF Current, Exists, o
  <2> QED
    BY <1>1, <1>3, <2>2, <2>3, <2>4, <2>5 DEF k, o
<1>4. CASE ~(setting.statusEndpoint /\ Exists(k) /\ o.rv = objects[k][1].rv)
  <2>1. objects' = objects
    <3>1. Serve(UpdateStatus(client, o.namespace, o)) = Answer(FALSE, objects)
      BY <1>1, <1>2, <1>4, ServeUpdateStatus, Zenon
    <3> QED
      BY <1>2, <3>1, AnsweredObjects, Zenon
  <2> QED
    BY <2>1
<1> QED
  BY <1>3, <1>4

CountInv == writes \in Nat

LEMMA CountInvariance ==
    Spec => []CountInv
<1>1. Init => CountInv
  BY DEF Init, CountInv
<1>2. CountInv /\ [Next]_vars => CountInv'
  <2> SUFFICES ASSUME CountInv, [Next]_vars PROVE CountInv'
    OBVIOUS
  <2>1. CASE Request
    BY <2>1 DEF Request, CountInv
  <2>2. CASE writes' = writes
    BY <2>2 DEF CountInv
  <2>3. CASE User
    <3>1. \/ \E k \in Keys, l \in Labels, how \in {"object", "list"} : UserReads(k, l, how)
          \/ Request
      BY <2>3, Zenon DEF User, UserCreates, UserUpdates, UserPatches, UserApplies,
         UserDeletes, UserDeletesCollection
    <3> QED
      BY <2>1, <2>2, <3>1, Zenon DEF UserReads
  <2> QED
    BY <2>2, <2>3, Zenon DEF Next, InformerLists, InformerWatches, InformerReceives, InformerBreaks,
       ControllerReads, ControllerWrites, vars
<1> QED
  BY <1>1, <1>2, PTL DEF Spec

\* The steps that change objects: a request of the user, or a status write.
LEMMA WhoWrites ==
    ASSUME Inv, CountInv, [Next]_vars
    PROVE  \/ writes' # writes /\ Respects
           \/ writes' = writes /\ (objects' = objects \/ ControllerWrites)
<1> USE DEF Inv
<1>1. ASSUME Request PROVE writes' # writes
  BY <1>1 DEF Request, CountInv
<1>2. ASSUME NEW k \in Keys, NEW l \in Labels, NEW v \in {1} \cup Flawed, UserCreates(k, l, v)
      PROVE  writes' # writes /\ Respects
  <2>1. Request /\ objects' = Serve(Create(client, k[1], Object(k, v, l))).objects
    BY <1>2 DEF UserCreates, Send, Change
  <2> QED
    BY <1>1, <2>1, LabelsAreBoolean, CreatedSpec, CreateRespects
<1>3. ASSUME mine # <<>>, NEW status \in {None, mine[1].status},
             NEW v \in {mine[1].spec} \cup Flawed, UserUpdates(status, v)
      PROVE  writes' # writes /\ Respects
  <2> DEFINE o == [mine[1] EXCEPT !.status = status, !.spec = v]
  <2>1. o \in Objects /\ KeyOf(mine) \in Keys /\ KeyOf(mine) = <<o.namespace, o.name>>
    BY <1>3, Edited
  <2>2. Request /\ objects' = Serve(Update(client, o.namespace, o)).objects
    BY <1>3 DEF UserUpdates, Send, Change
  <2> HIDE DEF o
  <2>3. Respects
    BY <2>1, <2>2, UpdateRespects
  <2> QED
    BY <1>1, <2>2, <2>3
<1>4. ASSUME NEW k \in Keys, NEW v \in {NewSpec(k)} \cup Flawed, UserPatches(k, v)
      PROVE  writes' # writes /\ Respects
  <2>1. v \in Int
    BY PatchedSpec
  <2>2. Request /\ objects' = Serve(Patch(client, k[1], k[2], [spec |-> v], "")).objects
    BY <1>4, Zenon DEF UserPatches, Send, Change
  <2>3. Respects
    BY <2>1, <2>2, PatchRespects, Zenon
  <2> QED
    BY <1>1, <2>2, <2>3, Zenon
<1>5. ASSUME NEW k \in Keys, UserDeletes(k) PROVE writes' # writes /\ Respects
  <2>1. Request /\ objects' = Serve(Delete(client, k[1], k[2])).objects
    BY <1>5 DEF UserDeletes, Send, Change
  <2> QED
    BY <1>1, <2>1, DeleteRespects
<1>6. ASSUME NEW ns, NEW l, UserDeletesCollection(ns, l) PROVE writes' # writes /\ Respects
  <2>1. Request /\ objects' = Serve(DeleteCollection(client, ns, [labelled |-> l])).objects
    BY <1>6 DEF UserDeletesCollection, Send, Change
  <2> QED
    BY <1>1, <2>1, DeleteCollectionRespects
<1>7. CASE ControllerWrites
  BY <1>7 DEF ControllerWrites
<1>8. CASE UNCHANGED << writes, objects >>
  BY <1>8
<1>9. ASSUME NEW k \in Keys, NEW v \in {NewSpec(k)} \cup Flawed, UserApplies(k, v)
      PROVE  writes' # writes /\ Respects
  <2>1. v \in Int
    BY PatchedSpec
  <2>2. Request /\ objects' = Serve(Apply(client, k[1], [name |-> k[2], spec |-> v])).objects
    BY <1>9, Zenon DEF UserApplies, Send, Change
  <2>3. Respects
    BY <2>1, <2>2, ApplyRespects, Zenon
  <2> QED
    BY <1>1, <2>2, <2>3, Zenon
<1> QED
  BY <1>2, <1>3, <1>4, <1>5, <1>6, <1>7, <1>8, <1>9, Zenon DEF Next, User, UserReads, InformerLists,
     InformerWatches, InformerReceives, InformerBreaks, ControllerReads, vars

\* For any typed clients, namespaces, names and scopes, any number of requests
\* and of watches that end: Update, Patch and Apply of the typed clients leave the
\* status alone, and UpdateStatus changes nothing else, of an object that is in
\* the scope of the controller's informer when it is written.
THEOREM WritersApart ==
    CopiesAreDeep => (Spec => WritersKeepApart)
<1> SUFFICES ASSUME CopiesAreDeep PROVE Spec => WritersKeepApart
  OBVIOUS
<1> DEFINE A == \A k \in DOMAIN objects :
        Exists(k) /\ objects'[k] # <<>> /\ objects'[k] # objects[k] /\ setting.statusEndpoint =>
            LET old == objects[k][1]
                new == objects'[k][1]
            IN IF writes' # writes THEN new.status = old.status
               ELSE /\ InScope(old)
                    /\ new = [old EXCEPT !.status = new.status, !.rv = new.rv]
<1>1. Inv /\ CountInv /\ [Next]_vars => [A]_vars
  <2> SUFFICES ASSUME Inv, CountInv, [Next]_vars, NEW k \in DOMAIN objects,
                      Exists(k), objects'[k] # <<>>, objects'[k] # objects[k],
                      setting.statusEndpoint
               PROVE  LET old == objects[k][1]
                          new == objects'[k][1]
                      IN IF writes' # writes THEN new.status = old.status
                         ELSE /\ InScope(old)
                              /\ new = [old EXCEPT !.status = new.status, !.rv = new.rv]
    BY Zenon
  <2>1. k \in Keys /\ StoreInv
    BY DEF Inv, StoreInv
  <2>2. CASE writes' # writes
    <3>1. Respects
      BY <2>2, WhoWrites
    <3> QED
      BY <2>1, <2>2, <3>1 DEF Respects
  <2>3. CASE writes' = writes
    <3> DEFINE old == objects[k][1]
               new == objects'[k][1]
               n == [old EXCEPT !.status = held[1].status]
    <3>1. ControllerWrites
      BY <2>3, WhoWrites
    <3>2. /\ k = KeyOf(held) /\ Current(held, objects[k]) /\ old \in Objects /\ n \in Objects
          /\ held[1].status \in Int /\ objects'[k] = << [n EXCEPT !.rv = clock + 1] >>
      BY <2>1, <3>1, StatusIsWritten, Zenon
    <3>3. held # <<>> /\ held[1].label = old.label /\ InScope(held[1])
      BY <3>2 DEF Inv, VersionInv, Current
    <3>4. held[1].namespace = old.namespace
      BY <2>1, <3>2, <3>3, StoredObjects DEF StoreInv, Slot
    <3>5. InScope(old)
      BY <3>3, <3>4, Zenon DEF InScope
    <3>6. new = [n EXCEPT !.rv = clock + 1]
      BY <3>2
    <3>7. new = [old EXCEPT !.status = new.status, !.rv = new.rv]
      <4> HIDE DEF old, new
      <4>1. clock + 1 \in Nat
        BY <2>1 DEF StoreInv
      <4> QED
        BY <3>2, <3>6, <4>1, Zenon DEF Objects, n
    <3> QED
      BY <2>3, <3>5, <3>7
  <2> QED
    BY <2>2, <2>3
<1> QED
  BY <1>1, Invariance, CountInvariance, PTL DEF Spec, WritersKeepApart

\* For any typed clients, namespaces, names and scopes, any number of requests
\* and of watches that end: a status that UpdateStatus writes was computed from
\* the spec that is stored, since the put carries the version that was read.
THEOREM StatusOfItsSpec ==
    CopiesAreDeep => (Spec => StatusIsOfItsSpec)
<1> SUFFICES ASSUME CopiesAreDeep PROVE Spec => StatusIsOfItsSpec
  OBVIOUS
<1> DEFINE A == \A k \in DOMAIN objects :
        Exists(k) /\ objects'[k] # <<>> /\ writes' = writes /\ setting.statusEndpoint
            /\ objects'[k][1].status # objects[k][1].status
            => objects'[k][1].status = objects[k][1].spec
<1>1. Inv /\ CountInv /\ [Next]_vars => [A]_vars
  <2> SUFFICES ASSUME Inv, CountInv, [Next]_vars, NEW k \in DOMAIN objects, writes' = writes,
                      objects'[k][1].status # objects[k][1].status
               PROVE  objects'[k][1].status = objects[k][1].spec
    OBVIOUS
  <2> DEFINE n == [objects[k][1] EXCEPT !.status = held[1].status]
  <2>1. k \in Keys /\ StoreInv
    BY DEF Inv, StoreInv
  <2>2. ControllerWrites
    BY WhoWrites
  <2>3. /\ k = KeyOf(held) /\ Current(held, objects[k]) /\ objects[k][1] \in Objects
        /\ n \in Objects /\ held[1].status \in Int
        /\ objects'[k] = << [n EXCEPT !.rv = clock + 1] >>
    BY <2>1, <2>2, StatusIsWritten, Zenon
  <2>4. held[1].status = objects[k][1].spec
    BY <2>3 DEF Inv, VersionInv, Current
  <2>5. n.status = held[1].status
    BY <2>3, WithStatus
  <2> HIDE DEF n
  <2>6. objects'[k][1] = [n EXCEPT !.rv = clock + 1]
    BY <2>3
  <2>7. objects'[k][1].status = n.status
    BY <2>1, <2>3, <2>6, NextVersion, Zenon
  <2> QED
    BY <2>4, <2>5, <2>7
<1> QED
  BY <1>1, Invariance, CountInvariance, PTL DEF Spec, StatusIsOfItsSpec

-----------------------------------------------------------------------------
(* The fake clientset *)

Reply(ok, t) == [ok |-> ok, tracker |-> t]
With(p, o) == [t \in DOMAIN tracker \cup {p} |-> IF t = p THEN o ELSE tracker[t]]
Without(p) == [t \in DOMAIN tracker \ {p} |-> tracker[t]]

LEMMA ReactsToCreate ==
    ASSUME NEW a, a.verb = "create"
    PROVE  /\ TrackerKey(a) \in DOMAIN tracker => ObjectReaction(tracker, a) = Reply(FALSE, tracker)
           /\ TrackerKey(a) \notin DOMAIN tracker =>
                ObjectReaction(tracker, a) = Reply(TRUE, With(TrackerKey(a), a.object))
  BY DEF ObjectReaction, Tracked, Reply, With

LEMMA ReactsToUpdate ==
    ASSUME NEW a, a.verb = "update"
    PROVE  /\ TrackerKey(a) \notin DOMAIN tracker => ObjectReaction(tracker, a) = Reply(FALSE, tracker)
           /\ TrackerKey(a) \in DOMAIN tracker =>
                ObjectReaction(tracker, a) = Reply(TRUE, With(TrackerKey(a), a.object))
  BY DEF ObjectReaction, Tracked, Reply, With

LEMMA ReactsToPatch ==
    ASSUME NEW a, a.verb = "patch"
    PROVE  /\ TrackerKey(a) \notin DOMAIN tracker => ObjectReaction(tracker, a) = Reply(FALSE, tracker)
           /\ TrackerKey(a) \in DOMAIN tracker =>
                ObjectReaction(tracker, a) =
                  Reply(TRUE, With(TrackerKey(a), MergePatch(tracker[TrackerKey(a)], a.object)))
  BY DEF ObjectReaction, Tracked, Reply, With

LEMMA ReactsToDelete ==
    ASSUME NEW a, a.verb = "delete"
    PROVE  /\ TrackerKey(a) \notin DOMAIN tracker => ObjectReaction(tracker, a) = Reply(FALSE, tracker)
           /\ TrackerKey(a) \in DOMAIN tracker =>
                ObjectReaction(tracker, a) = Reply(TRUE, Without(TrackerKey(a)))
  BY DEF ObjectReaction, Tracked, Reply, Without

LEMMA FakeFacts ==
    ASSUME SettingInv
    PROVE  /\ fake.resource = client.resource
           /\ fake.namespaced = client.namespaced
  BY SettingFacts, FakesAreBound, Zenon DEF fake

\* The actions of the fake for a key name its place in the tracker.
LEMMA FakePlaces ==
    ASSUME SettingInv, NEW k \in Keys
    PROVE  /\ \A o : o.name = k[2] =>
                /\ TrackerKey(FakeCreate(fake, k[1], o)) = Place(k)
                /\ TrackerKey(FakeUpdate(fake, k[1], o)) = Place(k)
                /\ TrackerKey(FakeUpdateStatus(fake, k[1], o)) = Place(k)
           /\ TrackerKey(FakeDelete(fake, k[1], k[2])) = Place(k)
           /\ \A d : TrackerKey(FakePatch(fake, k[1], k[2], d, "")) = Place(k)
<1>1. \A verb : Action(fake, verb, k[1]).namespace = k[1]
  BY FakeFacts, KeyFacts, Zenon DEF Action
<1>2. \A verb : Action(fake, verb, k[1]).resource = client.resource
  BY FakeFacts DEF Action
<1>3. ASSUME NEW o, o.name = k[2]
      PROVE  /\ TrackerKey(FakeCreate(fake, k[1], o)) = Place(k)
             /\ TrackerKey(FakeUpdate(fake, k[1], o)) = Place(k)
             /\ TrackerKey(FakeUpdateStatus(fake, k[1], o)) = Place(k)
  <2>1. TrackerKey(FakeCreate(fake, k[1], o)) = Place(k)
    BY <1>1, <1>2, <1>3, Zenon DEF TrackerKey, FakeCreate, Action, Place
  <2>2. TrackerKey(FakeUpdate(fake, k[1], o)) = Place(k)
    BY <1>1, <1>2, <1>3, Zenon DEF TrackerKey, FakeUpdate, Action, Place
  <2>3. TrackerKey(FakeUpdateStatus(fake, k[1], o)) = Place(k)
    BY <1>1, <1>2, <1>3, Zenon DEF TrackerKey, FakeUpdateStatus, Action, Place
  <2> QED
    BY <2>1, <2>2, <2>3
<1>4. TrackerKey(FakeDelete(fake, k[1], k[2])) = Place(k)
  BY <1>1, <1>2, Zenon DEF TrackerKey, FakeDelete, Action, Place
<1>5. ASSUME NEW d PROVE TrackerKey(FakePatch(fake, k[1], k[2], d, "")) = Place(k)
  BY <1>1, <1>2, Zenon DEF TrackerKey, FakePatch, Action, Place
<1> QED
  BY <1>3, <1>4, <1>5, Zenon

LEMMA PlacesDiffer ==
    ASSUME SettingInv, NEW k \in Keys, NEW j \in Keys, Place(k) = Place(j)
    PROVE  k = j
<1>1. k = <<k[1], k[2]>> /\ j = <<j[1], j[2]>>
  BY KeyFacts, Zenon
<1>2. k[1] = j[1] /\ k[2] = j[2]
  BY DEF Place
<1> QED
  BY <1>1, <1>2

\* To be equal but for the version.
LEMMA PlainFields ==
    ASSUME NEW a \in Objects, NEW b \in Objects
    PROVE  Plain(a) = Plain(b) <=>
             /\ a.namespace = b.namespace /\ a.name = b.name /\ a.spec = b.spec
             /\ a.status = b.status /\ (a.label <=> b.label)
<1>1. ASSUME Plain(a) = Plain(b)
      PROVE  /\ a.namespace = b.namespace /\ a.name = b.name /\ a.spec = b.spec
             /\ a.status = b.status /\ (a.label <=> b.label)
  BY <1>1, Zenon DEF Plain, Objects
<1>2. ASSUME /\ a.namespace = b.namespace /\ a.name = b.name /\ a.spec = b.spec
             /\ a.status = b.status /\ (a.label <=> b.label)
      PROVE  Plain(a) = Plain(b)
  <2>1. a.label = b.label
    BY <1>2, Zenon DEF Objects
  <2> QED
    BY <1>2, <2>1, Zenon DEF Plain, Objects
<1> QED
  BY <1>1, <1>2

LEMMA PlainWithSpec ==
    ASSUME NEW a \in Objects, NEW b \in Objects, Plain(a) = Plain(b), NEW v \in Int
    PROVE  /\ [a EXCEPT !.spec = v] \in Objects /\ [b EXCEPT !.spec = v] \in Objects
           /\ Plain([a EXCEPT !.spec = v]) = Plain([b EXCEPT !.spec = v])
<1> DEFINE c == [a EXCEPT !.spec = v]
           d == [b EXCEPT !.spec = v]
<1>1. c \in Objects /\ d \in Objects
  BY Zenon DEF Objects
<1>2. /\ a.namespace = b.namespace /\ a.name = b.name
      /\ a.status = b.status /\ (a.label <=> b.label)
  BY PlainFields
<1>3. /\ c.namespace = a.namespace /\ c.name = a.name /\ c.spec = v
      /\ c.status = a.status /\ (c.label <=> a.label)
  BY Zenon DEF Objects
<1>4. /\ d.namespace = b.namespace /\ d.name = b.name /\ d.spec = v
      /\ d.status = b.status /\ (d.label <=> b.label)
  BY Zenon DEF Objects
<1> HIDE DEF c, d
<1>5. Plain(c) = Plain(d)
  BY <1>1, <1>2, <1>3, <1>4, PlainFields
<1> QED
  BY <1>1, <1>5 DEF c, d

LEMMA Uncompared ==
    ASSUME NEW r, NEW a, NEW c, Imitate(r, a, c), fidelity # "yes" \/ ~c
    PROVE  FakeInv'
<1>1. fidelity' = "no"
  BY DEF Imitate
<1> QED
  BY <1>1 DEF FakeInv

LEMMA BothServe ==
    ASSUME NEW r, NEW a, NEW c, NEW f, NEW t, Imitate(r, a, c), fidelity = "yes", c,
           ObjectReaction(tracker, a) = Reply(TRUE, t), Serve(r) = Answer(TRUE, f)
    PROVE  fidelity' = "yes" /\ tracker' = t
<1>1. ObjectReaction(tracker, a).ok = TRUE /\ ObjectReaction(tracker, a).tracker = t
  BY DEF Reply
<1>2. Serve(r).ok = TRUE
  BY DEF Answer
<1> QED
  BY <1>1, <1>2, Zenon DEF Imitate

LEMMA BothRefuse ==
    ASSUME NEW r, NEW a, NEW c, NEW f, Imitate(r, a, c), fidelity = "yes", c,
           ObjectReaction(tracker, a) = Reply(FALSE, tracker), Serve(r) = Answer(FALSE, f)
    PROVE  fidelity' = "yes" /\ tracker' = tracker
<1>1. ObjectReaction(tracker, a).ok = FALSE /\ ObjectReaction(tracker, a).tracker = tracker
  BY DEF Reply
<1>2. Serve(r).ok = FALSE
  BY DEF Answer
<1> QED
  BY <1>1, <1>2, Zenon DEF Imitate

\* What FakeInv says of one key.
Mirrored(k, t, stored) ==
    IF stored # <<>>
    THEN /\ Place(k) \in DOMAIN t /\ t[Place(k)] \in Objects
         /\ Plain(t[Place(k)]) = Plain(stored[1])
    ELSE Place(k) \notin DOMAIN t

LEMMA FakeInvIs ==
    FakeInv <=> /\ fidelity \in {"yes", "no"}
                /\ fidelity = "yes" =>
                    /\ tracker = [t \in DOMAIN tracker |-> tracker[t]]
                    /\ \A t \in DOMAIN tracker :
                         t[1] = client.resource => \E k \in Keys : t = Place(k)
                    /\ \A k \in Keys : Mirrored(k, tracker, objects[k])
  BY DEF FakeInv, Mirrored, Exists

LEMMA FakeInvNext ==
    ASSUME setting' = setting, fidelity' = "yes",
           tracker' = [t \in DOMAIN tracker' |-> tracker'[t]],
           \A t \in DOMAIN tracker' : t[1] = client.resource => \E k \in Keys : t = Place(k),
           \A k \in Keys : Mirrored(k, tracker', objects'[k])
    PROVE  FakeInv'
<1>1. Keys' = Keys /\ client' = client
  BY Zenon DEF Keys, Namespaces, client
<1>2. \A k : Place(k)' = Place(k)
  BY <1>1 DEF Place
<1>3. \A k \in Keys : Mirrored(k, tracker, objects[k])'
  BY <1>1 DEF Mirrored, Place
<1>4. (\A t \in DOMAIN tracker : t[1] = client.resource => \E k \in Keys : t = Place(k))'
  BY <1>1 DEF Place
<1>5. (/\ fidelity \in {"yes", "no"}
       /\ fidelity = "yes" =>
           /\ tracker = [t \in DOMAIN tracker |-> tracker[t]]
           /\ \A t \in DOMAIN tracker : t[1] = client.resource => \E k \in Keys : t = Place(k)
           /\ \A k \in Keys : Mirrored(k, tracker, objects[k]))'
  BY <1>1, <1>3, <1>4
<1> QED
  BY <1>5, FakeInvIs, PTL

LEMMA MirrorSame ==
    ASSUME FakeInv, fidelity = "yes", fidelity' = "yes", setting' = setting,
           objects' = objects, tracker' = tracker
    PROVE  FakeInv'
  BY FakeInvIs, FakeInvNext

LEMMA MirrorStore ==
    ASSUME SettingInv, StoreInv, FakeInv, fidelity = "yes", fidelity' = "yes", setting' = setting,
           NEW k \in Keys, NEW o \in Objects, NEW n \in Objects, Plain(o) = Plain(n),
           objects' = Stored(k, n), tracker' = With(Place(k), o)
    PROVE  FakeInv'
<1> DEFINE m == [n EXCEPT !.rv = clock + 1]
<1>1. /\ objects'[k] = <<m>> /\ objects'[k] # <<>>
      /\ \A j \in Keys : j # k => objects'[j] = objects[j]
  BY StoredAt
<1>2. m \in Objects /\ Plain(m) = Plain(n)
  <2>1. clock + 1 \in Nat
    BY DEF StoreInv
  <2>2. m \in Objects
    BY <2>1, Zenon DEF Objects
  <2>3. Plain(m) = Plain(n)
    BY <2>1, Zenon DEF Objects, Plain
  <2> QED
    BY <2>2, <2>3
<1> HIDE DEF m
<1>3. /\ DOMAIN tracker' = DOMAIN tracker \cup {Place(k)}
      /\ tracker'[Place(k)] = o
      /\ \A t \in DOMAIN tracker : t # Place(k) => tracker'[t] = tracker[t]
      /\ tracker' = [t \in DOMAIN tracker' |-> tracker'[t]]
  BY DEF With
<1>4. Mirrored(k, tracker', objects'[k])
  <2>1. objects'[k][1] = m
    BY <1>1
  <2> QED
    BY <1>1, <1>2, <1>3, <2>1 DEF Mirrored
<1>5. ASSUME NEW j \in Keys, j # k PROVE Mirrored(j, tracker', objects'[j])
  <2>1. Mirrored(j, tracker, objects[j])
    BY FakeInvIs
  <2>2. Place(j) # Place(k)
    BY <1>5, PlacesDiffer
  <2>3. objects'[j] = objects[j]
    BY <1>1, <1>5
  <2> QED
    BY <1>3, <2>1, <2>2, <2>3 DEF Mirrored
<1>6. \A t \in DOMAIN tracker' : t[1] = client.resource => \E j \in Keys : t = Place(j)
  BY <1>3, FakeInvIs
<1> QED
  BY <1>3, <1>4, <1>5, <1>6, FakeInvNext

LEMMA MirrorDrop ==
    ASSUME SettingInv, StoreInv, FakeInv, fidelity = "yes", fidelity' = "yes", setting' = setting,
           NEW k \in Keys, objects' = [objects EXCEPT ![k] = <<>>], tracker' = Without(Place(k))
    PROVE  FakeInv'
<1>1. objects'[k] = <<>> /\ \A j \in Keys : j # k => objects'[j] = objects[j]
  BY DEF StoreInv
<1>2. /\ DOMAIN tracker' = DOMAIN tracker \ {Place(k)}
      /\ \A t \in DOMAIN tracker : t # Place(k) => tracker'[t] = tracker[t]
      /\ tracker' = [t \in DOMAIN tracker' |-> tracker'[t]]
  BY DEF Without
<1>3. Mirrored(k, tracker', objects'[k])
  BY <1>1, <1>2 DEF Mirrored
<1>4. ASSUME NEW j \in Keys, j # k PROVE Mirrored(j, tracker', objects'[j])
  <2>1. Mirrored(j, tracker, objects[j])
    BY FakeInvIs
  <2>2. Place(j) # Place(k)
    BY <1>4, PlacesDiffer
  <2>3. objects'[j] = objects[j]
    BY <1>1, <1>4
  <2> QED
    BY <1>2, <2>1, <2>2, <2>3 DEF Mirrored
<1>5. \A t \in DOMAIN tracker' : t[1] = client.resource => \E j \in Keys : t = Place(j)
  BY <1>2, FakeInvIs
<1> QED
  BY <1>2, <1>3, <1>4, <1>5, FakeInvNext

LEMMA FakeCreateKeeps ==
    ASSUME SettingInv, StoreInv, FakeInv, NEW k \in Keys, NEW l \in BOOLEAN, NEW v \in Int,
           setting' = setting,
           Send(Create(client, k[1], Object(k, v, l)), FakeCreate(fake, k[1], Object(k, v, l)),
                Imitable(v))
    PROVE  FakeInv'
<1> DEFINE o == Object(k, v, l)
           r == Create(client, k[1], o)
           a == FakeCreate(fake, k[1], o)
<1>1. Imitate(r, a, Imitable(v)) /\ objects' = Serve(r).objects
  BY Zenon DEF Send, Change
<1>2. o \in Objects /\ o.name = k[2]
  BY NewObjects
<1>3. Imitable(v) =>
        Serve(r) = IF Exists(k) THEN Answer(FALSE, objects) ELSE Answer(TRUE, Stored(k, o))
  BY ServeCreate, DefaultedSpec, Zenon
<1> HIDE DEF o
<1>4. a.verb = "create" /\ a.object = o
  BY DEF FakeCreate, Action
<1>5. TrackerKey(a) = Place(k)
  BY <1>2, FakePlaces, Zenon
<1> HIDE DEF r, a
<1>6. CASE fidelity # "yes" \/ ~Imitable(v)
  BY <1>1, <1>6, Uncompared, Zenon
<1>7. CASE fidelity = "yes" /\ Imitable(v) /\ Exists(k)
  <2>1. Serve(r) = Answer(FALSE, objects)
    BY <1>3, <1>7
  <2>2. Place(k) \in DOMAIN tracker
    BY <1>7, FakeInvIs DEF Mirrored, Exists
  <2>3. ObjectReaction(tracker, a) = Reply(FALSE, tracker)
    BY <1>4, <1>5, <2>2, ReactsToCreate, Zenon
  <2>4. fidelity' = "yes" /\ tracker' = tracker
    BY <1>1, <1>7, <2>1, <2>3, BothRefuse, Zenon
  <2>5. objects' = objects
    BY <1>1, <2>1, AnsweredObjects, Zenon
  <2> QED
    BY <1>7, <2>4, <2>5, MirrorSame
<1>8. CASE fidelity = "yes" /\ Imitable(v) /\ ~Exists(k)
  <2>1. Serve(r) = Answer(TRUE, Stored(k, o))
    BY <1>3, <1>8
  <2>2. Place(k) \notin DOMAIN tracker
    BY <1>8, FakeInvIs DEF Mirrored, Exists
  <2>3. ObjectReaction(tracker, a) = Reply(TRUE, With(Place(k), o))
    BY <1>4, <1>5, <2>2, ReactsToCreate, Zenon
  <2>4. fidelity' = "yes" /\ tracker' = With(Place(k), o)
    BY <1>1, <1>8, <2>1, <2>3, BothServe, Zenon
  <2>5. objects' = Stored(k, o)
    BY <1>1, <2>1, AnsweredObjects, Zenon
  <2> QED
    BY <1>2, <1>8, <2>4, <2>5, MirrorStore
<1> QED
  BY <1>6, <1>7, <1>8

LEMMA FakeDeleteKeeps ==
    ASSUME SettingInv, StoreInv, FakeInv, NEW k \in Keys, setting' = setting,
           Send(Delete(client, k[1], k[2]), FakeDelete(fake, k[1], k[2]), TRUE)
    PROVE  FakeInv'
<1> DEFINE r == Delete(client, k[1], k[2])
           a == FakeDelete(fake, k[1], k[2])
           f == [objects EXCEPT ![k] = <<>>]
<1>1. Imitate(r, a, TRUE) /\ objects' = Serve(r).objects
  BY Zenon DEF Send, Change
<1>2. Serve(r) = IF Exists(k) THEN Answer(TRUE, f) ELSE Answer(FALSE, objects)
  BY ServeDelete, Zenon
<1>3. a.verb = "delete"
  BY Zenon DEF FakeDelete, Action
<1>4. TrackerKey(a) = Place(k)
  BY FakePlaces, Zenon
<1> HIDE DEF r, a, f
<1>5. CASE fidelity # "yes"
  BY <1>1, <1>5, Uncompared, Zenon
<1>6. CASE fidelity = "yes" /\ ~Exists(k)
  <2>1. Serve(r) = Answer(FALSE, objects)
    BY <1>2, <1>6
  <2>2. Place(k) \notin DOMAIN tracker
    BY <1>6, FakeInvIs DEF Mirrored, Exists
  <2>3. ObjectReaction(tracker, a) = Reply(FALSE, tracker)
    BY <1>3, <1>4, <2>2, ReactsToDelete, Zenon
  <2>4. fidelity' = "yes" /\ tracker' = tracker
    BY <1>1, <1>6, <2>1, <2>3, BothRefuse, Zenon
  <2>5. objects' = objects
    BY <1>1, <2>1, AnsweredObjects, Zenon
  <2> QED
    BY <1>6, <2>4, <2>5, MirrorSame
<1>7. CASE fidelity = "yes" /\ Exists(k)
  <2>1. Serve(r) = Answer(TRUE, f)
    BY <1>2, <1>7
  <2>2. Place(k) \in DOMAIN tracker
    BY <1>7, FakeInvIs DEF Mirrored, Exists
  <2>3. ObjectReaction(tracker, a) = Reply(TRUE, Without(Place(k)))
    BY <1>3, <1>4, <2>2, ReactsToDelete, Zenon
  <2>4. fidelity' = "yes" /\ tracker' = Without(Place(k))
    BY <1>1, <1>7, <2>1, <2>3, BothServe, Zenon
  <2>5. objects' = f
    BY <1>1, <2>1, AnsweredObjects, Zenon
  <2> QED
    BY <1>7, <2>4, <2>5, MirrorDrop, Zenon DEF f
<1> QED
  BY <1>5, <1>6, <1>7

\* A request that merges a spec into an object, by Patch or by Apply.
Merges(d, k, v) ==
    \A old \in Objects : old.name = k[2] => MergePatch(old, d) = [old EXCEPT !.spec = v]

ServesMerge(r, k, v) ==
    Serve(r) = IF Exists(k) THEN Answer(TRUE, Stored(k, [objects[k][1] EXCEPT !.spec = v]))
               ELSE Answer(FALSE, objects)

LEMMA FakeMergeKeeps ==
    ASSUME SettingInv, StoreInv, FakeInv, NEW k \in Keys, NEW v \in Int, setting' = setting,
           NEW r, NEW a, NEW c, NEW d, Send(r, a, c), a.verb = "patch", a.object = d,
           TrackerKey(a) = Place(k), Merges(d, k, v), c => ServesMerge(r, k, v)
    PROVE  FakeInv'
<1> DEFINE n == [objects[k][1] EXCEPT !.spec = v]
           tracked == tracker[Place(k)]
           o == [tracked EXCEPT !.spec = v]
<1>1. Imitate(r, a, c) /\ objects' = Serve(r).objects
  BY Zenon DEF Send, Change
<1>2. CASE fidelity # "yes" \/ ~c
  BY <1>1, <1>2, Uncompared, Zenon
<1>3. CASE fidelity = "yes" /\ c /\ ~Exists(k)
  <2>1. Serve(r) = Answer(FALSE, objects)
    BY <1>3, Zenon DEF ServesMerge
  <2>2. Place(k) \notin DOMAIN tracker
    BY <1>3, FakeInvIs, Zenon DEF Mirrored, Exists
  <2>3. ObjectReaction(tracker, a) = Reply(FALSE, tracker)
    BY <2>2, ReactsToPatch, Zenon
  <2>4. fidelity' = "yes" /\ tracker' = tracker
    BY <1>1, <1>3, <2>1, <2>3, BothRefuse, Zenon
  <2>5. objects' = objects
    BY <1>1, <2>1, AnsweredObjects, Zenon
  <2> QED
    BY <1>3, <2>4, <2>5, MirrorSame, Zenon
<1>4. CASE fidelity = "yes" /\ c /\ Exists(k)
  <2>1. Serve(r) = Answer(TRUE, Stored(k, n))
    BY <1>4, Zenon DEF ServesMerge
  <2>2. /\ Place(k) \in DOMAIN tracker /\ tracked \in Objects
        /\ Plain(tracked) = Plain(objects[k][1])
    BY <1>4, FakeInvIs, Zenon DEF Mirrored, Exists
  <2>3. objects[k][1] \in Objects /\ objects[k][1].name = k[2]
    BY <1>4, StoredObjects, Zenon
  <2>4. o \in Objects /\ n \in Objects /\ Plain(o) = Plain(n)
    BY <2>2, <2>3, PlainWithSpec, Zenon
  <2>5. MergePatch(tracked, d) = o
    <3>1. tracked.name = k[2]
      BY <2>2, <2>3, PlainFields, Zenon
    <3> QED
      BY <2>2, <3>1, Zenon DEF Merges
  <2> HIDE DEF o, n
  <2>6. ObjectReaction(tracker, a) = Reply(TRUE, With(Place(k), o))
    BY <2>2, <2>5, ReactsToPatch, Zenon
  <2>7. fidelity' = "yes" /\ tracker' = With(Place(k), o)
    BY <1>1, <1>4, <2>1, <2>6, BothServe, Zenon
  <2>8. objects' = Stored(k, n)
    BY <1>1, <2>1, AnsweredObjects, Zenon
  <2> QED
    BY <1>4, <2>4, <2>7, <2>8, MirrorStore, Zenon
<1> QED
  BY <1>2, <1>3, <1>4, Zenon

LEMMA FakePatchKeeps ==
    ASSUME SettingInv, StoreInv, FakeInv, NEW k \in Keys, NEW v \in Int, setting' = setting,
           Send(Patch(client, k[1], k[2], [spec |-> v], ""),
                FakePatch(fake, k[1], k[2], [spec |-> v], ""), Imitable(v))
    PROVE  FakeInv'
<1> DEFINE d == [spec |-> v]
           r == Patch(client, k[1], k[2], d, "")
           a == FakePatch(fake, k[1], k[2], d, "")
           c == Imitable(v)
<1>1. Send(r, a, c)
  BY Zenon
<1>2. c => ServesMerge(r, k, v)
  BY ServePatch, DefaultedSpec, Zenon DEF ServesMerge
<1>3. a.verb = "patch" /\ a.object = d
  BY Zenon DEF FakePatch, Action
<1>4. TrackerKey(a) = Place(k)
  BY FakePlaces, Zenon
<1>5. Merges(d, k, v)
  BY Merged, Zenon DEF Merges
<1> HIDE DEF r, a, c, d
<1> QED
  BY <1>1, <1>2, <1>3, <1>4, <1>5, FakeMergeKeeps, Zenon

LEMMA FakeApplyKeeps ==
    ASSUME SettingInv, StoreInv, FakeInv, NEW k \in Keys, NEW v \in Int, setting' = setting,
           Send(Apply(client, k[1], [name |-> k[2], spec |-> v]),
                FakeApply(fake, k[1], [name |-> k[2], spec |-> v]), Exists(k) /\ Imitable(v))
    PROVE  FakeInv'
<1> DEFINE d == [name |-> k[2], spec |-> v]
           r == Apply(client, k[1], d)
           a == FakeApply(fake, k[1], d)
           c == Exists(k) /\ Imitable(v)
<1>1. Send(r, a, c)
  BY Zenon
<1>2. c => ServesMerge(r, k, v)
  BY ServeApply, DefaultedSpec, Zenon DEF ServesMerge
<1>3. a = FakePatch(fake, k[1], k[2], d, "")
  BY Zenon DEF FakeApply
<1>4. Merges(d, k, v)
  BY Merged, Zenon DEF Merges
<1> HIDE DEF r, a, c, d
<1>5. a.verb = "patch" /\ a.object = d
  BY <1>3, Zenon DEF FakePatch, Action
<1>6. TrackerKey(a) = Place(k)
  BY <1>3, FakePlaces, Zenon
<1> QED
  BY <1>1, <1>2, <1>4, <1>5, <1>6, FakeMergeKeeps, Zenon

LEMMA UpdateConflict ==
    ASSUME SettingInv, StoreInv, NEW k \in Keys, NEW o \in Objects, k = <<o.namespace, o.name>>
    PROVE  /\ Exists(k) /\ o.rv # objects[k][1].rv => IsConflict(Update(client, o.namespace, o))
           /\ Exists(k) /\ ~(setting.statusEndpoint /\ o.rv = objects[k][1].rv) =>
                IsConflict(UpdateStatus(client, o.namespace, o))
<1>1. IF client.namespaced THEN o.namespace = k[1] ELSE k[1] = ""
  BY KeyFacts, Zenon
<1>2. ASSUME Exists(k), o.rv # objects[k][1].rv PROVE IsConflict(Update(client, o.namespace, o))
  <2> DEFINE r == Update(client, o.namespace, o)
  <2>1. <<r.namespace, r.name>> = k
    BY <1>1, Zenon DEF Update, NewRequest
  <2>2. Serve(r) = Answer(FALSE, objects)
    BY <1>2, ServeUpdate, Zenon
  <2> HIDE DEF r
  <2>3. Serve(r).ok = FALSE
    BY <2>2 DEF Answer
  <2> QED
    BY <1>2, <2>1, <2>3 DEF IsConflict, r
<1>3. ASSUME Exists(k), ~(setting.statusEndpoint /\ o.rv = objects[k][1].rv)
      PROVE  IsConflict(UpdateStatus(client, o.namespace, o))
  <2> DEFINE r == UpdateStatus(client, o.namespace, o)
  <2>1. <<r.namespace, r.name>> = k
    BY <1>1, Zenon DEF UpdateStatus, NewRequest
  <2>2. Serve(r) = Answer(FALSE, objects)
    BY <1>3, ServeUpdateStatus, Zenon
  <2> HIDE DEF r
  <2>3. Serve(r).ok = FALSE
    BY <2>2 DEF Answer
  <2> QED
    BY <1>3, <2>1, <2>3 DEF IsConflict, r
<1> QED
  BY <1>2, <1>3

LEMMA FakeUpdateKeeps ==
    ASSUME SettingInv, StoreInv, FakeInv, NEW k \in Keys, NEW o \in Objects,
           k = <<o.namespace, o.name>>, setting' = setting, NEW c,
           c => ~IsConflict(Update(client, o.namespace, o)) /\ Imitable(o.spec),
           c /\ Exists(k) /\ o.rv = objects[k][1].rv => o.status = objects[k][1].status,
           Send(Update(client, o.namespace, o), FakeUpdate(fake, o.namespace, o), c)
    PROVE  FakeInv'
<1> DEFINE r == Update(client, o.namespace, o)
           a == FakeUpdate(fake, o.namespace, o)
           n == Whole(k, o)
<1>1. Imitate(r, a, c) /\ objects' = Serve(r).objects
  BY Zenon DEF Send, Change
<1>2. Serve(r) = IF Exists(k) /\ o.rv = objects[k][1].rv /\ o.spec # Invalid
                 THEN Answer(TRUE, Stored(k, n)) ELSE Answer(FALSE, objects)
  BY ServeUpdate, Zenon
<1>3. a.verb = "update" /\ a.object = o
  BY DEF FakeUpdate, Action
<1>4. TrackerKey(a) = Place(k)
  <2>1. o.namespace = k[1] /\ o.name = k[2]
    BY Zenon
  <2> QED
    BY <2>1, FakePlaces, Zenon
<1>5. c /\ Exists(k) => o.rv = objects[k][1].rv
  BY UpdateConflict, Zenon
<1>6. c => Defaulted(o.spec) = o.spec /\ o.spec # Invalid
  BY ObjectFields, DefaultedSpec, Zenon
<1> HIDE DEF r, a
<1>7. CASE fidelity # "yes" \/ ~c
  BY <1>1, <1>7, Uncompared, Zenon
<1>8. CASE fidelity = "yes" /\ c /\ ~Exists(k)
  <2>1. Serve(r) = Answer(FALSE, objects)
    BY <1>2, <1>8
  <2>2. Place(k) \notin DOMAIN tracker
    BY <1>8, FakeInvIs DEF Mirrored, Exists
  <2>3. ObjectReaction(tracker, a) = Reply(FALSE, tracker)
    BY <1>3, <1>4, <2>2, ReactsToUpdate, Zenon
  <2>4. fidelity' = "yes" /\ tracker' = tracker
    BY <1>1, <1>8, <2>1, <2>3, BothRefuse, Zenon
  <2>5. objects' = objects
    BY <1>1, <2>1, AnsweredObjects, Zenon
  <2> QED
    BY <1>8, <2>4, <2>5, MirrorSame, Zenon
<1>9. CASE fidelity = "yes" /\ c /\ Exists(k)
  <2>1. Serve(r) = Answer(TRUE, Stored(k, n))
    BY <1>2, <1>5, <1>6, <1>9
  <2>2. Place(k) \in DOMAIN tracker
    BY <1>9, FakeInvIs DEF Mirrored, Exists
  <2>3. Kept(k, o.status) = o.status
    BY <1>5, <1>9, Zenon DEF Kept
  <2>4. n = o
    BY <1>6, <1>9, <2>3, Zenon DEF Objects, Whole
  <2> HIDE DEF n
  <2>5. ObjectReaction(tracker, a) = Reply(TRUE, With(Place(k), o))
    BY <1>3, <1>4, <2>2, ReactsToUpdate, Zenon
  <2>6. fidelity' = "yes" /\ tracker' = With(Place(k), o)
    BY <1>1, <1>9, <2>1, <2>5, BothServe, Zenon
  <2>7. objects' = Stored(k, o)
    BY <1>1, <2>1, <2>4, AnsweredObjects, Zenon
  <2> QED
    BY <1>9, <2>6, <2>7, MirrorStore, Zenon
<1> QED
  BY <1>7, <1>8, <1>9, Zenon

LEMMA FakeUpdateStatusKeeps ==
    ASSUME SettingInv, StoreInv, FakeInv, NEW k \in Keys, NEW o \in Objects,
           k = <<o.namespace, o.name>>, setting' = setting, NEW unedited,
           unedited /\ Exists(k) /\ o.rv = objects[k][1].rv =>
               o.spec = objects[k][1].spec /\ (o.label <=> objects[k][1].label),
           Send(UpdateStatus(client, o.namespace, o), FakeUpdateStatus(fake, o.namespace, o),
                ~IsConflict(UpdateStatus(client, o.namespace, o)) /\ unedited)
    PROVE  FakeInv'
<1> DEFINE r == UpdateStatus(client, o.namespace, o)
           a == FakeUpdateStatus(fake, o.namespace, o)
           c == ~IsConflict(r) /\ unedited
           n == [objects[k][1] EXCEPT !.status = o.status]
<1>1. Imitate(r, a, c) /\ objects' = Serve(r).objects
  BY Zenon DEF Send, Change
<1>2. Serve(r) = IF setting.statusEndpoint /\ Exists(k) /\ o.rv = objects[k][1].rv
                 THEN Answer(TRUE, Stored(k, n)) ELSE Answer(FALSE, objects)
  BY ServeUpdateStatus, Zenon
<1>3. a.verb = "update" /\ a.object = o
  BY DEF FakeUpdateStatus, Action
<1>4. TrackerKey(a) = Place(k)
  <2>1. o.namespace = k[1] /\ o.name = k[2]
    BY Zenon
  <2> QED
    BY <2>1, FakePlaces, Zenon
<1>5. c /\ Exists(k) => setting.statusEndpoint /\ o.rv = objects[k][1].rv
  BY UpdateConflict, Zenon
<1>6. c => unedited
  OBVIOUS
<1> HIDE DEF r, a, c
<1>7. CASE fidelity # "yes" \/ ~c
  BY <1>1, <1>7, Uncompared, Zenon
<1>8. CASE fidelity = "yes" /\ c /\ ~Exists(k)
  <2>1. Serve(r) = Answer(FALSE, objects)
    BY <1>2, <1>8
  <2>2. Place(k) \notin DOMAIN tracker
    BY <1>8, FakeInvIs DEF Mirrored, Exists
  <2>3. ObjectReaction(tracker, a) = Reply(FALSE, tracker)
    BY <1>3, <1>4, <2>2, ReactsToUpdate, Zenon
  <2>4. fidelity' = "yes" /\ tracker' = tracker
    BY <1>1, <1>8, <2>1, <2>3, BothRefuse, Zenon
  <2>5. objects' = objects
    BY <1>1, <2>1, AnsweredObjects, Zenon
  <2> QED
    BY <1>8, <2>4, <2>5, MirrorSame, Zenon
<1>9. CASE fidelity = "yes" /\ c /\ Exists(k)
  <2>1. Serve(r) = Answer(TRUE, Stored(k, n))
    BY <1>2, <1>5, <1>9, Zenon
  <2>2. Place(k) \in DOMAIN tracker
    BY <1>9, FakeInvIs DEF Mirrored, Exists
  <2>3. n \in Objects /\ Plain(o) = Plain(n)
    <3> DEFINE old == objects[k][1]
    <3>1. old \in Objects /\ old.namespace = k[1] /\ old.name = k[2]
      BY <1>9, StoredObjects
    <3>2. o.spec = old.spec /\ (o.label <=> old.label) /\ o.status \in Int
      BY <1>5, <1>6, <1>9, ObjectFields
    <3> HIDE DEF old
    <3>3. n = [old EXCEPT !.status = o.status]
      BY DEF old
    <3> HIDE DEF n
    <3>4. /\ n \in Objects /\ n.namespace = old.namespace /\ n.name = old.name
          /\ n.status = o.status /\ n.spec = old.spec /\ n.label = old.label
      BY <3>1, <3>2, <3>3, WithStatus
    <3> QED
      <4>1. o \in Objects /\ o.namespace = k[1] /\ o.name = k[2]
        BY ObjectFields, Zenon
      <4>2. /\ o.namespace = n.namespace /\ o.name = n.name /\ o.spec = n.spec
            /\ o.status = n.status /\ (o.label <=> n.label)
        BY <3>1, <3>2, <3>4, <4>1, Zenon
      <4> QED
        BY <3>4, <4>1, <4>2, PlainFields, Zenon
  <2> HIDE DEF n
  <2>4. ObjectReaction(tracker, a) = Reply(TRUE, With(Place(k), o))
    BY <1>3, <1>4, <2>2, ReactsToUpdate, Zenon
  <2>5. fidelity' = "yes" /\ tracker' = With(Place(k), o)
    BY <1>1, <1>9, <2>1, <2>4, BothServe, Zenon
  <2>6. objects' = Stored(k, n)
    BY <1>1, <2>1, AnsweredObjects, Zenon
  <2> QED
    BY <1>9, <2>3, <2>5, <2>6, MirrorStore, Zenon
<1> QED
  BY <1>7, <1>8, <1>9

LEMMA FakeReadKeeps ==
    ASSUME CopiesAreDeep, SettingInv, StoreInv, FakeInv, NEW k \in Keys, NEW l,
           NEW how \in {"object", "list"}, UserReads(k, l, how)
    PROVE  FakeInv'
<1> DEFINE edited == [objects[k][1] EXCEPT !.spec = Other(@), !.label = l]
           p == Place(k)
<1>1. /\ tracker' = IF p \in DOMAIN tracker
                    THEN [tracker EXCEPT ![p] = Aliased(@, edited, setting.shared[how])]
                    ELSE tracker
      /\ Exists(k) /\ UNCHANGED << setting, objects, fidelity >>
  BY DEF UserReads, Place
<1>2. setting.shared[how] = {}
  BY SettingFacts, Zenon
<1> HIDE DEF edited, p
<1>3. CASE fidelity # "yes"
  <2>1. fidelity' = "no"
    BY <1>1, <1>3 DEF FakeInv
  <2> QED
    BY <2>1 DEF FakeInv
<1>4. CASE fidelity = "yes"
  <2>1. p \in DOMAIN tracker /\ tracker[p] \in Objects
    BY <1>1, <1>4, FakeInvIs DEF Mirrored, Exists, p
  <2>2. tracker = [t \in DOMAIN tracker |-> tracker[t]]
    BY <1>4, FakeInvIs
  <2>3. Aliased(tracker[p], edited, {}) = tracker[p]
    BY <2>1, CopiesDoNotAlias
  <2>4. tracker' = tracker
    BY <1>1, <1>2, <2>1, <2>2, <2>3
  <2> QED
    BY <1>1, <1>4, <2>4, MirrorSame
<1> QED
  BY <1>3, <1>4

LEMMA FakeInductive ==
    ASSUME CopiesAreDeep, Inv, FakeInv, [Next]_vars
    PROVE  FakeInv'
<1> USE DEF Inv
<1>1. ASSUME NEW k \in Keys, NEW l \in Labels, NEW v \in {1} \cup Flawed, UserCreates(k, l, v)
      PROVE  FakeInv'
  BY <1>1, LabelsAreBoolean, CreatedSpec, FakeCreateKeeps, Zenon DEF UserCreates
<1>2. ASSUME NEW k \in Keys, NEW l \in Labels, NEW how \in {"object", "list"}, UserReads(k, l, how)
      PROVE  FakeInv'
  BY <1>2, FakeReadKeeps
<1>3. ASSUME mine # <<>>, NEW status \in {None, mine[1].status},
             NEW v \in {mine[1].spec} \cup Flawed, UserUpdates(status, v)
      PROVE  FakeInv'
  <2> DEFINE o == [mine[1] EXCEPT !.status = status, !.spec = v]
             k == KeyOf(mine)
             c == ~IsConflict(Update(client, o.namespace, o)) /\ status = mine[1].status
                    /\ Imitable(v)
  <2>1. /\ o \in Objects /\ k \in Keys /\ k = <<o.namespace, o.name>>
        /\ o.status = status /\ o.rv = mine[1].rv /\ o.spec = v
    BY <1>3, Edited
  <2>2. /\ setting' = setting
        /\ Send(Update(client, o.namespace, o), FakeUpdate(fake, o.namespace, o), c)
    BY <1>3, Zenon DEF UserUpdates
  <2> HIDE DEF o
  <2>3. c => ~IsConflict(Update(client, o.namespace, o)) /\ Imitable(o.spec)
    BY <2>1, Zenon
  <2>4. c /\ Exists(k) /\ o.rv = objects[k][1].rv => o.status = objects[k][1].status
    <3>1. c => status = mine[1].status
      BY Zenon
    <3> HIDE DEF c
    <3> QED
      BY <1>3, <2>1, <3>1 DEF VersionInv, Current, Exists
  <2> HIDE DEF k, c
  <2> QED
    BY <2>1, <2>2, <2>3, <2>4, FakeUpdateKeeps, Zenon
<1>4. ASSUME NEW k \in Keys, NEW v \in {NewSpec(k)} \cup Flawed,
             UserPatches(k, v) \/ UserApplies(k, v)
      PROVE  FakeInv'
  <2>1. v \in Int
    BY PatchedSpec
  <2>2. CASE UserPatches(k, v)
    BY <2>1, <2>2, FakePatchKeeps, Zenon DEF UserPatches
  <2>3. CASE UserApplies(k, v)
    BY <2>1, <2>3, FakeApplyKeeps, Zenon DEF UserApplies
  <2> QED
    BY <1>4, <2>2, <2>3, Zenon
<1>5. ASSUME NEW k \in Keys, UserDeletes(k) PROVE FakeInv'
  BY <1>5, FakeDeleteKeeps, Zenon DEF UserDeletes
<1>6. ASSUME NEW ns, NEW l, UserDeletesCollection(ns, l) PROVE FakeInv'
  BY <1>6, Uncompared, Zenon DEF UserDeletesCollection, Send
<1>7. CASE ControllerWrites
  <2> DEFINE o == held[1]
             k == KeyOf(held)
             unedited == Exists(<<o.namespace, o.name>>)
                           => o.spec = objects[<<o.namespace, o.name>>][1].spec
  <2>1. o \in Objects /\ k \in Keys /\ k = <<o.namespace, o.name>> /\ held # <<>>
    BY <1>7, Zenon DEF ControllerWrites, StoreInv, Slot, KeyOf
  <2>2. /\ setting' = setting
        /\ Send(UpdateStatus(client, o.namespace, o), FakeUpdateStatus(fake, o.namespace, o),
                ~IsConflict(UpdateStatus(client, o.namespace, o)) /\ unedited)
    BY <1>7 DEF ControllerWrites
  <2>3. unedited /\ Exists(k) /\ o.rv = objects[k][1].rv =>
          o.spec = objects[k][1].spec /\ (o.label <=> objects[k][1].label)
    BY <2>1 DEF VersionInv, Current, Exists
  <2> HIDE DEF o, k, unedited
  <2> QED
    BY <2>1, <2>2, <2>3, FakeUpdateStatusKeeps, Zenon
<1>8. CASE UNCHANGED << setting, objects, tracker, fidelity >>
  <2>1. CASE fidelity # "yes"
    <3>1. fidelity' = "no"
      BY <1>8, <2>1 DEF FakeInv
    <3> QED
      BY <3>1 DEF FakeInv
  <2>2. CASE fidelity = "yes"
    BY <1>8, <2>2, MirrorSame
  <2> QED
    BY <2>1, <2>2
<1> HIDE DEF Inv
<1> QED
  BY <1>1, <1>2, <1>3, <1>4, <1>5, <1>6, <1>7, <1>8, Zenon DEF Next, User, InformerLists,
     InformerWatches, InformerReceives, InformerBreaks, ControllerReads, vars

LEMMA FakeInitially ==
    ASSUME Init
    PROVE  FakeInv
<1> DEFINE O(k) == Object(k, 1, FALSE)
           resource == GuessedResource[fake.kind]
<1>1. SettingInv
  BY DEF Init, SettingInv
<1>0. PICK given \in SUBSET {O(k) : k \in IF client \in Preloaded THEN Keys ELSE {}} :
        \E stored \in {given, Found(fake, given)} :
          /\ objects = [k \in Keys |-> IF O(k) \in stored THEN << O(k) >> ELSE <<>>]
          /\ tracker = NewSimpleClientset(fake, given)
          /\ fidelity = IF stored = Found(fake, given) THEN "yes" ELSE "no"
  BY Zenon DEF Init
<1>2. PICK stored \in {given, Found(fake, given)} :
        /\ objects = [k \in Keys |-> IF O(k) \in stored THEN << O(k) >> ELSE <<>>]
        /\ tracker = NewSimpleClientset(fake, given)
        /\ fidelity = IF stored = Found(fake, given) THEN "yes" ELSE "no"
  BY <1>0, Zenon
<1>3. tracker = [t \in {<< resource, o.namespace, o.name >> : o \in given} |->
                    CHOOSE o \in given : t[2] = o.namespace /\ t[3] = o.name]
  BY <1>2 DEF NewSimpleClientset
<1>4. stored = Found(fake, given) => stored = IF resource = client.resource THEN given ELSE {}
  BY <1>1, FakeFacts, Zenon DEF Found
<1> HIDE DEF resource
<1>5. \A o \in given : \E k \in Keys : o = O(k)
  BY <1>0, Zenon
<1>6. \A k \in Keys : O(k) \in Objects /\ O(k).namespace = k[1] /\ O(k).name = k[2]
  <2>1. 1 \in Int /\ FALSE \in BOOLEAN
    OBVIOUS
  <2> QED
    BY <1>1, <2>1, NewObjects, Zenon
<1>7. \A k \in Keys, j \in Keys : O(k).namespace = O(j).namespace /\ O(k).name = O(j).name => k = j
  <2> SUFFICES ASSUME NEW k \in Keys, NEW j \in Keys,
                      O(k).namespace = O(j).namespace, O(k).name = O(j).name
               PROVE  k = j
    BY Zenon
  <2>1. k = <<k[1], k[2]>> /\ j = <<j[1], j[2]>>
    BY <1>1, KeyFacts, Zenon
  <2> HIDE DEF O
  <2>2. k[1] = j[1] /\ k[2] = j[2]
    BY <1>6
  <2> QED
    BY <2>1, <2>2
<1> HIDE DEF O
<1>8. ASSUME NEW t \in DOMAIN tracker
      PROVE  t[1] = resource /\ \E k \in Keys : t = << resource, k[1], k[2] >> /\ O(k) \in given
  <2>1. PICK o \in given : t = << resource, o.namespace, o.name >>
    BY <1>3
  <2>2. PICK k \in Keys : o = O(k)
    BY <1>5
  <2> QED
    BY <1>6, <2>1, <2>2
<1>9. tracker = [t \in DOMAIN tracker |-> tracker[t]]
  <2> DEFINE D == {<< resource, o.namespace, o.name >> : o \in given}
             F(t) == CHOOSE o \in given : t[2] = o.namespace /\ t[3] = o.name
  <2>1. tracker = [t \in D |-> F(t)]
    BY <1>3, Zenon
  <2> HIDE DEF D, F
  <2> QED
    BY <2>1
<1>10. CASE fidelity = "no"
  BY <1>10 DEF FakeInv
<1>11. CASE fidelity = "yes" /\ resource # client.resource
  <2>1. stored = {}
    BY <1>2, <1>4, <1>11
  <2>2. \A k \in Keys : objects[k] = <<>>
    BY <1>2, <2>1
  <2>3. \A t \in DOMAIN tracker : t[1] # client.resource
    BY <1>8, <1>11
  <2>4. \A k \in Keys : Place(k) \notin DOMAIN tracker
    BY <2>3 DEF Place
  <2>5. \A k \in Keys : Mirrored(k, tracker, objects[k])
    BY <2>2, <2>4 DEF Mirrored
  <2> QED
    BY <1>9, <1>11, <2>3, <2>5, FakeInvIs
<1>12. CASE fidelity = "yes" /\ resource = client.resource
  <2>1. stored = given
    BY <1>2, <1>4, <1>12
  <2>2. \A t \in DOMAIN tracker : \E k \in Keys : t = Place(k) /\ O(k) \in given
    BY <1>8, <1>12 DEF Place
  <2>3. ASSUME NEW k \in Keys, O(k) \in given
        PROVE  Place(k) \in DOMAIN tracker /\ tracker[Place(k)] = O(k)
    <3>1. Place(k) = << resource, O(k).namespace, O(k).name >>
      BY <1>6, <1>12 DEF Place
    <3>2. Place(k) \in DOMAIN tracker
      BY <1>3, <2>3, <3>1
    <3>3. tracker[Place(k)] = CHOOSE o \in given : Place(k)[2] = o.namespace /\ Place(k)[3] = o.name
      BY <1>3, <3>2
    <3>4. Place(k)[2] = O(k).namespace /\ Place(k)[3] = O(k).name
      BY <3>1
    <3>5. /\ tracker[Place(k)] \in given
          /\ Place(k)[2] = tracker[Place(k)].namespace /\ Place(k)[3] = tracker[Place(k)].name
      BY <2>3, <3>3, <3>4, Zenon
    <3>6. PICK j \in Keys : tracker[Place(k)] = O(j)
      BY <1>5, <3>5
    <3>7. j = k
      BY <1>7, <3>4, <3>5, <3>6, Zenon
    <3> QED
      BY <3>2, <3>6, <3>7
  <2>4. ASSUME NEW k \in Keys PROVE Mirrored(k, tracker, objects[k])
    <3>1. CASE O(k) \in given
      <4>1. objects[k] = << O(k) >>
        BY <1>2, <2>1, <3>1
      <4>2. objects[k] # <<>> /\ objects[k][1] = O(k)
        BY <4>1
      <4> QED
        BY <1>6, <2>3, <3>1, <4>2 DEF Mirrored
    <3>2. CASE O(k) \notin given
      <4>1. objects[k] = <<>>
        BY <1>2, <2>1, <3>2
      <4>2. Place(k) \notin DOMAIN tracker
        BY <1>1, <2>2, <3>2, PlacesDiffer
      <4> QED
        BY <4>1, <4>2 DEF Mirrored
    <3> QED
      BY <3>1, <3>2
  <2> QED
    BY <1>9, <1>12, <2>2, <2>4, FakeInvIs
<1> QED
  BY <1>2, <1>10, <1>11, <1>12

LEMMA FakeListsTheSame ==
    ASSUME SettingInv, StoreInv, FakeInv, fidelity = "yes", NEW ns, NEW l \in BOOLEAN
    PROVE  {Plain(o) : o \in FakeList(fake, tracker, ns, [labelled |-> l])} =
             {Plain(objects[k][1]) :
                k \in {j \in Keys : Shown(objects, List(client, ns, [labelled |-> l]))[j] # <<>>}}
<1> DEFINE r == List(client, ns, [labelled |-> l])
           P(k) == (client.namespaced /\ ns # "" => k[1] = ns) /\ (l => objects[k][1].label)
           found == {t \in DOMAIN tracker : /\ t[1] = fake.resource
                                            /\ fake.namespaced /\ ns # "" => t[2] = ns
                                            /\ [labelled |-> l].labelled => tracker[t].label}
<1>1. r.namespace = (IF client.namespaced THEN ns ELSE "") /\ r.options = [labelled |-> l]
  BY DEF List, NewRequest
<1>2. [labelled |-> l].labelled <=> l
  OBVIOUS
<1>3. r.options.labelled <=> l
  BY <1>1, <1>2, Zenon
<1> HIDE DEF r
<1>4. ASSUME NEW k \in Keys
      PROVE  Shown(objects, r)[k] # <<>> <=> Exists(k) /\ P(k)
  <2>1. Shown(objects, r)[k] =
          IF objects[k] # <<>> /\ Selected(r.namespace, r.options, objects[k][1])
          THEN objects[k] ELSE <<>>
    BY DEF Shown, StoreInv
  <2>2. Exists(k) => (Selected(r.namespace, r.options, objects[k][1]) <=> P(k))
    <3> SUFFICES ASSUME Exists(k)
                 PROVE  Selected(r.namespace, r.options, objects[k][1]) <=> P(k)
      BY Zenon
    <3>1. objects[k][1].namespace = k[1]
      BY StoredObjects
    <3>2. (r.namespace # "" => objects[k][1].namespace = r.namespace) <=>
            (client.namespaced /\ ns # "" => k[1] = ns)
      BY <1>1, <3>1, Zenon
    <3>3. (r.options.labelled => objects[k][1].label) <=> (l => objects[k][1].label)
      BY <1>3
    <3> QED
      BY <3>2, <3>3, Zenon DEF Selected
  <2> QED
    BY <2>1, <2>2, Zenon DEF Exists
<1>5. ASSUME NEW k \in Keys, Exists(k)
      PROVE  /\ Place(k) \in DOMAIN tracker
             /\ Plain(tracker[Place(k)]) = Plain(objects[k][1])
             /\ Place(k) \in found <=> P(k)
  <2>1. /\ Place(k) \in DOMAIN tracker /\ tracker[Place(k)] \in Objects
        /\ Plain(tracker[Place(k)]) = Plain(objects[k][1])
    BY <1>5, FakeInvIs DEF Mirrored, Exists
  <2>2. tracker[Place(k)].label <=> objects[k][1].label
    BY <1>5, <2>1, StoredObjects, PlainFields
  <2>3. Place(k)[1] = fake.resource /\ Place(k)[2] = k[1]
    BY FakeFacts DEF Place
  <2>4. fake.namespaced <=> client.namespaced
    BY FakeFacts
  <2>5. Place(k) \in found <=> P(k)
    BY <1>2, <2>1, <2>2, <2>3, <2>4, Zenon
  <2> QED
    BY <2>1, <2>5, Zenon
<1>6. \A t \in DOMAIN tracker :
        t[1] = fake.resource => \E k \in Keys : t = Place(k) /\ Exists(k)
  BY FakeInvIs, FakeFacts DEF Mirrored, Exists
<1>7. FakeList(fake, tracker, ns, [labelled |-> l]) = {tracker[t] : t \in found}
  BY DEF FakeList
<1> HIDE DEF found, P
<1>8. \A t \in found : t \in DOMAIN tracker /\ t[1] = fake.resource
  BY Zenon DEF found
<1> DEFINE real == {j \in Keys : Shown(objects, r)[j] # <<>>}
<1>9. \A k \in Keys : k \in real <=> Exists(k) /\ P(k)
  BY <1>4
<1> HIDE DEF real
<1>10. ASSUME NEW t \in found PROVE \E k \in real : Plain(tracker[t]) = Plain(objects[k][1])
  BY <1>5, <1>6, <1>8, <1>9
<1>11. ASSUME NEW k \in real PROVE \E t \in found : Plain(objects[k][1]) = Plain(tracker[t])
  <2>1. k \in Keys
    BY DEF real
  <2> QED
    BY <1>5, <1>9, <2>1
<1>12. {Plain(o) : o \in {tracker[t] : t \in found}} = {Plain(objects[k][1]) : k \in real}
  BY <1>10, <1>11
<1> QED
  BY <1>7, <1>12 DEF real, r

\* For any typed clients, namespaces, names and scopes and any number of
\* requests: until somebody relies on what it leaves out (validation, defaults,
\* conflicts, status endpoints, deletion of collections, creation by Apply), the
\* fake clientset answers every request as the server does and lists the same
\* objects, but for those it was given of a kind whose plural it does not guess.
THEOREM FakeIsFaithful ==
    CopiesAreDeep => (Spec => []FakeAgrees)
<1> SUFFICES ASSUME CopiesAreDeep PROVE Spec => []FakeAgrees
  OBVIOUS
<1>1. Init => FakeInv
  BY FakeInitially
<1>2. Inv /\ FakeInv /\ [Next]_vars => FakeInv'
  BY FakeInductive
<1>3. Inv /\ FakeInv => FakeAgrees
  <2> SUFFICES ASSUME Inv, FakeInv, fidelity = "yes", NEW ns, NEW l \in BOOLEAN
               PROVE  {Plain(o) : o \in FakeList(fake, tracker, ns, [labelled |-> l])} =
                        {Plain(objects[k][1]) :
                           k \in {j \in Keys :
                                    Shown(objects, List(client, ns, [labelled |-> l]))[j] # <<>>}}
    BY Zenon DEF FakeAgrees, FakeInv, Plain
  <2> QED
    BY FakeListsTheSame, Zenon DEF Inv
<1> QED
  BY <1>1, <1>2, <1>3, Invariance, PTL DEF Spec
=============================================================================
