# Gateway API: models, checks and proofs

TLA+ models of the parts of this repository that have state or behaviour: the
API types with the CRDs generated from them, the generated client code, the
conformance suite with its helpers, and the discovery and policy calculation of
`gwctl`. TLC checks the models on small instances, and TLAPS proves the safety
properties of eight of the nine for every size. `PROJECT.json` maps each
definition to the lines it models.

## The system

| part | state | operations | what makes it hard |
| --- | --- | --- | --- |
| API types and CRDs, `apis`, `pkg/generator` | stored objects, the installed channel | create, update, status, delete, change of channel | pruning, defaults and CEL rules that differ by channel; a schema rewritten in place |
| client code, `pkg/client`, `zz_generated.deepcopy.go` | server, caches, fake tracker | typed clients, informers, listers, fakes | stale caches; watches that end; aliasing of copies |
| informer factory, `pkg/client/informers/externalversions/factory.go` | informers, marks, WaitGroup, `shuttingDown` | `InformerFor`, `Start`, `Shutdown`, `WaitForCacheSync` | concurrent callers; goroutines that outlive the lock |
| suite, `conformance/utils/suite` | `running`, `results`, feature sets | construction, `Run`, `Report` | two test functions on one suite; parallel tests; sets shared by reference |
| applier, `conformance/utils/kubernetes/apply.go` | the cluster, cleanups | apply, cleanup | controllers and users between Get and Update; finalizers; failing calls |
| status helpers, `conformance/utils/kubernetes/helpers.go` | data kept between polls | the polling helpers, one by one and in turn | status about an older generation; failing calls |
| convergence, `conformance/utils/{http,grpc,echo,config}` | successes in a row, timer, connection | `AwaitConvergence` and its three clients | timer against attempt; expectation written in place; broken connections; a hanging stream |
| mirrored requests, `conformance/utils/http/mirror.go` | one goroutine per mirror pod | `ExpectMirroredRequest` | late, lost and unreadable logs against a timeout |
| weighted backends, `conformance/tests/httproute-weight.go` | counts under a mutex | rounds of concurrent requests | lost increments; float64 at the tolerance |
| discovery, `gwctl/pkg/resourcediscovery` | the graph | five discoveries | many calls and no snapshot; failed Lists |
| policies, `gwctl/pkg/policymanager` | cache, effective policies | loading, merging | map order; precedence over several levels |

The suite uses the applier, the status helpers and the convergence waits inside
its tests; they meet only in the cluster and are modelled apart. `gwctl` loads
the policies, discovers a graph and calculates effective policies on it, in one
model. The client code talks to a server that stores what the CRDs say, so the
instance of the client model that is checked takes its status endpoints, and
which kinds have defaults, from the CRD generator.

## Modules

API and clients

- `StructuralSchemas` states what an API server does with a CRD's schema
  (pruning, defaulting, validation; external). `SharedTypes`, `RouteTypes`
  and `GatewayTypes` are the Go structs with their markers and CEL rules.
  `CRDGenerator` makes the CRDs of each channel of them. `Admission` is the
  server with one object, its writers and a cluster that changes channel.
- `Clientset` (the requests of each typed client, list and watch functions of
  informers, listers), `FakeClientset` (the fakes over client-go's tracker) and
  `DeepCopies` (which fields a generated copy shares). `ClientStack` composes
  clients, informers and fakes with a user and a controller. A spec is one of two
  that are stored as sent, one that is stored with a default filled in, or one
  that is refused. What the kinds are like is a constant of it: `Endpoints`, the
  kinds with a status endpoint, and `Defaulting`, those with defaults in their
  specs, which `MCClientStack` computes with `CRDGenerator`; and `Shared`, which
  it computes with `DeepCopies`.
- `InformerFactory`: one action per statement that other goroutines can see.
  `informer.Run` and `cache.WaitForCacheSync` are external.

Conformance

- `ConformanceProfiles` (profiles, classification of tests, compilation of a
  report), `SuiteFeatures` (`NewConformanceTestSuite` and the sets it shares by
  reference) and `ConformanceSuite` (suites are built, then `Run` and `Report`
  are used concurrently on one of them).
- `Applier`: Setup, tests and cleanups, one API call per step.
- `StatusChecks` (pure checks and the bounds of polling), `RoutePolling` and
  `GatewayPolling` (helpers, controllers and edits interleaved).
  `AcceptancePolling` composes them into `GatewayAndRoutesMustBeAccepted` and
  `GatewayAndTLSRoutesMustBeAccepted`.
- `Consistency` is the promise of a convergence wait and `AwaitConvergence` the
  loop with its timer. `HTTPConvergence`, `GrpcConvergence` and
  `MeshConvergence` are its clients, and `MirroredRequests` is the search in
  logs. `ConvergenceBounds` declares their durations. `ConvergenceClients`
  composes them, one protocol per behaviour, and is shown to implement
  `Consistency`.
- `WeightDistribution`: the test with its goroutines and the comparison.

gwctl

- `ResourceDiscovery`: each discovery, one API call per step, while the cluster
  changes. `EffectivePolicies` is the merges as functions, the cache and the
  three loops over the hierarchy, in any map order. `Gwctl` composes them into
  the describe command.

A module `MCx` only gives values to the constants of `x`; the theorems are in the
modules whose names end in `Proofs`, see below. An operator whose comment begins
with "Mutant:" is a plausible bug that the named property of a run detects; no
specification uses it.

## Runs

| run | instance | what it shows |
| --- | --- | --- |
| informer_factory | 2 types, 1 channel, 2 callers | the WaitGroup is not added to during a Wait; Shutdown is final and returns once the channels are closed; one instance and one goroutine per type; sync results are true |
| client_stack | every typed client, 2 scopes, up to 3 writes, 1 ended watch | caches follow the server; users and controllers do not undo each other's work; a status belongs to its spec and is written eventually; the fake answers as the server does, as far as it promises to |
| api_admission | every kind, version and channel; specs on both sides of each rule | the experimental CRDs drop nothing and moving to them changes no object; one most specific listener for whatever arrives, unless protocols overlap; a replaced prefix is defined |
| api_admission_upgrade | the same | *violated*, see Findings |
| conformance_suite | up to 3 suites, 2 caller maps, 2 callers, 3 tests (one parallel) | the feature loop computes the selection; reports agree with the tested set, but for later exemptions; reports are of whole runs; failures are recorded; a success was earned; runs whose subtests end complete |
| applier | 4 objects, 2 tests sharing a route, 2 foreign changes, 1 fault | created objects are removed; tests start with their objects; base objects outlive tests |
| acceptance_polling | 1 listener, 2 parents, 2 generations, 3 polls, 2 faults | successes are about the current spec; acceptance of Gateway and routes is earned; ready namespaces are ready; a timeout means the status was never seen |
| route_polling_stale | the same helpers of routes | *violated*, see Findings |
| convergence_clients | thresholds 0 to 3, times up to 3, 2 proxies, 2 mirrors | the promise is kept; the wait ends, and in time; verdicts are independent; no connection leaks or is used after it broke; no mirror is passed over |
| weight_distribution | 2 rounds of 20 requests, 2 goroutines | passes and failures are justified |
| gwctl | 3 namespaces, 2 changes and 1 failed call; up to 5 policies when nothing changes | what lasts is described; errors are exact; a panic needs a lost namespace; precedence holds; no setting is lost or made up |
| effective_policies_oldest | 2 inherited or 3 direct policies on one Gateway | *violated*, see Findings |

Bounds. Two callers are enough for every pair of operations to overlap. One edit
gives a current and an outdated generation, which is all the helpers tell apart.
Two changes let an object go and come back between the calls of a discovery, or
a namespace disappear after its last object. Two writes and one ended watch let a
cache miss a change that a new list brings; the third write of one client lets an
object be made again after it was deleted and read. Twenty requests reach both
sides of the tolerance of five percent. One parallel, one core and one extended
test give each class of result. The specs of `MCAdmission` meet each rule once
and miss it once.

Restrictions. These are part of what the runs show:

- `ReportedFeaturesAreTested` excepts, for each suite, what a later construction
  exempts from the same map (`withdrawn`): `suite.go:224` deletes it from a set
  that the suites built before still hold, `features.AllFeatures` among them.
- `RunCompletes` is about runs whose subtests end.
- `SuccessMeansPassed` leaves out parallel tests and runs with `RunTest` set,
  which are recorded as successes without having run.
- `TestStartsWithItsObjects` leaves out objects found while being deleted, and
  foreign changes.
- `ErrorsAreExact` and `LastingIsDescribed` hold when no call fails.
- `PromiseKept`: an attempt that is begun in time and succeeds late counts.
- `VerdictsAreIndependent` is about redirects with a host.
- `MirrorsAreJudged`: the line of an earlier request with the same path counts.
- `PrecedenceHolds` leaves out three policies of a kind on one level and settings
  that two of one level override.
- `OneListenerPerFlow` leaves out listeners of one port with the same hostname, or
  none, whose protocols share traffic: HTTPS with TLS, and TCP with any of HTTP,
  HTTPS and TLS. The rule at `gateway_types.go:194` takes them for distinct.
- `FakeAgrees` compares until a request needs what the fake leaves out:
  validation and defaults, conflicts, the status endpoint, deletion of
  collections, creation by Apply. Objects of a kind whose plural the fake guesses
  wrongly count as not given to it.
- `StatusCatchesUp` is about kinds with a status endpoint.
- `Converges` excepts a hanging request of the mesh client (`pod.go:140` sets no
  deadline on the stream).

Deadlock is not checked in `client_stack`, where a user has a bounded number of
requests and everything then comes to rest, and in `conformance_suite`, where a
process may stop after building a suite that nobody uses.

Fairness. Go schedules runnable goroutines, so a caller inside an operation of
the factory or of `Run` continues, and an informer whose channel is closed
returns. A subtest of a run need not end, and fairness is only on the steps of
`Run` itself. Timers fire and requests have timeouts, so polls and waits go on.
client-go's reflector lists, watches and delivers for as long as its informer
runs, and a controller is called for every cached object again (its work queue);
a controller's write that is refused is tried again after a new read. Nobody is
obliged to call an operation, to close a channel or to write an object.

## Proofs

Every theorem holds for all values of the constants that satisfy the named
assumptions, which TLC evaluates on the instances. The bounds on changes, faults,
polls and generations are constants too: no theorem depends on their values.
Where a property needs more than that, the theorem states it as a hypothesis.

`GoroutineProofs`, on `InformerFactory` (`FactoryAssumption`): `WaitGroupProtocol`,
`ShutdownBarrier`, `InformersAreShared`, `SyncIsHonest`. `IInv` adds to the
properties who holds the lock and what it is doing (`LockInv`), that nobody is
inside Start once `shuttingDown` is set (`DownInv`), that a type has a goroutine
only if it is marked or about to be (`SpawnInv`), that the WaitGroup counts the
goroutines (`CountInv`), and that what was handed out is what is stored
(`InstanceInv`).

`GoroutineProofs`, on `WeightDistribution` (`WeightAssumption`): `VerdictHolds`.
The requests that were served, are under way or left an error add up to those
sent (`ServedInv`), those that were served are counted or about to be (`SeenInv`),
and a goroutine between its read and its write holds the mutex (`MutexInv`).

`SuiteProofs`, on `ConformanceSuite` (`TestsAssumption`, `OptionsAssumption`,
`LevelsAreDisjoint`): all safety properties of the run.

- `PublishedResults` and `FailuresReach` rest on `SuiteInv`: a run has recorded
  exactly the tests before its index (`LoopInv`, which needs the names to be
  distinct), what it recorded of a test that is not parallel is what happened
  (`HonestInv`), and nothing is published during a run.
- `SuccessIsEarned`, an action property, adds `EarnedInv`: a supported test that
  was recorded as neither failed nor skipped has passed. That survives until
  `Report` because the set that gates the tests does not change any more once a
  suite is in use, so `Report` and the tests look at the same features.
- `SelectionIsOrderFree` rests on `SelectionInv`: after each iteration the map
  holds what was requested and the core features of the profiles visited, and
  the split of a visited profile is already final, because no built-in profile
  has an extended feature that is core in another.
- `ReportedIsTested`: a suite stays `Sound` whatever is built after it, because a
  later construction inserts no extended feature, and what it deletes of the
  suite's map is in its `withdrawn` (`SoundInv`).

`SuiteProofs`, on `Applier` (`ApplierAssumption`): all properties of the run.

- `NothingIsLeftBehind`. As long as no call failed, every live object that a
  scope created is on its list of cleanups (`Covered`), and only Setup and the
  running test have any (`OthersAreEmpty`).
- `TestsStartWithTheirObjects` rests on `StartInv`: what is not waiting to be
  applied any more is live and as the manifest of the running test says.
- `SetupOutlivesTests` has the hypothesis `TestsAreApart`, that no manifest of a
  test names an object of Setup; no manifest in `conformance/tests` names one of
  `conformance/base/manifests.yaml` or one of the secrets. `BaseInv` says that
  then no cleanup of a test does either.

`AcceptancePollingProofs` (`PollingAssumption`): all properties of the run.
`GatewayAnswersHold`, `NamespacesAreReady`, `RouteAnswersHold` and
`AcceptanceHolds` rest on what controllers may have written: a condition is of a
generation that was there and is the verdict on it (`GatewayInv`, `StatusInv`).
For the composed helpers `AcceptedInv` carries what each of them found over to
the end of the last: the route is not edited meanwhile, and the Gateway is as it
was found unless it has a newer generation. `TimeoutsAreEarned` has the
hypothesis `DecoderReuses`, the JSON decoder of client-go, which writes into the
slices of the object it is given. With a copying client the property is false:
`RouteMustHaveParents` would look at the parents of an earlier poll.

`ConvergenceClientsProofs` (`ConvergenceAssumption`, `CasesAssumption`): all
safety properties of the run, first for each component, then for their
composition, where `ClientInv` says that the protocol in use has its invariant
and the others are idle.

- `WaitIsConsistent` and `ClientsKeepPromise` are the refinement of
  `Consistency`, in which a success after the time is up has a verdict of its
  own. `WaitInv` ties the counter to the failures in the history and
  the clock to the timer; with it, `WaitEndsInTime` and `ClientsEndInTime`.
- `IndependentVerdicts` and `ClientVerdicts`: `RedirectInv` says that the
  expectation is as the test wrote it or has its defaults filled in,
  `DefaultsOnce` that filling them in again changes nothing, and `JudgedAlike`
  that a response is judged alike by both.
- `GrpcEndsOnTime`, `GrpcConnections` and `ClientConnections`: `DeadlineInv` and
  `ConnInv`.
- `MirrorVerdict` and `ClientMirrors`: what each log can hold, lines of earlier
  requests included (`LogInv`), and when
  it was read (`TimeInv`, `VerdictInv`).

`ClientStackProofs` (`StackAssumption`): all safety properties of the run. All
theorems have the hypothesis `CopiesAreDeep`, that a DeepCopy shares nothing with
its original; that is what `DeepCopies` evaluates to for every kind, and it is not
an assumption of the model, so that a copy function that aliases is met by the
properties.

- Lemmas about the tables of the generated code come first: the informer, the
  lister and the fake found for a typed client are for its version, resource and
  kind, and list and watch ask for the same scope.
- `CacheFollows`. A change that the server makes is a change of some objects at a
  new resource version (`Changes`). If it happens during a watch it is appended to
  what the watch still has to deliver, and if not, the cache is listed anew; so
  cache and pending changes together always add up to the objects in scope.
- `WritersApart` and `StatusOfItsSpec`, action properties, need `VersionInv`: what
  was read, by the controller from the cache or by the user from the server, is
  what is stored as long as the resource versions agree. A put with an old version
  is refused, so the one that is accepted carries the stored spec along, and a
  status computed from it.
- `FakeIsFaithful` rests on `FakeInv`: as long as the two are compared, the
  tracker has, under the keys of the client's resource, the objects of the server
  but for their resource versions. Objects of other resources may be there, such
  as the Gateways that `NewSimpleClientset` files under "gatewaies".

`GwctlProofs`, `MergeProofs` and `PolicyProofs`, on `Gwctl` (`NamesAssumption`,
`SettingsAssumption`, `PoliciesAssumption`): all properties of the run. The
assumption on policies is what a cluster guarantees: there are finitely many, two
of one kind have different names, and a direct policy has no `override`.

- `Errors`, `Panics` and `LastingObjects`, in `GwctlProofs`. First come the lemmas
  about a discovery: after each call of the Discoverer, what has been visited has
  an edge or an error (`ClassesInv`, `NamespacesInv`, `RefsInv`, `GrantsInv`,
  `RoutesInv`), and an error about an object means that it was missing at some
  time (`ErrorsAreTrue`). `PhaseInv` and `LoopInv` say the like of the loops that
  calculate effective policies: the nodes that are not left have a result for each
  Gateway.
- `NothingLost` and `Precedence`, in `PolicyProofs`. The lemmas of `MergeProofs`
  say what one merge does to two policies: the result draws its settings from both
  (`MergeDraws`), and if all of one rank before all of the other it has the first
  override, else the last default (`MergeRanks`). The policies of a level are
  sorted and merged by a recursive function; its value is found by looking at the
  least index at which it would be wrong (`LeastNat`, `MergedExists`,
  `MergedDraws`), which takes the place of an induction. `Covers` and `Fits` then
  state this of a map by kind and of a set or chain of levels, and `CoversBoth`
  and `FitsAfter` extend both by a level.
- `PolicyInv`, which is inductive together with the invariant of the discovery,
  carries them through the loops: the cache has every listed policy but for
  namesakes (`CacheInv`), a node is connected with no namespace and no class but
  its own (`EdgesInv`), all policies of a node are attached before the calculation
  starts (`LevelsInv`), and whatever a loop has written for a Gateway, a route or
  a Backend, and what it has gathered so far for the Backend in hand, covers the
  levels above it and fits each chain that is the only one (`EffectiveInv`). TLC
  checked these conjuncts on the instance of the run before they were proved.

Only model-checked:

- liveness, which is out of the prover's reach: `ShutdownReturns`,
  `RunCompletes`, `Converges`, `StatusCatchesUp`;
- `api_admission`: schemas are recursive, and so are pruning, defaulting and
  validation.

## Findings

- `RouteMustHaveParents` (`helpers.go:603`) checks `observedGeneration` on the
  parents of the previous poll, so its first poll may succeed on stale ones.
- `mergePolicy` (`merger.go:127`) lets the newer of two inherited policies of one
  level win where both override a setting, and `MergePoliciesOfSimilarKind`
  (`merger.go:30`) ranks a merged policy by the metadata of one of its parts, so
  that of three direct policies a newer one can win, both against
  `geps/gep-713/index.md:248`.
- The rules on `parentRefs` (`shared_types.go:222` to 225) differ by channel: two
  references to one Gateway with different section names, one of them with a
  port, are admitted by the standard CRDs and refused by the experimental ones,
  which according to `site-src/concepts/versioning.md:42` include everything in
  the standard channel.

Noticed while modelling, modelled as the code is, and not the subject of a run:

- apply.go:295: objects that existed before are deleted by cleanups; the comment
  at 245 says they are not removed.
- helpers.go:278: `GatewayMustHaveCondition` ends at once on stale conditions.
- helpers.go:471: a Gateway without listener statuses passes.
- http.go:210: the last success may come after `MaxTimeToConsistency`, which
  timeout.go:75 calls the maximum time.
- http.go:417: an unset redirect host is fixed by the first response.
- mirror.go: the log of an earlier request with the same path counts.
- timeout.go:128: `RequiredConsecutiveSuccesses` gets no default.
- suite.go:425: `Report` without a completed run returns no error; 422 says one
  is emitted.
- profiles.go:126: the mesh gRPC profile has the name of the mesh HTTP profile.
- discoverer.go:244: a failed List makes existing classes look non-existent.
- discoverer.go:438: a namespace deleted during a discovery leads to a nil
  dereference when effective policies are calculated.
- discoverer.go:453: the cache of ReferenceGrants by namespace is never filled.
- manager.go:127: policies of two kinds with one namespace and name replace each
  other.
- resourcemodel.go:464: with three routes a backend's result depends on map order.
- shared_types.go:748: session persistence without `cookieConfig` is refused.
- httproute_types.go:132: `exists_one` over filters lets two backends that each
  replace the prefix go unnoticed.
- gatewayclass_types.go:63: the default condition has the reason "Waiting", not
  `GatewayClassReasonPending`.
- v1alpha2/grpcroute_types.go:25: no status subresource, which
  `geps/gep-1016/index.md:250` shows.
- gateway_types.go:194: the rule looks at protocols by name, so that it admits an
  HTTPS and a TLS listener, or a TCP listener and one of another protocol, for the
  same port and host.
- Fake clientset: Apply patches what is there and creates nothing; objects of
  kinds whose plural is not the guessed one ("gatewaies") are not found when they
  are passed to `NewSimpleClientset`.

## Not modelled

- The setters of apply configurations and OpenAPI definitions: generated, without
  state, thousands of lines. That a configuration is applied is modelled.
- Model schema, conformance entry points and report writing, printers of `gwctl`:
  batch output.
- The other conformance tests: fixed sequences of the modelled helpers with
  expectations of their own.
- Echo servers, transports, TLS helpers, logging: seen as answers of the data
  plane.
- Registration with the scheme, other than what a client can decode.
- Of the modelled parts: events of Gateways, API version preference and label
  filters of discovery; null values in merge patches; invalid policy CRDs; string
  patterns other than of host names and paths; the CRD version check of a new
  suite; the content that `prepareResources` changes.

## Plan

1. The suite with the applier and the status helpers over one cluster; the
   product of their states is too large for one run at the present detail.
2. Gateway events and label filters in `ResourceDiscovery`.
