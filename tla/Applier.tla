------------------------------- MODULE Applier -------------------------------
(* The Applier of conformance/utils/kubernetes and the tests that use it:    *)
(* Setup applies the base manifests and the generated secrets, then each     *)
(* test applies its own manifests, runs and cleans up, and the cleanups of   *)
(* Setup run at the end.  Every call is a step of its own, so that           *)
(* controllers, finalizers and other users of the cluster act in between;    *)
(* a call may also fail, with or without its effect.                         *)
EXTENDS Naturals, Sequences

CONSTANTS
    Objects,        \* names of cluster objects
    Base, Secrets,  \* sequences of objects: base manifests, secrets of Setup
    Manifests,      \* sequence of manifests, one for each test
    CleanupBase,    \* suite.Cleanup
    Finalizers,     \* objects whose deletion takes time
    PreExisting,    \* the sets of objects that the cluster may start with
    MaxForeign,     \* bound on creations and deletions by others
    MaxFaults       \* bound on calls that fail

ASSUME ApplierAssumption ==
    /\ Base \in Seq(Objects) /\ Secrets \in Seq(Objects)
    /\ Manifests \in Seq(Seq(Objects))
    /\ CleanupBase \in BOOLEAN
    /\ Finalizers \subseteq Objects
    /\ PreExisting \subseteq SUBSET Objects
    /\ MaxForeign \in Nat /\ MaxFaults \in Nat

\* The scopes that cleanups belong to: 0 is the test that called Setup.
Scopes == 0..Len(Manifests)

User == Len(Manifests) + 1

VARIABLES
    cluster,    \* object -> [phase, creator, spec]: who created and last wrote
    scope,      \* the running scope
    step,       \* what it does next
    resources,  \* those still to apply, as [obj, how]
    fetched,    \* what Get saw of the first of them, outdated if it changed
    cleanups,   \* scope -> registered cleanup functions, in order
    failed,     \* scope -> its test has failed
    doomed,     \* objects that the scope found already being deleted
    foreign, faults

applierVars == <<cluster, scope, step, resources, fetched, cleanups, failed, doomed,
                 foreign, faults>>

Absent == [phase |-> "absent", creator |-> User, spec |-> User]

Resources(objs, how) == [i \in 1..Len(objs) |-> [obj |-> objs[i], how |-> how]]

\* The objects that a manifest names.
Named(objs) == {objs[i] : i \in 1..Len(objs)}

\* Setup: base manifests, then the objects made by the program.
SetupResources == Resources(Base, "manifest") \o Resources(Secrets, "object")

ApplierInit ==
    /\ \E pre \in PreExisting :
         cluster = [o \in Objects |->
                      [Absent EXCEPT !.phase = IF o \in pre THEN "live" ELSE @]]
    /\ scope = 0
    /\ step = "apply"
    /\ resources = SetupResources
    /\ fetched = "none"
    /\ cleanups = [s \in Scopes |-> <<>>]
    /\ failed = [s \in Scopes |-> FALSE]
    /\ doomed = {}
    /\ foreign = 0
    /\ faults = 0

Cleanup(s) == IF s = 0 THEN CleanupBase ELSE TRUE

Obj == Head(resources).obj

\* Mutant: what Setup registers is run at the end of the first test.
RegisterWithFirstTest ==
    cleanups' = IF Cleanup(scope)
                THEN [cleanups EXCEPT ![IF scope = 0 THEN 1 ELSE scope] =
                                        Append(@, Head(resources))]
                ELSE cleanups

\* t.Cleanup for the resource being applied.
Register ==
    cleanups' = IF Cleanup(scope)
                THEN [cleanups EXCEPT ![scope] = Append(@, Head(resources))]
                ELSE cleanups

\* The next resource of the manifest.
Proceed ==
    /\ resources' = Tail(resources)
    /\ fetched' = "none"
    /\ step' = "apply"
    /\ UNCHANGED failed

\* Mutant: the scope is abandoned together with its cleanups.
FailWithoutCleanup ==
    /\ failed' = [failed EXCEPT ![scope] = TRUE]
    /\ resources' = <<>>
    /\ fetched' = "none"
    /\ step' = IF scope = 0 THEN "done" ELSE "finish"

\* require.NoError: the test stops here and its cleanups run.
Fail ==
    /\ failed' = [failed EXCEPT ![scope] = TRUE]
    /\ resources' = <<>>
    /\ fetched' = "none"
    /\ step' = "cleanup"

Written(creator) == [phase |-> "live", creator |-> creator, spec |-> scope]

-----------------------------------------------------------------------------
\* MustApplyWithCleanup, one resource: Get.
Get ==
    /\ step = "apply" /\ resources # <<>> /\ Head(resources).how = "manifest"
    /\ fetched' = IF cluster[Obj].phase = "absent" THEN "absent" ELSE "current"
    /\ doomed' = IF cluster[Obj].phase = "terminating"
                 THEN doomed \cup {Obj} ELSE doomed
    /\ step' = "write"
    /\ UNCHANGED <<cluster, scope, resources, cleanups, failed, foreign, faults>>

\* ... Create when Get returned NotFound; an object that has appeared since is
\* an error.
Create ==
    /\ step = "write" /\ fetched = "absent"
    /\ \/ /\ cluster[Obj].phase = "absent"
          /\ cluster' = [cluster EXCEPT ![Obj] = Written(scope)]
          /\ Register
          /\ Proceed
       \/ /\ cluster[Obj].phase # "absent"
          /\ Fail
          /\ UNCHANGED <<cluster, cleanups>>
    /\ UNCHANGED <<scope, doomed, foreign, faults>>

\* Mutant: the error of Update is not looked at.
UpdateErrorIgnored ==
    /\ step = "write" /\ fetched \in {"current", "outdated"}
    /\ cluster' = IF fetched = "current"
                  THEN [cluster EXCEPT ![Obj].spec = scope] ELSE cluster
    /\ Register
    /\ Proceed
    /\ UNCHANGED <<scope, doomed, foreign, faults>>

\* ... otherwise Update with the fetched resource version.  The cleanup is
\* registered before the error is looked at.
Update ==
    /\ step = "write" /\ fetched \in {"current", "outdated"}
    /\ \/ /\ fetched = "current"
          /\ cluster' = [cluster EXCEPT ![Obj].spec = scope]
          /\ Proceed
       \/ /\ fetched = "outdated"
          /\ Fail
          /\ UNCHANGED cluster
    /\ Register
    /\ UNCHANGED <<scope, doomed, foreign, faults>>

\* MustApplyObjectsWithCleanup, one resource: AlreadyExists is not an error.
CreateObject ==
    /\ step = "apply" /\ resources # <<>> /\ Head(resources).how = "object"
    /\ cluster' = IF cluster[Obj].phase = "absent"
                  THEN [cluster EXCEPT ![Obj] = Written(scope)] ELSE cluster
    /\ Register
    /\ Proceed
    /\ UNCHANGED <<scope, doomed, foreign, faults>>

\* A call of the applier fails; a write may still have taken effect.
ApplyFault ==
    /\ faults < MaxFaults
    /\ \/ step = "apply" /\ resources # <<>>
       \/ step = "write"
    /\ \/ UNCHANGED cluster
       \/ /\ \/ step = "write" /\ fetched = "absent"
             \/ step = "apply" /\ Head(resources).how = "object"
          /\ cluster[Obj].phase = "absent"
          /\ cluster' = [cluster EXCEPT ![Obj] = Written(scope)]
       \/ /\ step = "write" /\ fetched = "current"
          /\ cluster' = [cluster EXCEPT ![Obj].spec = scope]
    /\ IF step = "write" /\ fetched # "absent" THEN Register
                                               ELSE UNCHANGED cleanups
    /\ Fail
    /\ faults' = faults + 1
    /\ UNCHANGED <<scope, doomed, foreign>>

-----------------------------------------------------------------------------
\* Everything is applied: Setup returns to its caller, a test calls its Test.
ApplyDone ==
    /\ step = "apply" /\ resources = <<>>
    /\ step' = IF scope = 0 THEN "finish" ELSE "test"
    /\ UNCHANGED <<cluster, scope, resources, fetched, cleanups, failed, doomed,
                   foreign, faults>>

\* The Test function returns, having failed or not; t runs its cleanups.
TestReturns ==
    /\ step = "test"
    /\ \E f \in BOOLEAN : failed' = [failed EXCEPT ![scope] = @ \/ f]
    /\ step' = "cleanup"
    /\ UNCHANGED <<cluster, scope, resources, fetched, cleanups, doomed, foreign, faults>>

Deleted(o) ==
    IF cluster[o].phase = "absent" THEN cluster
    ELSE [cluster EXCEPT ![o] =
             IF o \in Finalizers THEN [@ EXCEPT !.phase = "terminating"] ELSE Absent]

\* The cleanup registered last: Delete by name, whoever made the object.  Only
\* the cleanups of manifests tolerate NotFound; a failing cleanup fails the
\* test and the remaining ones still run.
RunCleanup ==
    /\ step = "cleanup" /\ cleanups[scope] # <<>>
    /\ LET c == cleanups[scope][Len(cleanups[scope])]
       IN  \/ /\ cluster' = Deleted(c.obj)
              /\ failed' = [failed EXCEPT ![scope] =
                    @ \/ (c.how = "object" /\ cluster[c.obj].phase = "absent")]
              /\ UNCHANGED faults
           \/ /\ faults < MaxFaults
              /\ cluster' \in {cluster, Deleted(c.obj)}
              /\ failed' = [failed EXCEPT ![scope] = TRUE]
              /\ faults' = faults + 1
    /\ cleanups' = [cleanups EXCEPT ![scope] = SubSeq(@, 1, Len(@) - 1)]
    /\ UNCHANGED <<scope, step, resources, fetched, doomed, foreign>>

CleanupsDone ==
    /\ step = "cleanup" /\ cleanups[scope] = <<>>
    /\ step' = IF scope = 0 THEN "done" ELSE "finish"
    /\ UNCHANGED <<cluster, scope, resources, fetched, cleanups, failed, doomed,
                   foreign, faults>>

\* The next test, or the cleanups of the outer test after the last one.
NextScope ==
    /\ step = "finish"
    /\ IF scope < Len(Manifests)
       THEN /\ scope' = scope + 1
            /\ resources' = Resources(Manifests[scope + 1], "manifest")
            /\ step' = "apply"
       ELSE /\ scope' = 0
            /\ resources' = <<>>
            /\ step' = "cleanup"
    /\ doomed' = {}
    /\ UNCHANGED <<cluster, fetched, cleanups, failed, foreign, faults>>

-----------------------------------------------------------------------------
\* An object that Get has seen is changed by someone else.
Outdate(o) ==
    fetched' = IF step = "write" /\ o = Obj /\ fetched = "current"
               THEN "outdated" ELSE fetched

\* A controller writes the status of an object.
Touch(o) ==
    /\ step = "write" /\ o = Obj /\ fetched = "current"
    /\ Outdate(o)
    /\ UNCHANGED <<cluster, scope, step, resources, cleanups, failed, doomed,
                   foreign, faults>>

\* The last finalizer of a deleted object is removed.
Finalize(o) ==
    /\ cluster[o].phase = "terminating"
    /\ cluster' = [cluster EXCEPT ![o] = Absent]
    /\ Outdate(o)
    /\ UNCHANGED <<scope, step, resources, cleanups, failed, doomed, foreign, faults>>

\* Another user of the cluster creates or deletes an object.
Foreign(o) ==
    /\ foreign < MaxForeign
    /\ step # "done"
    /\ cluster' = IF cluster[o].phase = "absent"
                  THEN [cluster EXCEPT ![o] = [Absent EXCEPT !.phase = "live"]]
                  ELSE Deleted(o)
    /\ foreign' = foreign + 1
    /\ Outdate(o)
    /\ UNCHANGED <<scope, step, resources, cleanups, failed, doomed, faults>>

Done == step = "done" /\ UNCHANGED applierVars

ApplierNext ==
    \/ Get \/ Create \/ Update \/ CreateObject \/ ApplyFault
    \/ ApplyDone \/ TestReturns
    \/ RunCleanup \/ CleanupsDone \/ NextScope
    \/ \E o \in Objects : Touch(o) \/ Finalize(o) \/ Foreign(o)
    \/ Done

ApplierSpec == ApplierInit /\ [][ApplierNext]_applierVars

-----------------------------------------------------------------------------
\* The scope has run all of its cleanups.
Ended(s) ==
    \/ step = "done"
    \/ s > 0 /\ (s < scope \/ (s = scope /\ step = "finish"))
    \/ s > 0 /\ scope = 0 /\ step = "cleanup"

\* Unless a call failed, a scope leaves no object behind that it created, also
\* when it failed halfway through its manifests, when objects are shared with
\* other tests or when others interfere.
CreatedAreRemoved ==
    faults = 0 =>
        \A s \in {x \in Scopes : Ended(x) /\ Cleanup(x)}, o \in Objects :
            ~(cluster[o].phase = "live" /\ cluster[o].creator = s)

\* A Test function starts with all objects of its manifests present and as the
\* manifests say, except those it found being deleted, as long as no other
\* user of the cluster creates or deletes objects.  Writes of controllers in
\* between do not matter.
TestStartsWithItsObjects ==
    step = "test" /\ foreign = 0 =>
        \A o \in Named(Manifests[scope]) \ doomed :
            cluster[o].phase = "live" /\ cluster[o].spec = scope

\* What Setup applied outlives every test: no cleanup of a test removes it and
\* its own cleanups run last.
BaseOutlivesTests ==
    scope > 0 /\ foreign = 0 =>
        \A o \in Named(Base) \cup Named(Secrets) : cluster[o].phase = "live"
=============================================================================
