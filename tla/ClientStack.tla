----------------------------- MODULE ClientStack -----------------------------
(***************************************************************************)
(* The generated client code at work: a user who writes objects of one kind *)
(* through its typed client, a controller that keeps their status up to     *)
(* date from a lister's cache, the informer that fills that cache, and the  *)
(* API server between them.  The user's and the controller's requests also  *)
(* go to the fake clientset, to compare.  The server, the reflector and the *)
(* tracker are external; all they are asked is what the generated code asks.*)
(***************************************************************************)
EXTENDS Clientset, FakeClientset

CONSTANTS
    Clients,     \* the typed clients considered
    Spaces,      \* the cluster's namespaces
    Names,       \* names of objects
    Scopes,      \* the informers' namespaces and tweaks, and whether the
                 \* controller puts the spec of its copy into a form of its own
    Preloaded,   \* those for which there may be objects at the start
    MaxWrites,   \* by client, a bound on the requests of the user
    MaxBreaks,   \* bound on the watches that end
    Endpoints,   \* the clients whose kind has a status endpoint (CRDGenerator)
    Defaulting,  \* those whose kind has defaults for fields of the spec
    Shared       \* by client, the parts that a DeepCopy of its objects, and of
                 \* those in its lists, shares with the original (DeepCopies)

ASSUME StackAssumption ==
    /\ Clients \subseteq NewForConfigAndClient
    /\ "" \notin Spaces
    /\ Scopes \subseteq [namespace : Spaces \cup {""}, tweak : BOOLEAN, normalises : BOOLEAN]

VARIABLES
    setting,     \* the client and the scope; what is known of its kind
    objects,     \* the server's objects, by key <<namespace, name>>
    clock,       \* the last resource version
    writes,      \* requests the user has made
    mine,        \* the object the user is editing, if any
    informer,    \* "list", "watch" or "watching"
    breaks,      \* watches that have ended
    pending,     \* changes since the informer's resource version
    cache,       \* the informer's cache: key to a sequence of at most one
    held,        \* the copy the controller is working on, if any
    tracker,     \* the fake clientset's objects
    fidelity     \* "yes" while the fake can be compared, "lied" if it answered
                 \* otherwise than the server did

vars == << setting, objects, clock, writes, mine, informer, breaks, pending, cache, held,
           tracker, fidelity >>

client == setting.client
Namespaces == IF client.namespaced THEN Spaces ELSE {""}
Keys == Namespaces \X Names
None == 0   \* no verdict in the status; in a spec, the form a controller gives it
Other(spec) == 3 - spec   \* of the two specs that are stored as they are sent, 1 and 2
Terse == 3   \* a spec that leaves out what has a default; with it, it is 1
Invalid == 4   \* a spec that the CRD does not admit
Flawed == {Invalid} \cup IF setting.defaults THEN {Terse} ELSE {}
Labels == IF setting.tweak THEN BOOLEAN ELSE {FALSE}

Object(key, spec, label) ==
    [namespace |-> key[1], name |-> key[2], spec |-> spec, status |-> None, label |-> label,
     rv |-> 0]

Exists(key) == objects[key] # <<>>

-----------------------------------------------------------------------------
(* The API server *)

Selected(ns, options, o) ==
    (ns # "" => o.namespace = ns) /\ (options.labelled => o.label)

WritesSpec(r) == r.verb \in {"post", "put", "patch", "apply"} /\ r.subresource = ""

\* A put with a resource version that is not the current one is a conflict.
Refused(r) ==
    LET key == <<r.namespace, r.name>> IN
    \/ key \notin DOMAIN objects
    \/ WritesSpec(r) /\ r.body.spec = Invalid
    \/ r.subresource = "status" /\ ~setting.statusEndpoint
    \/ r.verb = "post" /\ Exists(key)
    \/ r.verb \notin {"post", "apply"} /\ ~Exists(key)
    \/ r.verb = "put" /\ r.body.rv # objects[key][1].rv

Defaulted(spec) == IF spec = Terse THEN 1 ELSE spec

\* What is stored for a write: the status endpoint takes nothing but the status,
\* and where there is one the others leave the status as it is.
Written(r) ==
    LET key == <<r.namespace, r.name>>
        old == objects[key][1]
        stored(sent) == [sent EXCEPT
            !.spec = Defaulted(@),
            !.status = IF setting.statusEndpoint THEN old.status ELSE @]
    IN CASE r.verb = "post" -> [r.body EXCEPT !.spec = Defaulted(@), !.status = None]
         [] r.verb # "post" /\ r.subresource = "status" -> [old EXCEPT !.status = r.body.status]
         [] r.verb = "put" /\ r.subresource = "" -> stored(r.body)
         [] r.verb \in {"patch", "apply"} /\ r.subresource = "" ->
                IF Exists(key) THEN stored(MergePatch(old, r.body))
                ELSE Object(key, Defaulted(r.body.spec), FALSE)

\* The objects after a request, and whether it was served.
Serve(r) ==
    LET key == <<r.namespace, r.name>> IN
    IF r.verb = "deletecollection"
    THEN [ok |-> TRUE,
          objects |-> [k \in DOMAIN objects |->
                          IF Exists(k) /\ Selected(r.namespace, r.options, objects[k][1])
                          THEN <<>> ELSE objects[k]]]
    ELSE IF Refused(r) THEN [ok |-> FALSE, objects |-> objects]
    ELSE [ok |-> TRUE,
          objects |-> CASE r.verb = "get" -> objects
                        [] r.verb = "delete" -> [objects EXCEPT ![key] = <<>>]
                        [] r.verb \in {"post", "put", "patch", "apply"} ->
                               [objects EXCEPT ![key] = << [Written(r) EXCEPT !.rv = clock + 1] >>]]

\* What a list or a watch of the objects f with these options shows.
Shown(f, r) ==
    [k \in DOMAIN f |->
        IF f[k] # <<>> /\ Selected(r.namespace, r.options, f[k][1]) THEN f[k] ELSE <<>>]

-----------------------------------------------------------------------------
(* Requests and what they change *)

\* Serving r changes objects and everyone who watches them is told.
Change(r) ==
    LET answer == Serve(r)
        changed == {k \in DOMAIN objects : answer.objects[k] # objects[k]}
    IN /\ objects' = answer.objects
       /\ clock' = IF changed = {} THEN clock ELSE clock + 1
       /\ pending' = IF changed = {} THEN pending
                     ELSE Append(pending, [k \in changed |-> answer.objects[k]])

\* The same call on the fake: compared while the call is one that the fake
\* promises to imitate, without conflicts, validation and defaults.
Imitate(r, action, comparable) ==
    LET answer == ObjectReaction(tracker, action) IN
    IF fidelity # "yes" \/ ~comparable
    THEN fidelity' = "no" /\ tracker' = EmptyTracker
    ELSE /\ fidelity' = IF answer.ok = Serve(r).ok THEN "yes" ELSE "lied"
         /\ tracker' = answer.tracker

fake == FakeOf(client.version, client.resource)

Send(r, action, comparable) == Change(r) /\ Imitate(r, action, comparable)

Imitable(spec) == spec \notin {Terse, Invalid}

IsConflict(r) == Exists(<<r.namespace, r.name>>) /\ ~Serve(r).ok

-----------------------------------------------------------------------------
(* The user *)

Request == writes < MaxWrites[client] /\ writes' = writes + 1

UserCreates(key, label, spec) ==
    LET o == Object(key, spec, label) IN
    /\ Request
    /\ Send(Create(client, key[1], o), FakeCreate(fake, key[1], o), Imitable(spec))
    /\ UNCHANGED << setting, mine, informer, breaks, cache, held >>

\* What an edit of the copy does to what it was copied from.
Aliased(original, copy, parts) ==
    [original EXCEPT !.spec = IF "spec" \in parts THEN copy.spec ELSE @,
                     !.status = IF "status" \in parts THEN copy.status ELSE @]

\* Get, or List and pick; then edit.  The tracker hands out a DeepCopy of the
\* object or of the list.
UserReads(key, label, how) ==
    LET edited == [objects[key][1] EXCEPT !.spec = Other(@), !.label = label]
        t == << client.resource, key[1], key[2] >>
    IN /\ mine = <<>> /\ writes < MaxWrites[client]
       /\ Exists(key)
       /\ Decodes(client.version, IF how = "list" THEN client.list ELSE client.kind)
       /\ Serve(Get(client, key[1], key[2])).ok
       /\ mine' = <<edited>>
       /\ tracker' = IF t \in DOMAIN tracker
                     THEN [tracker EXCEPT ![t] = Aliased(@, edited, setting.shared[how])]
                     ELSE tracker
       /\ UNCHANGED << setting, objects, clock, writes, informer, breaks, pending, cache, held,
                       fidelity >>

\* The user sends what was edited, with the status it was read with or, when
\* it is made from a manifest, with none.
UserUpdates(status, spec) ==
    /\ mine # <<>>
    /\ LET o == [mine[1] EXCEPT !.status = status, !.spec = spec]
           r == Update(client, o.namespace, o)
       IN /\ Request
          /\ Send(r, FakeUpdate(fake, o.namespace, o),
                  ~IsConflict(r) /\ status = mine[1].status /\ Imitable(spec))
    /\ mine' = <<>>
    /\ UNCHANGED << setting, informer, breaks, cache, held >>

NewSpec(key) == IF Exists(key) THEN Other(objects[key][1].spec) ELSE 1

\* A merge patch of the spec.
UserPatches(key, spec) ==
    LET data == [spec |-> spec] IN
    /\ Request
    /\ Send(Patch(client, key[1], key[2], data, ""),
            FakePatch(fake, key[1], key[2], data, ""), Imitable(spec))
    /\ UNCHANGED << setting, mine, informer, breaks, cache, held >>

\* An apply configuration of the spec, with Force: nobody else's fields conflict.
UserApplies(key, spec) ==
    LET config == [name |-> key[2], spec |-> spec] IN
    /\ Request
    /\ CanApply(config)
    /\ Send(Apply(client, key[1], config), FakeApply(fake, key[1], config),
            Exists(key) /\ Imitable(spec))
    /\ UNCHANGED << setting, mine, informer, breaks, cache, held >>

UserDeletes(key) ==
    /\ Request
    /\ Send(Delete(client, key[1], key[2]), FakeDelete(fake, key[1], key[2]), TRUE)
    /\ UNCHANGED << setting, mine, informer, breaks, cache, held >>

UserDeletesCollection(ns, labelled) ==
    /\ Request
    /\ LET options == [labelled |-> labelled] IN
       Send(DeleteCollection(client, ns, options), FakeDeleteCollection(fake, ns, options), FALSE)
    /\ UNCHANGED << setting, mine, informer, breaks, cache, held >>

-----------------------------------------------------------------------------
(* The informer: the reflector of client-go on the generated functions *)

theInformer == ForResource(client.version, client.resource)

InformerLists ==
    LET r == ListFunc(theInformer, setting.namespace, setting.tweak) IN
    /\ informer = "list"
    /\ Decodes(r.version, theInformer.client.list)
    /\ cache' = Shown(objects, r)
    /\ pending' = <<>>
    /\ informer' = "watch"
    /\ UNCHANGED << setting, objects, clock, writes, mine, breaks, held, tracker, fidelity >>

InformerWatches ==
    /\ informer = "watch"
    /\ informer' = "watching"
    /\ UNCHANGED << setting, objects, clock, writes, mine, breaks, pending, cache, held,
                    tracker, fidelity >>

\* One change: an object that is not selected any more arrives as a deletion.
InformerReceives ==
    LET r == WatchFunc(theInformer, setting.namespace, setting.tweak, clock) IN
    /\ informer = "watching" /\ pending # <<>>
    /\ Decodes(r.version, theInformer.type)
    /\ cache' = [k \in DOMAIN cache |-> IF k \in DOMAIN Head(pending)
                                       THEN Shown(Head(pending), r)[k] ELSE cache[k]]
    /\ pending' = Tail(pending)
    /\ UNCHANGED << setting, objects, clock, writes, mine, informer, breaks, held, tracker,
                    fidelity >>

\* The watch ends: it is resumed from the last change received, or, when the
\* server has forgotten that, the reflector lists again.
InformerBreaks(next) ==
    /\ informer = "watching" /\ breaks < MaxBreaks
    /\ breaks' = breaks + 1
    /\ informer' = next
    /\ UNCHANGED << setting, objects, clock, writes, mine, pending, cache, held, tracker,
                    fidelity >>

-----------------------------------------------------------------------------
(* The controller: it copies a cached object whose status is not up to date, *)
(* sets the status in the copy, perhaps after it has put the spec there into  *)
(* a form of its own, and writes the status.                                  *)

theLister == ListerOf(client.version, client.resource)

ControllerReads(key) ==
    LET found == ListerGet(theLister, cache, key[1], key[2]) IN
    /\ held = <<>> /\ client.hasStatus
    /\ key \in ListerList(theLister, cache, key[1])
    /\ found # <<>> /\ found[1].status # found[1].spec
    /\ LET copy == [found[1] EXCEPT !.spec = IF setting.normalises THEN None ELSE @,
                                    !.status = found[1].spec] IN
       /\ held' = <<copy>>
       /\ cache' = [cache EXCEPT ![KeyIn(theLister, key[1], key[2])] =
                        << Aliased(@[1], copy, setting.shared.object) >>]
    /\ UNCHANGED << setting, objects, clock, writes, mine, informer, breaks, pending,
                    tracker, fidelity >>

\* On a conflict, or when the object is gone, the controller waits for its
\* cache to show what changed.
ControllerWrites ==
    /\ held # <<>>
    /\ LET o == held[1]
           r == UpdateStatus(client, o.namespace, o)
           unedited == Exists(<<o.namespace, o.name>>)
                        => o.spec = objects[<<o.namespace, o.name>>][1].spec
       IN Send(r, FakeUpdateStatus(fake, o.namespace, o), ~IsConflict(r) /\ unedited)
    /\ held' = <<>>
    /\ UNCHANGED << setting, writes, mine, informer, breaks, cache >>

-----------------------------------------------------------------------------
Setting(c, scope) ==
    [client |-> c, namespace |-> scope.namespace, tweak |-> scope.tweak,
     normalises |-> scope.normalises, statusEndpoint |-> c \in Endpoints,
     defaults |-> c \in Defaulting, shared |-> Shared[c]]

Init ==
    /\ \E c \in Clients, scope \in Scopes : setting = Setting(c, scope)
    /\ \E given \in SUBSET {Object(k, 1, FALSE) : k \in IF client \in Preloaded THEN Keys ELSE {}} :
       \E stored \in {given, Found(fake, given)} :
        /\ objects = [k \in Keys |-> IF Object(k, 1, FALSE) \in stored
                                     THEN << Object(k, 1, FALSE) >> ELSE <<>>]
        /\ tracker = NewSimpleClientset(fake, given)
        /\ fidelity = IF stored = Found(fake, given) THEN "yes" ELSE "no"
    /\ clock = 0 /\ writes = 0 /\ mine = <<>>
    /\ informer = "list" /\ breaks = 0 /\ pending = <<>>
    /\ cache = [k \in Keys |-> <<>>]
    /\ held = <<>>

User ==
    \/ \E k \in Keys, l \in Labels, spec \in {1} \cup Flawed : UserCreates(k, l, spec)
    \/ \E k \in Keys, l \in Labels, how \in {"object", "list"} : UserReads(k, l, how)
    \/ mine # <<>> /\ \E status \in {None, mine[1].status}, spec \in {mine[1].spec} \cup Flawed :
                        UserUpdates(status, spec)
    \/ \E k \in Keys : \E spec \in {NewSpec(k)} \cup Flawed :
          UserPatches(k, spec) \/ UserApplies(k, spec)
    \/ \E k \in Keys : UserDeletes(k)
    \/ \E ns \in Namespaces \cup {""}, l \in Labels : UserDeletesCollection(ns, l)

Next ==
    \/ User
    \/ InformerLists \/ InformerWatches \/ InformerReceives
    \/ \E next \in {"watch", "list"} : InformerBreaks(next)
    \/ \E k \in Keys : ControllerReads(k)
    \/ ControllerWrites

Fairness ==
    /\ WF_vars(InformerLists) /\ WF_vars(InformerWatches) /\ WF_vars(InformerReceives)
    /\ \A k \in (Spaces \cup {""}) \X Names : WF_vars(k \in Keys /\ ControllerReads(k))
    /\ WF_vars(ControllerWrites)

Spec == Init /\ [][Next]_vars /\ Fairness

-----------------------------------------------------------------------------
(* Properties *)

\* The objects an informer of this setting is for.
InScope(o) ==
    /\ client.namespaced /\ setting.namespace # "" => o.namespace = setting.namespace
    /\ setting.tweak => o.label

\* Once it has listed, an informer's cache is what was stored, in its namespace
\* and of its selection, at one moment: with the changes that have yet to arrive
\* it is what is stored now.  Editing a DeepCopy of a cached object, ending a
\* watch, or relabelling an object out of the selection does not change that.
\* (NewFiltered...Informer: ListFunc and WatchFunc; DeepCopyInto.)
CacheCatchesUp ==
    LET told(k) == {i \in 1..Len(pending) : k \in DOMAIN pending[i]}
        scoped(found) == IF found # <<>> /\ InScope(found[1]) THEN found ELSE <<>>
    IN informer # "list" =>
        \A k \in Keys :
            /\ told(k) = {} => scoped(cache[k]) = scoped(objects[k])
            /\ \A i \in told(k) :
                  (\A j \in told(k) : j <= i) => scoped(pending[i][k]) = scoped(objects[k])

\* Users and controllers do not undo each other's work: a user's request never
\* changes the status of an object that stays, and a controller's status write
\* changes nothing but the status, of an object in the scope of its informer.
\* (Update, UpdateStatus, Patch and Apply of the typed clients; ListFunc; the
\* listers.)
WritersKeepApart ==
    [][\A k \in DOMAIN objects :
        Exists(k) /\ objects'[k] # <<>> /\ objects'[k] # objects[k] /\ setting.statusEndpoint =>
            LET old == objects[k][1]
                new == objects'[k][1]
            IN IF writes' # writes THEN new.status = old.status
               ELSE /\ InScope(old)
                    /\ new = [old EXCEPT !.status = new.status, !.rv = new.rv]]_vars

\* A status that is written was computed from the spec it is written next to,
\* although the controller read it from a cache some changes ago.  (UpdateStatus
\* puts the whole object, resource version included, to the status endpoint.)
StatusIsOfItsSpec ==
    [][\A k \in DOMAIN objects :
        Exists(k) /\ objects'[k] # <<>> /\ writes' = writes /\ setting.statusEndpoint
            /\ objects'[k][1].status # objects[k][1].status
            => objects'[k][1].status = objects[k][1].spec]_vars

\* The fake clientset answers as the server does and lists the same objects, in
\* every namespace and for every selection, up to the first request that needs
\* what it leaves out: validation and defaults, conflicts, status endpoints,
\* deletion of collections, creation by Apply.  Objects given to
\* NewSimpleClientset are there, but for those of a kind whose plural it guesses
\* wrongly, which might as well not have been given.  The statuses compared are
\* the controllers' verdicts, not the conditions a CRD gives to a new object.
\* (The methods of the Fake... clients, and the deep copies of what they return.)
FakeAgrees ==
    /\ fidelity # "lied"
    /\ fidelity = "yes" =>
        \A ns \in Namespaces \cup {""}, l \in BOOLEAN :
            LET r == List(client, ns, [labelled |-> l])
                real == {k \in Keys : Shown(objects, r)[k] # <<>>}
                plain(o) == [o EXCEPT !.rv = 0]
            IN {plain(o) : o \in FakeList(fake, tracker, ns, [labelled |-> l])}
                = {plain(objects[k][1]) : k \in real}

\* When the user stops writing, every object the informer is for gets the status
\* of its spec, for the kinds that have a status endpoint.  (The typed client,
\* the informer and the lister of a kind are for one type and one version, and
\* its scheme decodes what the server sends.)
StatusCatchesUp ==
    client.hasStatus /\ setting.statusEndpoint =>
        <>[](\A k \in DOMAIN objects :
                Exists(k) /\ InScope(objects[k][1]) => objects[k][1].status = objects[k][1].spec)
=============================================================================
