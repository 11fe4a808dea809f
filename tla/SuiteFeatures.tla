---------------------------- MODULE SuiteFeatures ----------------------------
(* The feature selection of NewConformanceTestSuite, statement by statement  *)
(* and with its aliasing: the suite keeps the very set that the options      *)
(* hold, and with all-features that set is the package variable              *)
(* features.AllFeatures.  Suites are built one after the other in a process, *)
(* by the NewNext of this module; ConformanceSuite runs them.                *)
EXTENDS ConformanceProfiles, Sequences

CONSTANTS
    Options,    \* [all, set, exempt, profiles, skip, runTest]: set names the
                \* caller's map, runTest is "" or a ShortName
    InitialSets,    \* caller's map -> features it holds at the start
    MaxSuites   \* bound on the number of constructions

\* The heap cell of features.AllFeatures.
Global == "features.AllFeatures"

\* A profile name that getConformanceProfileForName does not know.
Unregistered == "UNREGISTERED"

ASSUME OptionsAssumption ==
    /\ MaxSuites \in Nat
    /\ Global \notin DOMAIN InitialSets
    /\ \A o \in Options : /\ o.set \in DOMAIN InitialSets
                          /\ o.profiles \subseteq ProfileNames \cup {Unregistered}
                          /\ o.exempt \subseteq Features

VARIABLES
    sets,       \* heap: name of a map -> its features
    options,    \* options of the suite under construction, or <<>>
    todo,       \* selected profiles not yet visited
    suite,      \* the suite under construction
    asked,      \* the options of all constructions, in order
    suites,     \* the suites built, in order
    requested,  \* history: features of the map when construction began,
    withdrawn   \*   and, for each suite built, the features that a construction
                \*   after it has exempted from its map

newVars == <<sets, options, todo, suite, asked, suites, requested, withdrawn>>

\* The map a suite works on.
Ref(o) == IF o.all THEN Global ELSE o.set

\* A suite with options o, before its profiles are visited.
SuiteFor(o) ==
    [ref |-> Ref(o), profiles |-> o.profiles, skip |-> o.skip, runTest |-> o.runTest,
     supported |-> [p \in o.profiles |-> {}],
     unsupported |-> [p \in o.profiles |-> {}]]

NoSuite == <<>>

NewInit ==
    /\ sets = [r \in DOMAIN InitialSets \cup {Global} |->
                  IF r = Global THEN AllFeatures ELSE InitialSets[r]]
    /\ options = <<>>
    /\ todo = {}
    /\ suite = NoSuite
    /\ asked = <<>>
    /\ suites = <<>>
    /\ requested = {}
    /\ withdrawn = <<>>

\* A construction on the map r exempts these features: so it does for every
\* suite that works on r.
Withdraw(r, exempt) ==
    withdrawn' = [i \in DOMAIN withdrawn |->
                     IF suites[i].ref = r THEN withdrawn[i] \cup exempt ELSE withdrawn[i]]

\* Mutant: the exempt features are deleted from features.AllFeatures, too.
NewBeginExemptsAll(o) ==
    /\ options = <<>>
    /\ Len(asked) < MaxSuites
    /\ sets[o.set] # {} \/ o.profiles # {} \/ o.all \/ o.runTest # ""
    /\ options' = <<o>>
    /\ asked' = Append(asked, o)
    /\ todo' = o.profiles
    /\ requested' = sets[Ref(o)]
    /\ sets' = [sets EXCEPT ![Ref(o)] = @ \ o.exempt, ![Global] = @ \ o.exempt]
    /\ suite' = SuiteFor(o)
    /\ Withdraw(Ref(o), o.exempt)
    /\ UNCHANGED suites

\* Nothing selected: NewConformanceTestSuite returns an error.  Otherwise the
\* exempt features are deleted from the map itself.
NewBegin(o) ==
    /\ options = <<>>
    /\ Len(asked) < MaxSuites
    /\ sets[o.set] # {} \/ o.profiles # {} \/ o.all \/ o.runTest # ""
    /\ options' = <<o>>
    /\ asked' = Append(asked, o)
    /\ todo' = o.profiles
    /\ requested' = sets[Ref(o)]
    /\ sets' = [sets EXCEPT ![Ref(o)] = @ \ o.exempt]
    /\ suite' = SuiteFor(o)
    /\ Withdraw(Ref(o), o.exempt)
    /\ UNCHANGED suites

\* Mutant: the core features are looked at but not inserted.
VisitProfileWithoutCore(p) ==
    /\ p \in todo
    /\ LET o == options[1]
           ext == conformanceProfileMap[p].extended
       IN  suite' = [suite EXCEPT
                       !.supported[p] = ext \cap sets[suite.ref],
                       !.unsupported[p] =
                           (ext \ sets[suite.ref]) \cup (ext \cap o.exempt)]
    /\ todo' = todo \ {p}
    /\ UNCHANGED <<sets, options, asked, suites, requested, withdrawn>>

\* One iteration over the selected profiles, in any order: missing core
\* features are inserted into the map, the extended ones are split.
VisitProfile(p) ==
    /\ p \in todo
    /\ LET o == options[1]
           ext == conformanceProfileMap[p].extended
           now == sets[suite.ref] \cup conformanceProfileMap[p].core
       IN  /\ sets' = [sets EXCEPT ![suite.ref] = now]
           /\ suite' = [suite EXCEPT
                          !.supported[p] = ext \cap now,
                          !.unsupported[p] = (ext \ now) \cup (ext \cap o.exempt)]
    /\ todo' = todo \ {p}
    /\ UNCHANGED <<options, asked, suites, requested, withdrawn>>

\* An unregistered profile ends the construction with an error.  What was
\* done to the map stays done.
VisitUnregistered ==
    /\ Unregistered \in todo
    /\ options' = <<>>
    /\ todo' = {}
    /\ suite' = NoSuite
    /\ requested' = {}
    /\ UNCHANGED <<sets, asked, suites, withdrawn>>

NewEnd ==
    /\ options # <<>>
    /\ todo = {}
    /\ suites' = Append(suites, suite)
    /\ withdrawn' = Append(withdrawn, {})
    /\ options' = <<>>
    /\ suite' = NoSuite
    /\ requested' = {}
    /\ UNCHANGED <<sets, todo, asked>>

NewNext ==
    \/ \E o \in Options : NewBegin(o)
    \/ \E p \in todo \cap ProfileNames : VisitProfile(p)
    \/ VisitUnregistered
    \/ NewEnd

-----------------------------------------------------------------------------
\* When the loop ends the suite has exactly the features that the closed forms
\* of ConformanceProfiles state, in whatever order the profiles were visited.
LoopComputesSelection ==
    options # <<>> /\ todo = {} =>
        LET o == options[1]
            selection == [supported |-> requested, exempt |-> o.exempt,
                          profiles |-> o.profiles]
        IN  /\ sets[suite.ref] = SupportedFeatures(selection)
            /\ \A p \in o.profiles :
                 /\ suite.supported[p] = extendedSupportedFeatures(selection, p)
                 /\ suite.unsupported[p] = extendedUnsupportedFeatures(selection, p)

\* For as long as a suite lives, what it will report as unsupported is not in
\* the set its tests are gated on, and what it will report as supported is,
\* whatever suites are built after it; except for what a later construction on
\* the same map exempts: NewConformanceTestSuite deletes that from the map of
\* the suites it built before, which report it as supported and do not test it.
ReportedFeaturesAreTested ==
    \A i \in 1..Len(suites) : LET s == suites[i] IN
        \A p \in DOMAIN s.supported :
            /\ s.supported[p] \cap sets[s.ref] = s.supported[p] \ withdrawn[i]
            /\ s.unsupported[p] \cap sets[s.ref] = {}
=============================================================================
