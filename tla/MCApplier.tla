------------------------------ MODULE MCApplier ------------------------------
(* Instances of Applier for TLC: a base object, a secret and two tests that  *)
(* share a route.                                                            *)
EXTENDS Applier

MCObjects == {"gateway", "secret", "route", "grant"}
MCBase == <<"gateway">>
MCSecrets == <<"secret">>
MCTests == <<<<"route", "grant">>, <<"route">>>>
Anything == SUBSET MCObjects
Slow == {"route"}
=============================================================================
