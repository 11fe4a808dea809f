------------------------- MODULE MCAcceptancePolling -------------------------
(* Instances of AcceptancePolling for TLC: a Gateway with one listener and a *)
(* route with two parents.                                                   *)
EXTENDS AcceptancePolling

OneListener == {"http"}
TwoParents == <<"gw1", "gw2">>
FirstOmits == {"gw1"}
=============================================================================
