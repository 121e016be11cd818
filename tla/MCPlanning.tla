----------------------------- MODULE MCPlanning -----------------------------
(* Instance of Planning for TLC: a canary's target and its primary in one   *)
(* namespace, a workload in another.                                        *)
EXTENDS Planning

TwoNamespaces == <<"ns1", "ns2">>
ThreeObjects == [web |-> "ns1", webPrimary |-> "ns1", db |-> "ns2"]
Primaries == [web |-> "webPrimary", webPrimary |-> "none", db |-> "none"]
Supported == <<"v1", "v1beta2">>

\* The planning may stop only when it is joined: anywhere else TLC finds a
\* deadlock.
Ended == Planned /\ UNCHANGED vars
EndingSpec == Init /\ [][Next \/ Ended]_vars
=============================================================================
