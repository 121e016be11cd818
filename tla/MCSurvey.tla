------------------------------ MODULE MCSurvey ------------------------------
(* Instance of Survey for TLC. *)
EXTENDS Survey

ThreePods == [app |-> "app", web |-> "web", db |-> "db"]
ThreeVolumes == [app |-> "hostnameAffinity", web |-> "none", db |-> "local"]
TwoNamespaces == <<"app", "web">>
TheKeys == {"role", "zone"}
ThreeLabelSets == [role : {"", NoLabel}, zone : {"drain", NoLabel}] \ {[role |-> NoLabel, zone |-> "drain"]}
WorkersOnly == << <<"role", "">> >>
DrainExcluded == << <<"zone", "drain">> >>
ZonesExcluded == << <<"zone", "drain">>, <<"zone", "closed">> >>
NoFilter == << >>

\* A survey may stop only when the run has failed or the report has ended:
\* anywhere else TLC finds a deadlock.
Ended == (planAt = "failed" \/ reportAt \in {"done", "failed"}) /\ UNCHANGED vars
EndingSpec == Init /\ [][Next \/ Ended]_vars
=============================================================================
