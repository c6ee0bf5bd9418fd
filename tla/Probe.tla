------------------------------- MODULE Probe --------------------------------
(***************************************************************************)
(* What cpms probe makes of a station's SupportedFeatureProfiles: the      *)
(* features and capabilities of the report (internal/ocpp/v16/probe.go,    *)
(* internal/ocpp/probe.go) and the verdict (internal/cli/probe.go).  A     *)
(* station advertises a set of profiles; the empty set stands for a        *)
(* station that does not report the key, or an empty value.                *)
(***************************************************************************)

\* The profiles cpms needs, and what each one grants.
neededProfiles == [Core |-> {"RemoteStartStop", "Unlock"},
                   Reservation |-> {"Reservation"},
                   RemoteTrigger |-> {"TriggerStatus"}]
AllCapabilities == UNION {neededProfiles[p] : p \in DOMAIN neededProfiles}

\* features: Core is assumed of a station that reports nothing.
features(advertised) ==
  [p \in DOMAIN neededProfiles |->
     IF advertised = {} THEN IF p = "Core" THEN "yes" ELSE "unknown"
     ELSE IF p \in advertised THEN "yes" ELSE "no"]

\* A capability is there if one feature that grants it is, and absent if all are.
Support(advertised, c) ==
  LET granting == {p \in DOMAIN neededProfiles : c \in neededProfiles[p]}
      said == {features(advertised)[p] : p \in granting}
  IN IF "yes" \in said THEN "yes" ELSE IF said = {"no"} THEN "no" ELSE "unknown"

\* needs: the capabilities cpms cannot do without.
Required == {"RemoteStartStop", "Unlock", "Reservation"}

\* evaluateProbe
Missing(advertised) == {c \in AllCapabilities \cap Required : Support(advertised, c) = "no"}
ProbeOK(advertised) == Missing(advertised) = {}
=============================================================================
