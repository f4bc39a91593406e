---------------------------- MODULE MCSystemRules -----------------------------
(* Small instances of SystemRulesIngestor for TLC: an alert of a user and   *)
(* two runs of the job, the second of which creates one of the first run's  *)
(* two rules again.                                                         *)
EXTENDS SystemRulesIngestor, TLC

CONSTANTS a1, s1, s2, s3, c1, c2

AlertName ==
    (a1 :> "user") @@ (s1 :> "kept") @@ (s2 :> "dropped") @@ (s3 :> "kept")

\* One rule of the system shares the group of the user's.
TwoCategories == [n \in {"user", "kept", "dropped"} |-> IF n = "dropped" THEN c2 ELSE c1]

TwoRuns == << {s1, s2}, {s3} >>

\* No failure; all but restarts; all.
AllScenarios == {{}, AllFaults \ {"crash"}, AllFaults}

Outage == {GrafanaFaults}

=============================================================================
