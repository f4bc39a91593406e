------------------------- MODULE SystemRulesIngestor --------------------------
(***************************************************************************)
(* The job that replaces the system's alert rules: it asks the API service *)
(* to delete the existing ones, then creates and publishes the rules of    *)
(* its files one by one.  Failed calls are repeated by the HTTP client     *)
(* where that is safe (axios-retry: GET and DELETE; a POST only if there   *)
(* was no reply), then logged.  Users of the API work on their own alerts  *)
(* meanwhile.                                                              *)
(***************************************************************************)
EXTENDS AlertRules

CONSTANTS
    Batch,    \* for each run of the job, the alerts it creates
    Job,      \* the request slot of the job
    Retries   \* how often a call is repeated

ASSUME JobAssumption ==
    /\ Job \in Requests
    /\ \A k \in DOMAIN Batch : Batch[k] \subseteq System
    /\ Retries \in Nat

VARIABLES
    run,     \* how often the job has been started
    stage,   \* what it does next
    todo,    \* the alerts it has not created yet
    cur,     \* the alert it publishes
    tries,   \* how often the call has been repeated
    logged   \* the names for which it has logged an error

job     == <<run, stage, todo, cur, tries, logged>>
allVars == <<vars, job>>

Stages == {"idle", "alias", "clean", "cleaning", "create", "publish", "publishing"}

JobTypeOK ==
    /\ run \in {0} \cup DOMAIN Batch
    /\ stage \in Stages
    /\ todo \subseteq System
    /\ cur \in Alerts
    /\ tries \in 0 .. Retries
    /\ logged \subseteq SystemNames
    /\ stage \in {"cleaning", "publishing"} \/ At(Job, "idle")

JobInit ==
    /\ Init
    /\ run = 0 /\ stage = "idle"
    /\ todo = {} /\ cur = AnyAlert /\ tries = 0 /\ logged = {}

-----------------------------------------------------------------------------

JobStart ==
    /\ stage = "idle" /\ run + 1 \in DOMAIN Batch
    /\ run' = run + 1
    /\ stage' = "alias"
    /\ todo' = Batch[run + 1]
    /\ logged' = {}
    /\ UNCHANGED <<vars, cur, tries>>

\* cleanup: if the metric aliases cannot be deleted, the rules are not either.
JobAlias ==
    /\ stage = "alias"
    /\ \/ stage' = "clean"
       \/ "aliases" \in faults /\ stage' = "create"
    /\ UNCHANGED <<vars, run, todo, cur, tries, logged>>

JobClean ==
    /\ stage = "clean"
    /\ MayStartSystem /\ DeleteSystem(Job)
    /\ stage' = "cleaning"
    /\ UNCHANGED <<run, todo, cur, tries, logged>>

Repeat(again) ==
    /\ answer[Job] = "error" /\ tries < Retries
    /\ tries' = tries + 1
    /\ stage' = again
    /\ UNCHANGED logged

JobCleaned ==
    /\ stage = "cleaning" /\ At(Job, "idle")
    /\ \/ Repeat("clean")
       \/ /\ answer[Job] = "ok" \/ tries = Retries
          /\ tries' = 0
          /\ stage' = "create"
          /\ UNCHANGED logged
    /\ UNCHANGED <<vars, run, todo, cur>>

\* The rule gets a row in draft, unless its name is in use, and is published next. A
\* creation whose reply is lost is repeated, and then the name is in use.
JobCreate ==
    /\ stage = "create"
    /\ \E a \in todo :
         /\ todo' = todo \ {a}
         /\ \/ /\ CreateAlert(a)
               /\ cur' = a
               /\ stage' = "publish"
               /\ UNCHANGED logged
            \/ /\ \E b \in Alerts : InTable(b) /\ Name[b] = Name[a]
               /\ logged' = logged \cup {Name[a]}
               /\ UNCHANGED <<vars, cur, stage>>
            \/ /\ "created" \in faults
               /\ CreateAlert(a)
               /\ logged' = logged \cup {Name[a]}
               /\ UNCHANGED <<cur, stage>>
    /\ UNCHANGED <<run, tries>>

JobPublish ==
    /\ stage = "publish"
    /\ MayStart(cur) /\ Publish(Job, cur)
    /\ stage' = "publishing"
    /\ UNCHANGED <<run, todo, cur, tries, logged>>

\* Mutant: an error of the publication is not logged.
JobPublished_Unlogged ==
    /\ stage = "publishing" /\ At(Job, "idle")
    /\ tries' = 0
    /\ stage' = "create"
    /\ UNCHANGED <<vars, run, todo, cur, logged>>

JobPublished ==
    /\ stage = "publishing" /\ At(Job, "idle")
    /\ \/ Repeat("publish")
       \/ /\ answer[Job] = "ok" \/ tries = Retries
          /\ tries' = 0
          /\ stage' = "create"
          /\ logged' = IF answer[Job] = "ok" THEN logged ELSE logged \cup {Name[cur]}
    /\ UNCHANGED <<vars, run, todo, cur>>

JobEnd ==
    /\ stage = "create" /\ todo = {}
    /\ stage' = "idle"
    /\ UNCHANGED <<vars, run, todo, cur, tries, logged>>

-----------------------------------------------------------------------------

JobStep ==
    \/ JobStart \/ JobAlias \/ JobClean \/ JobCleaned
    \/ JobCreate \/ JobPublish \/ JobPublished \/ JobEnd

ServiceStep ==
    /\ \/ \E a \in Alerts \ System : CreateAlert(a)
       \/ \E r \in Requests \ {Job}, a \in Alerts \ System : Client(r, a)
       \/ \E r \in Requests : NextStep(r)
       \/ Crash
    /\ UNCHANGED job

JobNext == (JobStep \/ ServiceStep) /\ UNCHANGED faults

JobSpec == JobInit /\ [][JobNext]_allVars

-----------------------------------------------------------------------------

\* After a run without failures, the rules of the system in table and Grafana are exactly
\* those of that run, whatever the runs before have left (init, cleanup).
IngestorInstalls ==
    faults = {} /\ stage = "idle" /\ run > 0 =>
        /\ \A a \in System : status[a] = "live" <=> a \in Batch[run]
        /\ (UNION {rules[c] : c \in Categories}) \cap SystemNames = {Name[a] : a \in Batch[run]}

\* Unless the API service restarts, a rule of the run that Grafana does not evaluate
\* afterwards is one that the job has logged an error for, though it ignores errors of its
\* cleanup and goes on after a failed rule (createAndPublishRule).
MissingIsLogged ==
    "crash" \notin faults /\ stage = "idle" /\ run > 0 =>
        \A a \in Batch[run] : (status[a] = "live" /\ Installed(a)) \/ Name[a] \in logged

\* A run leaves the rules it was to install or says which ones it could not.
InstalledOrLogged == IngestorInstalls /\ MissingIsLogged

=============================================================================
