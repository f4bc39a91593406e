--------------------------- MODULE CommandService ---------------------------
(***************************************************************************)
(* The command service.  Its HTTP endpoint is served by one event loop and *)
(* runs a workflow without ever yielding, so that there is one worker: it  *)
(* takes a command that was sent, runs the sub-commands of its workflow    *)
(* (PUBLISH_DATASET or RESTART_PIPELINE) and answers.  Between any two     *)
(* steps the handlers of the API service run on the same tables; every SQL *)
(* statement is a transaction of its own (autocommit).                     *)
(***************************************************************************)
EXTENDS DatasetTables

-----------------------------------------------------------------------------
(* Answering. An exception that execute_command catches (a connection      *)
(* error) and an ERROR result alike are answered with HTTP status 200;     *)
(* only an exception it does not catch makes the call of the API service   *)
(* fail. The handler of an "orphan" is gone: nobody takes the answer.      *)

Answered(r, ok) ==
    CASE pc[r] = "orphan"             -> "idle"
      [] pc[r] # "orphan" /\ ~ok      -> "failed"
      [] pc[r] = "publish_sent" /\ ok -> "publish_ok"
      [] OTHER                        -> "retire_ok"

Answer(S, ok) ==
    /\ pc' = [r \in Requests |-> IF r \in S THEN Answered(r, ok) ELSE pc[r]]
    /\ tgt' = [r \in Requests |-> IF r \in S /\ pc[r] = "orphan" THEN AnyDataset
                                  ELSE tgt[r]]

Free == wpc' = "idle" /\ wreq' = NoRequest /\ wrow' = NoRow

\* Mutant: the end of the workflow is not answered.
Finish_Silent(ok) == Free /\ UNCHANGED handlers

Finish(ok) == Free /\ Answer({wreq}, ok) /\ UNCHANGED <<row, cmd>>

Continue(next) == wpc' = next /\ UNCHANGED <<wreq, handlers>>

-----------------------------------------------------------------------------
(* The steps of the workflow PUBLISH_DATASET on the dataset of the request. *)

WorkerPick(r) ==
    /\ wpc = "idle" /\ cmd[r] # "none"
    /\ wreq' = r
    /\ wpc' = IF cmd[r] = "PUBLISH_DATASET" THEN "topic" ELSE "jobs"
    /\ cmd' = [cmd EXCEPT ![r] = "none"]
    /\ UNCHANGED <<tables, engines, counters, pc, tgt, row, wrow>>

\* CREATE_KAFKA_TOPIC: nothing for a Live dataset; else the topic of the draft, and
\* without a draft ready to publish the lookup of its topic raises.
WorkerTopic ==
    /\ wpc = "topic"
    /\ IF IsLive(tgt[wreq]) \/ draft[tgt[wreq]].status = "ReadyToPublish"
         THEN Continue("check") /\ UNCHANGED wrow
         ELSE Finish(FALSE)
    /\ UNCHANGED <<tables, engines, counters>>

\* MAKE_DATASET_LIVE: is there a Live row to audit?
WorkerCheck ==
    /\ wpc = "check"
    /\ Continue(IF IsLive(tgt[wreq]) THEN "audit" ELSE "draft")
    /\ UNCHANGED <<tables, engines, counters, wrow>>

\* The audit reads the Live row again and raises if it is gone by now.
WorkerAudit ==
    /\ wpc = "audit"
    /\ IF IsLive(tgt[wreq]) THEN Continue("draft") /\ UNCHANGED wrow
                            ELSE Finish(FALSE)
    /\ UNCHANGED <<tables, engines, counters>>

\* Mutant: the lookup knows drafts of status Draft only.
WorkerDraft_OnlyDraft ==
    /\ wpc = "draft"
    /\ LET d == draft[tgt[wreq]] IN
         IF d.status = "Draft" THEN Continue("row") /\ wrow' = d
                               ELSE Continue("submit") /\ UNCHANGED wrow
    /\ UNCHANGED <<tables, engines, counters>>

\* Mutant: without a draft only the row is skipped.
WorkerDraft_SkipsRow ==
    /\ wpc = "draft"
    /\ LET d == draft[tgt[wreq]] IN
         IF d.status = "ReadyToPublish" THEN Continue("row") /\ wrow' = d
                                        ELSE Continue("sources") /\ UNCHANGED wrow
    /\ UNCHANGED <<tables, engines, counters>>

\* Without a draft ready to publish the result is 404, and the workflow goes on.
WorkerDraft ==
    /\ wpc = "draft"
    /\ LET d == draft[tgt[wreq]] IN
         IF d.status = "ReadyToPublish" THEN Continue("row") /\ wrow' = d
                                        ELSE Continue("submit") /\ UNCHANGED wrow
    /\ UNCHANGED <<tables, engines, counters>>

\* Mutant: ON CONFLICT does not set the status.
WorkerRow_KeepsStatus ==
    /\ wpc = "row"
    /\ live' = [live EXCEPT ![tgt[wreq]] =
                  [wrow EXCEPT !.status = IF Exists(live[tgt[wreq]])
                                            THEN live[tgt[wreq]].status ELSE "Live"]]
    /\ wrow' = NoRow
    /\ Continue("sources")
    /\ UNCHANGED <<draft, dsDraft, source, engines, counters>>

\* INSERT INTO datasets ... ON CONFLICT (id) DO UPDATE, with status Live.
WorkerRow ==
    /\ wpc = "row"
    /\ live' = [live EXCEPT ![tgt[wreq]] = [wrow EXCEPT !.status = "Live"]]
    /\ wrow' = NoRow
    /\ Continue("sources")
    /\ UNCHANGED <<draft, dsDraft, source, engines, counters>>

\* The same for datasources, from what datasources_draft holds now.
WorkerSources ==
    /\ wpc = "sources"
    /\ LET d == tgt[wreq] IN
         source' = IF dsDraft[d] = 0 THEN source
                   ELSE [source EXCEPT ![d] = [status |-> "Live", key |-> dsDraft[d]]]
    /\ Continue("submit")
    /\ UNCHANGED <<draft, live, dsDraft, engines, counters, wrow>>

\* Mutant: the draft is dropped though Druid refuses a spec.
WorkerSubmit_DropsAnyway ==
    /\ wpc = "submit"
    /\ LET d == tgt[wreq]
           posts == d \notin Masters /\ source[d].status # "none" IN
         \/ posts /\ supervisor' = [supervisor EXCEPT ![d] = source[d].key]
         \/ (posts => "submit" \in Faults) /\ UNCHANGED supervisor
    /\ Continue("drop_source")
    /\ UNCHANGED <<tables, pipeline, counters, wrow>>

\* SUBMIT_INGESTION_TASKS: the specs of an event dataset's datasources, whatever the
\* status of the dataset or of the datasource. If Druid refuses one the draft is kept.
WorkerSubmit ==
    /\ wpc = "submit"
    /\ LET d == tgt[wreq]
           posts == d \notin Masters /\ source[d].status # "none" IN
         \/ /\ supervisor' = IF posts THEN [supervisor EXCEPT ![d] = source[d].key]
                                      ELSE supervisor
            /\ Continue("drop_source")
         \/ /\ posts /\ "submit" \in Faults
            /\ Continue("jobs")
            /\ UNCHANGED supervisor
    /\ UNCHANGED <<tables, pipeline, counters, wrow>>

\* Mutant: the rows of datasources_draft stay.
WorkerDropSource_Forgets ==
    /\ wpc = "drop_source"
    /\ IF Exists(draft[tgt[wreq]]) THEN Continue("drop_draft") /\ UNCHANGED wrow
                                   ELSE Finish(FALSE)
    /\ UNCHANGED <<tables, engines, counters>>

\* The draft is looked up by dataset id, in any status; without one, it raises.
WorkerDropSource ==
    /\ wpc = "drop_source"
    /\ LET d == tgt[wreq] IN
         IF Exists(draft[d])
           THEN dsDraft' = [dsDraft EXCEPT ![d] = 0] /\ Continue("drop_draft")
                /\ UNCHANGED wrow
           ELSE Finish(FALSE) /\ UNCHANGED dsDraft
    /\ UNCHANGED <<draft, live, source, engines, counters>>

WorkerDropDraft ==
    /\ wpc = "drop_draft"
    /\ draft' = [draft EXCEPT ![tgt[wreq]] = NoRow]
    /\ Continue("jobs")
    /\ UNCHANGED <<live, dsDraft, source, engines, counters, wrow>>

\* START_PIPELINE_JOBS: the restarted jobs load the datasets that are Live.
WorkerJobs ==
    /\ wpc = "jobs"
    /\ \/ pipeline' = [d \in Datasets |-> IF IsLive(d) THEN live[d].key ELSE 0]
       \/ "restart" \in Faults /\ UNCHANGED pipeline
    /\ Continue("reply")
    /\ UNCHANGED <<tables, supervisor, counters, wrow>>

\* DEPLOY_CONNECTORS and CREATE_AUDIT_EVENT change nothing here.
WorkerReply ==
    /\ wpc = "reply"
    /\ Finish(TRUE)
    /\ UNCHANGED <<tables, engines, counters>>

WorkerStep ==
    \/ WorkerTopic \/ WorkerCheck \/ WorkerAudit \/ WorkerDraft \/ WorkerRow
    \/ WorkerSources \/ WorkerSubmit \/ WorkerDropSource \/ WorkerDropDraft
    \/ WorkerJobs \/ WorkerReply

-----------------------------------------------------------------------------
(* Failures. *)

\* A connection error to Postgres, Druid or Kubernetes ends the workflow where it is.
WorkerAbort ==
    /\ "abort" \in Faults
    /\ wpc \notin {"idle", "reply"}
    /\ Finish(TRUE)
    /\ UNCHANGED <<tables, engines, counters>>

\* A restart loses the workflow, and those of the commands waiting whose connection
\* was open; the callers see the connection reset.
WorkerCrash ==
    /\ "workerCrash" \in Faults
    /\ wpc # "idle"
    /\ \E lost \in SUBSET {r \in Requests : cmd[r] # "none"} :
         /\ cmd' = [r \in Requests |-> IF r \in lost THEN "none" ELSE cmd[r]]
         /\ Answer(lost \cup {wreq}, FALSE)
    /\ Free
    /\ UNCHANGED <<tables, engines, counters, row>>

=============================================================================
