-------------------------- MODULE DatasetLifecycle --------------------------
(***************************************************************************)
(* The API service and the command service together, and what must hold    *)
(* of the lifecycle of datasets.  Which operations are called, which       *)
(* failures happen and how many requests overlap are constants, so that    *)
(* one specification answers for sequential use, for use with failures and *)
(* for concurrent use.                                                     *)
(***************************************************************************)
EXTENDS DatasetApi

Next ==
    \/ \E r \in Requests, d \in Datasets : FirstStep(r, d)
    \/ \E r \in Requests : NextStep(r) \/ WorkerPick(r)
    \/ WorkerStep
    \/ WorkerAbort
    \/ WorkerCrash
    \/ ApiCrash

\* Database and HTTP calls return, and the worker does not starve a waiting command: the
\* event loop takes the requests that have arrived in turn. Nobody has to send a request.
Fairness ==
    /\ \A r \in Requests : WF_vars(NextStep(r)) /\ SF_vars(WorkerPick(r))
    /\ WF_vars(WorkerStep)

Spec     == Init /\ [][Next]_vars
FairSpec == Spec /\ Fairness

-----------------------------------------------------------------------------
(* Helper state formulae. *)

Quiescent == wpc = "idle" /\ \A r \in Requests : pc[r] = "idle"

Events == Datasets \ Masters

MadeLive(d) == wpc = "row" /\ tgt[wreq] = d /\ live'[d] # live[d]

-----------------------------------------------------------------------------
(* Sequential use: what a client finds when nothing is in progress. *)

\* When nothing is in progress, a Live event dataset is ingested with the spec of the
\* configuration that is Live and the pipeline runs that configuration; a dataset that is
\* not Live is not ingested (publication workflow, retireDataset, deleteDruidSupervisors).
QuiescentConsistent ==
    Quiescent =>
        \A d \in Datasets :
            /\ d \in Events => supervisor[d] = IF IsLive(d) THEN live[d].key ELSE 0
            /\ IsLive(d) => source[d] = [status |-> "Live", key |-> live[d].key]
            /\ pipeline[d] = IF IsLive(d) THEN live[d].key ELSE 0

\* A draft disappears only when a client deletes it or when its content is Live
\* (_delete_draft_dataset runs after MAKE_DATASET_LIVE, and only on success).
DraftKept ==
    [][\A d \in Datasets :
          Exists(draft[d]) /\ ~Exists(draft'[d]) =>
              \/ live[d].key = draft[d].key
              \/ \E r \in Requests : At(r, "delete_txn") /\ tgt[r] = d]_vars

\* Every master that has been Live has a Redis database, and its own
\* (updateMasterDataConfig).
LiveMastersOwnDb ==
    \A m \in Masters :
        Exists(live[m]) =>
            /\ live[m].redis # 0
            /\ \A n \in Masters \ {m} : live[n].redis # live[m].redis

\* A dataset goes Live only with masters that are Live, and reads each from the Redis
\* database of that master (comment of publishDataset; validateAndUpdateDenormConfig).
DenormResolvedWhenMadeLive ==
    [][\A d \in Datasets :
          MadeLive(d) =>
              \A f \in live'[d].denorm : IsLive(f.ds) /\ f.db = live[f.ds].redis]_vars

\* A draft made from a live row is denormalised with the same masters, though the live
\* row names them by Redis database (createDraftDatasetFromLive).
EditKeepsMasters ==
    [][\A r \in Requests :
          At(r, "edit_insert") /\ draft' # draft =>
              MastersOf(draft'[tgt[r]]) = MastersOf(live[tgt[r]])]_vars

\* When the client is told "Dataset status transition to Live successful", the dataset is
\* Live.
PublishSuccessMeansLive ==
    \A r \in Requests : At(r, "publish_ok") => IsLive(tgt[r])

\* A new version of a dataset that goes Live has a greater version than the one it
\* replaces (createDraftDatasetFromLive increments the version).
RepublishRaisesVersion ==
    [][\A d \in Datasets :
          MadeLive(d) /\ Exists(live[d]) /\ live'[d].key # live[d].key =>
              live'[d].version > live[d].version]_vars

\* A master that a Live dataset is denormalised with is not retired: retiring it fails as
\* it is in use (canRetireIfMasterDataset).
MastersInUseStayLive ==
    \A d \in Datasets : IsLive(d) => \A m \in MastersOf(live[d]) : IsLive(m)

-----------------------------------------------------------------------------
(* Failures. *)

\* A publication that failed can be repeated: as long as a Live event dataset is not
\* ingested as it is configured, its draft is still there, ready to publish.
FailedPublishIsRetryable ==
    Quiescent =>
        \A d \in Events :
            IsLive(d) /\ supervisor[d] # live[d].key => draft[d].status = "ReadyToPublish"

\* An ingestion spec waits in datasources_draft only as long as its draft exists
\* (deleteDraftDataset, _delete_draft_dataset).
DraftSourceHasDraft == \A d \in Datasets : dsDraft[d] # 0 => Exists(draft[d])

-----------------------------------------------------------------------------
(* Concurrent use. *)

\* Publication goes from datasets to datasources to Druid, so that a crash in the middle
\* never leaves Druid ingesting for a dataset, or a datasource of a dataset, that the
\* tables do not have (order of the workflow PUBLISH_DATASET).
PublicationOrder ==
    \A d \in Datasets :
        /\ supervisor[d] # 0 => source[d].status # "none"
        /\ source[d].status # "none" => Exists(live[d])

\* The Redis databases that the rows of dataset d hold, in the tables and in the memory
\* of the requests about d.
HoldsDb(d) ==
    ({draft[d].redis, live[d].redis}
       \cup {row[r].redis : r \in {q \in Requests : tgt[q] = d}}
       \cup (IF wpc = "row" /\ tgt[wreq] = d THEN {wrow.redis} ELSE {})) \ {0}

\* No Redis database is drawn for two datasets, whatever the interleaving of publications
\* and updates: nextval draws it once, and rows only pass it on within a dataset.
RedisUnique ==
    \A d \in Datasets :
        /\ \A n \in HoldsDb(d) : n < nextDb
        /\ \A e \in Datasets \ {d} : HoldsDb(d) \cap HoldsDb(e) = {}

\* Every request is answered: the handler of an operation does not stay suspended.
EveryRequestAnswered == \A r \in Requests : pc[r] # "idle" ~> pc[r] = "idle"

Status == INSTANCE DatasetStatus WITH
              draftStatus <- [d \in Datasets |-> draft[d].status],
              liveStatus  <- [d \in Datasets |-> live[d].status],
              approved    <- {d \in Datasets : wpc = "row" /\ tgt[wreq] = d}

\* The services implement the abstract status machine.
ImplementsStatus == Status!StatusSpec

=============================================================================
