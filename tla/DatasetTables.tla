---------------------------- MODULE DatasetTables ----------------------------
(***************************************************************************)
(* The state that the API service and the command service share: the       *)
(* Postgres tables datasets_draft, datasets, datasources_draft and         *)
(* datasources, the sequence redis_db_index, Druid's supervisors and the   *)
(* configuration the Flink jobs have loaded; and the control state of the  *)
(* request handlers of the API service and of the single worker of the     *)
(* command service that runs publication workflows.                        *)
(*                                                                         *)
(* A dataset's configuration (schemas, transformations, connectors, tags)  *)
(* is abstracted to its version_key: every request that changes it issues  *)
(* a new key.  Issued keys are taken to be distinct (Date.now() in         *)
(* milliseconds).  The parts the properties tell apart, the Redis database *)
(* of a master dataset and the masters a dataset is denormalised with, are *)
(* fields of their own.                                                    *)
(***************************************************************************)
EXTENDS Naturals, FiniteSets

CONSTANTS
    Datasets,   \* dataset ids; the type (event or master) of an id is fixed
    Masters,    \* the ids of type "master", the others are of type "event"
    Requests,   \* slots for API requests in progress at the same time
    NoRequest,  \* a value that is no request: the worker is free
    Kinds,      \* the API operations that clients call
    Faults,     \* the failures that may happen
    MaxKey,     \* bound on the version keys issued
    MaxDb       \* bound on the Redis database numbers drawn

AllKinds == {"Create", "Update", "Edit", "ReadyToPublish", "Live", "Retire",
             "Delete", "Import", "Copy"}

AllFaults == {"abort",       \* a database or HTTP connection error in the worker
              "workerCrash", \* the command service restarts
              "apiCrash",    \* the API service restarts
              "rollback",    \* a transaction of the API service is rolled back
              "submit",      \* Druid does not accept an ingestion spec
              "terminate",   \* Druid does not terminate a supervisor
              "alerts",      \* deleting the alerts of a retired dataset fails
              "restart"}     \* kubectl cannot restart the pipeline

ASSUME DatasetsAssumption  == Datasets # {} /\ Masters \subseteq Datasets
ASSUME RequestsAssumption  == NoRequest \notin Requests
ASSUME SwitchesAssumption  == Kinds \subseteq AllKinds /\ Faults \subseteq AllFaults
ASSUME BoundsAssumption    == MaxKey \in Nat /\ MaxDb \in Nat

VARIABLES
    draft,      \* datasets_draft: one row per dataset id
    live,       \* datasets
    dsDraft,    \* datasources_draft: key of the draft its ingestion spec is built from
    source,     \* datasources: status, and the key its ingestion spec is built from
    supervisor, \* Druid: key of the spec the dataset's supervisor runs
    pipeline,   \* Flink: key of the configuration the jobs loaded when they started
    lastKey,    \* the last version key issued
    nextDb,     \* what nextval('redis_db_index') returns next
    pc,         \* the await at which the handler of a request is suspended
    tgt,        \* the dataset id of the request
    row,        \* the row its handler has read
    cmd,        \* the command sent for the request that the worker has not begun
    wreq,       \* the request whose command the worker executes
    wpc,        \* the next step of the worker
    wrow        \* the draft row the worker has read

tables   == <<draft, live, dsDraft, source>>
engines  == <<supervisor, pipeline>>
counters == <<lastKey, nextDb>>
handlers == <<pc, tgt, row, cmd>>
worker   == <<wreq, wpc, wrow>>
vars     == <<tables, engines, counters, handlers, worker>>

-----------------------------------------------------------------------------
(* Rows. A row that does not exist has status "none".  In `live` the field *)
(* key is a history: the key of the draft whose content the row holds (the *)
(* table datasets has no version_key).                                      *)

Statuses == {"none", "Draft", "ReadyToPublish", "Live", "Retired"}
Fields   == [ds : Datasets, db : Nat]   \* a denorm field and the Redis db filled in

Row == [status : Statuses, key : Nat, version : Nat, redis : Nat,
        denorm : SUBSET Fields]

NoRow == [status |-> "none", key |-> 0, version |-> 0, redis |-> 0, denorm |-> {}]

SourceRow == [status : {"none", "Live", "Retired"}, key : Nat]
NoSource  == [status |-> "none", key |-> 0]

Exists(r)    == r.status # "none"
MastersOf(r) == {f.ds : f \in r.denorm}
IsLive(d)    == live[d].status = "Live"

\* What DatasetConfigDefault gives a dataset: no Redis database (0), version 1,
\* no denormalisation.
DefaultRow(key) == [status |-> "Draft", key |-> key, version |-> 1, redis |-> 0,
                    denorm |-> {}]

-----------------------------------------------------------------------------
(* Control states. *)

ApiPcs == {"idle", "create_insert", "update_write", "edit_live", "edit_denorm",
           "edit_insert", "ready_read", "ready_write", "publish_read",
           "publish_denorm", "publish_alloc", "publish_save", "publish_sent",
           "publish_ok", "retire_deps", "retire_save", "retire_stop",
           "retire_sent", "retire_ok", "failed", "delete_txn", "import_insert",
           "import_overwrite", "copy_insert", "orphan"}

\* The handlers that hold, or will issue, a version key of their own.
Issuing == {"create_insert", "update_write", "edit_live", "edit_denorm",
            "edit_insert", "import_insert", "import_overwrite", "copy_insert"}

CanIssue == lastKey + Cardinality({r \in Requests : pc[r] \in Issuing}) < MaxKey

Allocating == {"publish_read", "publish_denorm", "publish_alloc"}

CanAllocate ==
    nextDb + Cardinality({r \in Requests : pc[r] \in Allocating /\ tgt[r] \in Masters})
        < MaxDb

Commands == {"none", "PUBLISH_DATASET", "RESTART_PIPELINE"}

WorkerPcs == {"idle", "topic", "check", "audit", "draft", "row", "sources", "submit",
              "drop_source", "drop_draft", "jobs", "reply"}

AnyDataset == CHOOSE d \in Datasets : TRUE

TypeOK ==
    /\ draft \in [Datasets -> Row]
    /\ live \in [Datasets -> Row]
    /\ dsDraft \in [Datasets -> Nat]
    /\ source \in [Datasets -> SourceRow]
    /\ supervisor \in [Datasets -> Nat]
    /\ pipeline \in [Datasets -> Nat]
    /\ lastKey \in Nat
    /\ nextDb \in Nat
    /\ pc \in [Requests -> ApiPcs]
    /\ tgt \in [Requests -> Datasets]
    /\ row \in [Requests -> Row]
    /\ cmd \in [Requests -> Commands]
    /\ wreq \in Requests \cup {NoRequest}
    /\ wpc \in WorkerPcs
    /\ wrow \in Row
    /\ wpc # "idle" => wreq \in Requests

FirstDb == 3    \* updateMasterDataConfig: parseInt(nextval) || 3

Init ==
    /\ draft = [d \in Datasets |-> NoRow]
    /\ live = [d \in Datasets |-> NoRow]
    /\ dsDraft = [d \in Datasets |-> 0]
    /\ source = [d \in Datasets |-> NoSource]
    /\ supervisor = [d \in Datasets |-> 0]
    /\ pipeline = [d \in Datasets |-> 0]
    /\ lastKey = 0
    /\ nextDb = FirstDb
    /\ pc = [r \in Requests |-> "idle"]
    /\ tgt = [r \in Requests |-> AnyDataset]
    /\ row = [r \in Requests |-> NoRow]
    /\ cmd = [r \in Requests |-> "none"]
    /\ wreq = NoRequest
    /\ wpc = "idle"
    /\ wrow = NoRow

=============================================================================
