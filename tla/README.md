# Verification of dataset management in the Obsrv API and command services

This directory holds TLA+ models of `api-service` and `command-service`, the TLC
configurations that check them, and proofs of theorems about them for TLAPS.

## 1. The system

| part | state | operations | talks to |
|---|---|---|---|
| API service, dataset drafts (`controllers/Dataset{Create,Read,Update,Import,Copy}`, `services/DatasetService.ts`) | `datasets_draft`, `datasources_draft` | create, read with `mode=edit`, update, import, copy | Postgres |
| API service, status transitions (`DatasetStatusTransition.ts`) | `datasets_draft`, `datasets`, `datasources`, sequence `redis_db_index` | ReadyToPublish, Live, Retire, Delete | Postgres, Druid, the command service, the alert manager |
| Command service (`routes.py`, `command/*.py`) | the same tables, Kafka topics, Druid supervisors, Flink jobs | workflows PUBLISH_DATASET and RESTART_PIPELINE | Postgres, Kafka, Druid, Kubernetes |
| Connector deployment and registry (`connector_command.py`, `connector_registry.py`) | `connector_registry`, `connector_instances`, jobs in Kubernetes | register, deploy | Postgres, Kubernetes, file system |
| Alerts, silences, notification channels (`controllers/Alerts`, `NotificationChannel`, `services/managers`) | tables `alertrules`, `silences`, `notificationchannel`; Grafana's rule groups, silences and contact points | create, publish, update, retire, delete | Postgres, Grafana |
| System rules ingestor | none | replaces the system alert rules through the API service, with retries | API service |
| Health, metrics, reset | one admin client of Kafka | aggregates health states, resumes supervisors, restarts the pipeline | Druid, Kafka, Flink, Prometheus, Postgres |
| Queries (`controllers/DataOut`, `QueryTemplate`) | variables of the validator's module | validate, limit and run native queries, SQL, templates | Postgres, Druid |
| Data in, exhaust, signed URLs | one Kafka producer | send events, hand out files | Kafka, cloud storage |
| Schema generation (`SchemaGenerateService`) | a variable of the module (`rollupInfo`) | infers a schema from samples, suggests dedup keys | - |
| Table specs (`TableGenerator.ts`) | `datasources_draft`, `datasources` | ingestion specs for Druid and Hudi | Postgres |
| RBAC, telemetry, query templates, PII detection | one table of templates | per-request decisions and reports | - |

How they interact. A client drives a dataset through the API service: a draft is created,
changed, made *ReadyToPublish* and published. Publishing commits the draft and an
ingestion spec in one transaction and then calls the command service over HTTP, which runs
the workflow PUBLISH_DATASET on the same tables: it creates the topic, copies the draft's
rows to the live tables, submits the specs to Druid, deletes the draft and restarts the
Flink jobs, which load the live tables. Retiring writes the live tables, terminates the
supervisors, deletes the alerts and has the command service restart the pipeline. All
coordination is through the tables. There is no lock and no version column in any `WHERE`.

What is hard. The handlers of the API service are asynchronous: each `await` lets other
handlers run between what a handler has checked and what it writes. The command service
executes one workflow at a time, statement by statement in autocommit, next to the API
service. A workflow can break off anywhere (an exception, a restart), sub-commands fail
without stopping it, and the answer does not tell. Requests can be repeated. The file
`PROJECT.json` lists these hazards line by line.

What makes the components correct:

* drafts: a draft's changes are lost only when its client asks for it; an update is applied to
  the version its client has seen; a draft made from a live dataset means the same as that;
* transitions: the status machine Draft, ReadyToPublish, Live, Retired; a dataset goes Live
  with masters that are Live, and every master has a Redis database of its own;
* workflow: what is Live, what Druid ingests and what the pipeline runs agree when nothing is
  in progress; after a failure, a retry finds what it needs; the answer is truthful;
* alerts, silences, connectors, notifications: the table and the external system agree, or can
  be made to, and what belongs to others stays;
* health: what was bad all the time is reported, and nothing else is;
* queries: what Druid executes is what its own request asked for, within the rules, on data
  that is there;
* tables: over any series of edits the columns of the lake stay where they are, and every value
  of an event has a place;
* schemas: conflicts between samples are resolved by the samples of the request.

## 2. Modules

    DatasetTables         tables, external engines, control state, Init, type invariant
      CommandService      the worker: PUBLISH_DATASET, RESTART_PIPELINE, their failures
        DatasetApi        the handlers of the API service, one action per await
          DatasetLifecycle    Next, fairness, properties; implements DatasetStatus
            MCDatasetLifecycle    sets of operations and failures for TLC
            DatasetStatusProofs   types, refinement of DatasetStatus, order of publication, proved
              DatasetRequestsProofs   what one request at a time can rely on, and the Redis
                                      databases of masters, proved
    DatasetStatus         abstract status machine of datasets

    ConnectionPool        connections and transactions of the API service
      MCConnectionPool
      ConnectionPoolProofs  no connection is lost, proved
    Connectors            registration and deployment of connectors
      MCConnectors
      ConnectorsProofs      versions and deployed connectors, proved

    AlertRules            the table of alerts and the rule groups of Grafana
      SystemRulesIngestor   the job that replaces the system's rules, users, and both together
        MCSystemRules
          MCServices        the job and the services below, one of them in each behaviour
    DatasetHealth         health checks
    DataQuery             queries from validation to execution
    NotificationChannels  channels against the configuration of the Alertmanager
      MonitoringProofs      channels, alert rules and the ingestor's job, proved
    Silences              silences of alerts against Grafana's
    DatasetEdits          updates of one draft by several users
    TableSpecs            ingestion specs over edits and publications
    SchemaGeneration      schemas and dedup keys out of samples
      Positions             parts of sequences, for the two of them
      SchemaProofs          both, proved
    DatasetAlerts         alerts of datasets, from publication to retirement
      DatasetAlertsProofs   both of its properties, proved
          ServicesProofs    silences, updates, queries and health, and the types of all
                            that runs in MCServices, proved

`DatasetTables`. `draft`, `live`, `dsDraft` and `source` are the tables `datasets_draft`,
`datasets`, `datasources_draft` and `datasources`, one row per dataset; `supervisor` is what
Druid ingests and `pipeline` what the Flink jobs have loaded; `lastKey` and `nextDb` are the
sources of version keys and Redis databases; `pc`, `tgt`, `row` are, for each slot of
`Requests`, the await at which a handler is suspended, its dataset and the row it has read;
`cmd`, `wreq`, `wpc`, `wrow` are the commands on their way and the state of the worker.
A configuration is abstracted to its `version_key`: schemas, transformations, connectors and
tags change with it and are compared by it. In `live` the key is a history (the table has no
such column). Two parts are kept, as the properties depend on them: the Redis database of a
master (`dataset_config.cache_config.redis_db`) and the fields of `denorm_config`, each the
master's id and the database that was filled in.

`CommandService`. One action per statement of the workflow that others can observe:

| action | code |
|---|---|
| `WorkerPick` | the endpoint begins a command (`routes.py`); it never yields, so there is one worker |
| `WorkerTopic` | `CREATE_KAFKA_TOPIC`; raises without a Live row and without a draft ready to publish |
| `WorkerCheck`, `WorkerAudit`, `WorkerDraft` | the reads of `_change_dataset_to_active` |
| `WorkerRow`, `WorkerSources` | its upserts into `datasets` and `datasources` |
| `WorkerSubmit` | `SUBMIT_INGESTION_TASKS` of event datasets |
| `WorkerDropSource`, `WorkerDropDraft` | `_delete_draft_dataset` |
| `WorkerJobs`, `WorkerReply` | `START_PIPELINE_JOBS`; the answer |
| `WorkerAbort`, `WorkerCrash` | an exception that `execute_command` catches; a restart |

`DatasetApi`. The first action of a handler (`CreateCheck`, `UpdateRead`, `EditReadDraft`,
`ReadyCheck`, `PublishCheck`, `RetireCheck`, `DeleteCheck`, `ImportRead`, `CopyRead`) makes
its first read; requests that this read rejects change nothing and are left out. Each later
action runs from one await to the next: `PublishRead`, `PublishDenorm`, `PublishAlloc`,
`PublishSave` for publishing, and so on. A transaction is one action, which also may roll
back. Schema validation is a choice, since a configuration is abstract. `ApiCrash` loses every
handler; a command that was sent is executed all the same.

`DatasetStatus` is what a client may rely on about statuses whatever happens; the mapping
takes the status columns, and `approved` to the dataset whose draft the worker has found
ready and is about to make Live.

`ConnectionPool` is what `DatasetApi` leaves out when it makes a transaction one action. An
operation is the sequence of the kinds of its statements (`Program`): outside a transaction
(`query`, `write`, and `bare` or `nested` while one is open), `begin`, the writes of a draft's
two rows in it, and `commit`. `Ask` and `Grant` are the queue of the pool, `Write` takes a row
lock, `Error`, `Deadlock` and `AcquireTimeout` end in `GiveUp`, which rolls back unless the
statement stands before the `try` block, as line 395 of `DatasetService.ts` does. The pool's
queue and Postgres' locks are external. Only rows of drafts are locked: those of live tables
are written in one place, by transactions that wait for nothing else.

`AlertRules`. `status` is the table `alerts`, `rules` and `folder` are Grafana: the names in
each category's group. The handlers go call by call. `DropRead` to `DropFolder` are
`deleteAlert`, `DropStatus` the row that `deleteAlertRule` writes whatever has happened before,
`RuleRead` to `RulePost` are `publishAlert` of Grafana's service, `SystemRead` to
`SystemDestroy` the deletion of the system rules. A failing call is `refuse`, one that takes
effect and is seen as failed `no_reply`, a restart of the API service `crash`; which of them
may happen is `faults`, chosen initially from `Scenarios`, so that one run compares a world
without failures with others. Statements of Postgres do not fail here. Ids are not used twice,
names are: the ingestor creates the same rules again and again.

`SystemRulesIngestor` is the job as a client with a slot of its own; its actions (`JobAlias`,
`JobClean`, `JobCreate`, `JobPublish`, ...) send requests of `AlertRules`, whose steps and
whose users' requests interleave with them in `JobNext`. `Repeat` is axios-retry, which repeats
GET and DELETE; the publication of a rule is a GET.

`Connectors`. `registry` and `instance` are the tables, `code` the folders in the Spark pod,
`cron` and `release` what Kubernetes runs. A registration goes from `RegisterStart` (download,
copy) to one `RetireVersions` and `InsertVersion` for each connector of the package; a
publication writes the instances (`PublishStart`), stops the old jobs (`StopJobs`) and installs
the new ones, each of which may fail (`InstallFails`) or end the loop (`InstallEnds`: an
unsupported runtime). `Crash` is a restart of the command service. A Spark connector has a cron
job for each instance, a Flink connector one release for all of its instances, of all datasets.

`DatasetHealth`. A check reads its items one after the other (`Read`), each from the system
that answers it, while readings may change (`Change`); `Connect` and `Disconnect` are those of
the Kafka admin client that concurrent checks share: one that closes it shakes the others.
`Reply` aggregates what was read with the thresholds and defaults of the code.

`DataQuery`. The awaits of a request: the datasource is resolved, the query validated and
limited, its tables mapped, the load status of each datasource and then the list of datasources
asked for, and the query executed. The order differs between native queries (`ResolveNative`),
templates (`ValidateTemplate`, `ResolveTemplate`) and SQL (`BuildSqlQuery`). `validator` are
the variables that `QueryValidator.ts` keeps outside of its functions and that all requests
share. `Move` is everything that may change at an await: a publication, a retirement, Druid.
A query is reduced to its tables, limits and dates (`IsQuery`).

`NotificationChannels`. Each handler gets all of the Alertmanager's configuration
(`GetAlertManagerConfig`), posts all of it with its change (`UpdateAlertManagerConfig`) and
writes its row (`WriteRow`), except that a publication answers before its row is written
(`WriteLate`). `RestartApi` loses handlers and rows not yet written.

`Silences`. `PostSilence` and `InsertSilence` create one: Grafana gives the id, the row follows,
and the row it replaces is destroyed whenever that gets done (`DestroyOld`: not awaited).
`RepostSilence` and `RewriteSilence` are an update, `DisableSilence` and `DestroySilence` a
deletion or what the change of an alert does. Any call may fail.

`TableSpecs`. `EditTables` changes what specs are made of: fields (added, deleted, restored,
retyped), transformations, denormalisation, the master's schema, the switch for the lake.
`PublishTables` makes the specs as `TableGenerator.ts` does: `AllFields`, the dimensions with
the partition key first, the paths, and for the lake `UpdatedColumns`, which keeps the old
columns and numbers the new ones. `DeployTables` makes drafts live. A path is a sequence of
keys and a key a sequence of words, so that the two stores' names of a field are what their
separators make of it: "a.b" and "a_b" are one column of the lake.

`DatasetEdits`. `FetchDraft`, `StartUpdate` (read, compare the keys, merge) and `WriteUpdate`
are a user's update, with other users' in between. `MergeDraftDataset` is the code's: which
columns an update writes depends on the request, and removing a field removes its
transformations, masters and keys *from the row that was read*. Version keys are times here,
and the clock (`Tick`) need not advance between two versions. `stale` is a history: the versions
that were made out of an older one than the one they followed.

`SchemaGeneration`. `AddSample` grows the samples, then one request of each kind is answered:
samples, a batch, JSON schemas. `Resolution` is the choice of a type among conflicting ones,
`Analyse` the roll-up of values on which the suggestion of dedup keys rests, `rollupInfo` the
module's variable that keeps the last one for whichever request comes next.

`DatasetAlerts`. What `AlertManagerService.ts` and `deleteAlertByDataset` do to the alerts of
datasets. A publication goes from `SaveDrafts` (the rows, in its transaction) over
`PublishCommand` to `ListAlerts` and, for each alert, `ReadRules`, `PostRules`, `MarkLive`; a
retirement from `RetireTables` over `FindAlerts` to, for each alert, `NextAlert`, `UnpostRule`,
`DestroyAlert`, `Unmute`, and at last `DropMetrics`. `group` is Grafana's rules by category,
which all datasets share; `title` is what the names of alerts make of a dataset's id, the same
for ids that differ in "-" and "." only. Four histories say what a property is about: the
datasets that were `retired`, `harmed` (a call failed) and `crossed` (transitions overlapped), and
the silences that outlived their alert (`orphaned`).

`MCServices`. These services share no state with the lifecycle nor with one another. To check
them in one run, `part` chooses initially which of them runs; the others stay in one initial
state (`Still`). The next-state relation is a disjunction of theirs, so every property of a
service is checked over exactly its own behaviours.

## 3. Runs

`CHECK_DEADLOCK FALSE` in the runs of `MCDatasetLifecycle`, because clients need not send
requests and, in the model, version keys run out; in those of `MCConnectionPool`, because all
connections may be lost, and in the others, because the job has a number of runs and the
requests, edits and changes of the services are bounded.

| run | instance | shows |
|---|---|---|
| `lifecycle_sequential` | two masters, an event dataset; one request at a time, no failure; 4 keys | `QuiescentConsistent`, `PublishSuccessMeansLive`, `LiveMastersOwnDb`, `EditKeepsMasters` |
| `lifecycle_faults` | a master, an event dataset; one request at a time; exceptions, restarts of both services, rollbacks, failing dependencies; 3 keys | `FailedPublishIsRetryable`, `DraftSourceHasDraft`, `DraftKept`, `DenormResolvedWhenMadeLive` |
| `lifecycle_concurrent` | an event dataset; two requests overlap, all operations, exceptions and restarts of the worker; 2 keys; fairness | `PublicationOrder`, refinement of `DatasetStatus`, `EveryRequestAnswered` |
| `redis_databases` | two masters; two requests overlap; 3 keys | `RedisUnique` |
| `pool_service` | three handlers, two connections; one may publish; caught errors; fairness | `NothingLeaked`, `StarvedOnlyByPublication`, `EveryRequestEnds` |
| `connectors` | two datasets, three connectors in three packages (Spark, a bundle of two for Flink, an unsupported runtime), two instances, 7 requests; no failure, or any one kind of failure | `VersionsAgree`, `VersionsUsable`, `DeployedMeansRunning` |
| `services` | one of nine parts in each behaviour, below | the properties of the parts |

| part of `services` | instance | shows |
|---|---|---|
| rules | a user's alert and two runs of the job, two rules and then one of them again, in two categories; three scenarios: no failure, failing calls, restarts too | `RulesAgree`, `InstalledOrLogged`, `RequestsAboutOwnRules` |
| health | two overlapping checks: infrastructure of a master, processing, queries; one reading changes | `HealthTruthful` |
| query | two clients; six queries, within the limits and against them, of every entry point, one over two tables and a CTE; one move | `OwnSource`, `OnLoadedSources`, `WithinLimits` |
| channels | two channels, two names, another's receiver; two handlers; three requests; failures, restarts | `GrafanaAgrees`, `RetirementCleansUp` |
| silences | two alerts, three ids; two sessions; three requests; failures | `SilencesAccounted`, `RowOutlivesSilence` |
| tables | four fields, two of which collide in the lake; a master; four edits, publications at any time | `SpecsDistinct`, `TablesServeEvents` |
| edits | two users; requests that remove and add fields, transformations, masters, keys; two writes; a clock that may stand still | `UpdatesSound` |
| schema | two fields; up to three samples of every conflict of types, formats and null | `ConflictsResolved`, `DedupFromOwnSamples` |
| alerts | two datasets, of one name or of two; two alerts of one category; two overlapping transitions, four in all; a silence; every call may fail | `AlertsAgree`, `AlertsRemoved` |

Some properties are conjunctions of others that are named and commented where they are defined:
`VersionsAgree`, `VersionsUsable`, `RulesAgree`, `InstalledOrLogged`, `HealthTruthful`,
`WithinLimits`, `GrafanaAgrees`, `SilencesAccounted`, `SpecsDistinct`, `ConflictsResolved`,
`TablesServeEvents`, `RequestsAboutOwnRules`, `UpdatesSound`, `AlertsAgree`, `AlertsRemoved`.

Five runs refute what the code, a comment, a message or a test says (`findings` in
`PROJECT.json`): `retire_in_use`, `publish_success`, `republish_version`, `pool_leak`,
`system_cleanup`.

Bounds. `MaxKey` bounds the writes that change a configuration; two keys are enough for a
dataset to be published, edited and published again, three for a master and an event dataset
one of which is republished, four for two masters, an event dataset that uses both, and an edit
or update of one of them. `MaxDb` bounds the databases drawn, and is above what those
publications draw. The guards `CanIssue` and `CanAllocate` count what running handlers will
use, so that a handler that has begun is never stopped by a bound. Two request slots give every
overlap of two handlers and the worker with them; a third would add interleavings of three
handlers about the same dataset, whose checks and writes are pairwise. `redis_databases` uses
that requests are interchangeable, `connectors` that datasets and instance ids are, `services`
that the datasets of its alerts and their titles are; the properties they check do not name one,
and none of the three has a liveness property.

The pool has its real size. Three handlers are one more than its connections, so that somebody
waits whatever the others do; `pool_leak` needs two. `pool_service` excludes a failure of
the statement before the `try` block and a second publication, which `pool_leak` shows to lose
a connection.

In `AlertRules` clients take turns within a category (`MayStart`), because two requests about
one group lose updates, as the code has no lock; across categories they overlap. The user's
alert shares its category with one rule of the system and not with the other: groups have no,
one or two rules, the cases that `deleteAlert` and `deleteSystemRules` distinguish. The job
repeats a call once instead of three times: what a repetition finds depends on the last attempt
only.

In `services`, two of everything that can overlap (checks, clients, handlers, sessions, users)
give every pair of operations in every order; what a third would meet is a state that two have
already made. One change or move at any await is what a check or query can miss; a second one
adds nothing to a property that compares with everything that was true in between (`met`,
`changed`). `MaxHandled` and `MaxSilencing` allow a creation, a publication or replacement, and
a third request that finds what those left. Four edits are enough to add, delete, retype and
restore a field with publications in between. Two writes are one that is overtaken and the one
that overtakes it; that a key comes again takes four, for which the proof of `UpdatesSound`
stands. Three samples are the smallest number with a majority. Four transitions publish two
datasets and retire one of them twice over, which takes the rule of the other with it, or publish,
retire, publish and retire one, which shows what a first retirement left behind. In
`connectors` seven requests are a registration of every package, a draft and its publication,
another version, and both again after a failure.

Which operations are in a run is a constant. Without `Import` and `Copy` in `redis_databases`:
both bring a Redis database from another dataset (a copy of a Live master is published with the
master's database). Without `Delete` in `lifecycle_faults`: a client may delete the draft that
a retry would need. `lifecycle_sequential` and `lifecycle_faults` state what holds without
overlapping requests; `DraftKept`, `DenormResolvedWhenMadeLive` and `QuiescentConsistent` do
not hold with them: handlers write back whole rows that they have read earlier, so that a
transition to ReadyToPublish that overlaps a publication undoes the resolution of the denorm
fields, and an update that overlaps the end of a publication is deleted with the draft.

Fairness. Weak fairness of each handler's next step and of the worker's: database and HTTP
calls return, by a result or by a timeout. Strong fairness of `WorkerPick` for each request:
the event loop of the command service takes the connections that are ready in turn. No
fairness of first steps (clients) or failures. In `ConnectionPool` strong fairness of each
handler's steps, failing statements excepted: Postgres grants a row to waiting statements in
order; weak fairness of the pool and of its timeout (`acquire: 30000`). `Stuck` says when the
timeout is due: only when whoever holds a connection waits, since statements take much less
than 30 seconds.

## 4. Proofs

`DatasetStatusProofs` proves first `TypeCorrect`, `Spec => []TypeOK`, for every value of the constants
that the named assumptions of `DatasetTables` allow: the masters are datasets, no request is
`NoRequest`, the switches are among the known operations and failures, the bounds are naturals.
`TypeOK` is inductive by itself because it contains the one relation the actions need, a busy
worker works for a request. The facts about rows (`RowUpdate`, `UnresolvedType`,
`MergeDenormType`, ...) come first, then what the shared operators of answering keep
(`FinishType`, `ContinueType`, `DoneType`, `SendType`), then one lemma for each group of
actions with one step per action.

It then proves two theorems from the same assumptions, for every choice of operations and
failures:

* `StatusImplemented`, `Spec => ImplementsStatus`: the services implement `DatasetStatus`;
* `PublicationOrdered`, `Spec => []PublicationOrder`.

Neither is inductive alone. The dataset the worker publishes is `tgt[wreq]`, a field of a
handler, and an `UPDATE` of a draft writes the whole row that a handler has read some awaits
ago. So the argument has three invariants, each inductive given the ones before it:

* `ControlInv`: a command, waiting or executed, belongs to a handler that waits for its answer
  (or died waiting), so that `tgt[wreq]` stays what it is until the workflow ends.
  `ControlAnswer` shows it for the three ways a workflow ends;
* `StatusInv`: tables have only the statuses their clients may see there (`TablesInv`), and
  the row a handler holds between two awaits has a status that may be written over any
  draft that it may meet (`SlotInv`);
* `OrderInv`: `PublicationOrder`, and the dataset exists when the worker is about to write
  its datasource.

What handlers and worker leave alone is stated once (`FirstStepFrame`, `NextStepFrame`,
`WorkerStepFrame`), as is what they do to the status columns (`NextStepEffect`,
`WorkerStepEffect`, from `SaveDraftStatus` and `InsertDraftStatus`). The refinement then is one
lemma for each kind of abstract step (`AbstractDraft`, `AbstractRetire`, `AbstractApprove`,
`AbstractGoLive`, `AbstractAbandon`) and `StepRefines`, which finds the one each concrete
step maps to.

`DatasetRequestsProofs` proves what a client that sends one request at a time can rely on
(`Sequential`: there is one slot; with two, `DraftKept`, `DenormResolvedWhenMadeLive` and
`QuiescentConsistent` are false), for every set of datasets, and every choice of operations and
failures that the hypotheses do not exclude:

| theorem | property | excluded, and why |
|---|---|---|
| `DraftSources` | `DraftSourceHasDraft` | nothing |
| `DraftsKept` | `DraftKept` | nothing |
| `DenormResolved` | `DenormResolvedWhenMadeLive` | nothing |
| `PublishSuccess` | `PublishSuccessMeansLive` | an exception that ends the workflow early: it is answered with success (`publish_success`) |
| `FailedPublishRetryable` | `FailedPublishIsRetryable` | deletion and import: they take the draft that a retry needs |
| `Consistency` | `QuiescentConsistent` | failures other than rollbacks: whatever else breaks off a workflow leaves it half done |

While a request waits for the command service, nobody else changes the draft. So `PathInv` can
state for each step of the workflow what it will find: the draft prepared by the API service, then
the row that is Live, then Druid's spec. `HandlerInv` states what a handler relies on between two
awaits, `CommandInv` what the worker finds when it takes a command, also one whose handler has
died, and `KeysInv` that an ingestion spec waits only for a draft. On these rest `RetryInv` (a
Live dataset that is not ingested as configured still has its draft) and `ConsistentInv`, which
names for the tables, Druid and the pipeline the steps in the course of which each may disagree
(`Settling`).

It also proves `RedisUniqueness`, `RedisUnique` for overlapping requests, every
failure and every operation but import and copy, which bring a database from outside. A row
passes its number on only within its dataset: `DbInv` adds that a slot has forgotten it before it
takes another dataset, and `UniqueIff` reduces the property to single numbers. For sequential use
it proves `LiveMastersDb` and `EditsKeepMasters`: a live row names its masters by their databases,
and the draft made from it finds the same masters only because a number, once Live, stays its
master's (`LiveOwned`), drafts and held rows keep it (`Keeps`), and denorm fields name masters
only (`MastersOnly`), all of them in `OwnInv`.

`ConnectionPoolProofs` proves `TypeOK` for every pool, and `NothingLeaked` and
`StarvedOnlyByPublication` for every pool of at least two connections and any number of handlers,
if one publication runs at a time and the statement before the `try` block does not fail of its
own; `pool_leak` shows that both are needed. `PoolInv` says where in its operation a handler is
when it waits, has borrowed, has a transaction or has written a row (`OnCourse`, `Consistent`,
`LocksOwned`). The heart is `WaitsFor`: when the pool is stuck, who waits for a row waits for a
transaction that itself waits for a connection, and that is the publication; so the chain ends
there, and with a second connection somebody else can give up first.

`ConnectorsProofs` proves `TypeOK`, `VersionsAgree` and `VersionsUsable` for all packages,
datasets, instances, failures and numbers of requests, and `DeployedMeansRunning` if two packages
that hold the same version of a connector have it for the same runtime (`OneRuntime`): a row's id
does not tell the runtime, so that a second registration could change that of a connector that
runs. `VersionInv` says how far a registration has got: the connectors `From(k)` on are to do and
those before are Live, and between retiring and inserting no other version is. `UsableInv` adds
that a registration that goes on has its code in Spark. `DeployInv` says what a publication has
still to install and that the rest runs. Two assumptions were added to `Connectors`: `MaxRequests`
is a natural, and no dataset is called "none".

`MonitoringProofs` is about channels and alert rules:

* `ChannelsNotified` and `RetirementsCleanUp` prove `GrafanaAgrees` and `RetirementCleansUp` for
  all channels, handlers and failures, if no channel is given the name of a receiver of others
  (`OwnNames`; otherwise retiring a draft removes that receiver). `HandlersInv` gives the types;
  `Orderly` says of a world without overlap that the one handler's row and configuration are
  those of the table and of Grafana, that a name without doubt has a receiver exactly for a
  live channel, and how far the handler has got. After an overlap or a restart every name is in
  doubt and stays so (`Shaken`);
* `RequestsKeepToTheirRules`, `TableAndGrafanaAgree` and `JobInstallsOrLogs` prove
  `RequestsAboutOwnRules`, `RulesAgree` and `InstalledOrLogged` for all alerts, categories,
  users, batches of the job and failures; the last for batches whose rules have different names
  (`BatchNames`; the rule files are not in the repository, and of two rules of one name the
  table refuses the second). `RulesInv` says that handlers are in different categories (`Apart`), hence that
  what each has read of its group is still so. `LiveInv` says where the rule of a live alert may
  be missing, unless the service restarts: while the handler that has removed it is about to
  change the row (`Covered`). `AgreeInv` says, if no call fails, that the categories nobody works
  on are `CategorySettled`, and at each step of a handler what its category still lacks (`AgreeAt`,
  `ClearedAt`). `JobInv` relates the stage of the job, the rules ahead of it, and what is live or
  logged. `HandlerStep` says once for each action what it does to its own handler, and that it
  leaves the others alone. `AlertRules` now assumes what its use of names for the label
  `alertSource` needs: no alert of a user has the name of one of the system.

`ServicesProofs` is about four services that share no state, and the types of all nine:

* `SilencesAreAccounted` and `RowsOutliveSilences` prove `SilencesAccounted` and
  `RowOutlivesSilence` for all alerts, silences, sessions and failures. `SilenceInv` says what each
  request has done when it is at work (`WorkInv`: the silence is disabled before its row is
  deleted, and no other request of a calm alert touches that row), that the rows of a calm alert
  are on their way to be destroyed but for one (`RowsInv`), and that a silence that mutes has a
  row, was replaced, or is about to get its row (`KnownTo`). `Silences` now assumes that no alert
  is called `NoAlert`;
* `UpdatesAreSound` proves `UpdatesSound` for all users, fields, updates and times. `EditInv` says
  that keys decrease only where a version was made of an older one (`TimesInv`), that an update under way was `made` after all that
  its user's key let it pass, and that it leaves no use of what it removes in the row that it has
  read (`Clean`), whichever columns it writes. `DatasetEdits` now assumes that `NoKey` is no field;
* `QueriesReadOwnSource`, `QueriesReadLoadedSources` and `QueriesWithinLimits` prove `OwnSource`,
  `OnLoadedSources` and `WithinLimits` for every number of clients, aliases, datasources and moves
  and all queries of the form `IsQuery` (`QueriesAssumption`), with limits that are naturals
  (`RulesAssumption`). What is true of an executed query is established at different awaits, in an
  order that depends on its kind, so `QueryInv` states for each await what the request has
  established by then: `Stage` (which kinds of query may be there), `Mapping` (every table has a
  datasource that was meant for it), `Loading` (which datasources have been asked for), `Within`
  (limits and dates), and `Seen`: what is true now is in what the request has seen. `OthersKeep`
  shows that a request is not disturbed by others, `EndKeeps` covers every way to be refused,
  `LookKeeps` the three ways to learn datasources, `MoveKeeps` that what was seen is never lost.
  The rewriting of SQL limits a query after its dates have been settled, so `Limited`, which says
  what `SetQueryLimits` does to any query, has to keep everything else (`Same`);
* `HealthReportsTruthful` proves `HealthTruthful` for any number of checks, changes and requests.
  `CheckInv` says of a check how its plan follows from what was asked (`PlanInv`), and of each value
  that it has `met` it and, if it has not `changed` since the check began, that it is so still. The
  report then is about values that are known in full (`StatusRead`, `StatusLead`,
  `RecordedStatus`): what was bad all the while is among them. `DatasetHealth` now
  assumes that requests name the three categories that the code's schema admits
  (`AskedAssumption`);
* `ServicesTypes` proves `ServicesTypeOK`. `PartsStep` shows that in a behaviour of `MCServices` the
  service that runs does what its own specification allows, and the types of each service are
  proved of that specification (`RulesTypesKept`, `ChannelTypesKept`, `SilenceTypesKept`,
  `QueryTypesKept`, `HealthTypesKept`, `EditTypesKept` here and in `MonitoringProofs`;
  `TableTypesKept` and `SchemaTypesKept` in `SchemaProofs`; `AlertTypesKept`). Most of them need the
  invariants above: that a draft's joins have different names, for one, or that a field is resolved
  to a type that has a column type. `EditTypes` relies on requests that give one master for each
  out field, since of several the code keeps the first (`UpdateRequestsAssumption`). That the bounds
  of the runs are naturals is assumed in the modules that declare them.

`DatasetAlertsProofs` proves `AlertsAgree` and `AlertsRemoved` for all datasets, titles, templates,
transitions and failures, and `AlertTypesKept`, that the types are kept. `DatasetAlertInv` has a part for each of
the assumptions that the properties are under. `AlertTypes` and `TableInv` always hold: a dataset
has all its alerts or none, and two of one title never have any both. `InstalledInv` holds until
transitions overlap: what a transition has read of its group is still so, hence a live alert has its rule, unless its
transition has just deleted that rule. `RemovalInv` holds of each dataset that no overlap has touched,
failures or not: the rows that a retirement has still to delete are those that there are, and a silence
is that of a row. `FollowInv` holds of a dataset for which nothing failed: how far each transition
has got (`PublishInv`), and for which alerts a rule is still due (`RuleDue`). Each step is shown once
to be about its own dataset and group (`StepFrame`), so that the other datasets need no proof of
their own. `DatasetAlerts` now assumes that templates are numbered (`TemplatesAssumption`).

`SchemaProofs` is about the two services that work on sequences:

* `SpecsAreDistinct` and `TablesServe` prove `SpecsDistinct` and `TablesServeEvents` for every
  series of edits, publications and deployments, of any schema. `EditedInv` says that the paths of
  a schema are distinct, so those of `Gathered`, the fields of all origins, are as well: flattening
  into Druid's names keeps that, and a transformation replaces the fields of its name. In the lake
  two fields may have one name, but `SpecsInv` says that a column's index is its place (`Numbered`)
  and that the live table is a prefix of its draft, which `UpdatedColumns` preserves since the
  greatest index is the length. Two assumptions are new in `TableSpecs`. `FieldsAssumption`
  gives types. `PathNamesAssumption` is one that the code leaves to its users: no field of the dataset has
  the path of one of its master under the out key, or one of the system's. Without it an event
  would have two values under a name, and Druid two dimensions;
* `TypesAreResolved` and `DedupIsOfOwnSamples` prove `ConflictsResolved` and `DedupFromOwnSamples`
  for any number of samples. `TypesCounted` maps the samples that have a type for a field to the
  places of that type among its `Occurrences`, one to one, so that what is most frequent in one is
  in the other; `Resolution` is then shown to choose one of the most frequent (`ResolvedTo`). For
  the dedup keys, a field whose values are all different has a share of 50 percent at the most, one
  whose values are all the same has all of it, and `rollupInfo` in between is that of the same
  samples. `SchemaGeneration` now says what it used to leave open: only strings are found
  to be a UUID or an email address.

`SelectSeq` is recursive in the standard module and the prover knows nothing of it, so both
modules select by `ElementsAt`, with the positions of what is selected: `PositionsCount` and what
follows it say that `Position` counts a finite set of naturals in order. Where a proof needs a
least or greatest of such a set it takes it from the well-foundedness of the naturals
(`FiniteSetTheorems`, `WellFoundedInduction`), without induction.

Three properties had to be restated. The proof of `LossNeedsOverlap` failed where an update made of
an old version is written late, with the older time: then keys go back, one comes again when the
clock has not moved, and a user who has missed versions in between is not told. The statement was
false from five versions on, more than the run has; it now names those updates (`stale`). After
that, `DatasetAlerts` was run with one transition more. `AlertsRemoved` overlooked that a
silence that one retirement fails to delete is left by all later ones (`orphaned`), and
`AlertsAgree` that two overlapping retirements of *one* dataset may delete the rule of another: the
second finds a single rule in the group and deletes the group. What they say of rules in Grafana
now ends with the first overlap, of whichever datasets.

Every invariant was checked by TLC before it was proved.

Only model-checked is liveness, and whatever is about `ENABLED`, which the prover does not support:
`EveryRequestAnswered` and `EveryRequestEnds`.

Nothing that is proved about is recursive, so no induction over data is needed.

## 5. What is not modelled

See `components` in `PROJECT.json`, with the reason for each. In the modelled components:

* datasets: the conversion of v1 datasets; the content of configurations beyond what
  `DatasetEdits` merges and `TableSpecs` reads; the audit events;
* connectors: the arguments of the jobs, metrics of the runtimes, the list and read endpoints;
* health: the reset, which calls Druid and the command service once each. For the record, it
  reads `" dataset_id"` (with a blank) from the request, so the processing reset is rejected;
* queries: the syntax of SQL and of intervals, the exhaust;
* tables: tuning and connection settings, aggregations, expressions;
* schemas: nested objects and arrays (samples are flat), messages, the `required` lists;
* data ingestion: events are validated and sent one request at a time. The producer's
  `isConnected` flag is never reset, so sends after a disconnect rely on the client library's
  reconnection, which is not in the repository.

What the models follow although a reader may not expect it:

* health: the category "query" always answers an error, as the dataset is loaded without its
  id; a transformation's health overwrites that of the denormalisation;
* connectors: a connector that was removed from a draft comes back with the next draft, as
  rows of `connector_instances` stay Live; an unsupported runtime ends the installation of the
  remaining connectors with success;
* queries: an object without a limit gets no limit but another threshold; text with `{{LIMIT}}`
  in it, and text that cannot be parsed and has the word in it, keep the limit they have; a
  template whose dates cannot be read is answered with success and without data;
* alerts: the deletion of an alert's row leaves its silence; several rows of silences are
  deleted although one silence is disabled; an update keeps the old id although Grafana may
  answer with a new one;
* channels: the retirement of a draft removes the receiver that has its name, whoever made it;
* alerts of datasets: they are made only for a dataset that has no row in `datasets`, so one that
  is published again after its retirement has none; what fails while they are published is
  logged, and no later publication takes it up; of two datasets whose alerts are named alike the
  second cannot be published; deleting the only rule of a group deletes whichever it is, so two
  retirements of one dataset at the same time can delete the rule of another; a silence that
  cannot be deleted ends a retirement and stays for good, even if the dataset is published and
  retired again, as its alert is gone by then;
* tables: a column of the lake keeps its first type when the field is retyped; a missing master
  makes the publication fail;
* schemas: a field that is null in all samples, or most often, makes the whole request fail; a
  batch never gets dedup keys, and JSON schemas get those of the last request with samples;
* edits: two updates that overlap can leave the transformation of a removed field, so
  `RemovedFieldsUnused` is about updates during which nobody else writes; a version key may be
  less than the one before and come again, so an outdated update can be accepted later on.

## 6. Plan

1. (done) lifecycle of datasets: `DatasetTables`, `CommandService`, `DatasetApi`,
   `DatasetLifecycle`, `DatasetStatus`; type correctness, the refinement of `DatasetStatus` and
   the order of publication proved.
2. (done) `ConnectionPool`: transactions and queries over a pool of two connections.
3. (done) `DatasetEdits`: optimistic locking by `Date.now()`, users whose updates overlap.
4. (done) `AlertRules`, `SystemRulesIngestor`, `Silences`, `NotificationChannels`,
   `DatasetAlerts`.
5. (done) `Connectors`: partial failures of registration, and of stopping and installing jobs.
6. (done) `DatasetHealth`, `DataQuery`, `TableSpecs`, `SchemaGeneration`.
7. (done) proofs: sequential use of the lifecycle, the Redis databases, `ConnectionPool`,
   `Connectors`, `NotificationChannels`, `AlertRules`, `SystemRulesIngestor`, `Silences`,
   `DatasetEdits`, `DataQuery`.
8. (done) proofs: `DatasetAlerts`, `DatasetHealth`, `TableSpecs`, `SchemaGeneration`.
9. An abstract specification of the alert rules (a set that requests change atomically) for
    requests that do not overlap; nested samples in `SchemaGeneration`; the reset of datasets.
