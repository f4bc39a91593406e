------------------------------ MODULE Connectors ------------------------------
(***************************************************************************)
(* Connectors.  A package of connectors is registered by the command       *)
(* service: its code is copied to Spark and a row per connector and        *)
(* version is written in connector_registry.  A dataset names connectors   *)
(* in its draft; publishing it writes a row per connector in               *)
(* connector_instances and deploys them: a Spark connector is a cron job   *)
(* of its own for every instance, a Flink connector one release that runs  *)
(* all instances of it.                                                    *)
(*                                                                         *)
(* The command service is one process that blocks while it works: one job  *)
(* at a time, and a failure or a restart in between two of its calls.      *)
(***************************************************************************)
EXTENDS Naturals, Sequences, FiniteSets

CONSTANTS
    Datasets,
    Connectors,   \* connector ids
    Packages,     \* records [name, version, runtime, connectors: a sequence of ids]
    InstanceIds,  \* ids that clients give to the connectors of a dataset
    Scenarios,    \* the sets of failures to be considered
    MaxRequests   \* how many requests are made

AllFaults == {"upload",     \* the API service cannot store the archive
              "package",    \* the archive cannot be fetched or unpacked, or lacks a part
              "copy",       \* the code does not reach Spark
              "retire",     \* the previous versions of a connector are not retired
              "write",      \* a row is not written
              "list",       \* the jobs of a dataset, or the releases, cannot be listed
              "uninstall",
              "install",
              "schedule",   \* the operations_config names a schedule the service does not know
              "crash"}      \* the command service restarts

ASSUME ConnectorScenarios == \A S \in Scenarios : S \subseteq AllFaults
ASSUME PackagesAssumption ==
    \A p \in Packages :
        /\ p.runtime \in {"spark", "flink", "other"}
        /\ p.connectors \in Seq(Connectors) /\ p.connectors # << >>
        /\ \A i, j \in DOMAIN p.connectors : p.connectors[i] = p.connectors[j] => i = j

ASSUME BoundAssumption == MaxRequests \in Nat

\* The ids of datasets are not the word that marks the absence of one.
ASSUME NamesAssumption == "none" \notin Datasets

Runtimes == {"spark", "flink", "other"}

\* A row of connector_registry has the id connector_id-version, which is what the
\* connectors of a dataset refer to.
RowIds == UNION {{<<p.connectors[k], p.version>> : k \in DOMAIN p.connectors} : p \in Packages}

\* The folder of a package, metadata.id-metadata.version.
Folder(p) == <<p.name, p.version>>
Folders   == {Folder(p) : p \in Packages}

NoRow      == [status |-> "none"]
NoInstance == [dataset |-> "none"]
NoJob      == [at |-> "idle"]

VARIABLES
    faults,    \* the failures that may happen, which never changes
    registry,  \* connector_registry
    code,      \* the folders under /data/connectors in the Spark pod
    open,      \* the datasets that have a draft
    draft,     \* connectors_config of the draft of each dataset
    instance,  \* connector_instances, whose rows are Live
    cron,      \* how many Spark cron jobs each instance has
    release,   \* the instances that the Flink release of each registry row runs
    job,       \* what the command service is doing
    registered,\* the package last registered, {} when the last registration failed
    deployed,  \* the datasets whose last publication met no failure
    requests   \* how many requests were made

tables == <<registry, instance>>
jobs   == <<cron, release>>
drafts == <<open, draft>>
vars   == <<faults, tables, code, drafts, jobs, job, registered, deployed, requests>>

Config == [id : InstanceIds, conn : RowIds]

TypeOK ==
    /\ faults \in Scenarios
    /\ registry \in [RowIds -> {NoRow} \cup
                        [status : {"Live", "Retired"}, runtime : Runtimes, source : Folders]]
    /\ code \subseteq Folders
    /\ open \subseteq Datasets
    /\ draft \in [Datasets -> SUBSET Config]
    /\ instance \in [InstanceIds -> {NoInstance} \cup [dataset : Datasets, conn : RowIds]]
    /\ cron \in [InstanceIds -> Nat]
    /\ release \in [RowIds -> SUBSET InstanceIds]
    /\ job.at \in {"idle", "retire", "insert", "stop", "install"}
    /\ registered \subseteq Packages
    /\ deployed \subseteq Datasets
    /\ \A i \in InstanceIds : cron[i] > 0 => instance[i] # NoInstance
    /\ \A r \in RowIds : \A i \in release[r] : instance[i].conn = r
    /\ requests \in 0 .. MaxRequests

Init ==
    /\ faults \in Scenarios
    /\ registry = [r \in RowIds |-> NoRow]
    /\ code = {}
    /\ open = {}
    /\ draft = [d \in Datasets |-> {}]
    /\ instance = [i \in InstanceIds |-> NoInstance]
    /\ cron = [i \in InstanceIds |-> 0]
    /\ release = [r \in RowIds |-> {}]
    /\ job = NoJob
    /\ registered = {}
    /\ deployed = {}
    /\ requests = 0

Fails(fault) == fault \in faults
Idle         == job = NoJob

Request == requests < MaxRequests /\ requests' = requests + 1

-----------------------------------------------------------------------------
(* The registry. *)

\* A registration that fails before anything is changed.
Rejected ==
    /\ Request
    /\ registered' = {}
    /\ UNCHANGED <<faults, tables, code, drafts, jobs, job, deployed>>

\* The API service cannot upload the file, was sent more than one, or gets no URL for it.
UploadFails == Fails("upload") /\ Rejected

\* The command service cannot fetch or unpack the archive, or finds no metadata, no folder
\* of the package or no UI spec in it.
PackageFails == Idle /\ Fails("package") /\ Rejected

\* Mutant: the folder is removed and not copied.
CopyToRuntime_Removes(p) ==
    IF p.runtime = "spark" THEN code' = code \ {Folder(p)} ELSE UNCHANGED code

\* The folder is removed from Spark before it is copied; nobody looks at the outcome.
CopyToRuntime(p) ==
    \/ p.runtime # "spark" /\ UNCHANGED code
    \/ p.runtime = "spark" /\ code' = code \cup {Folder(p)}
    \/ p.runtime = "spark" /\ Fails("copy") /\ code' \in {code, code \ {Folder(p)}}

RegisterStart(p) ==
    /\ Idle /\ Request
    /\ CopyToRuntime(p)
    /\ job' = [at |-> "retire", package |-> p, todo |-> p.connectors]
    /\ registered' = {}
    /\ UNCHANGED <<faults, tables, drafts, jobs, deployed>>

\* Mutant: the version that is registered is retired instead of the others.
OtherVersionsRetired_Same(c, v) ==
    [r \in RowIds |-> IF r = <<c, v>> /\ registry[r].status = "Live"
                      THEN [registry[r] EXCEPT !.status = "Retired"] ELSE registry[r]]

OtherVersionsRetired(c, v) ==
    [r \in RowIds |-> IF r[1] = c /\ r[2] # v /\ registry[r].status = "Live"
                      THEN [registry[r] EXCEPT !.status = "Retired"] ELSE registry[r]]

\* A failure is printed, and the registration goes on.
RetireVersions ==
    /\ job.at = "retire"
    /\ \/ registry' = OtherVersionsRetired(Head(job.todo), job.package.version)
       \/ Fails("retire") /\ UNCHANGED registry
    /\ job' = [job EXCEPT !.at = "insert"]
    /\ UNCHANGED <<faults, code, drafts, instance, jobs, registered, deployed, requests>>

LiveRow(p) == [status |-> "Live", runtime |-> p.runtime, source |-> Folder(p)]

\* INSERT ... ON CONFLICT (connector_id, version) DO UPDATE, then the next connector.
InsertVersion ==
    /\ job.at = "insert"
    /\ registry' = [registry EXCEPT ![<<Head(job.todo), job.package.version>>] =
                       LiveRow(job.package)]
    /\ IF Len(job.todo) > 1
       THEN job' = [job EXCEPT !.at = "retire", !.todo = Tail(@)] /\ UNCHANGED registered
       ELSE job' = NoJob /\ registered' = {job.package}
    /\ UNCHANGED <<faults, code, drafts, instance, jobs, deployed, requests>>

\* The connectors before this one stay registered.
InsertFails ==
    /\ job.at = "insert" /\ Fails("write")
    /\ job' = NoJob
    /\ UNCHANGED <<faults, tables, code, drafts, jobs, registered, deployed, requests>>

-----------------------------------------------------------------------------
(* The connectors of a draft. *)

Rows(d) == {i \in InstanceIds : instance[i].dataset = d}

LiveConfigs(d) == {[id |-> i, conn |-> instance[i].conn] : i \in Rows(d)}

\* A draft made from a live dataset has all instances of it; another dataset starts without.
OpenDraft(d) ==
    /\ d \notin open /\ Request
    /\ open' = open \cup {d}
    /\ draft' = [draft EXCEPT ![d] = LiveConfigs(d)]
    /\ UNCHANGED <<faults, tables, code, jobs, job, registered, deployed>>

\* mergeConnectorsConfig: of the configs added and those not removed, the first for each
\* connector; those that are there already come in any order.
MergedConfigs(current, added, removed) ==
    LET kept  == {c \in current : c.conn \notin removed \cup {a.conn : a \in added}}
        conns == {c.conn : c \in kept}
    IN {added \cup S : S \in {T \in SUBSET kept :
            {c.conn : c \in T} = conns /\ Cardinality(T) = Cardinality(conns)}}

UpdateDraft(d) ==
    /\ d \in open /\ Request
    /\ \E added \in {{}} \cup {{c} : c \in Config}, removed \in {{}} \cup {{r} : r \in RowIds} :
          \E merged \in MergedConfigs(draft[d], added, removed) :
              draft' = [draft EXCEPT ![d] = merged]
    /\ UNCHANGED <<faults, open, tables, code, jobs, job, registered, deployed>>

-----------------------------------------------------------------------------
(* Publication, after the dataset went Live. *)

\* INSERT ... ON CONFLICT (id) DO UPDATE, which keeps dataset and connector of the row.
\* Of two configs with the same id the first makes the row.
Upserts(d, configs) ==
    LET new   == {i \in InstanceIds : instance[i] = NoInstance /\ \E c \in configs : c.id = i}
        first == {f \in [new -> configs] : \A i \in new : f[i].id = i}
    IN {[i \in InstanceIds |->
            IF i \in new THEN [dataset |-> d, conn |-> f[i].conn] ELSE instance[i]] : f \in first}

\* The join with connector_registry takes no notice of the status.
Active(d) == {i \in Rows(d) : registry[instance[i].conn] # NoRow}

\* The worker writes the instances and drops the draft.
PublishStart(d) ==
    /\ Idle /\ d \in open /\ Request
    /\ instance' \in Upserts(d, draft[d])
    /\ open' = open \ {d}
    /\ draft' = [draft EXCEPT ![d] = {}]
    /\ job' = [at |-> "stop", dataset |-> d]
    /\ deployed' = deployed \ {d}
    /\ UNCHANGED <<faults, registry, code, jobs, registered>>

\* A row is not written: the workflow ends and the draft stays.
PublishFails(d) ==
    /\ Idle /\ d \in open /\ Fails("write") /\ Request
    /\ \E configs \in SUBSET draft[d] : instance' \in Upserts(d, configs)
    /\ deployed' = deployed \ {d}
    /\ UNCHANGED <<faults, registry, code, drafts, jobs, job, registered>>

\* The releases of Flink connectors that no instance refers to are uninstalled.
UnusedReleases ==
    {r \in RowIds : registry[r] # NoRow /\ registry[r].runtime = "flink"
                    /\ \A i \in InstanceIds : instance[i] = NoInstance \/ instance[i].conn # r}

\* _stop_connector_jobs: failures are printed.
StopJobs ==
    /\ job.at = "stop"
    /\ \E listed \in {TRUE} \cup (IF Fails("list") THEN {FALSE} ELSE {}) :
       \E left \in [InstanceIds -> Nat \cap 0 .. MaxRequests] :
          /\ \A i \in InstanceIds :
                IF instance[i].dataset = job.dataset /\ listed
                THEN left[i] <= cron[i] /\ (left[i] > 0 => Fails("uninstall"))
                ELSE left[i] = cron[i]
          /\ cron' = left
          /\ job' = [at |-> "install", dataset |-> job.dataset, todo |-> Active(job.dataset),
                     ok |-> /\ listed
                            /\ \A i \in Rows(job.dataset) : left[i] = 0
                            /\ Active(job.dataset) = Rows(job.dataset)]
    /\ release' = [r \in RowIds |-> IF r \in UnusedReleases THEN {} ELSE release[r]]
    /\ UNCHANGED <<faults, tables, code, drafts, registered, deployed, requests>>

Runtime(i) == registry[instance[i].conn].runtime

\* Mutant: the release gets the instances of the dataset that is published only.
Users_OfDataset(r) == {i \in InstanceIds : instance[i].dataset = job.dataset /\ instance[i].conn = r}

\* Mutant: the query of the instances lacks the connector.
Users_Any(r) == {i \in InstanceIds : instance[i] # NoInstance}

Users(r) == {i \in InstanceIds : instance[i] # NoInstance /\ instance[i].conn = r}

\* The job has a name of its own: it never replaces another.
InstallSpark(i) == cron' = [cron EXCEPT ![i] = @ + 1] /\ UNCHANGED release

\* The release of the connector now runs all instances of it, of any dataset.
InstallFlink(i) ==
    release' = [release EXCEPT ![instance[i].conn] = Users(instance[i].conn)] /\ UNCHANGED cron

Installed(i) == job' = [job EXCEPT !.todo = @ \ {i}]

\* One connector after the other, in the order of the query.
Install(i) ==
    /\ job.at = "install" /\ i \in job.todo
    /\ \/ Runtime(i) = "spark" /\ InstallSpark(i)
       \/ Runtime(i) = "flink" /\ InstallFlink(i)
    /\ Installed(i)
    /\ UNCHANGED <<faults, tables, code, drafts, registered, deployed, requests>>

\* The next connector is installed all the same, and its result is the one reported.
InstallFails(i) ==
    /\ job.at = "install" /\ i \in job.todo
    /\ \/ Runtime(i) \in {"spark", "flink"} /\ Fails("install")
       \/ Runtime(i) = "flink" /\ Fails("list")
    /\ job' = [job EXCEPT !.todo = @ \ {i}, !.ok = FALSE]
    /\ UNCHANGED <<faults, tables, code, drafts, jobs, registered, deployed, requests>>

\* A runtime that is not supported, or a schedule that is not known, ends the loop.
InstallEnds(i) ==
    /\ job.at = "install" /\ i \in job.todo
    /\ Runtime(i) = "other" \/ (Runtime(i) = "spark" /\ Fails("schedule"))
    /\ job' = NoJob
    /\ UNCHANGED <<faults, tables, code, drafts, jobs, registered, deployed, requests>>

AllInstalled ==
    /\ job.at = "install" /\ job.todo = {}
    /\ job' = NoJob
    /\ deployed' = IF job.ok THEN deployed \cup {job.dataset} ELSE deployed
    /\ UNCHANGED <<faults, tables, code, drafts, jobs, registered, requests>>

\* The command service restarts and forgets what it was doing.
Crash ==
    /\ ~ Idle /\ Fails("crash")
    /\ job' = NoJob
    /\ UNCHANGED <<faults, tables, code, drafts, jobs, registered, deployed, requests>>

Next ==
    \/ UploadFails \/ PackageFails
    \/ \E p \in Packages : RegisterStart(p)
    \/ RetireVersions \/ InsertVersion \/ InsertFails
    \/ \E d \in Datasets : OpenDraft(d) \/ UpdateDraft(d) \/ PublishStart(d) \/ PublishFails(d)
    \/ StopJobs
    \/ \E i \in InstanceIds : Install(i) \/ InstallFails(i) \/ InstallEnds(i)
    \/ AllInstalled
    \/ Crash

Spec == Init /\ [][Next]_vars

-----------------------------------------------------------------------------
(* Properties. *)

\* At most one version of a connector is Live, in the middle of a registration too, unless
\* the service cannot retire the others: update_connector_registry before every insert.
OneLiveVersion ==
    Fails("retire") \/
        \A r, q \in RowIds :
            r[1] = q[1] /\ registry[r].status = "Live" /\ registry[q].status = "Live" => r = q

\* When a registration is answered with success, every connector of the package is Live in
\* its version, whatever failed in registrations before: process_metadata ends with the
\* last of them, and repeats what an earlier attempt had done.
RegisteredMeansLive ==
    \A p \in registered : \A k \in DOMAIN p.connectors :
        registry[<<p.connectors[k], p.version>>] = LiveRow(p)

\* The Live version of a connector is the one registered last, and no other.
VersionsAgree == OneLiveVersion /\ RegisteredMeansLive

\* A connector that is registered keeps a Live version: retiring the old ones is undone by
\* no failure but of the statement that follows, or a restart before it.
NeverWithoutVersion ==
    Fails("write") \/ Fails("crash") \/
        \A c \in Connectors :
            \/ job.at = "insert" /\ Head(job.todo) = c
            \/ \A r \in RowIds : r[1] = c => registry[r] = NoRow
            \/ \E r \in RowIds : r[1] = c /\ registry[r].status = "Live"

\* The cron job of an instance finds the code of its connector, Live or Retired, in Spark:
\* versions have folders of their own, and only one that is copied again is removed.
CodeInPlace ==
    Fails("copy") \/
        \A r \in RowIds : registry[r] # NoRow /\ registry[r].runtime = "spark"
                              => registry[r].source \in code

\* A registration that breaks off takes away neither the version nor the code that was there.
VersionsUsable == NeverWithoutVersion /\ CodeInPlace

\* A publication in which nothing fails and every connector is registered leaves one cron
\* job for each Spark connector of the dataset and none besides, and the release of each
\* Flink connector runs its instances, whatever failed, or was interrupted, before, and
\* whatever other datasets do later.
DeployedMeansRunning ==
    \A d \in deployed : \A i \in Rows(d) :
        \/ Runtime(i) = "spark" /\ cron[i] = 1
        \/ Runtime(i) = "flink" /\ i \in release[instance[i].conn]

=============================================================================
