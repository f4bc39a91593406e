--------------------------- MODULE ConnectorsProofs ---------------------------
(***************************************************************************)
(* Connectors, for every set of packages, datasets and instance ids, every *)
(* set of failures and every number of requests: type correctness, what a  *)
(* registration leaves in connector_registry and in Spark, and what a      *)
(* publication leaves running.                                             *)
(***************************************************************************)
EXTENDS Connectors, TLAPS

-----------------------------------------------------------------------------
(* Types, and the forms that the job of the command service takes. *)

RegistryRow == [status : {"Live", "Retired"}, runtime : Runtimes, source : Folders]
InstanceRow == [dataset : Datasets, conn : RowIds]

RegisterJob == [at : {"retire", "insert"}, package : Packages, todo : Seq(Connectors)]
StopJob     == [at : {"stop"}, dataset : Datasets]
InstallJob  == [at : {"install"}, dataset : Datasets, todo : SUBSET InstanceIds, ok : BOOLEAN]

Registering == job.at \in {"retire", "insert"}

\* The connectors to do are those of the package from the k-th on.
From(k) ==
    /\ Len(job.todo) = Len(job.package.connectors) - k + 1
    /\ \A j \in 1 .. Len(job.todo) : job.todo[j] = job.package.connectors[k + j - 1]

\* The jobs and the releases run instances that are in the table.
ShapeInv ==
    /\ TypeOK
    /\ job \in {NoJob} \cup RegisterJob \cup StopJob \cup InstallJob
    /\ Registering => \E k \in 1 .. Len(job.package.connectors) : From(k)
    /\ job.at = "install" => job.todo \subseteq Rows(job.dataset)
    /\ \A r \in RowIds : \A i \in release[r] : instance[i] # NoInstance

\* The row of a connector of a package.
LEMMA PackageRow ==
  ASSUME NEW p \in Packages, NEW k \in 1 .. Len(p.connectors)
  PROVE  /\ <<p.connectors[k], p.version>> \in RowIds
         /\ LiveRow(p) \in RegistryRow /\ LiveRow(p) # NoRow
<1>1. p.connectors \in Seq(Connectors) /\ p.runtime \in Runtimes
  BY PackagesAssumption DEF Runtimes
<1>2. k \in DOMAIN p.connectors
  BY <1>1
<1>3. Folder(p) \in Folders
  BY DEF Folders
<1>4. QED
  BY <1>1, <1>2, <1>3 DEF RowIds, LiveRow, RegistryRow, NoRow

\* What a registration works on.
LEMMA RegisterType ==
  ASSUME ShapeInv, Registering
  PROVE  /\ job \in RegisterJob /\ job.package \in Packages
         /\ Len(job.package.connectors) \in Nat
         /\ \E k \in 1 .. Len(job.package.connectors) :
               From(k) /\ Head(job.todo) = job.package.connectors[k] /\ job.todo # << >>
<1>1. job \in RegisterJob /\ job.package \in Packages /\ job.todo \in Seq(Connectors)
  BY DEF ShapeInv, Registering, NoJob, RegisterJob, StopJob, InstallJob
<1>2. Len(job.package.connectors) \in Nat
  BY <1>1, PackagesAssumption
<1>3. PICK k \in 1 .. Len(job.package.connectors) : From(k)
  BY DEF ShapeInv
<1>4. Len(job.todo) >= 1 /\ job.todo[1] = job.package.connectors[k]
  BY <1>1, <1>2, <1>3 DEF From
<1>5. Head(job.todo) = job.package.connectors[k] /\ job.todo # << >>
  BY <1>1, <1>4
<1>6. QED
  BY <1>1, <1>2, <1>3, <1>5

\* The instances of a dataset are rows.
LEMMA RowsType ==
  ASSUME TypeOK, NEW d \in Datasets, NEW i \in Rows(d)
  PROVE  i \in InstanceIds /\ instance[i] # NoInstance /\ instance[i].conn \in RowIds
  BY NamesAssumption DEF TypeOK, Rows, NoInstance

\* An upsert adds rows of one dataset and changes none.
LEMMA UpsertRows ==
  ASSUME TypeOK, NEW d \in Datasets, NEW configs \in SUBSET Config, instance' \in Upserts(d, configs)
  PROVE  /\ instance' \in [InstanceIds -> {NoInstance} \cup InstanceRow]
         /\ \A i \in InstanceIds : instance[i] # NoInstance => instance'[i] = instance[i]
         /\ \A i \in InstanceIds : \/ instance'[i] = instance[i]
                                   \/ instance[i] = NoInstance /\ instance'[i].dataset = d
<1> DEFINE new   == {i \in InstanceIds : instance[i] = NoInstance /\ \E c \in configs : c.id = i}
           first == {f \in [new -> configs] : \A i \in new : f[i].id = i}
<1>1. PICK f \in first :
        instance' = [i \in InstanceIds |->
                        IF i \in new THEN [dataset |-> d, conn |-> f[i].conn] ELSE instance[i]]
  BY DEF Upserts
<1>2. \A i \in new : f[i] \in Config
  OBVIOUS
<1>3. \A i \in new : f[i].conn \in RowIds
  BY <1>2 DEF Config
<1>4. QED
  BY <1>1, <1>3 DEF TypeOK, InstanceRow

LEMMA ShapeInit == Init => ShapeInv
  BY BoundAssumption DEF Init, ShapeInv, TypeOK, NoJob, Registering

\* A request counts up to the bound.
LEMMA RequestType ==
  ASSUME TypeOK, Request
  PROVE  requests' \in 0 .. MaxRequests
  BY BoundAssumption DEF TypeOK, Request

\* The steps that leave tables, jobs and code alone.
LEMMA ShapeKept ==
  ASSUME ShapeInv, UNCHANGED <<faults, registry, code, instance, cron, release>>,
         open' \subseteq Datasets, draft' \in [Datasets -> SUBSET Config],
         job' = job \/ job' = NoJob,
         registered' \subseteq Packages, deployed' \subseteq Datasets, requests' \in 0 .. MaxRequests
  PROVE  ShapeInv'
<1> USE DEF ShapeInv
<1>1. TypeOK'
  BY DEF TypeOK, NoJob
<1>2. CASE job' = NoJob
  BY <1>1, <1>2 DEF NoJob, Registering
<1>3. CASE job' = job
  BY <1>1, <1>3 DEF Registering, From, Rows
<1>4. QED
  BY <1>2, <1>3

LEMMA RegistrationShape ==
  ASSUME ShapeInv, RetireVersions \/ InsertVersion \/ \E p \in Packages : RegisterStart(p)
  PROVE  ShapeInv'
<1> USE DEF ShapeInv
<1>1. ASSUME NEW p \in Packages, RegisterStart(p) PROVE ShapeInv'
  <2>1. p.connectors \in Seq(Connectors) /\ p.connectors # << >>
    BY PackagesAssumption
  <2>2. /\ job' = [at |-> "retire", package |-> p, todo |-> p.connectors] /\ registered' = {}
        /\ UNCHANGED <<faults, registry, instance, open, draft, cron, release, deployed>>
        /\ Request /\ CopyToRuntime(p)
    BY <1>1 DEF RegisterStart, tables, drafts, jobs
  <2>3. code' \subseteq Folders
    BY <2>2 DEF CopyToRuntime, Folders, TypeOK
  <2>4. job' \in RegisterJob
    BY <2>1, <2>2 DEF RegisterJob
  <2>5. Len(p.connectors) \in Nat /\ Len(p.connectors) >= 1
    BY <2>1
  <2>6. From(1)'
    BY <2>2, <2>5 DEF From
  <2>7. TypeOK'
    BY <2>2, <2>3, RequestType DEF TypeOK
  <2>8. QED
    BY <2>2, <2>4, <2>5, <2>6, <2>7 DEF Rows
<1>2. CASE RetireVersions
  <2>1. /\ job.at = "retire" /\ job' = [job EXCEPT !.at = "insert"]
        /\ UNCHANGED <<faults, code, open, draft, instance, cron, release, registered, deployed, requests>>
    BY <1>2 DEF RetireVersions, drafts, jobs
  <2>2. PICK k \in 1 .. Len(job.package.connectors) : From(k) /\ job \in RegisterJob
    BY <2>1, RegisterType DEF Registering
  <2>3. job'.at = "insert" /\ job'.todo = job.todo /\ job'.package = job.package /\ job' \in RegisterJob
    BY <2>1, <2>2 DEF RegisterJob
  <2>4. registry' \in [RowIds -> {NoRow} \cup RegistryRow]
    <3>1. \A x \in RegistryRow : [x EXCEPT !.status = "Retired"] \in RegistryRow
      BY DEF RegistryRow
    <3>2. \A r \in RowIds : registry[r].status = "Live" => registry[r] \in RegistryRow
      BY DEF TypeOK, NoRow, RegistryRow
    <3>3. \/ registry' = OtherVersionsRetired(Head(job.todo), job.package.version)
          \/ registry' = registry
      BY <1>2 DEF RetireVersions
    <3>4. QED
      BY <3>1, <3>2, <3>3 DEF OtherVersionsRetired, TypeOK, RegistryRow
  <2>5. From(k)'
    BY <2>2, <2>3 DEF From
  <2>6. TypeOK'
    BY <2>1, <2>3, <2>4 DEF TypeOK, RegistryRow
  <2>7. QED
    BY <2>1, <2>2, <2>3, <2>5, <2>6 DEF Rows
<1>3. CASE InsertVersion
  <2>1. /\ job.at = "insert"
        /\ registry' = [registry EXCEPT ![<<Head(job.todo), job.package.version>>] = LiveRow(job.package)]
        /\ UNCHANGED <<faults, code, open, draft, instance, cron, release, deployed, requests>>
    BY <1>3 DEF InsertVersion, drafts, jobs
  <2>2. PICK k \in 1 .. Len(job.package.connectors) :
          From(k) /\ Head(job.todo) = job.package.connectors[k] /\ job \in RegisterJob
                  /\ job.package \in Packages /\ Len(job.package.connectors) \in Nat
                  /\ job.todo # << >>
    BY <2>1, RegisterType DEF Registering
  <2>3. registry' \in [RowIds -> {NoRow} \cup RegistryRow]
    BY <2>1, <2>2, PackageRow DEF TypeOK, RegistryRow
  <2>4. CASE Len(job.todo) > 1
    <3>1. job' = [job EXCEPT !.at = "retire", !.todo = Tail(job.todo)] /\ registered' = registered
      BY <1>3, <2>4 DEF InsertVersion
    <3>2. job.todo \in Seq(Connectors)
      BY <2>2 DEF RegisterJob
    <3>3. Tail(job.todo) \in Seq(Connectors) /\ Len(Tail(job.todo)) = Len(job.todo) - 1
          /\ \A j \in 1 .. Len(Tail(job.todo)) : Tail(job.todo)[j] = job.todo[j + 1]
      BY <2>4, <3>2
    <3>4. /\ job' \in RegisterJob /\ job'.todo = Tail(job.todo) /\ job'.package = job.package
          /\ job'.at = "retire"
      BY <2>2, <3>1, <3>3 DEF RegisterJob
    <3>5. Len(job.todo) \in Nat
      BY <3>2
    <3>6. k + 1 \in 1 .. Len(job.package.connectors)
      BY <2>2, <2>4, <3>5 DEF From
    <3>7. From(k + 1)'
      <4>1. Len(job'.todo) = Len(job'.package.connectors) - (k + 1) + 1
        <5>1. Len(job'.todo) = Len(job.todo) - 1
          BY <3>3, <3>4
        <5>2. Len(job'.package.connectors) = Len(job.package.connectors)
          BY <3>4
        <5>3. Len(job.todo) = Len(job.package.connectors) - k + 1
          BY <2>2 DEF From
        <5>4. PICK n \in Nat, m \in Nat : n = Len(job.package.connectors) /\ m = Len(job.todo)
          BY <2>2, <3>5
        <5>5. m - 1 = n - (k + 1) + 1
          BY <5>3, <5>4
        <5>6. QED
          BY <5>1, <5>2, <5>4, <5>5
      <4>2. ASSUME NEW j \in 1 .. Len(Tail(job.todo))
            PROVE  Tail(job.todo)[j] = job.package.connectors[k + 1 + j - 1]
        <5>1. j + 1 \in 1 .. Len(job.todo) /\ k + (j + 1) - 1 = k + 1 + j - 1
          BY <3>3, <3>5
        <5>2. job.todo[j + 1] = job.package.connectors[k + (j + 1) - 1]
          BY <2>2, <5>1 DEF From
        <5>3. QED
          BY <3>3, <5>1, <5>2
      <4>3. QED
        BY <3>4, <4>1, <4>2 DEF From
    <3>8. TypeOK'
      BY <2>1, <2>3, <3>1, <3>4 DEF TypeOK, RegistryRow
    <3>9. QED
      BY <2>1, <3>4, <3>6, <3>7, <3>8 DEF Rows
  <2>5. CASE ~(Len(job.todo) > 1)
    <3>1. job' = NoJob /\ registered' = {job.package}
      BY <1>3, <2>5 DEF InsertVersion
    <3>2. TypeOK'
      BY <2>1, <2>2, <2>3, <3>1 DEF TypeOK, NoJob, RegistryRow
    <3>3. QED
      BY <2>1, <3>1, <3>2 DEF NoJob, Registering
  <2>6. QED
    BY <2>4, <2>5
<1>4. QED
  BY <1>1, <1>2, <1>3

LEMMA DraftShape ==
  ASSUME ShapeInv, NEW d \in Datasets, OpenDraft(d) \/ UpdateDraft(d)
  PROVE  ShapeInv'
<1>1. /\ UNCHANGED <<faults, registry, code, instance, cron, release, job, registered, deployed>>
      /\ Request /\ open' \subseteq Datasets /\ TypeOK
  BY DEF OpenDraft, UpdateDraft, tables, jobs, ShapeInv, TypeOK
<1>2. \A b \in Datasets : draft[b] \subseteq Config
  BY <1>1 DEF TypeOK
<1>3. draft' \in [Datasets -> SUBSET Config]
  <2>1. CASE OpenDraft(d)
    <3>1. LiveConfigs(d) \subseteq Config
      BY <1>1, RowsType DEF LiveConfigs, Config
    <3>2. QED
      BY <1>1, <2>1, <3>1 DEF OpenDraft, TypeOK
  <2>2. CASE UpdateDraft(d)
    <3>1. PICK added \in {{}} \cup {{c} : c \in Config}, removed \in {{}} \cup {{r} : r \in RowIds} :
            \E merged \in MergedConfigs(draft[d], added, removed) : draft' = [draft EXCEPT ![d] = merged]
      BY <2>2 DEF UpdateDraft
    <3>2. PICK merged \in MergedConfigs(draft[d], added, removed) : draft' = [draft EXCEPT ![d] = merged]
      BY <3>1
    <3>3. merged \subseteq added \cup draft[d]
      BY <3>2 DEF MergedConfigs
    <3>4. added \subseteq Config
      OBVIOUS
    <3>5. QED
      BY <1>1, <1>2, <3>2, <3>3, <3>4 DEF TypeOK
  <2>3. QED
    BY <2>1, <2>2
<1>4. QED
  BY <1>1, <1>3, RequestType, ShapeKept DEF TypeOK

LEMMA PublishShape ==
  ASSUME ShapeInv, NEW d \in Datasets, PublishStart(d) \/ PublishFails(d)
  PROVE  ShapeInv'
<1> USE DEF ShapeInv
<1>1. draft[d] \subseteq Config
  BY DEF TypeOK
<1>2. PICK configs \in SUBSET Config : instance' \in Upserts(d, configs)
  BY <1>1 DEF PublishStart, PublishFails
<1>3. /\ instance' \in [InstanceIds -> {NoInstance} \cup InstanceRow]
      /\ \A i \in InstanceIds : instance[i] # NoInstance => instance'[i] = instance[i]
  BY <1>2, UpsertRows
<1>4. /\ UNCHANGED <<faults, registry, code, cron, release, registered>>
      /\ Request /\ open' \subseteq Datasets /\ draft' \in [Datasets -> SUBSET Config]
      /\ deployed' \subseteq Datasets
      /\ job' = [at |-> "stop", dataset |-> d] \/ job' = NoJob
  BY DEF PublishStart, PublishFails, jobs, drafts, TypeOK, Idle
<1>5. /\ job' \in {NoJob} \cup StopJob /\ job'.at \in {"idle", "stop"}
  BY <1>4 DEF NoJob, StopJob
<1>6. /\ \A i \in InstanceIds : cron[i] > 0 => instance'[i] # NoInstance
      /\ \A r \in RowIds : \A i \in release[r] : instance'[i] # NoInstance /\ instance'[i].conn = r
  <2>1. \A r \in RowIds : release[r] \subseteq InstanceIds
    BY DEF TypeOK
  <2>2. QED
    BY <1>3, <2>1 DEF TypeOK
<1>7. TypeOK'
  BY <1>3, <1>4, <1>5, <1>6, RequestType DEF TypeOK, InstanceRow
<1>8. QED
  BY <1>4, <1>5, <1>6, <1>7 DEF Registering

\* Stopping what runs for a dataset.
LEMMA StopShape ==
  ASSUME ShapeInv, StopJobs
  PROVE  ShapeInv'
<1> USE DEF ShapeInv
<1>1. job.at = "stop" /\ job.dataset \in Datasets
  BY DEF StopJobs, NoJob, RegisterJob, StopJob, InstallJob
<1>2. /\ UNCHANGED <<faults, registry, instance, code, open, draft, registered, deployed, requests>>
      /\ \A i \in InstanceIds : cron'[i] \in Nat /\ cron'[i] <= cron[i]
      /\ cron' \in [InstanceIds -> Nat]
      /\ job' \in InstallJob /\ job'.dataset = job.dataset /\ job'.todo = Active(job.dataset)
  <2>0. PICK listed \in BOOLEAN : \E left \in [InstanceIds -> Nat \cap 0 .. MaxRequests] :
          /\ \A i \in InstanceIds :
                IF instance[i].dataset = job.dataset /\ listed
                THEN left[i] <= cron[i] /\ (left[i] > 0 => Fails("uninstall"))
                ELSE left[i] = cron[i]
          /\ cron' = left
          /\ job' = [at |-> "install", dataset |-> job.dataset, todo |-> Active(job.dataset),
                     ok |-> /\ listed
                            /\ \A i \in Rows(job.dataset) : left[i] = 0
                            /\ Active(job.dataset) = Rows(job.dataset)]
    BY DEF StopJobs
  <2>1. PICK left \in [InstanceIds -> Nat \cap 0 .. MaxRequests] :
          /\ \A i \in InstanceIds :
                IF instance[i].dataset = job.dataset /\ listed
                THEN left[i] <= cron[i] /\ (left[i] > 0 => Fails("uninstall"))
                ELSE left[i] = cron[i]
          /\ cron' = left
          /\ job' = [at |-> "install", dataset |-> job.dataset, todo |-> Active(job.dataset),
                     ok |-> /\ listed
                            /\ \A i \in Rows(job.dataset) : left[i] = 0
                            /\ Active(job.dataset) = Rows(job.dataset)]
    BY <2>0
  <2>2. Active(job.dataset) \subseteq InstanceIds
    BY DEF Active, Rows
  <2>3. job' \in InstallJob /\ job'.dataset = job.dataset /\ job'.todo = Active(job.dataset)
    BY <1>1, <2>1, <2>2 DEF InstallJob
  <2>4. \A i \in InstanceIds : left[i] \in Nat /\ left[i] <= cron[i]
    BY <2>1 DEF TypeOK
  <2>5. QED
    BY <2>1, <2>3, <2>4 DEF StopJobs, tables, drafts
<1>3. \A r \in RowIds : release'[r] \subseteq release[r]
  BY DEF StopJobs, TypeOK
<1>4. release' \in [RowIds -> SUBSET InstanceIds]
  BY DEF StopJobs, TypeOK
<1>5. \A i \in InstanceIds : cron'[i] > 0 => instance'[i] # NoInstance
  BY <1>2 DEF TypeOK
<1>6. Active(job.dataset) \subseteq Rows(job.dataset)
  BY DEF Active
<1>7. TypeOK'
  BY <1>2, <1>3, <1>4, <1>5 DEF TypeOK, InstallJob
<1>8. QED
  BY <1>2, <1>3, <1>6, <1>7 DEF Registering, InstallJob, Rows

LEMMA InstallShape ==
  ASSUME ShapeInv, NEW i \in InstanceIds, Install(i) \/ InstallFails(i)
  PROVE  ShapeInv'
<1> USE DEF ShapeInv
<1>1. /\ job.at = "install" /\ i \in job.todo /\ job \in InstallJob
      /\ UNCHANGED <<faults, registry, instance, code, open, draft, registered, deployed, requests>>
  BY DEF Install, InstallFails, NoJob, RegisterJob, StopJob, InstallJob, tables, drafts
<1>2. /\ i \in Rows(job.dataset) /\ instance[i] # NoInstance /\ instance[i].conn \in RowIds
  <2>1. job.dataset \in Datasets /\ i \in Rows(job.dataset)
    BY <1>1 DEF InstallJob
  <2>2. QED
    BY <2>1, RowsType
<1>3. /\ job' \in InstallJob /\ job'.at = "install" /\ job'.dataset = job.dataset
      /\ job'.todo = job.todo \ {i}
  <2>1. \/ job' = [job EXCEPT !.todo = job.todo \ {i}]
        \/ job' = [job EXCEPT !.todo = job.todo \ {i}, !.ok = FALSE]
    BY DEF Install, InstallFails, Installed
  <2>2. QED
    BY <1>1, <2>1 DEF InstallJob
<1>4. \/ cron' = [cron EXCEPT ![i] = cron[i] + 1] /\ release' = release
      \/ release' = [release EXCEPT ![instance[i].conn] = Users(instance[i].conn)] /\ cron' = cron
      \/ UNCHANGED <<cron, release>>
  BY DEF Install, InstallFails, InstallSpark, InstallFlink, jobs
<1>5. \A r : Users(r) \subseteq InstanceIds /\ \A u \in Users(r) : instance[u] # NoInstance /\ instance[u].conn = r
  BY DEF Users
<1>6. TypeOK'
  <2>1. /\ cron' \in [InstanceIds -> Nat]
        /\ \A u \in InstanceIds : cron'[u] > 0 => instance[u] # NoInstance
    BY <1>2, <1>4 DEF TypeOK
  <2>2. release' \in [RowIds -> SUBSET InstanceIds]
    BY <1>2, <1>4, <1>5 DEF TypeOK
  <2>3. \A r \in RowIds : \A u \in release'[r] : instance[u].conn = r
    BY <1>2, <1>4, <1>5 DEF TypeOK
  <2>4. QED
    BY <1>1, <1>3, <2>1, <2>2, <2>3 DEF TypeOK
<1>7. \A r \in RowIds : \A u \in release'[r] : instance'[u] # NoInstance
  BY <1>1, <1>2, <1>4, <1>5 DEF TypeOK
<1>8. QED
  BY <1>1, <1>3, <1>6, <1>7 DEF Registering, Rows

LEMMA ShapeStep == ShapeInv /\ [Next]_vars => ShapeInv'
<1> SUFFICES ASSUME ShapeInv, [Next]_vars PROVE ShapeInv'
  OBVIOUS
<1>1. CASE UploadFails \/ PackageFails
  <2>1. /\ Request /\ registered' = {}
        /\ UNCHANGED <<faults, registry, instance, code, open, draft, cron, release, job, deployed>>
    BY <1>1 DEF UploadFails, PackageFails, Rejected, tables, drafts, jobs
  <2>2. QED
    BY <2>1, RequestType, ShapeKept DEF ShapeInv, TypeOK
<1>2. CASE InsertFails \/ Crash \/ AllInstalled \/ (\E i \in InstanceIds : InstallEnds(i)) \/ UNCHANGED vars
  <2>1. /\ UNCHANGED <<faults, registry, instance, code, open, draft, cron, release, registered, requests>>
        /\ job' = NoJob \/ job' = job
        /\ deployed' \subseteq deployed \cup {job.dataset}
        /\ deployed' = deployed \/ job.at = "install"
    BY <1>2 DEF InsertFails, Crash, AllInstalled, InstallEnds, vars, tables, drafts, jobs
  <2>2. job.at = "install" => job.dataset \in Datasets
    BY DEF ShapeInv, NoJob, RegisterJob, StopJob, InstallJob
  <2>3. deployed' \subseteq Datasets
    BY <2>1, <2>2 DEF ShapeInv, TypeOK
  <2>4. QED
    BY <2>1, <2>3, ShapeKept DEF ShapeInv, TypeOK
<1>3. QED
  BY <1>1, <1>2, RegistrationShape, DraftShape, PublishShape, StopShape, InstallShape DEF Next

LEMMA ShapeInvariant == Spec => []ShapeInv
  BY ShapeInit, ShapeStep, PTL DEF Spec

\* The tables, the jobs in Spark and Flink and the work of the command service have their
\* types; cron jobs and releases run instances that are in connector_instances.
THEOREM ConnectorsType == Spec => []TypeOK
<1>1. ShapeInv => TypeOK
  BY DEF ShapeInv
<1>2. QED
  BY <1>1, ShapeInvariant, PTL

-----------------------------------------------------------------------------
(* Registrations. *)

LEMMA RowIdPair == \A r \in RowIds : r = <<r[1], r[2]>>
  BY DEF RowIds

\* The steps that do not register leave the registry and the code alone; they break a
\* registration off only if a write fails or the service restarts.
LEMMA RegistrySteps ==
  ASSUME ShapeInv, [Next]_vars
  PROVE  /\ faults' = faults
         /\ \/ \E p \in Packages : RegisterStart(p)
            \/ RetireVersions
            \/ InsertVersion
            \/ /\ UNCHANGED <<registry, code>> /\ registered' \subseteq registered
               /\ job' = job \/ job'.at \notin {"retire", "insert"}
               /\ job.at = "insert" => job' = job \/ Fails("write") \/ Fails("crash")
<1> DEFINE Other == /\ UNCHANGED <<faults, registry, code>> /\ registered' \subseteq registered
                    /\ job' = job \/ job'.at \notin {"retire", "insert"}
                    /\ job.at = "insert" => job' = job \/ Fails("write") \/ Fails("crash")
<1>1. CASE UploadFails \/ PackageFails \/ InsertFails \/ Crash \/ AllInstalled \/ UNCHANGED vars
  <2>1. Other
    BY <1>1 DEF UploadFails, PackageFails, Rejected, InsertFails, Crash, AllInstalled, vars, tables, drafts,
       jobs, NoJob
  <2>2. QED
    BY <2>1
<1>2. ASSUME NEW d \in Datasets, OpenDraft(d) \/ UpdateDraft(d) \/ PublishStart(d) \/ PublishFails(d)
      PROVE  Other
  BY <1>2 DEF OpenDraft, UpdateDraft, PublishStart, PublishFails, tables, drafts, jobs, Idle, NoJob
<1>3. ASSUME NEW i \in InstanceIds, Install(i) \/ InstallFails(i) \/ InstallEnds(i)
      PROVE  Other
  <2>1. job.at = "install" /\ job \in InstallJob
    BY <1>3 DEF Install, InstallFails, InstallEnds, ShapeInv, NoJob, RegisterJob, StopJob, InstallJob
  <2>2. job'.at \in {"install", "idle"}
    <3>1. \/ job' = [job EXCEPT !.todo = job.todo \ {i}]
          \/ job' = [job EXCEPT !.todo = job.todo \ {i}, !.ok = FALSE]
          \/ job' = NoJob
      BY <1>3 DEF Install, InstallFails, InstallEnds, Installed
    <3>2. CASE job' = NoJob
      BY <3>2 DEF NoJob
    <3>3. CASE job' # NoJob
      <4>1. job' \in InstallJob
        BY <2>1, <3>1, <3>3 DEF InstallJob
      <4>2. QED
        BY <4>1 DEF InstallJob
    <3>4. QED
      BY <3>2, <3>3
  <2>3. QED
    BY <1>3, <2>1, <2>2 DEF Install, InstallFails, InstallEnds, tables, drafts, jobs
<1>4. CASE StopJobs
  <2>1. job.at = "stop" /\ job'.at = "install" /\ UNCHANGED <<faults, tables, code, registered>>
    BY <1>4 DEF StopJobs
  <2>2. QED
    BY <2>1 DEF tables
<1>5. CASE (\E p \in Packages : RegisterStart(p)) \/ RetireVersions \/ InsertVersion
  BY <1>5 DEF RegisterStart, RetireVersions, InsertVersion
<1>6. QED
  BY <1>1, <1>2, <1>3, <1>4, <1>5 DEF Next

\* The connectors before the k-th are registered.
LiveBefore(k) ==
    \A j \in 1 .. (k - 1) :
        registry[<<job.package.connectors[j], job.package.version>>] = LiveRow(job.package)

\* Between retiring and inserting no other version of the connector is Live.
Superseded ==
    \A r \in RowIds :
        r[1] = Head(job.todo) /\ r[2] # job.package.version => registry[r].status # "Live"

VersionInv ==
    /\ OneLiveVersion /\ RegisteredMeansLive
    /\ Registering =>
          /\ registered = {}
          /\ \E k \in 1 .. Len(job.package.connectors) : From(k) /\ LiveBefore(k)
    /\ job.at = "insert" => Fails("retire") \/ Superseded

LEMMA VersionInit == Init => VersionInv
  BY DEF Init, VersionInv, OneLiveVersion, RegisteredMeansLive, Registering, NoJob, NoRow

LEMMA VersionStart ==
  ASSUME ShapeInv, VersionInv, NEW p \in Packages, RegisterStart(p)
  PROVE  VersionInv'
<1>1. p.connectors \in Seq(Connectors) /\ p.connectors # << >>
  BY PackagesAssumption
<1>2. /\ job' = [at |-> "retire", package |-> p, todo |-> p.connectors] /\ registered' = {}
      /\ UNCHANGED <<faults, registry>>
  BY DEF RegisterStart, tables
<1>3. Len(p.connectors) \in Nat /\ Len(p.connectors) >= 1
  BY <1>1
<1>4. From(1)' /\ LiveBefore(1)'
  BY <1>2, <1>3 DEF From, LiveBefore
<1>5. OneLiveVersion' /\ RegisteredMeansLive'
  BY <1>2 DEF VersionInv, OneLiveVersion, RegisteredMeansLive, Fails
<1>6. QED
  BY <1>2, <1>3, <1>4, <1>5 DEF VersionInv, Registering

LEMMA VersionRetire ==
  ASSUME ShapeInv, VersionInv, RetireVersions
  PROVE  VersionInv'
<1>1. /\ job.at = "retire" /\ job' = [job EXCEPT !.at = "insert"] /\ UNCHANGED <<faults, registered>>
      /\ \/ registry' = OtherVersionsRetired(Head(job.todo), job.package.version)
         \/ Fails("retire") /\ registry' = registry
  BY DEF RetireVersions
<1>2. job \in RegisterJob /\ job.package \in Packages /\ registered = {}
  BY <1>1, RegisterType DEF Registering, VersionInv
<1>3. job'.at = "insert" /\ job'.todo = job.todo /\ job'.package = job.package
  BY <1>1, <1>2 DEF RegisterJob
<1>4. PICK k \in 1 .. Len(job.package.connectors) : From(k) /\ LiveBefore(k)
  BY <1>1 DEF VersionInv, Registering
<1>5. \A r \in RowIds : r[2] = job.package.version => registry'[r] = registry[r]
  BY <1>1 DEF OtherVersionsRetired
<1>6. \A r \in RowIds : registry'[r].status = "Live" => registry[r].status = "Live"
  <2>1. ASSUME NEW r \in RowIds PROVE registry'[r] \in {registry[r], [registry[r] EXCEPT !.status = "Retired"]}
                                        /\ (registry'[r] # registry[r] => registry[r].status = "Live")
    BY <1>1 DEF OtherVersionsRetired
  <2>2. QED
    BY <2>1
<1>7. From(k)'
  BY <1>3, <1>4 DEF From
<1>8. LiveBefore(k)'
  <2>1. Len(job.package.connectors) \in Nat
    BY <1>2, PackagesAssumption
  <2>2. ASSUME NEW j \in 1 .. (k - 1)
        PROVE  registry'[<<job.package.connectors[j], job.package.version>>] = LiveRow(job.package)
    <3>1. j \in 1 .. Len(job.package.connectors)
      BY <2>1
    <3>2. <<job.package.connectors[j], job.package.version>> \in RowIds
      BY <1>2, <3>1, PackageRow
    <3>3. QED
      BY <1>4, <1>5, <3>2 DEF LiveBefore
  <2>3. QED
    BY <1>3, <2>2 DEF LiveBefore, LiveRow, Folder
<1>9. (Fails("retire") \/ Superseded)'
  <2>1. CASE registry' = OtherVersionsRetired(Head(job.todo), job.package.version)
    <3>1. \A x \in RegistryRow : [x EXCEPT !.status = "Retired"].status = "Retired"
      BY DEF RegistryRow
    <3>2. \A r \in RowIds : registry[r].status = "Live" => registry[r] \in RegistryRow
      BY DEF ShapeInv, TypeOK, NoRow, RegistryRow
    <3>3. ASSUME NEW r \in RowIds, r[1] = Head(job.todo), r[2] # job.package.version
          PROVE  registry'[r].status # "Live"
      BY <2>1, <3>1, <3>2, <3>3 DEF OtherVersionsRetired
    <3>4. QED
      BY <1>3, <3>3 DEF Superseded
  <2>2. CASE Fails("retire")
    BY <1>1, <2>2 DEF Fails
  <2>3. QED
    BY <1>1, <2>1, <2>2
<1>10. OneLiveVersion' /\ RegisteredMeansLive'
  BY <1>1, <1>2, <1>6 DEF VersionInv, OneLiveVersion, RegisteredMeansLive, Fails
<1>11. QED
  BY <1>1, <1>2, <1>3, <1>4, <1>7, <1>8, <1>9, <1>10 DEF VersionInv, Registering

LEMMA VersionInsert ==
  ASSUME ShapeInv, VersionInv, InsertVersion
  PROVE  VersionInv'
<1>1. job.at = "insert" /\ UNCHANGED faults /\ Registering
  BY DEF InsertVersion, Registering
<1>2. /\ job \in RegisterJob /\ job.package \in Packages /\ registered = {}
      /\ Len(job.package.connectors) \in Nat /\ job.todo \in Seq(Connectors)
  BY <1>1, RegisterType DEF VersionInv, RegisterJob
<1>3. PICK k \in 1 .. Len(job.package.connectors) : From(k) /\ LiveBefore(k)
  BY <1>1 DEF VersionInv
<1>4. PICK p \in Packages : p = job.package
  BY <1>2
<1>5. Len(job.todo) \in Nat /\ Len(job.todo) = Len(p.connectors) - k + 1
  BY <1>2, <1>3, <1>4 DEF From
<1>6. Head(job.todo) = p.connectors[k]
  <2>1. Len(job.todo) >= 1
    BY <1>2, <1>3, <1>4, <1>5
  <2>2. job.todo[1] = p.connectors[k + 1 - 1]
    BY <1>3, <1>4, <1>5, <2>1 DEF From
  <2>3. QED
    BY <1>2, <1>3, <2>1, <2>2
<1>7. PICK row \in RowIds : row = <<p.connectors[k], p.version>>
  BY <1>3, <1>4, PackageRow
<1>8. registry' = [registry EXCEPT ![row] = LiveRow(p)]
  BY <1>4, <1>6, <1>7 DEF InsertVersion
<1>9. registry'[row] = LiveRow(p) /\ \A r \in RowIds : r # row => registry'[r] = registry[r]
  BY <1>8 DEF ShapeInv, TypeOK
<1>10. \A j \in 1 .. k : registry'[<<p.connectors[j], p.version>>] = LiveRow(p)
  <2> SUFFICES ASSUME NEW j \in 1 .. k PROVE registry'[<<p.connectors[j], p.version>>] = LiveRow(p)
    OBVIOUS
  <2>1. CASE j = k
    BY <1>7, <1>9, <2>1
  <2>2. CASE j # k
    <3>1. j \in 1 .. (k - 1) /\ j \in 1 .. Len(p.connectors)
      BY <1>2, <1>4, <2>2
    <3>2. <<p.connectors[j], p.version>> \in RowIds
      BY <3>1, PackageRow
    <3>3. QED
      BY <1>3, <1>4, <1>9, <3>1, <3>2 DEF LiveBefore
  <2>3. QED
    BY <2>1, <2>2
<1>11. OneLiveVersion'
  <2> SUFFICES ASSUME ~Fails("retire"), NEW r \in RowIds, NEW q \in RowIds, r[1] = q[1],
                      registry'[r].status = "Live", registry'[q].status = "Live"
               PROVE  r = q
    BY <1>1 DEF OneLiveVersion, Fails
  <2>1. \A s \in RowIds : s[1] = row[1] /\ s # row => registry[s].status # "Live"
    BY <1>1, <1>4, <1>6, <1>7, RowIdPair DEF VersionInv, Superseded
  <2>2. QED
    BY <1>9, <2>1 DEF VersionInv, OneLiveVersion
<1>12. CASE Len(job.todo) > 1
  <2>1. job' = [job EXCEPT !.at = "retire", !.todo = Tail(job.todo)] /\ registered' = {}
    BY <1>2, <1>12 DEF InsertVersion
  <2>2. job'.at = "retire" /\ job'.package = p
    BY <1>2, <1>4, <2>1 DEF RegisterJob
  <2>3. LiveBefore(k + 1)'
    <3>1. \A j \in 1 .. (k + 1 - 1) : j \in 1 .. k
      BY <1>3
    <3>2. QED
      BY <1>10, <2>2, <3>1 DEF LiveBefore, LiveRow, Folder
  <2>4. From(k + 1)'
    <3>1. Len(Tail(job.todo)) = Len(job.todo) - 1
          /\ \A j \in 1 .. Len(Tail(job.todo)) : Tail(job.todo)[j] = job.todo[j + 1]
      BY <1>2, <1>12
    <3>2. job'.todo = Tail(job.todo)
      BY <1>2, <2>1 DEF RegisterJob
    <3>3. PICK n \in Nat, m \in Nat : n = Len(p.connectors) /\ m = Len(job.todo)
      BY <1>2, <1>4, <1>5
    <3>4. m - 1 = n - (k + 1) + 1 /\ Len(job'.todo) = m - 1
      BY <1>5, <3>1, <3>2, <3>3
    <3>5. ASSUME NEW j \in 1 .. (m - 1) PROVE Tail(job.todo)[j] = p.connectors[k + 1 + j - 1]
      <4>1. j + 1 \in 1 .. m /\ k + (j + 1) - 1 = k + 1 + j - 1
        BY <3>3
      <4>2. job.todo[j + 1] = p.connectors[k + (j + 1) - 1]
        BY <1>3, <1>4, <3>3, <4>1 DEF From
      <4>3. QED
        BY <3>1, <3>2, <3>4, <4>1, <4>2
    <3>6. QED
      BY <2>2, <3>2, <3>3, <3>4, <3>5 DEF From
  <2>5. k + 1 \in 1 .. Len(p.connectors)
    BY <1>2, <1>3, <1>4, <1>5, <1>12
  <2>6. RegisteredMeansLive'
    BY <2>1 DEF RegisteredMeansLive
  <2>7. QED
    BY <1>11, <2>1, <2>2, <2>3, <2>4, <2>5, <2>6 DEF VersionInv, Registering
<1>13. CASE ~(Len(job.todo) > 1)
  <2>1. job' = NoJob /\ registered' = {p}
    BY <1>4, <1>13 DEF InsertVersion
  <2>2. Len(p.connectors) = k
    BY <1>2, <1>3, <1>4, <1>5, <1>13
  <2>3. DOMAIN p.connectors = 1 .. k
    BY <2>2, PackagesAssumption
  <2>4. RegisteredMeansLive'
    BY <1>10, <2>1, <2>3 DEF RegisteredMeansLive, LiveRow, Folder
  <2>5. QED
    BY <1>11, <2>1, <2>4 DEF VersionInv, Registering, NoJob
<1>14. QED
  BY <1>12, <1>13

LEMMA VersionStep == ShapeInv /\ VersionInv /\ [Next]_vars => VersionInv'
<1> SUFFICES ASSUME ShapeInv, VersionInv, [Next]_vars PROVE VersionInv'
  OBVIOUS
<1>1. CASE /\ UNCHANGED <<registry, code>> /\ registered' \subseteq registered
           /\ job' = job \/ job'.at \notin {"retire", "insert"}
  <2>1. faults' = faults
    BY RegistrySteps
  <2>2. OneLiveVersion' /\ RegisteredMeansLive'
    BY <1>1, <2>1 DEF VersionInv, OneLiveVersion, RegisteredMeansLive, Fails
  <2>3. CASE job' = job
    BY <1>1, <2>1, <2>2, <2>3 DEF VersionInv, Registering, From, LiveBefore, Superseded, Fails
  <2>4. CASE job'.at \notin {"retire", "insert"}
    BY <2>2, <2>4 DEF VersionInv, Registering
  <2>5. QED
    BY <1>1, <2>3, <2>4
<1>2. QED
  BY <1>1, RegistrySteps, VersionStart, VersionRetire, VersionInsert

\* The Live version of a connector is the one registered last, and no other, in the middle
\* of a registration too, and after one that broke off.
THEOREM VersionsAgreement == Spec => []VersionsAgree
<1>1. VersionInv => VersionsAgree
  BY DEF VersionInv, VersionsAgree
<1>2. QED
  BY <1>1, VersionInit, VersionStep, ShapeInvariant, PTL DEF Spec

-----------------------------------------------------------------------------
(* What a registration that breaks off leaves. *)

UsableInv ==
    /\ VersionsUsable
    /\ Registering /\ job.package.runtime = "spark" => Folder(job.package) \in code \/ Fails("copy")

LEMMA UsableStep == ShapeInv /\ UsableInv /\ [Next]_vars => UsableInv'
<1> SUFFICES ASSUME ShapeInv, UsableInv, [Next]_vars PROVE UsableInv'
  OBVIOUS
<1>1. faults' = faults
  BY RegistrySteps
<1> USE <1>1 DEF Fails
<1>2. ASSUME NEW p \in Packages, RegisterStart(p) PROVE UsableInv'
  <2>1. /\ job' = [at |-> "retire", package |-> p, todo |-> p.connectors]
        /\ UNCHANGED registry /\ CopyToRuntime(p) /\ job.at = "idle"
    BY <1>2 DEF RegisterStart, tables, Idle, NoJob
  <2>2. ~Fails("copy") => code \subseteq code' /\ (p.runtime = "spark" => Folder(p) \in code')
    BY <2>1 DEF CopyToRuntime
  <2>3. NeverWithoutVersion'
    BY <2>1 DEF UsableInv, VersionsUsable, NeverWithoutVersion
  <2>4. CodeInPlace'
    BY <2>1, <2>2 DEF UsableInv, VersionsUsable, CodeInPlace
  <2>5. QED
    BY <2>1, <2>2, <2>3, <2>4 DEF UsableInv, VersionsUsable, Registering, Folder
<1>3. CASE RetireVersions
  <2>1. /\ job.at = "retire" /\ Registering /\ job' = [job EXCEPT !.at = "insert"] /\ UNCHANGED code
        /\ \/ registry' = OtherVersionsRetired(Head(job.todo), job.package.version)
           \/ registry' = registry
    BY <1>3 DEF RetireVersions, Registering
  <2>2. job'.at = "insert" /\ job'.todo = job.todo /\ job'.package = job.package
    BY <2>1, RegisterType DEF RegisterJob
  <2>3. \A r \in RowIds : r[1] # Head(job.todo) => registry'[r] = registry[r]
    BY <2>1 DEF OtherVersionsRetired
  <2>4. \A r \in RowIds : registry'[r] # NoRow =>
           registry[r] # NoRow /\ registry'[r].runtime = registry[r].runtime
                               /\ registry'[r].source = registry[r].source
    <3>1. \A x \in RegistryRow : [x EXCEPT !.status = "Retired"].runtime = x.runtime
                                 /\ [x EXCEPT !.status = "Retired"].source = x.source
      BY DEF RegistryRow
    <3>2. \A r \in RowIds : registry[r].status = "Live" => registry[r] \in RegistryRow /\ registry[r] # NoRow
      BY DEF ShapeInv, TypeOK, NoRow, RegistryRow
    <3>3. ASSUME NEW r \in RowIds
          PROVE  \/ registry'[r] = registry[r]
                 \/ registry'[r] = [registry[r] EXCEPT !.status = "Retired"] /\ registry[r].status = "Live"
      BY <2>1 DEF OtherVersionsRetired
    <3>4. QED
      BY <3>1, <3>2, <3>3
  <2>5. NeverWithoutVersion'
    BY <2>1, <2>2, <2>3 DEF UsableInv, VersionsUsable, NeverWithoutVersion
  <2>6. CodeInPlace'
    BY <2>1, <2>4 DEF UsableInv, VersionsUsable, CodeInPlace
  <2>7. QED
    BY <2>1, <2>2, <2>5, <2>6 DEF UsableInv, VersionsUsable, Registering, Folder
<1>4. CASE InsertVersion
  <2>1. /\ job.at = "insert" /\ Registering /\ UNCHANGED code
        /\ registry' = [registry EXCEPT ![<<Head(job.todo), job.package.version>>] = LiveRow(job.package)]
        /\ job'.at # "insert" /\ (job'.at = "retire" => job'.package = job.package)
    <3>1. job \in RegisterJob
      BY <1>4, RegisterType DEF InsertVersion, Registering
    <3>2. \/ job' = [job EXCEPT !.at = "retire", !.todo = Tail(job.todo)]
          \/ job' = NoJob
      BY <1>4 DEF InsertVersion
    <3>3. job'.at # "insert" /\ (job'.at = "retire" => job'.package = job.package)
      <4>1. CASE job' = NoJob
        BY <4>1 DEF NoJob
      <4>2. CASE job' = [job EXCEPT !.at = "retire", !.todo = Tail(job.todo)]
        BY <3>1, <4>2 DEF RegisterJob
      <4>3. QED
        BY <3>2, <4>1, <4>2
    <3>4. QED
      BY <1>4, <3>3 DEF InsertVersion, Registering
  <2>2. PICK p \in Packages, k \in 1 .. Len(job.package.connectors) :
           p = job.package /\ Head(job.todo) = job.package.connectors[k]
    BY <2>1, RegisterType
  <2>3. PICK row \in RowIds : row = <<Head(job.todo), p.version>>
    BY <2>2, PackageRow
  <2>4. /\ registry'[row] = LiveRow(p) /\ \A r \in RowIds : r # row => registry'[r] = registry[r]
        /\ row[1] = Head(job.todo)
    BY <2>1, <2>2, <2>3 DEF ShapeInv, TypeOK
  <2>5. LiveRow(p).status = "Live" /\ LiveRow(p).runtime = p.runtime /\ LiveRow(p).source = Folder(p)
    BY DEF LiveRow
  <2>6. NeverWithoutVersion'
    <3> SUFFICES ASSUME ~Fails("write"), ~Fails("crash"), NEW c \in Connectors
                 PROVE  \/ \A r \in RowIds : r[1] = c => registry'[r] = NoRow
                        \/ \E r \in RowIds : r[1] = c /\ registry'[r].status = "Live"
      BY DEF NeverWithoutVersion
    <3>1. CASE c = row[1]
      BY <2>4, <2>5, <3>1
    <3>2. CASE c # row[1]
      BY <2>4, <3>2 DEF UsableInv, VersionsUsable, NeverWithoutVersion
    <3>3. QED
      BY <3>1, <3>2
  <2>7. CodeInPlace'
    BY <2>1, <2>2, <2>4, <2>5 DEF UsableInv, VersionsUsable, CodeInPlace
  <2>8. QED
    BY <2>1, <2>6, <2>7 DEF UsableInv, VersionsUsable, Registering, Folder
<1>5. CASE /\ UNCHANGED <<registry, code>>
           /\ job' = job \/ job'.at \notin {"retire", "insert"}
           /\ job.at = "insert" => job' = job \/ Fails("write") \/ Fails("crash")
  <2>1. NeverWithoutVersion' /\ CodeInPlace'
    BY <1>5 DEF UsableInv, VersionsUsable, NeverWithoutVersion, CodeInPlace
  <2>2. QED
    BY <1>5, <2>1 DEF UsableInv, VersionsUsable, Registering, Folder
<1>6. QED
  BY <1>2, <1>3, <1>4, <1>5, RegistrySteps

\* A registration that breaks off takes away neither the version nor the code that was there.
THEOREM VersionsStayUsable == Spec => []VersionsUsable
<1>1. Init => UsableInv
  BY DEF Init, UsableInv, VersionsUsable, NeverWithoutVersion, CodeInPlace, Registering, NoJob, NoRow
<1>2. UsableInv => VersionsUsable
  BY DEF UsableInv
<1>3. QED
  BY <1>1, <1>2, UsableStep, ShapeInvariant, PTL DEF Spec

-----------------------------------------------------------------------------
(* Publications. *)

\* Two packages that have the same version of a connector have it for the same runtime.
\* The id of a row of the registry says nothing of the runtime.
OneRuntime ==
    \A p, q \in Packages : \A j \in DOMAIN p.connectors : \A k \in DOMAIN q.connectors :
        <<p.connectors[j], p.version>> = <<q.connectors[k], q.version>> => p.runtime = q.runtime

RuntimesAgree ==
    \A p \in Packages : \A k \in 1 .. Len(p.connectors) : \A r \in RowIds :
        r = <<p.connectors[k], p.version>> /\ registry[r] # NoRow => registry[r].runtime = p.runtime

Registered(i) == registry[instance[i].conn] # NoRow

Running(i) == \/ Runtime(i) = "spark" /\ cron[i] = 1
              \/ Runtime(i) = "flink" /\ i \in release[instance[i].conn]

\* What is left to install has no cron job, and what was installed runs.
DeployInv ==
    /\ RuntimesAgree
    /\ job.at \in {"stop", "install"} => job.dataset \notin deployed
    /\ \A d \in deployed : \A i \in Rows(d) : Registered(i) /\ Running(i)
    /\ job.at = "install" /\ job.ok =>
          \A i \in Rows(job.dataset) :
              Registered(i) /\ IF i \in job.todo THEN cron[i] = 0 ELSE Running(i)

\* A row of the registry keeps its runtime.
LEMMA RuntimeKept ==
  ASSUME ShapeInv, OneRuntime, RuntimesAgree, [Next]_vars
  PROVE  /\ RuntimesAgree'
         /\ \A r \in RowIds : registry[r] # NoRow =>
               registry'[r] # NoRow /\ registry'[r].runtime = registry[r].runtime
<1>1. CASE registry' = registry
  BY <1>1 DEF RuntimesAgree
<1>2. CASE RetireVersions
  <2>1. \A x \in RegistryRow : [x EXCEPT !.status = "Retired"].runtime = x.runtime
                               /\ [x EXCEPT !.status = "Retired"] \in RegistryRow
    BY DEF RegistryRow
  <2>2. \A x \in RegistryRow : x # NoRow
    BY DEF RegistryRow, NoRow
  <2>3. \A r \in RowIds : registry[r].status = "Live" => registry[r] \in RegistryRow
    BY DEF ShapeInv, TypeOK, NoRow, RegistryRow
  <2>4. ASSUME NEW r \in RowIds
        PROVE  \/ registry'[r] = registry[r]
               \/ registry'[r] = [registry[r] EXCEPT !.status = "Retired"] /\ registry[r].status = "Live"
    BY <1>2 DEF RetireVersions, OtherVersionsRetired
  <2>5. \A r \in RowIds : /\ registry'[r] # NoRow <=> registry[r] # NoRow
                          /\ registry[r] # NoRow => registry'[r].runtime = registry[r].runtime
    BY <2>1, <2>2, <2>3, <2>4
  <2>6. QED
    BY <2>5 DEF RuntimesAgree
<1>3. CASE InsertVersion
  <2>1. Registering
    BY <1>3 DEF InsertVersion, Registering
  <2>2. PICK p \in Packages : p = job.package /\ Len(p.connectors) \in Nat
    BY <2>1, RegisterType
  <2>3. PICK k \in 1 .. Len(p.connectors) : Head(job.todo) = p.connectors[k]
    BY <2>1, <2>2, RegisterType
  <2>4. PICK row \in RowIds : row = <<p.connectors[k], p.version>>
    BY <2>3, PackageRow
  <2>5. registry' = [registry EXCEPT ![row] = LiveRow(p)]
    BY <1>3, <2>2, <2>3, <2>4 DEF InsertVersion
  <2>6. registry'[row] = LiveRow(p) /\ \A r \in RowIds : r # row => registry'[r] = registry[r]
    BY <2>5 DEF ShapeInv, TypeOK
  <2>7. LiveRow(p).runtime = p.runtime /\ LiveRow(p) # NoRow
    BY <2>3, PackageRow DEF LiveRow
  <2>8. registry[row] # NoRow => registry[row].runtime = p.runtime
    BY <2>3, <2>4 DEF RuntimesAgree
  <2>9. \A q \in Packages : DOMAIN q.connectors = 1 .. Len(q.connectors)
    BY PackagesAssumption
  <2>10. RuntimesAgree'
    <3> SUFFICES ASSUME NEW q \in Packages, NEW j \in 1 .. Len(q.connectors), NEW r \in RowIds,
                        r = <<q.connectors[j], q.version>>, registry'[r] # NoRow
                 PROVE  registry'[r].runtime = q.runtime
      BY DEF RuntimesAgree, NoRow
    <3>1. CASE r = row
      BY <2>3, <2>4, <2>6, <2>7, <2>9, <3>1 DEF OneRuntime
    <3>2. CASE r # row
      BY <2>6, <3>2 DEF RuntimesAgree
    <3>3. QED
      BY <3>1, <3>2
  <2>11. QED
    BY <2>6, <2>7, <2>8, <2>10
<1>4. QED
  BY <1>1, <1>2, <1>3, RegistrySteps DEF RegisterStart, tables

\* The steps that touch neither the instances nor what runs.
LEMMA DeployKept ==
  ASSUME ShapeInv, OneRuntime, DeployInv, [Next]_vars,
         UNCHANGED <<instance, cron, release>>, deployed' \subseteq deployed,
         job' = job \/ job'.at \notin {"stop", "install"}
  PROVE  DeployInv'
<1>1. /\ RuntimesAgree'
      /\ \A r \in RowIds : registry[r] # NoRow =>
            registry'[r] # NoRow /\ registry'[r].runtime = registry[r].runtime
  BY RuntimeKept DEF DeployInv
<1>2. ASSUME NEW d \in Datasets, NEW i \in Rows(d), Registered(i)
      PROVE  Registered(i)' /\ (Running(i) => Running(i)')
  <2>1. instance[i].conn \in RowIds
    BY <1>2, RowsType DEF ShapeInv
  <2>2. QED
    BY <1>1, <1>2, <2>1 DEF Registered, Running, Runtime
<1>3. \A d \in Datasets : Rows(d)' = Rows(d)
  BY DEF Rows
<1>4. deployed \subseteq Datasets
  BY DEF ShapeInv, TypeOK
<1>5. \A d \in deployed' : \A i \in Rows(d)' : (Registered(i) /\ Running(i))'
  BY <1>2, <1>3, <1>4 DEF DeployInv
<1>6. CASE job' = job
  <2>1. job.at \in {"stop", "install"} => job.dataset \in Datasets
    BY DEF ShapeInv, NoJob, RegisterJob, StopJob, InstallJob
  <2>2. ASSUME job.at = "install", job.ok
        PROVE  \A i \in Rows(job.dataset) :
                  Registered(i)' /\ IF i \in job.todo THEN cron'[i] = 0 ELSE Running(i)'
    BY <1>2, <2>1, <2>2 DEF DeployInv
  <2>3. PICK d : d = job.dataset
    OBVIOUS
  <2>4. Rows(job.dataset)' = Rows(job.dataset)
    BY <1>6 DEF Rows
  <2>5. QED
    BY <1>1, <1>5, <1>6, <2>2, <2>4 DEF DeployInv
<1>7. CASE job'.at \notin {"stop", "install"}
  BY <1>1, <1>5, <1>7 DEF DeployInv
<1>8. QED
  BY <1>6, <1>7

LEMMA DeployPublish ==
  ASSUME ShapeInv, OneRuntime, DeployInv, NEW d \in Datasets, PublishStart(d) \/ PublishFails(d)
  PROVE  DeployInv'
<1>1. /\ UNCHANGED <<registry, cron, release>> /\ deployed' = deployed \ {d}
      /\ job' = [at |-> "stop", dataset |-> d] \/ job' = NoJob
  BY DEF PublishStart, PublishFails, jobs, Idle
<1>2. draft[d] \subseteq Config
  BY DEF ShapeInv, TypeOK
<1>3. PICK configs \in SUBSET Config : instance' \in Upserts(d, configs)
  BY <1>2 DEF PublishStart, PublishFails
<1>4. \A i \in InstanceIds : \/ instance'[i] = instance[i]
                             \/ instance[i] = NoInstance /\ instance'[i].dataset = d
  BY <1>3, UpsertRows DEF ShapeInv
<1>5. ASSUME NEW b \in deployed', NEW i \in Rows(b)'
      PROVE  (Registered(i) /\ Running(i))'
  <2>1. i \in InstanceIds /\ instance'[i].dataset = b /\ b # d
    BY <1>1 DEF Rows
  <2>2. instance'[i] = instance[i] /\ i \in Rows(b)
    BY <1>4, <2>1 DEF Rows
  <2>3. QED
    BY <1>1, <2>2 DEF DeployInv, Registered, Running, Runtime
<1>6. RuntimesAgree'
  BY <1>1 DEF DeployInv, RuntimesAgree
<1>7. job'.at \in {"stop", "idle"} /\ (job'.at = "stop" => job'.dataset = d)
  BY <1>1 DEF NoJob
<1>8. QED
  BY <1>1, <1>5, <1>6, <1>7 DEF DeployInv

LEMMA DeployStop ==
  ASSUME ShapeInv, DeployInv, StopJobs
  PROVE  DeployInv'
<1>1. /\ job.at = "stop" /\ job.dataset \in Datasets /\ job.dataset \notin deployed
      /\ deployed \subseteq Datasets /\ UNCHANGED <<registry, instance, deployed>>
  BY DEF StopJobs, tables, DeployInv, ShapeInv, TypeOK, NoJob, RegisterJob, StopJob, InstallJob
<1>2. /\ \A i \in InstanceIds : instance[i].dataset # job.dataset => cron'[i] = cron[i]
      /\ job'.at = "install" /\ job'.dataset = job.dataset /\ job'.todo = Active(job.dataset)
      /\ job'.ok => /\ \A i \in Rows(job.dataset) : cron'[i] = 0
                    /\ Active(job.dataset) = Rows(job.dataset)
  <2>1. PICK listed \in BOOLEAN : \E left \in [InstanceIds -> Nat \cap 0 .. MaxRequests] :
          /\ \A i \in InstanceIds :
                IF instance[i].dataset = job.dataset /\ listed
                THEN left[i] <= cron[i] /\ (left[i] > 0 => Fails("uninstall"))
                ELSE left[i] = cron[i]
          /\ cron' = left
          /\ job' = [at |-> "install", dataset |-> job.dataset, todo |-> Active(job.dataset),
                     ok |-> /\ listed
                            /\ \A i \in Rows(job.dataset) : left[i] = 0
                            /\ Active(job.dataset) = Rows(job.dataset)]
    BY DEF StopJobs
  <2>2. PICK left \in [InstanceIds -> Nat \cap 0 .. MaxRequests] :
          /\ \A i \in InstanceIds :
                IF instance[i].dataset = job.dataset /\ listed
                THEN left[i] <= cron[i] /\ (left[i] > 0 => Fails("uninstall"))
                ELSE left[i] = cron[i]
          /\ cron' = left
          /\ job' = [at |-> "install", dataset |-> job.dataset, todo |-> Active(job.dataset),
                     ok |-> /\ listed
                            /\ \A i \in Rows(job.dataset) : left[i] = 0
                            /\ Active(job.dataset) = Rows(job.dataset)]
    BY <2>1
  <2>3. QED
    BY <2>2
<1>3. ASSUME NEW d \in deployed, NEW i \in Rows(d)
      PROVE  (Registered(i) /\ Running(i))'
  <2>1. /\ i \in InstanceIds /\ instance[i] # NoInstance /\ instance[i].conn \in RowIds
        /\ instance[i].dataset # job.dataset
    BY <1>1, <1>3, RowsType DEF ShapeInv, Rows
  <2>2. instance[i].conn \notin UnusedReleases
    BY <2>1 DEF UnusedReleases
  <2>3. release'[instance[i].conn] = release[instance[i].conn]
    BY <2>1, <2>2 DEF StopJobs
  <2>4. Registered(i) /\ Running(i)
    BY <1>3 DEF DeployInv
  <2>5. QED
    BY <1>1, <1>2, <2>1, <2>3, <2>4 DEF Registered, Running, Runtime
<1>4. ASSUME job'.ok, NEW i \in Rows(job.dataset)
      PROVE  Registered(i)' /\ i \in job'.todo /\ cron'[i] = 0
  <2>1. i \in Active(job.dataset) /\ cron'[i] = 0
    BY <1>2, <1>4
  <2>2. QED
    BY <1>1, <1>2, <2>1 DEF Active, Registered
<1>5. \A d \in Datasets : Rows(d)' = Rows(d)
  BY <1>1 DEF Rows
<1>6. RuntimesAgree'
  BY <1>1 DEF DeployInv, RuntimesAgree
<1>7. \A d \in deployed' : \A i \in Rows(d)' : (Registered(i) /\ Running(i))'
  BY <1>1, <1>3, <1>5
<1>8. PICK d \in Datasets : d = job.dataset
  BY <1>1
<1>9. job'.dataset = d /\ Rows(job.dataset)' = Rows(d)
  BY <1>1, <1>2, <1>8 DEF Rows
<1>10. job'.ok => \A i \in Rows(d) : Registered(i)' /\ i \in job'.todo /\ cron'[i] = 0
  BY <1>4, <1>8
<1>11. QED
  BY <1>1, <1>2, <1>6, <1>7, <1>8, <1>9, <1>10 DEF DeployInv

\* The connector that is installed runs from now on, and what runs is not disturbed.
LEMMA DeployInstall ==
  ASSUME ShapeInv, DeployInv, NEW i \in InstanceIds, Install(i) \/ InstallFails(i)
  PROVE  DeployInv'
<1>1. /\ job.at = "install" /\ i \in job.todo /\ job \in InstallJob
      /\ UNCHANGED <<registry, instance, deployed>>
  BY DEF Install, InstallFails, ShapeInv, NoJob, RegisterJob, StopJob, InstallJob, tables
<1>2. PICK d \in Datasets : d = job.dataset
  BY <1>1 DEF InstallJob
<1>3. /\ d \notin deployed /\ deployed \subseteq Datasets
      /\ i \in Rows(d) /\ instance[i] # NoInstance /\ instance[i].conn \in RowIds
  BY <1>1, <1>2, RowsType DEF DeployInv, ShapeInv, TypeOK
<1>4. /\ job'.at = "install" /\ job'.dataset = d /\ job'.todo = job.todo \ {i}
      /\ job'.ok => job.ok /\ Install(i)
  <2>1. CASE job' = [job EXCEPT !.todo = job.todo \ {i}] /\ Install(i)
    BY <1>1, <1>2, <2>1 DEF InstallJob
  <2>2. CASE job' = [job EXCEPT !.todo = job.todo \ {i}, !.ok = FALSE]
    BY <1>1, <1>2, <2>2 DEF InstallJob
  <2>3. QED
    BY <2>1, <2>2 DEF Install, InstallFails, Installed
<1>5. \/ Runtime(i) = "spark" /\ cron' = [cron EXCEPT ![i] = cron[i] + 1] /\ release' = release
      \/ /\ Runtime(i) = "flink" /\ cron' = cron
         /\ release' = [release EXCEPT ![instance[i].conn] = Users(instance[i].conn)]
      \/ InstallFails(i) /\ UNCHANGED <<cron, release>>
  BY DEF Install, InstallFails, InstallSpark, InstallFlink, jobs
<1>6. ASSUME NEW b \in Datasets, NEW u \in Rows(b), u # i, Registered(u)
      PROVE  Registered(u)' /\ cron'[u] = cron[u] /\ (Running(u) => Running(u)')
  <2>1. u \in InstanceIds /\ instance[u] # NoInstance /\ instance[u].conn \in RowIds
    BY <1>6, RowsType DEF ShapeInv
  <2>2. cron'[u] = cron[u]
    BY <1>5, <1>6, <2>1 DEF ShapeInv, TypeOK
  <2>3. u \in release[instance[u].conn] => u \in release'[instance[u].conn]
    BY <1>3, <1>5, <2>1 DEF ShapeInv, TypeOK, Users
  <2>4. QED
    BY <1>1, <1>6, <2>2, <2>3 DEF Registered, Running, Runtime
<1>7. ASSUME NEW b \in deployed, NEW u \in Rows(b)
      PROVE  Registered(u)' /\ Running(u)'
  <2>1. u # i
    BY <1>3, <1>7 DEF Rows
  <2>2. QED
    BY <1>3, <1>6, <1>7, <2>1 DEF DeployInv
<1>8. ASSUME job'.ok, NEW u \in Rows(d)
      PROVE  Registered(u)' /\ IF u \in job'.todo THEN cron'[u] = 0 ELSE Running(u)'
  <2>1. Registered(u) /\ IF u \in job.todo THEN cron[u] = 0 ELSE Running(u)
    BY <1>1, <1>2, <1>4, <1>8 DEF DeployInv
  <2>2. CASE u = i
    <3>1. Install(i) /\ cron[i] = 0 /\ i \notin job'.todo
      BY <1>1, <1>4, <1>8, <2>1, <2>2
    <3>2. \/ Runtime(i) = "spark" /\ cron'[i] = 1
          \/ Runtime(i) = "flink" /\ i \in release'[instance[i].conn]
      BY <1>3, <3>1 DEF Install, InstallSpark, InstallFlink, Users, ShapeInv, TypeOK
    <3>3. QED
      BY <1>1, <2>1, <2>2, <3>1, <3>2 DEF Registered, Running, Runtime
  <2>3. CASE u # i
    BY <1>4, <1>6, <2>1, <2>3
  <2>4. QED
    BY <2>2, <2>3
<1>9. \A b \in Datasets : Rows(b)' = Rows(b)
  BY <1>1 DEF Rows
<1>10. Rows(job.dataset)' = Rows(d)
  BY <1>4, <1>1 DEF Rows
<1>11. RuntimesAgree'
  BY <1>1 DEF DeployInv, RuntimesAgree
<1>12. \A b \in deployed' : \A u \in Rows(b)' : (Registered(u) /\ Running(u))'
  BY <1>1, <1>3, <1>7, <1>9
<1>13. QED
  BY <1>1, <1>3, <1>4, <1>8, <1>10, <1>11, <1>12 DEF DeployInv

LEMMA DeployDone ==
  ASSUME ShapeInv, DeployInv, AllInstalled
  PROVE  DeployInv'
<1>1. /\ job.at = "install" /\ job.todo = {} /\ job' = NoJob
      /\ UNCHANGED <<registry, instance, cron, release>>
      /\ deployed' = IF job.ok THEN deployed \cup {job.dataset} ELSE deployed
  BY DEF AllInstalled, tables, jobs
<1>2. \A d \in deployed' : \A i \in Rows(d) : Registered(i) /\ Running(i)
  BY <1>1 DEF DeployInv
<1>3. \A d \in deployed' : \A i \in Rows(d)' : (Registered(i) /\ Running(i))'
  BY <1>1, <1>2 DEF Rows, Registered, Running, Runtime
<1>4. RuntimesAgree'
  BY <1>1 DEF DeployInv, RuntimesAgree
<1>5. QED
  BY <1>1, <1>3, <1>4 DEF DeployInv, NoJob

LEMMA DeployStep == OneRuntime /\ ShapeInv /\ DeployInv /\ [Next]_vars => DeployInv'
<1> SUFFICES ASSUME OneRuntime, ShapeInv, DeployInv, [Next]_vars PROVE DeployInv'
  OBVIOUS
<1> DEFINE Aside == /\ UNCHANGED <<instance, cron, release>> /\ deployed' \subseteq deployed
                    /\ job' = job \/ job'.at \notin {"stop", "install"}
<1>1. Aside => DeployInv'
  BY DeployKept
<1>2. CASE UploadFails \/ PackageFails \/ InsertFails \/ Crash \/ UNCHANGED vars
  BY <1>1, <1>2 DEF UploadFails, PackageFails, Rejected, InsertFails, Crash, vars, tables, jobs, NoJob
<1>3. ASSUME NEW p \in Packages, RegisterStart(p) PROVE DeployInv'
  BY <1>1, <1>3 DEF RegisterStart, tables, jobs
<1>4. CASE RetireVersions \/ InsertVersion
  <2>1. job.at \in {"retire", "insert"} /\ job \in RegisterJob /\ UNCHANGED <<instance, cron, release, deployed>>
    BY <1>4, RegisterType DEF RetireVersions, InsertVersion, Registering, jobs
  <2>2. job'.at \notin {"stop", "install"}
    <3>1. CASE job' = NoJob
      BY <3>1 DEF NoJob
    <3>2. CASE job' = [job EXCEPT !.at = "retire", !.todo = Tail(job.todo)]
      BY <2>1, <3>2 DEF RegisterJob
    <3>3. CASE job' = [job EXCEPT !.at = "insert"]
      BY <2>1, <3>3 DEF RegisterJob
    <3>4. QED
      BY <1>4, <3>1, <3>2, <3>3 DEF RetireVersions, InsertVersion
  <2>3. QED
    BY <1>1, <2>1, <2>2
<1>5. ASSUME NEW d \in Datasets, OpenDraft(d) \/ UpdateDraft(d) PROVE DeployInv'
  BY <1>1, <1>5 DEF OpenDraft, UpdateDraft, tables, jobs
<1>6. ASSUME NEW i \in InstanceIds, InstallEnds(i) PROVE DeployInv'
  BY <1>1, <1>6 DEF InstallEnds, tables, jobs, NoJob
<1>7. QED
  BY <1>2, <1>3, <1>4, <1>5, <1>6, DeployPublish, DeployStop, DeployInstall, DeployDone DEF Next

\* A publication that met no failure leaves one cron job for each Spark connector of the
\* dataset and its instances in the release of each Flink connector, and nothing that other
\* datasets, registrations, failures and restarts do later takes that away, provided that a
\* version of a connector is never registered again for another runtime.
THEOREM DeployedRunning ==
  ASSUME OneRuntime
  PROVE  Spec => []DeployedMeansRunning
<1>1. Init => DeployInv
  BY DEF Init, DeployInv, RuntimesAgree, NoJob, NoRow
<1>2. DeployInv => DeployedMeansRunning
  BY DEF DeployInv, DeployedMeansRunning, Running
<1>3. OneRuntime /\ ShapeInv /\ DeployInv /\ [Next]_vars => DeployInv'
  BY DeployStep
<1>4. ShapeInv /\ DeployInv /\ [Next]_vars => DeployInv'
  BY <1>3
<1>5. QED
  BY <1>1, <1>2, <1>4, ShapeInvariant, PTL DEF Spec

=============================================================================
