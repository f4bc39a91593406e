----------------------------- MODULE DatasetApi -----------------------------
(***************************************************************************)
(* The handlers of the API service that write datasets.  A handler is      *)
(* asynchronous: it is suspended at every await, and the handlers of other *)
(* requests run in between.  One action is what a handler does from one    *)
(* await of the database or of the command service to the next: `pc` names *)
(* the call it is about to make.  The first action of a handler also makes *)
(* its first read; a request that this read rejects changes nothing.       *)
(***************************************************************************)
EXTENDS CommandService

Begin(r, kind, d, next) ==
    /\ kind \in Kinds /\ pc[r] = "idle"
    /\ pc' = [pc EXCEPT ![r] = next]
    /\ tgt' = [tgt EXCEPT ![r] = d]

At(r, step)   == pc[r] = step
Goto(r, next) == pc' = [pc EXCEPT ![r] = next] /\ UNCHANGED tgt
Hold(r, x)    == row' = [row EXCEPT ![r] = x]

\* The handler answers, and forgets what it has read.
Done(r) ==
    /\ pc' = [pc EXCEPT ![r] = "idle"]
    /\ tgt' = [tgt EXCEPT ![r] = AnyDataset]
    /\ Hold(r, NoRow)

Send(r, command, next) ==
    /\ cmd' = [cmd EXCEPT ![r] = command]
    /\ Goto(r, next)
    /\ Hold(r, NoRow)

\* Mutant: the update is an upsert.
SaveDraft_Upsert(d, x) == draft' = [draft EXCEPT ![d] = x]

\* UPDATE datasets_draft ... WHERE id = d: a row that is gone is not written.
SaveDraft(d, x) == draft' = IF Exists(draft[d]) THEN [draft EXCEPT ![d] = x] ELSE draft

NewKey == lastKey + 1

\* INSERT INTO datasets_draft: refused by the primary key if there is a row.
InsertDraft(d, x) ==
    IF Exists(draft[d])
      THEN UNCHANGED <<draft, lastKey>>
      ELSE draft' = [draft EXCEPT ![d] = [x EXCEPT !.key = NewKey]] /\ lastKey' = NewKey

\* Mutant: a denorm field without the place for its Redis database.
Unresolved_NoDb(ms) == {[ds |-> m] : m \in ms}

Unresolved(ms) == {[ds |-> m, db |-> 0] : m \in ms}

-----------------------------------------------------------------------------
(* Create *)

CreateCheck(r, d) ==
    /\ Begin(r, "Create", d, "create_insert")
    /\ ~Exists(draft[d]) /\ ~Exists(live[d])
    /\ CanIssue
    /\ UNCHANGED <<tables, engines, counters, row, cmd, worker>>

CreateInsert(r) ==
    /\ At(r, "create_insert")
    /\ \E ms \in SUBSET Masters :
         InsertDraft(tgt[r], [DefaultRow(NewKey) EXCEPT !.denorm = Unresolved(ms)])
    /\ Done(r)
    /\ UNCHANGED <<live, dsDraft, source, engines, nextDb, cmd, worker>>

-----------------------------------------------------------------------------
(* Update. The client sends the version_key it has read, so that the check *)
(* accepts one key, that of the row: row[r].key afterwards.                *)

UpdateRead(r, d) ==
    /\ Begin(r, "Update", d, "update_write")
    /\ draft[d].status \in {"Draft", "ReadyToPublish"}
    /\ CanIssue
    /\ Hold(r, draft[d])
    /\ UNCHANGED <<tables, engines, counters, cmd, worker>>

\* mergeDenormConfig: upserts win over the fields they replace, the rest is kept.
MergeDenorm(fields, upsert, remove) ==
    {f \in fields : f.ds \notin upsert \cup remove} \cup Unresolved(upsert)

MergedDenorms(fields) ==
    {MergeDenorm(fields, upsert, remove) : upsert, remove \in SUBSET Masters}

\* What an update writes of a row.
Updated(x, fields, db) == [x EXCEPT !.key = NewKey, !.denorm = fields, !.redis = db]

\* A request writes denorm_config or dataset_config only if it has the field; what it
\* writes is merged from the row that was read before, not from the row as it is.
UpdateWrite(r) ==
    /\ At(r, "update_write")
    /\ \E fields \in {draft[tgt[r]].denorm} \cup MergedDenorms(row[r].denorm),
          db \in {draft[tgt[r]].redis, row[r].redis} :
            SaveDraft(tgt[r], Updated(draft[tgt[r]], fields, db))
    /\ lastKey' = NewKey
    /\ Done(r)
    /\ UNCHANGED <<live, dsDraft, source, engines, nextDb, cmd, worker>>

-----------------------------------------------------------------------------
(* Read with mode=edit, when there is no draft: a draft from the live row. *)

EditReadDraft(r, d) ==
    /\ Begin(r, "Edit", d, "edit_live")
    /\ ~Exists(draft[d])
    /\ CanIssue
    /\ UNCHANGED <<tables, engines, counters, row, cmd, worker>>

\* The live row in any status, Retired too.
EditReadLive(r) ==
    /\ At(r, "edit_live")
    /\ LET d == live[tgt[r]] IN
         IF Exists(d)
           THEN /\ Goto(r, IF d.denorm = {} THEN "edit_insert" ELSE "edit_denorm")
                /\ Hold(r, d)
           ELSE Done(r)
    /\ UNCHANGED <<tables, engines, counters, cmd, worker>>

\* Mutant: any Live master, as if the first one of the list were taken.
MastersAt_Any(db) == {m \in Masters : IsLive(m)}

\* The live row names the Redis database of a master; the draft names the master: some
\* Live master that has this database, or the request fails.
MastersAt(db) == {m \in Masters : IsLive(m) /\ live[m].redis = db}

EditMapDenorm(r) ==
    /\ At(r, "edit_denorm")
    /\ \/ /\ \E f \in row[r].denorm : MastersAt(f.db) = {}
          /\ Done(r)
       \/ \E g \in [row[r].denorm -> Masters] :
            /\ \A f \in row[r].denorm : g[f] \in MastersAt(f.db)
            /\ Hold(r, [row[r] EXCEPT !.denorm = Unresolved({g[f] : f \in row[r].denorm})])
            /\ Goto(r, "edit_insert")
    /\ UNCHANGED <<tables, engines, counters, cmd, worker>>

EditInsert(r) ==
    /\ At(r, "edit_insert")
    /\ InsertDraft(tgt[r], [row[r] EXCEPT !.status = "Draft",
                                    !.version = row[r].version + 1])
    /\ Done(r)
    /\ UNCHANGED <<live, dsDraft, source, engines, nextDb, cmd, worker>>

-----------------------------------------------------------------------------
(* Status transition to ReadyToPublish *)

ReadyCheck(r, d) ==
    /\ Begin(r, "ReadyToPublish", d, "ready_read")
    /\ draft[d].status = "Draft"
    /\ UNCHANGED <<tables, engines, counters, row, cmd, worker>>

\* The default configuration is merged over the draft: the version of the default
\* replaces the draft's; only a master keeps its Redis database.
MergeDefaults(d, x) == [x EXCEPT !.version = 1,
                                 !.redis = IF d \in Masters THEN @ ELSE 0]

\* The row is read again; it is validated by ReadyToPublishSchema after the merge.
ReadyRead(r) ==
    /\ At(r, "ready_read")
    /\ \/ /\ Exists(draft[tgt[r]])
          /\ Hold(r, MergeDefaults(tgt[r], draft[tgt[r]]))
          /\ Goto(r, "ready_write")
       \/ Done(r)
    /\ UNCHANGED <<tables, engines, counters, cmd, worker>>

ReadyWrite(r) ==
    /\ At(r, "ready_write")
    /\ SaveDraft(tgt[r], [row[r] EXCEPT !.status = "ReadyToPublish"])
    /\ Done(r)
    /\ UNCHANGED <<live, dsDraft, source, engines, counters, cmd, worker>>

-----------------------------------------------------------------------------
(* Status transition to Live *)

PublishCheck(r, d) ==
    /\ Begin(r, "Live", d, "publish_read")
    /\ draft[d].status = "ReadyToPublish"
    /\ d \in Masters => CanAllocate
    /\ UNCHANGED <<tables, engines, counters, row, cmd, worker>>

AllocOrSave(d, x) == IF d \in Masters /\ x.redis = 0 THEN "publish_alloc" ELSE "publish_save"

PublishRead(r) ==
    /\ At(r, "publish_read")
    /\ LET x == draft[tgt[r]] IN
         IF Exists(x)
           THEN /\ Hold(r, x)
                /\ Goto(r, IF x.denorm = {} THEN AllocOrSave(tgt[r], x) ELSE "publish_denorm")
           ELSE Done(r)
    /\ UNCHANGED <<tables, engines, counters, cmd, worker>>

\* Mutant: the status of the masters is not checked.
PublishDenorm_Unchecked(r) ==
    /\ At(r, "publish_denorm")
    /\ LET resolved == [row[r] EXCEPT !.denorm =
                           {[ds |-> m, db |-> live[m].redis] : m \in MastersOf(row[r])}]
       IN Hold(r, resolved) /\ Goto(r, AllocOrSave(tgt[r], resolved))
    /\ UNCHANGED <<tables, engines, counters, cmd, worker>>

\* validateAndUpdateDenormConfig: no self-reference, every master Live; the fields get
\* the Redis databases of the masters.
PublishDenorm(r) ==
    /\ At(r, "publish_denorm")
    /\ LET ms == MastersOf(row[r])
           resolved == [row[r] EXCEPT !.denorm = {[ds |-> m, db |-> live[m].redis] : m \in ms}]
       IN IF tgt[r] \notin ms /\ \A m \in ms : IsLive(m)
            THEN Hold(r, resolved) /\ Goto(r, AllocOrSave(tgt[r], resolved))
            ELSE Done(r)
    /\ UNCHANGED <<tables, engines, counters, cmd, worker>>

\* Mutant: the number is looked up, not drawn.
PublishAlloc_Peek(r) ==
    /\ At(r, "publish_alloc")
    /\ Hold(r, [row[r] EXCEPT !.redis = nextDb])
    /\ Goto(r, "publish_save")
    /\ UNCHANGED <<tables, engines, counters, cmd, worker>>

\* SELECT nextval('redis_db_index')
PublishAlloc(r) ==
    /\ At(r, "publish_alloc")
    /\ Hold(r, [row[r] EXCEPT !.redis = nextDb])
    /\ nextDb' = nextDb + 1
    /\ Goto(r, "publish_save")
    /\ UNCHANGED <<tables, engines, lastKey, cmd, worker>>

\* One transaction saves the whole draft row that was read and its ingestion spec;
\* then the command is sent.
PublishSave(r) ==
    /\ At(r, "publish_save")
    /\ \/ /\ SaveDraft(tgt[r], row[r])
          /\ dsDraft' = [dsDraft EXCEPT ![tgt[r]] = row[r].key]
          /\ Send(r, "PUBLISH_DATASET", "publish_sent")
       \/ "rollback" \in Faults /\ Done(r) /\ UNCHANGED <<draft, dsDraft, cmd>>
    /\ UNCHANGED <<live, source, engines, counters, worker>>

\* The answer of the command service, success or not, ends a publish or a retire.
Respond(r) ==
    /\ pc[r] \in {"publish_ok", "retire_ok", "failed"}
    /\ Done(r)
    /\ UNCHANGED <<tables, engines, counters, cmd, worker>>

-----------------------------------------------------------------------------
(* Status transition to Retire *)

RetireCheck(r, d) ==
    /\ Begin(r, "Retire", d, IF d \in Masters THEN "retire_deps" ELSE "retire_save")
    /\ IsLive(d)
    /\ UNCHANGED <<tables, engines, counters, row, cmd, worker>>

\* What findDatasets returns of a row: the masters it is denormalised with, if
\* denorm_config is among the attributes that are selected.
Fetched(x, attributes) == IF "denorm_config" \in attributes THEN MastersOf(x) ELSE {}

InUse(m) ==
    \/ \E d \in Datasets : IsLive(d) /\ m \in Fetched(live[d], {"dataset_config", "dataset_id"})
    \/ \E d \in Datasets :
         /\ draft[d].status \in {"ReadyToPublish", "Draft"}
         /\ m \in Fetched(draft[d], {"denorm_config", "id", "status"})

RetireDeps(r) ==
    /\ At(r, "retire_deps")
    /\ IF InUse(tgt[r]) THEN Done(r) ELSE Goto(r, "retire_save") /\ UNCHANGED row
    /\ UNCHANGED <<tables, engines, counters, cmd, worker>>

RetireSave(r) ==
    /\ At(r, "retire_save")
    /\ LET d == tgt[r] IN
         \/ /\ live' = [live EXCEPT ![d].status = "Retired"]
            /\ source' = IF source[d].status = "none" THEN source
                         ELSE [source EXCEPT ![d].status = "Retired"]
            /\ Goto(r, "retire_stop") /\ UNCHANGED row
         \/ "rollback" \in Faults /\ Done(r) /\ UNCHANGED <<live, source>>
    /\ UNCHANGED <<draft, dsDraft, engines, counters, cmd, worker>>

\* Mutant: the supervisors of masters are terminated, those of events are not.
RetireStop_Inverted(r) ==
    /\ At(r, "retire_stop")
    /\ supervisor' = IF tgt[r] \in Masters THEN [supervisor EXCEPT ![tgt[r]] = 0]
                     ELSE supervisor
    /\ Send(r, "RESTART_PIPELINE", "retire_sent")
    /\ UNCHANGED <<tables, pipeline, counters, worker>>

\* Terminating the supervisors may fail and only logs it; deleting the alerts may fail
\* too, and then the pipeline is not restarted.
RetireStop(r) ==
    /\ At(r, "retire_stop")
    /\ LET d == tgt[r] IN
         \/ supervisor' = IF d \in Masters \/ source[d].status = "none" THEN supervisor
                          ELSE [supervisor EXCEPT ![d] = 0]
         \/ "terminate" \in Faults /\ UNCHANGED supervisor
    /\ \/ Send(r, "RESTART_PIPELINE", "retire_sent")
       \/ "alerts" \in Faults /\ Done(r) /\ UNCHANGED cmd
    /\ UNCHANGED <<tables, pipeline, counters, worker>>

-----------------------------------------------------------------------------
(* Status transition to Delete *)

DeleteCheck(r, d) ==
    /\ Begin(r, "Delete", d, "delete_txn")
    /\ draft[d].status \in {"Draft", "ReadyToPublish"}
    /\ UNCHANGED <<tables, engines, counters, row, cmd, worker>>

DeleteTxn(r) ==
    /\ At(r, "delete_txn")
    /\ \/ /\ draft' = [draft EXCEPT ![tgt[r]] = NoRow]
          /\ dsDraft' = [dsDraft EXCEPT ![tgt[r]] = 0]
       \/ "rollback" \in Faults /\ UNCHANGED <<draft, dsDraft>>
    /\ Done(r)
    /\ UNCHANGED <<live, source, engines, counters, cmd, worker>>

-----------------------------------------------------------------------------
(* Import: the payload of an export, merged over the defaults; denorm      *)
(* fields whose master is not Live are dropped.  The Redis database of a   *)
(* master is the payload's.                                                *)

ImportRead(r, d) ==
    /\ Begin(r, "Import", d, "import_insert")
    /\ CanIssue
    /\ \E ms \in SUBSET {m \in Masters : IsLive(m)},
          db \in IF d \in Masters THEN {0} \cup FirstDb .. (nextDb - 1) ELSE {0} :
         Hold(r, [DefaultRow(0) EXCEPT !.denorm = Unresolved(ms), !.redis = db])
    /\ UNCHANGED <<tables, engines, counters, cmd, worker>>

ImportInsert(r) ==
    /\ At(r, "import_insert")
    /\ InsertDraft(tgt[r], row[r])
    /\ \/ Done(r)       \* inserted, or the row exists and overwrite=false
       \/ /\ Exists(draft[tgt[r]])
          /\ Goto(r, "import_overwrite") /\ UNCHANGED row
    /\ UNCHANGED <<live, dsDraft, source, engines, nextDb, cmd, worker>>

ImportOverwrite(r) ==
    /\ At(r, "import_overwrite")
    /\ SaveDraft(tgt[r], [row[r] EXCEPT !.key = NewKey])
    /\ lastKey' = NewKey
    /\ Done(r)
    /\ UNCHANGED <<live, dsDraft, source, engines, nextDb, cmd, worker>>

-----------------------------------------------------------------------------
(* Copy of a live row or of a draft to a new dataset id *)

CopyRead(r, d) ==
    /\ Begin(r, "Copy", d, "copy_insert")
    /\ CanIssue
    /\ \E s \in Datasets, x \in {live, draft} :
         /\ (s \in Masters) = (d \in Masters)
         /\ Exists(x[s])
         /\ Hold(r, [x[s] EXCEPT !.status = "Draft", !.version = 1])
    /\ UNCHANGED <<tables, engines, counters, cmd, worker>>

CopyInsert(r) ==
    /\ At(r, "copy_insert")
    /\ InsertDraft(tgt[r], row[r])
    /\ Done(r)
    /\ UNCHANGED <<live, dsDraft, source, engines, nextDb, cmd, worker>>

-----------------------------------------------------------------------------

FirstStep(r, d) ==
    \/ CreateCheck(r, d) \/ UpdateRead(r, d) \/ EditReadDraft(r, d) \/ ReadyCheck(r, d)
    \/ PublishCheck(r, d) \/ RetireCheck(r, d) \/ DeleteCheck(r, d) \/ ImportRead(r, d)
    \/ CopyRead(r, d)

NextStep(r) ==
    \/ CreateInsert(r) \/ UpdateWrite(r)
    \/ EditReadLive(r) \/ EditMapDenorm(r) \/ EditInsert(r)
    \/ ReadyRead(r) \/ ReadyWrite(r)
    \/ PublishRead(r) \/ PublishDenorm(r) \/ PublishAlloc(r) \/ PublishSave(r)
    \/ RetireDeps(r) \/ RetireSave(r) \/ RetireStop(r) \/ Respond(r)
    \/ DeleteTxn(r) \/ ImportInsert(r) \/ ImportOverwrite(r) \/ CopyInsert(r)

\* The API service restarts. The command of a request that waits for the command service
\* is executed all the same, unless it was not yet sent over.
ApiCrash ==
    /\ "apiCrash" \in Faults
    /\ \E r \in Requests : pc[r] \notin {"idle", "orphan"}
    /\ \E lost \in SUBSET {r \in Requests : cmd[r] # "none"} :
         LET served == {r \in Requests \ lost :
                          pc[r] \in {"publish_sent", "retire_sent", "orphan"}} IN
         /\ pc' = [r \in Requests |-> IF r \in served THEN "orphan" ELSE "idle"]
         /\ tgt' = [r \in Requests |-> IF r \in served THEN tgt[r] ELSE AnyDataset]
         /\ cmd' = [r \in Requests |-> IF r \in lost THEN "none" ELSE cmd[r]]
    /\ row' = [r \in Requests |-> NoRow]
    /\ UNCHANGED <<tables, engines, counters, worker>>

=============================================================================
