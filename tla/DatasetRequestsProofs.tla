-------------------------- MODULE DatasetRequestsProofs --------------------------
(***************************************************************************)
(* What the services guarantee the clients of datasets: to one that sends  *)
(* a request at a time, and, of the Redis databases of masters, to clients *)
(* whose requests overlap.                                                 *)
(***************************************************************************)
EXTENDS DatasetStatusProofs

-----------------------------------------------------------------------------
(***************************************************************************)
(* What the services guarantee a client that sends one request at a time,  *)
(* for every set of datasets and every choice of operations and failures,  *)
(* except where a theorem says which it excludes.  While the request       *)
(* waits for the command service nobody changes the draft under the        *)
(* worker, so that each step of the publication workflow finds what the    *)
(* one before it has left (PathInv); what a failed publication leaves is a *)
(* draft that is still ready to publish.                                   *)
(***************************************************************************)

\* One request at a time.
Sequential == \A r, q \in Requests : r = q

\* The denorm fields of x name other datasets that are Live, and their Redis databases.
Resolved(d, x) == \A f \in x.denorm : f.ds # d /\ IsLive(f.ds) /\ f.db = live[f.ds].redis

HasDb(d, x) == d \in Masters => x.redis # 0

\* A draft that publishDataset has saved for the command service.
Prepared(d) ==
    /\ draft[d].status = "ReadyToPublish"
    /\ dsDraft[d] = draft[d].key
    /\ Resolved(d, draft[d]) /\ HasDb(d, draft[d])

\* A draft whose content is Live.
Published(d) == Exists(draft[d]) /\ IsLive(d) /\ live[d].key = draft[d].key

Publishing == {"publish_read", "publish_denorm", "publish_alloc", "publish_save"}

\* Drafts have been issued a key, and only they have ingestion specs that wait.
KeysInv ==
    /\ \A d \in Datasets : Exists(draft[d]) => draft[d].key # 0
    /\ DraftSourceHasDraft

\* What a handler relies on between two awaits.
HandlerInv(r) ==
    LET d == tgt[r] IN
    /\ pc[r] \in Publishing => draft[d].status = "ReadyToPublish"
    /\ pc[r] \in Publishing \ {"publish_read"} => row[r].status = "ReadyToPublish"
    /\ pc[r] \in (Publishing \ {"publish_read"}) \cup {"ready_write"} => row[r].key = draft[d].key
    /\ pc[r] \in {"publish_alloc", "publish_save"} => Resolved(d, row[r])
    /\ pc[r] = "publish_save" => HasDb(d, row[r])
    /\ pc[r] \in {"retire_deps", "retire_save"} => IsLive(d)
    /\ pc[r] = "retire_stop" => live[d].status = "Retired"

\* What the worker will find when it takes a command.
CommandInv(r) ==
    /\ cmd[r] = "PUBLISH_DATASET" => Prepared(tgt[r])
    /\ cmd[r] = "RESTART_PIPELINE" => pc[r] # "publish_sent"

\* What it finds at each step of the workflow on dataset d.
PathInv(d) ==
    /\ wpc \in {"topic", "check", "audit", "draft", "row"} => Prepared(d)
    /\ wpc = "row" => wrow = draft[d]
    /\ wpc \in {"sources", "submit"} => Published(d) /\ draft[d].status = "ReadyToPublish"
    /\ wpc = "sources" => dsDraft[d] = draft[d].key
    /\ wpc \in {"submit", "drop_source", "drop_draft"} =>
          source[d] = [status |-> "Live", key |-> live[d].key]
    /\ wpc \in {"drop_source", "drop_draft"} =>
          Published(d) /\ (d \in Events => supervisor[d] = live[d].key)
    /\ wpc = "drop_draft" => dsDraft[d] = 0
    /\ wpc \in {"jobs", "reply"} /\ pc[wreq] = "publish_sent" => IsLive(d)

SequenceInv ==
    /\ KeysInv /\ nextDb # 0
    /\ \A r \in Requests : HandlerInv(r) /\ CommandInv(r)
    /\ PathInv(tgt[wreq])

-----------------------------------------------------------------------------
(* One request at a time. *)

\* While a handler runs, the worker is free.
LEMMA Alone ==
  ASSUME Sequential, TypeOK, ControlInv, NEW r \in Requests, pc[r] \notin Waiting
  PROVE  wpc = "idle" /\ cmd[r] = "none" /\ \A q \in Requests : q = r
  BY DEF Sequential, TypeOK, ControlInv

\* A free slot, and one whose handler only waits for an answer, rely on nothing.
LEMMA RestingSlot ==
  ASSUME NEW r \in Requests, cmd'[r] = "none",
         pc'[r] \notin Publishing \cup {"ready_write", "retire_deps", "retire_save", "retire_stop"}
  PROVE  HandlerInv(r)' /\ CommandInv(r)'
  BY DEF HandlerInv, CommandInv, Publishing

LEMMA FreeWorker ==
  ASSUME wpc' = "idle"
  PROVE  PathInv(tgt[wreq])'
  BY DEF PathInv

LEMMA SequenceInit == Init => SequenceInv
  BY DEF Init, FirstDb, SequenceInv, KeysInv, DraftSourceHasDraft, HandlerInv, CommandInv, PathInv, NoRow,
         Exists, Publishing

-----------------------------------------------------------------------------
(* The handlers. *)

\* A first step finds its dataset in the status it asks for.
LEMMA FirstStepSequence ==
  ASSUME Sequential, TypeOK, ControlInv, SequenceInv,
         NEW r \in Requests, NEW d \in Datasets, FirstStep(r, d)
  PROVE  SequenceInv'
<1>1. /\ pc[r] = "idle" /\ wpc = "idle" /\ cmd[r] = "none" /\ \A q \in Requests : q = r
      /\ UNCHANGED <<draft, live, dsDraft, source, supervisor, cmd, wpc, wreq, wrow, nextDb>>
  BY FirstStepFrame, Alone DEF Waiting, tables, engines, counters, worker
<1>2. HandlerInv(r)'
  <2> USE DEF Begin, TypeOK, HandlerInv, Publishing
  <2>1. CASE CreateCheck(r, d) \/ EditReadDraft(r, d) \/ ReadyCheck(r, d)
    BY <2>1 DEF CreateCheck, EditReadDraft, ReadyCheck
  <2>2. CASE PublishCheck(r, d) \/ DeleteCheck(r, d)
    BY <2>2, <1>1 DEF PublishCheck, DeleteCheck
  <2>3. CASE RetireCheck(r, d)
    BY <2>3, <1>1 DEF RetireCheck, IsLive
  <2>4. CASE UpdateRead(r, d) \/ ImportRead(r, d) \/ CopyRead(r, d)
    BY <2>4 DEF UpdateRead, ImportRead, CopyRead
  <2>5. QED
    BY <2>1, <2>2, <2>3, <2>4 DEF FirstStep
<1>3. KeysInv'
  BY <1>1 DEF SequenceInv, KeysInv, DraftSourceHasDraft
<1>4. PathInv(tgt[wreq])' /\ CommandInv(r)'
  BY <1>1, FreeWorker DEF CommandInv
<1>5. QED
  BY <1>1, <1>2, <1>3, <1>4 DEF SequenceInv

\* Keys of what is written to a draft.
LEMMA SavedKeys ==
  ASSUME TypeOK, KeysInv, NEW d \in Datasets, NEW x, SaveDraft(d, x), dsDraft' = dsDraft,
         Exists(draft[d]) => x.key # 0 /\ Exists(x)
  PROVE  KeysInv'
  BY DEF KeysInv, DraftSourceHasDraft, SaveDraft, TypeOK

LEMMA InsertedKeys ==
  ASSUME TypeOK, KeysInv, NEW d \in Datasets, NEW x \in Row, InsertDraft(d, x), Exists(x), dsDraft' = dsDraft
  PROVE  KeysInv'
<1>1. NewKey # 0 /\ NewKey \in Nat
  BY DEF NewKey, TypeOK
<1>2. [x EXCEPT !.key = NewKey].key = NewKey /\ [x EXCEPT !.key = NewKey].status = x.status
  BY DEF Row
<1>3. QED
  BY <1>1, <1>2 DEF KeysInv, DraftSourceHasDraft, InsertDraft, TypeOK, Exists

LEMMA KeysSame ==
  ASSUME KeysInv, draft' = draft, dsDraft' = dsDraft
  PROVE  KeysInv'
  BY DEF KeysInv, DraftSourceHasDraft

\* The handlers that read or write drafts and end.
LEMMA DraftingSequence ==
  ASSUME TypeOK, StatusInv, KeysInv, NEW r \in Requests,
         \/ CreateInsert(r) \/ UpdateWrite(r) \/ EditInsert(r) \/ DeleteTxn(r)
         \/ ImportInsert(r) \/ ImportOverwrite(r) \/ CopyInsert(r)
  PROVE  KeysInv' /\ cmd' = cmd /\ pc'[r] \in {"idle", "import_overwrite"}
<1> DEFINE d == tgt[r]
<1>1. /\ d \in Datasets /\ row[r] \in Row /\ draft[d] \in Row /\ NewKey \in Nat /\ NewKey # 0
      /\ SlotInv(r)
  BY DEF TypeOK, NewKey, StatusInv
<1>2. Done(r) => pc'[r] = "idle"
  BY DEF Done, TypeOK
<1>3. CASE CreateInsert(r)
  <2>1. PICK ms \in SUBSET Masters :
          InsertDraft(d, [DefaultRow(NewKey) EXCEPT !.denorm = Unresolved(ms)])
    BY <1>3 DEF CreateInsert
  <2>2. [DefaultRow(NewKey) EXCEPT !.denorm = Unresolved(ms)] \in Row
    BY <1>1, DefaultRowType, UnresolvedType, RowUpdate
  <2>3. Exists([DefaultRow(NewKey) EXCEPT !.denorm = Unresolved(ms)])
    BY DEF DefaultRow, Exists
  <2>4. QED
    BY <1>1, <1>2, <1>3, <2>1, <2>2, <2>3, InsertedKeys DEF CreateInsert
<1>4. CASE UpdateWrite(r)
  <2>1. PICK fields, db : SaveDraft(d, Updated(draft[d], fields, db))
    BY <1>4 DEF UpdateWrite
  <2>2. Updated(draft[d], fields, db).key = NewKey /\ Updated(draft[d], fields, db).status = draft[d].status
    BY <1>1 DEF Updated, Row
  <2>3. QED
    BY <1>1, <1>2, <1>4, <2>1, <2>2, SavedKeys DEF UpdateWrite, Exists
<1>5. CASE EditInsert(r)
  <2> DEFINE copy == [row[r] EXCEPT !.status = "Draft", !.version = row[r].version + 1]
  <2>1. row[r].version \in Nat /\ row[r].version + 1 \in Nat /\ "Draft" \in Statuses
    BY <1>1 DEF Row, Statuses
  <2>2. [row[r] EXCEPT !.status = "Draft"] \in Row
    BY <1>1, <2>1, RowUpdate
  <2>3. copy \in Row
    BY <2>1, <2>2, RowUpdate
  <2>4. Exists(copy)
    BY <1>1 DEF Exists, Row
  <2>5. InsertDraft(d, copy) /\ Done(r) /\ dsDraft' = dsDraft /\ cmd' = cmd
    BY <1>5 DEF EditInsert
  <2> HIDE DEF copy
  <2>6. QED
    BY <1>1, <1>2, <2>3, <2>4, <2>5, InsertedKeys
<1>6. CASE DeleteTxn(r)
  <2>1. KeysInv'
    BY <1>1, <1>6 DEF DeleteTxn, KeysInv, DraftSourceHasDraft, Exists, NoRow, TypeOK
  <2>2. QED
    BY <1>2, <1>6, <2>1 DEF DeleteTxn
<1>7. CASE ImportInsert(r) \/ CopyInsert(r)
  <2>1. Exists(row[r])
    BY <1>1, <1>7 DEF ImportInsert, CopyInsert, At, SlotInv, Exists
  <2>2. InsertDraft(d, row[r]) /\ dsDraft' = dsDraft /\ cmd' = cmd
    BY <1>7 DEF ImportInsert, CopyInsert
  <2>3. pc'[r] \in {"idle", "import_overwrite"}
    BY <1>2, <1>7 DEF ImportInsert, CopyInsert, Goto, TypeOK
  <2>4. QED
    BY <1>1, <2>1, <2>2, <2>3, InsertedKeys
<1>8. CASE ImportOverwrite(r)
  <2>1. /\ [row[r] EXCEPT !.key = NewKey].key = NewKey
        /\ [row[r] EXCEPT !.key = NewKey].status = "Draft"
    BY <1>1, <1>8 DEF ImportOverwrite, At, SlotInv, Row
  <2>2. QED
    BY <1>1, <1>2, <1>8, <2>1, SavedKeys DEF ImportOverwrite, Exists
<1>9. QED
  BY <1>3, <1>4, <1>5, <1>6, <1>7, <1>8

\* The handlers of a transition, from one await to the next: nothing changes meanwhile.
LEMMA ReadyReadSequence ==
  ASSUME TypeOK, NEW r \in Requests, cmd[r] = "none", ReadyRead(r)
  PROVE  HandlerInv(r)' /\ CommandInv(r)' /\ UNCHANGED <<draft, dsDraft>>
<1>1. CASE Done(r)
  BY <1>1, RestingSlot DEF ReadyRead, Done, TypeOK, Publishing, tables
<1>2. CASE ~Done(r)
  <2>1. /\ pc'[r] = "ready_write" /\ tgt' = tgt /\ draft' = draft /\ cmd' = cmd /\ dsDraft' = dsDraft
        /\ row'[r] = MergeDefaults(tgt[r], draft[tgt[r]])
    BY <1>2 DEF ReadyRead, Goto, Hold, TypeOK, tables
  <2>2. MergeDefaults(tgt[r], draft[tgt[r]]).key = draft[tgt[r]].key
    BY DEF MergeDefaults, TypeOK, Row
  <2>3. QED
    BY <2>1, <2>2 DEF HandlerInv, CommandInv, Publishing
<1>3. QED
  BY <1>1, <1>2

LEMMA ReadyWriteSequence ==
  ASSUME TypeOK, KeysInv, NEW r \in Requests, HandlerInv(r), ReadyWrite(r)
  PROVE  KeysInv' /\ pc'[r] = "idle" /\ cmd' = cmd
<1> DEFINE x == [row[r] EXCEPT !.status = "ReadyToPublish"]
<1>1. tgt[r] \in Datasets /\ row[r] \in Row
  BY DEF TypeOK
<1>2. SaveDraft(tgt[r], x) /\ dsDraft' = dsDraft /\ cmd' = cmd /\ pc'[r] = "idle"
  BY DEF ReadyWrite, Done, TypeOK
<1>3. Exists(x) /\ x.key = row[r].key
  BY <1>1 DEF Exists, Row
<1>4. row[r].key = draft[tgt[r]].key
  BY DEF ReadyWrite, At, HandlerInv
<1> HIDE DEF x
<1>5. QED
  BY <1>1, <1>2, <1>3, <1>4, SavedKeys DEF KeysInv

\* Up to the await at which it saves, a publication changes nothing, and what it holds gets
\* nearer to what the worker needs.
LEMMA PublishSequence ==
  ASSUME TypeOK, nextDb # 0, NEW r \in Requests, cmd[r] = "none", HandlerInv(r),
         PublishRead(r) \/ PublishDenorm(r) \/ PublishAlloc(r)
  PROVE  HandlerInv(r)' /\ CommandInv(r)' /\ UNCHANGED <<draft, dsDraft>>
<1> DEFINE d == tgt[r]
<1>1. /\ d \in Datasets /\ row[r] \in Row /\ draft[d] \in Row
      /\ UNCHANGED <<draft, live, dsDraft, cmd>>
  BY DEF PublishRead, PublishDenorm, PublishAlloc, TypeOK, tables
<1>2. CommandInv(r)'
  BY <1>1 DEF CommandInv
<1>3. CASE Done(r)
  BY <1>1, <1>3, RestingSlot DEF Done, TypeOK, Publishing
<1>4. ASSUME NEW x, x.status = "ReadyToPublish", x.key = draft[d].key,
             draft[d].status = "ReadyToPublish", Resolved(d, x),
             Hold(r, x), Goto(r, AllocOrSave(d, x))
      PROVE  HandlerInv(r)'
  <2>1. /\ row'[r] = x /\ tgt' = tgt
        /\ pc'[r] = AllocOrSave(d, x)
    BY <1>4 DEF Hold, Goto, TypeOK
  <2>2. AllocOrSave(d, x) = "publish_alloc" \/ (AllocOrSave(d, x) = "publish_save" /\ HasDb(d, x))
    BY DEF AllocOrSave, HasDb
  <2>3. Resolved(d, x)'
    BY <1>1, <1>4, <2>1 DEF Resolved, IsLive
  <2>4. QED
    BY <1>1, <1>4, <2>1, <2>2, <2>3 DEF HandlerInv, Publishing, HasDb
<1>5. CASE PublishRead(r) /\ ~Done(r)
  <2>1. draft[d].status = "ReadyToPublish"
    BY <1>5 DEF PublishRead, At, HandlerInv, Publishing
  <2>2. CASE draft[d].denorm = {}
    <3>1. Resolved(d, draft[d])
      BY <2>2 DEF Resolved
    <3>2. Hold(r, draft[d]) /\ Goto(r, AllocOrSave(d, draft[d]))
      BY <1>5, <2>2 DEF PublishRead
    <3>3. QED
      BY <1>1, <1>2, <1>4, <2>1, <3>1, <3>2
  <2>3. CASE draft[d].denorm # {}
    <3>1. row'[r] = draft[d] /\ tgt' = tgt /\ pc'[r] = "publish_denorm"
      BY <1>5, <2>3 DEF PublishRead, Hold, Goto, TypeOK
    <3>2. QED
      BY <1>1, <1>2, <2>1, <3>1 DEF HandlerInv, Publishing
  <2>4. QED
    BY <2>2, <2>3
<1>6. CASE PublishDenorm(r) /\ ~Done(r)
  <2> DEFINE fs == {[ds |-> m, db |-> live[m].redis] : m \in MastersOf(row[r])}
             x == [row[r] EXCEPT !.denorm = fs]
  <2>1. /\ draft[d].status = "ReadyToPublish" /\ row[r].status = "ReadyToPublish"
        /\ row[r].key = draft[d].key
    BY <1>6 DEF PublishDenorm, At, HandlerInv, Publishing
  <2>2. /\ Hold(r, x) /\ Goto(r, AllocOrSave(d, x))
        /\ d \notin MastersOf(row[r]) /\ \A m \in MastersOf(row[r]) : IsLive(m)
    BY <1>6 DEF PublishDenorm
  <2>3. x.status = row[r].status /\ x.key = row[r].key /\ x.denorm = fs
    BY <1>1 DEF Row
  <2>4. Resolved(d, x)
    BY <2>2, <2>3 DEF Resolved
  <2> HIDE DEF x
  <2>5. QED
    BY <1>1, <1>2, <1>4, <2>1, <2>2, <2>3, <2>4
<1>7. CASE PublishAlloc(r)
  <2>1. PICK x, e : x = [row[r] EXCEPT !.redis = nextDb] /\ e = d
    OBVIOUS
  <2>2. /\ draft[e].status = "ReadyToPublish" /\ row[r].status = "ReadyToPublish"
        /\ row[r].key = draft[e].key /\ Resolved(e, row[r])
    BY <1>7, <2>1 DEF PublishAlloc, At, HandlerInv, Publishing
  <2>3. /\ x.status = row[r].status /\ x.key = row[r].key /\ x.denorm = row[r].denorm
        /\ x.redis = nextDb
    BY <1>1, <2>1 DEF Row
  <2>4. row'[r] = x /\ tgt' = tgt /\ tgt'[r] = e /\ pc'[r] = "publish_save"
    BY <1>7, <2>1 DEF PublishAlloc, Hold, Goto, TypeOK
  <2>5. Resolved(e, x)'
    BY <1>1, <2>2, <2>3 DEF Resolved, IsLive
  <2>6. HasDb(e, x)'
    BY <2>3 DEF HasDb
  <2>7. HandlerInv(r)'
    BY <1>1, <2>2, <2>3, <2>4, <2>5, <2>6 DEF HandlerInv, Publishing
  <2>8. QED
    BY <1>1, <1>2, <2>7
<1>8. QED
  BY <1>3, <1>5, <1>6, <1>7

\* It saves the draft as the worker needs it, and sends the command.
LEMMA PublishSaveSequence ==
  ASSUME TypeOK, KeysInv, NEW r \in Requests, cmd[r] = "none", HandlerInv(r), PublishSave(r)
  PROVE  KeysInv' /\ HandlerInv(r)' /\ CommandInv(r)'
<1> DEFINE d == tgt[r]
<1>1. /\ d \in Datasets /\ row[r] \in Row /\ draft[d] \in Row /\ live' = live
      /\ pc[r] = "publish_save"
  BY DEF PublishSave, At, TypeOK
<1>2. /\ draft[d].status = "ReadyToPublish" /\ row[r].status = "ReadyToPublish"
      /\ row[r].key = draft[d].key /\ Resolved(d, row[r]) /\ HasDb(d, row[r])
  BY <1>1 DEF HandlerInv, Publishing
<1>3. CASE Done(r) /\ UNCHANGED <<draft, dsDraft, cmd>>
  BY <1>3, KeysSame, RestingSlot DEF Done, TypeOK, Publishing
<1>4. CASE /\ SaveDraft(d, row[r]) /\ dsDraft' = [dsDraft EXCEPT ![d] = row[r].key]
           /\ Send(r, "PUBLISH_DATASET", "publish_sent")
  <2>1. /\ draft' = [draft EXCEPT ![d] = row[r]]
        /\ draft'[d] = row[r] /\ dsDraft'[d] = row[r].key
    BY <1>1, <1>2, <1>4 DEF SaveDraft, Exists, TypeOK
  <2>2. tgt' = tgt /\ pc'[r] = "publish_sent" /\ cmd'[r] = "PUBLISH_DATASET"
    BY <1>4 DEF Send, Goto, TypeOK
  <2>3. KeysInv'
    BY <1>2, <1>4, <2>1 DEF KeysInv, DraftSourceHasDraft, Exists, TypeOK
  <2>4. Resolved(d, draft[d])' /\ HasDb(d, draft[d])'
    BY <1>1, <1>2, <2>1, <2>2 DEF Resolved, HasDb, IsLive
  <2>5. Prepared(d)'
    BY <1>2, <2>1, <2>2, <2>4 DEF Prepared
  <2>6. HandlerInv(r)'
    BY <2>2 DEF HandlerInv, Publishing
  <2>7. CommandInv(r)'
    BY <2>2, <2>5 DEF CommandInv
  <2>8. QED
    BY <2>3, <2>6, <2>7
<1>5. QED
  BY <1>3, <1>4 DEF PublishSave

\* A retirement finds at each await what its last one has left.
LEMMA RetireSequence ==
  ASSUME TypeOK, NEW r \in Requests, cmd[r] = "none", HandlerInv(r),
         RetireDeps(r) \/ RetireSave(r) \/ RetireStop(r) \/ Respond(r)
           \/ EditReadLive(r) \/ EditMapDenorm(r)
  PROVE  HandlerInv(r)' /\ CommandInv(r)' /\ UNCHANGED <<draft, dsDraft>>
<1>1. UNCHANGED <<draft, dsDraft>> /\ tgt[r] \in Datasets
  BY DEF RetireDeps, RetireSave, RetireStop, Respond, EditReadLive, EditMapDenorm, tables, TypeOK
<1>2. CASE Done(r) /\ cmd' = cmd
  BY <1>1, <1>2, RestingSlot DEF Done, TypeOK, Publishing
<1>3. CASE RetireDeps(r) /\ ~Done(r)
  <2>1. pc'[r] = "retire_save" /\ tgt' = tgt /\ live' = live /\ cmd' = cmd /\ pc[r] = "retire_deps"
    BY <1>3 DEF RetireDeps, Goto, At, TypeOK, tables
  <2>2. QED
    BY <1>1, <2>1 DEF HandlerInv, CommandInv, Publishing, IsLive
<1>4. CASE RetireSave(r) /\ ~Done(r)
  <2>1. /\ pc'[r] = "retire_stop" /\ tgt' = tgt /\ cmd' = cmd
        /\ live'[tgt[r]] = [live[tgt[r]] EXCEPT !.status = "Retired"]
    BY <1>1, <1>4 DEF RetireSave, Goto, TypeOK
  <2>2. live'[tgt[r]].status = "Retired"
    BY <1>1, <2>1 DEF TypeOK, Row
  <2>3. QED
    BY <1>1, <2>1, <2>2 DEF HandlerInv, CommandInv, Publishing
<1>5. CASE RetireStop(r) /\ Send(r, "RESTART_PIPELINE", "retire_sent")
  <2>1. pc'[r] = "retire_sent" /\ cmd'[r] = "RESTART_PIPELINE"
    BY <1>5 DEF Send, Goto, TypeOK
  <2>2. QED
    BY <1>1, <2>1 DEF HandlerInv, CommandInv, Publishing
<1>6. CASE EditReadLive(r) \/ EditMapDenorm(r)
  <2>1. cmd' = cmd /\ pc'[r] \in {"idle", "edit_insert", "edit_denorm"}
    BY <1>6 DEF EditReadLive, EditMapDenorm, Goto, Done, TypeOK
  <2>2. QED
    BY <1>1, <2>1, RestingSlot DEF Publishing
<1>7. CASE RetireStop(r) \/ Respond(r)
  BY <1>2, <1>5, <1>7 DEF RetireStop, Respond
<1>8. QED
  BY <1>2, <1>3, <1>4, <1>6, <1>7 DEF RetireDeps, RetireSave

\* The sequence redis_db_index only goes up.
LEMMA NextDbUp == TypeOK /\ nextDb # 0 /\ [Next]_vars => nextDb' # 0
<1> SUFFICES ASSUME TypeOK, nextDb # 0, [Next]_vars PROVE nextDb' # 0
  OBVIOUS
<1>1. ASSUME NEW r \in Requests, NEW d \in Datasets, FirstStep(r, d) PROVE nextDb' = nextDb
  BY <1>1, FirstStepFrame DEF counters
<1>2. ASSUME NEW r \in Requests, NextStep(r) PROVE nextDb' \in {nextDb, nextDb + 1}
  BY <1>2 DEF NextStep, CreateInsert, UpdateWrite, EditReadLive, EditMapDenorm, EditInsert, ReadyRead,
     ReadyWrite, PublishRead, PublishDenorm, PublishAlloc, PublishSave, RetireDeps, RetireSave,
     RetireStop, Respond, DeleteTxn, ImportInsert, ImportOverwrite, CopyInsert, counters
<1>3. CASE WorkerStep
  BY <1>3 DEF WorkerStep, WorkerTopic, WorkerCheck, WorkerAudit, WorkerDraft, WorkerRow,
     WorkerSources, WorkerSubmit, WorkerDropSource, WorkerDropDraft, WorkerJobs, WorkerReply, counters
<1>4. CASE (\E r \in Requests : WorkerPick(r)) \/ WorkerAbort \/ WorkerCrash \/ ApiCrash
  BY <1>4 DEF WorkerPick, WorkerAbort, WorkerCrash, ApiCrash, counters
<1>5. CASE UNCHANGED vars
  BY <1>5 DEF vars, counters
<1>6. QED
  BY <1>1, <1>2, <1>3, <1>4, <1>5 DEF Next, TypeOK

\* A handler's next step.
LEMMA NextStepSequence ==
  ASSUME Sequential, TypeOK, ControlInv, StatusInv, SequenceInv, nextDb' # 0,
         NEW r \in Requests, NextStep(r)
  PROVE  SequenceInv'
<1>1. pc[r] \notin Waiting /\ UNCHANGED worker
  BY NextStepFrame
<1>2. /\ wpc = "idle" /\ cmd[r] = "none" /\ \A q \in Requests : q = r
      /\ HandlerInv(r) /\ KeysInv /\ nextDb # 0
  BY <1>1, Alone DEF SequenceInv
<1>3. PathInv(tgt[wreq])'
  BY <1>1, <1>2, FreeWorker DEF worker
<1>4. CASE \/ CreateInsert(r) \/ UpdateWrite(r) \/ EditInsert(r) \/ DeleteTxn(r)
           \/ ImportInsert(r) \/ ImportOverwrite(r) \/ CopyInsert(r) \/ ReadyWrite(r)
  <2>1. KeysInv' /\ cmd' = cmd /\ pc'[r] \in {"idle", "import_overwrite"}
    BY <1>2, <1>4, DraftingSequence, ReadyWriteSequence
  <2>2. QED
    BY <1>2, <1>3, <2>1, RestingSlot DEF SequenceInv, Publishing
<1>5. CASE PublishSave(r)
  BY <1>2, <1>3, <1>5, PublishSaveSequence DEF SequenceInv
<1>6. CASE \/ ReadyRead(r) \/ PublishRead(r) \/ PublishDenorm(r) \/ PublishAlloc(r)
           \/ RetireDeps(r) \/ RetireSave(r) \/ RetireStop(r) \/ Respond(r)
           \/ EditReadLive(r) \/ EditMapDenorm(r)
  <2>1. HandlerInv(r)' /\ CommandInv(r)' /\ UNCHANGED <<draft, dsDraft>>
    BY <1>2, <1>6, ReadyReadSequence, PublishSequence, RetireSequence
  <2>2. QED
    BY <1>2, <1>3, <2>1, KeysSame DEF SequenceInv
<1>7. QED
  BY <1>4, <1>5, <1>6 DEF NextStep

-----------------------------------------------------------------------------
(* The worker. *)

\* The worker's preparations do not change what it has found.
LEMMA PreparedKept ==
  ASSUME NEW d, Prepared(d), UNCHANGED <<draft, dsDraft, live>>
  PROVE  Prepared(d)'
  BY DEF Prepared, Resolved, HasDb, IsLive

\* Each step of the workflow finds what the one before it has left.
LEMMA WorkerPath ==
  ASSUME TypeOK, KeysInv, PathInv(tgt[wreq]), WorkerStep
  PROVE  KeysInv' /\ PathInv(tgt[wreq])'
<1>0. wreq \in Requests
  BY WorkerStepFrame DEF TypeOK
<1>1. PICK d \in Datasets : d = tgt[wreq]
  BY <1>0 DEF TypeOK
<1> draft[d] \in Row /\ live[d] \in Row /\ source[d] \in SourceRow
  BY DEF TypeOK
<1> USE <1>1
<1>2. ASSUME NEW ok, Finish(ok) PROVE wpc' = "idle"
  BY <1>2 DEF Finish, Free
<1>3. ASSUME NEW next, Continue(next)
      PROVE  wpc' = next /\ wreq' = wreq /\ tgt' = tgt /\ pc' = pc
  BY <1>3 DEF Continue, handlers
<1>4. CASE WorkerTopic \/ WorkerAudit
  <2>1. /\ UNCHANGED tables /\ Prepared(d)
        /\ \/ \E ok \in BOOLEAN : Finish(ok)
           \/ \E next \in {"check", "draft"} : Continue(next)
    BY <1>4 DEF WorkerTopic, WorkerAudit, PathInv
  <2>2. KeysInv'
    BY <2>1, KeysSame DEF tables
  <2>3. Prepared(d)'
    BY <2>1, PreparedKept DEF tables
  <2>4. CASE \E ok \in BOOLEAN : Finish(ok)
    BY <1>2, <2>2, <2>4, FreeWorker
  <2>5. CASE \E next \in {"check", "draft"} : Continue(next)
    <3>1. wpc' \in {"check", "draft"} /\ wreq' = wreq /\ tgt' = tgt
      BY <1>3, <2>5
    <3>2. QED
      BY <2>2, <2>3, <3>1 DEF PathInv
  <2>6. QED
    BY <2>1, <2>4, <2>5
<1>5. CASE WorkerCheck
  <2>1. UNCHANGED tables /\ Prepared(d) /\ \E next \in {"audit", "draft"} : Continue(next)
    BY <1>5 DEF WorkerCheck, PathInv
  <2>2. KeysInv' /\ Prepared(d)'
    BY <2>1, KeysSame, PreparedKept DEF tables
  <2>3. wpc' \in {"audit", "draft"} /\ wreq' = wreq /\ tgt' = tgt
    BY <1>3, <2>1
  <2>4. QED
    BY <2>2, <2>3 DEF PathInv
<1>6. CASE WorkerDraft
  <2>1. UNCHANGED tables /\ Prepared(d)
    BY <1>6 DEF WorkerDraft, PathInv
  <2>2. Continue("row") /\ wrow' = draft[d]
    BY <1>6, <2>1 DEF WorkerDraft, Prepared
  <2>3. KeysInv' /\ Prepared(d)' /\ draft' = draft
    BY <2>1, KeysSame, PreparedKept DEF tables
  <2>4. QED
    BY <1>3, <2>2, <2>3 DEF PathInv
<1>7. CASE WorkerRow
  <2>1. wrow = draft[d] /\ draft[d].status = "ReadyToPublish" /\ dsDraft[d] = draft[d].key
    BY <1>7 DEF WorkerRow, PathInv, Prepared
  <2>2. /\ live'[d] = [wrow EXCEPT !.status = "Live"] /\ UNCHANGED <<draft, dsDraft>>
        /\ wpc' = "sources" /\ wreq' = wreq /\ tgt' = tgt
    BY <1>1, <1>3, <1>7 DEF WorkerRow, TypeOK
  <2>3. live'[d].status = "Live" /\ live'[d].key = draft[d].key
    BY <1>1, <2>1, <2>2 DEF Row
  <2>4. KeysInv'
    BY <2>2, KeysSame
  <2>5. QED
    BY <2>1, <2>2, <2>3, <2>4 DEF PathInv, Published, Exists, IsLive
<1>8. CASE WorkerSources
  <2>1. Published(d) /\ draft[d].status = "ReadyToPublish" /\ dsDraft[d] = draft[d].key
    BY <1>8 DEF WorkerSources, PathInv
  <2>2. dsDraft[d] # 0
    BY <1>1, <2>1 DEF KeysInv, Exists
  <2>3. /\ source'[d] = [status |-> "Live", key |-> dsDraft[d]] /\ UNCHANGED <<draft, dsDraft, live>>
        /\ wpc' = "submit" /\ wreq' = wreq /\ tgt' = tgt
    BY <1>1, <1>3, <1>8, <2>2 DEF WorkerSources, TypeOK
  <2>4. KeysInv'
    BY <2>3, KeysSame
  <2>5. QED
    BY <2>1, <2>3, <2>4 DEF PathInv, Published, Exists, IsLive
<1>9. CASE WorkerSubmit
  <2>1. /\ Published(d) /\ source[d] = [status |-> "Live", key |-> live[d].key]
        /\ UNCHANGED <<draft, dsDraft, live, source>>
    BY <1>9 DEF WorkerSubmit, PathInv, tables
  <2>2. KeysInv'
    BY <2>1, KeysSame
  <2>3. CASE /\ supervisor' = IF d \notin Masters /\ source[d].status # "none"
                                THEN [supervisor EXCEPT ![d] = source[d].key] ELSE supervisor
             /\ Continue("drop_source")
    <3>1. d \in Events => supervisor'[d] = live[d].key
      BY <1>1, <2>1, <2>3 DEF Events, TypeOK
    <3>2. QED
      BY <1>3, <2>1, <2>2, <2>3, <3>1 DEF PathInv, Published, Exists, IsLive
  <2>4. CASE Continue("jobs")
    BY <1>3, <2>1, <2>2, <2>4 DEF PathInv, Published, IsLive
  <2>5. QED
    BY <1>9, <2>3, <2>4 DEF WorkerSubmit
<1>10. CASE WorkerDropSource
  <2>1. /\ Published(d) /\ source[d] = [status |-> "Live", key |-> live[d].key]
        /\ d \in Events => supervisor[d] = live[d].key
    BY <1>10 DEF WorkerDropSource, PathInv
  <2>2. /\ dsDraft' = [dsDraft EXCEPT ![d] = 0] /\ UNCHANGED <<draft, live, source, supervisor>>
        /\ wpc' = "drop_draft" /\ wreq' = wreq /\ tgt' = tgt
    BY <1>3, <1>10, <2>1 DEF WorkerDropSource, Published, engines
  <2>3. KeysInv'
    BY <2>2 DEF KeysInv, DraftSourceHasDraft, TypeOK
  <2>4. QED
    BY <1>1, <2>1, <2>2, <2>3 DEF PathInv, Published, Exists, IsLive, TypeOK
<1>11. CASE WorkerDropDraft
  <2>1. dsDraft[d] = 0 /\ IsLive(d)
    BY <1>11 DEF WorkerDropDraft, PathInv, Published
  <2>2. /\ draft' = [draft EXCEPT ![d] = NoRow] /\ UNCHANGED <<live, dsDraft>>
        /\ wpc' = "jobs" /\ wreq' = wreq /\ tgt' = tgt
    BY <1>3, <1>11 DEF WorkerDropDraft
  <2>3. KeysInv'
    BY <2>1, <2>2 DEF KeysInv, DraftSourceHasDraft, TypeOK, NoRow, Exists
  <2>4. QED
    BY <2>1, <2>2, <2>3 DEF PathInv, IsLive
<1>12. CASE WorkerJobs
  <2>1. /\ UNCHANGED tables /\ wpc' = "reply" /\ wreq' = wreq /\ tgt' = tgt /\ pc' = pc
        /\ pc[wreq] = "publish_sent" => IsLive(d)
    BY <1>3, <1>12 DEF WorkerJobs, PathInv
  <2>2. KeysInv'
    BY <2>1, KeysSame DEF tables
  <2>3. QED
    BY <2>1, <2>2 DEF PathInv, IsLive, tables
<1>13. CASE WorkerReply
  BY <1>2, <1>13, KeysSame, FreeWorker DEF WorkerReply, tables
<1>14. QED
  BY <1>4, <1>5, <1>6, <1>7, <1>8, <1>9, <1>10, <1>11, <1>12, <1>13 DEF WorkerStep

\* The only request waits for the answer, or has it.
LEMMA AnsweredSlot ==
  ASSUME TypeOK, NEW r \in Requests, pc[r] \in Waiting, cmd'[r] = "none",
         \/ pc'[r] = pc[r]
         \/ \E S : \E ok \in BOOLEAN : Answer(S, ok)
  PROVE  HandlerInv(r)' /\ CommandInv(r)'
<1>1. pc'[r] \in Waiting \cup {"idle", "failed", "publish_ok", "retire_ok"}
  BY DEF Answer, Answered
<1>2. QED
  BY <1>1, RestingSlot DEF Waiting, Publishing

LEMMA WorkerSequence ==
  ASSUME Sequential, TypeOK, ControlInv, SequenceInv, nextDb' # 0, WorkerStep
  PROVE  SequenceInv'
<1>1. /\ wpc # "idle"
      /\ UNCHANGED handlers \/ \E ok \in BOOLEAN : Answer({wreq}, ok) /\ cmd' = cmd
  BY WorkerStepFrame DEF Finish
<1>2. PICK r \in Requests :
        r = wreq /\ pc[r] \in Waiting /\ cmd[r] = "none" /\ \A q \in Requests : q = r
  BY <1>1 DEF Sequential, TypeOK, ControlInv
<1>3. HandlerInv(r)' /\ CommandInv(r)'
  BY <1>1, <1>2, AnsweredSlot DEF handlers
<1>4. KeysInv' /\ PathInv(tgt[wreq])'
  BY WorkerPath DEF SequenceInv
<1>5. \A q \in Requests : HandlerInv(q)' /\ CommandInv(q)'
  BY <1>2, <1>3
<1>6. QED
  BY <1>4, <1>5 DEF SequenceInv

\* It begins with a prepared draft, or with a restart.
LEMMA PickSequence ==
  ASSUME Sequential, TypeOK, ControlInv, SequenceInv, nextDb' # 0,
         NEW r \in Requests, WorkerPick(r)
  PROVE  SequenceInv'
<1>1. /\ cmd[r] # "none" /\ wreq' = r /\ cmd'[r] = "none" /\ UNCHANGED <<draft, dsDraft, live, pc, tgt>>
      /\ wpc' = IF cmd[r] = "PUBLISH_DATASET" THEN "topic" ELSE "jobs"
      /\ \A q \in Requests : q = r
  BY DEF WorkerPick, tables, TypeOK, Sequential
<1>2. HandlerInv(r)' /\ CommandInv(r)'
  BY <1>1, AnsweredSlot DEF ControlInv
<1>3. KeysInv'
  BY <1>1, KeysSame DEF SequenceInv
<1>4. CASE cmd[r] = "PUBLISH_DATASET"
  <2>1. Prepared(tgt[r])'
    BY <1>1, <1>4, PreparedKept DEF SequenceInv, CommandInv
  <2>2. PathInv(tgt[wreq])'
    BY <1>1, <1>4, <2>1 DEF PathInv
  <2>3. QED
    BY <1>1, <1>2, <1>3, <2>2 DEF SequenceInv
<1>5. CASE cmd[r] = "RESTART_PIPELINE"
  <2>1. pc[r] # "publish_sent"
    BY <1>5 DEF SequenceInv, CommandInv
  <2>2. PathInv(tgt[wreq])'
    BY <1>1, <1>5, <2>1 DEF PathInv
  <2>3. QED
    BY <1>1, <1>2, <1>3, <2>2 DEF SequenceInv
<1>6. QED
  BY <1>1, <1>4, <1>5 DEF TypeOK, Commands

\* A workflow that ends early leaves the tables alone.
LEMMA FailureSequence ==
  ASSUME Sequential, TypeOK, ControlInv, SequenceInv, nextDb' # 0, WorkerAbort \/ WorkerCrash
  PROVE  SequenceInv'
<1>1. /\ UNCHANGED <<draft, dsDraft>> /\ wpc # "idle" /\ wpc' = "idle"
      /\ \E S : \E ok \in BOOLEAN : Answer(S, ok)
      /\ cmd[wreq] = "none" => cmd'[wreq] = "none"
  <2>1. CASE WorkerAbort
    <3>1. Answer({wreq}, TRUE)
      BY <2>1 DEF WorkerAbort, Finish
    <3>2. QED
      BY <2>1, <3>1 DEF WorkerAbort, Finish, Free, tables
  <2>2. CASE WorkerCrash
    <3>1. wreq \in Requests
      BY <2>2 DEF WorkerCrash, TypeOK
    <3>2. PICK lost : /\ cmd' = [r \in Requests |-> IF r \in lost THEN "none" ELSE cmd[r]]
                      /\ Answer(lost \cup {wreq}, FALSE)
      BY <2>2 DEF WorkerCrash
    <3>3. QED
      BY <2>2, <3>1, <3>2 DEF WorkerCrash, Free, tables
  <2>3. QED
    BY <2>1, <2>2
<1>2. PICK r \in Requests :
        r = wreq /\ pc[r] \in Waiting /\ cmd[r] = "none" /\ \A q \in Requests : q = r
  BY <1>1 DEF Sequential, TypeOK, ControlInv
<1>3. HandlerInv(r)' /\ CommandInv(r)'
  BY <1>1, <1>2, AnsweredSlot
<1>4. KeysInv' /\ PathInv(tgt[wreq])'
  BY <1>1, KeysSame, FreeWorker DEF SequenceInv
<1>5. \A q \in Requests : HandlerInv(q)' /\ CommandInv(q)'
  BY <1>2, <1>3
<1>6. QED
  BY <1>4, <1>5 DEF SequenceInv

\* A restart of the API service leaves the workflow, and a command that was sent, as they are.
LEMMA ApiCrashSequence ==
  ASSUME TypeOK, ControlInv, SequenceInv, nextDb' # 0, ApiCrash
  PROVE  SequenceInv'
<1>1. /\ UNCHANGED <<draft, dsDraft, live, source, supervisor, worker>>
      /\ \A r \in Requests : /\ pc'[r] \in {"idle", "orphan"}
                             /\ \/ cmd'[r] = "none"
                                \/ cmd'[r] = cmd[r] /\ pc[r] \in Waiting /\ tgt'[r] = tgt[r]
      /\ wpc # "idle" => tgt'[wreq] = tgt[wreq] /\ pc'[wreq] = "orphan"
  <2>1. PICK lost \in SUBSET {r \in Requests : cmd[r] # "none"} :
          LET served == {r \in Requests \ lost : pc[r] \in {"publish_sent", "retire_sent", "orphan"}} IN
          /\ pc' = [r \in Requests |-> IF r \in served THEN "orphan" ELSE "idle"]
          /\ tgt' = [r \in Requests |-> IF r \in served THEN tgt[r] ELSE AnyDataset]
          /\ cmd' = [r \in Requests |-> IF r \in lost THEN "none" ELSE cmd[r]]
    BY DEF ApiCrash
  <2>2. QED
    BY <2>1 DEF ApiCrash, tables, engines, TypeOK, ControlInv, Waiting
<1>2. ASSUME NEW r \in Requests PROVE HandlerInv(r)' /\ CommandInv(r)'
  <2>1. HandlerInv(r)'
    BY <1>1 DEF HandlerInv, Publishing
  <2>2. cmd'[r] = "PUBLISH_DATASET" => Prepared(tgt[r])'
    BY <1>1 DEF SequenceInv, CommandInv, Prepared, Resolved, HasDb, IsLive
  <2>3. CommandInv(r)'
    BY <1>1, <2>2 DEF CommandInv
  <2>4. QED
    BY <2>1, <2>3
<1>3. PathInv(tgt[wreq])'
  <2>1. CASE wpc = "idle"
    BY <1>1, <2>1, FreeWorker DEF worker
  <2>2. CASE wpc # "idle"
    <3>1. Prepared(tgt[wreq]) => Prepared(tgt[wreq])'
      BY <1>1, <2>2, PreparedKept DEF worker
    <3>2. QED
      BY <1>1, <2>2, <3>1 DEF SequenceInv, PathInv, Published, IsLive, worker
  <2>3. QED
    BY <2>1, <2>2
<1>4. KeysInv'
  BY <1>1, KeysSame DEF SequenceInv
<1>5. QED
  BY <1>2, <1>3, <1>4 DEF SequenceInv

LEMMA SequenceStep ==
  Sequential /\ TypeOK /\ ControlInv /\ StatusInv /\ SequenceInv /\ [Next]_vars => SequenceInv'
<1> SUFFICES ASSUME Sequential, TypeOK, ControlInv, StatusInv, SequenceInv, [Next]_vars
             PROVE  SequenceInv'
  OBVIOUS
<1>1. nextDb' # 0
  BY NextDbUp DEF SequenceInv
<1>2. ASSUME NEW r \in Requests, NEW d \in Datasets, FirstStep(r, d) PROVE SequenceInv'
  BY <1>2, FirstStepSequence
<1>3. ASSUME NEW r \in Requests, NextStep(r) PROVE SequenceInv'
  BY <1>1, <1>3, NextStepSequence
<1>4. ASSUME NEW r \in Requests, WorkerPick(r) PROVE SequenceInv'
  BY <1>1, <1>4, PickSequence
<1>5. CASE WorkerStep \/ WorkerAbort \/ WorkerCrash
  BY <1>1, <1>5, WorkerSequence, FailureSequence
<1>6. CASE ApiCrash
  BY <1>1, <1>6, ApiCrashSequence
<1>7. CASE UNCHANGED vars
  <2> USE <1>7 DEF vars, tables, engines, counters, handlers, worker
  <2>1. Prepared(tgt[wreq]) => Prepared(tgt[wreq])'
    BY PreparedKept
  <2>2. \A r \in Requests : Prepared(tgt[r]) => Prepared(tgt[r])'
    BY PreparedKept
  <2>3. KeysInv' /\ PathInv(tgt[wreq])'
    BY <2>1, KeysSame DEF SequenceInv, PathInv, Published, IsLive
  <2>4. \A r \in Requests : HandlerInv(r)' /\ CommandInv(r)'
    BY <2>2 DEF SequenceInv, HandlerInv, CommandInv, Resolved, HasDb, IsLive
  <2>5. QED
    BY <2>3, <2>4 DEF SequenceInv
<1>8. QED
  BY <1>2, <1>3, <1>4, <1>5, <1>6, <1>7 DEF Next

\* The invariants together.
SequentialInv == TypeOK /\ ControlInv /\ StatusInv /\ SequenceInv

LEMMA SequentialInvariant ==
  ASSUME Sequential
  PROVE  Spec => []SequentialInv
<1>1. Init => SequentialInv
  BY TypeInit, ControlInit, StatusInit, SequenceInit DEF SequentialInv
<1>2. SequentialInv /\ [Next]_vars => SequentialInv'
  BY TypeStep, ControlStep, StatusStep, SequenceStep DEF SequentialInv
<1>3. QED
  BY <1>1, <1>2, PTL DEF Spec

\* An ingestion spec waits in datasources_draft only as long as its draft exists, whatever
\* fails and whenever the services restart (deleteDraftDataset, _delete_draft_dataset).
THEOREM DraftSources ==
  ASSUME Sequential
  PROVE  Spec => []DraftSourceHasDraft
<1>1. SequentialInv => DraftSourceHasDraft
  BY DEF SequentialInv, SequenceInv, KeysInv
<1>2. QED
  BY <1>1, SequentialInvariant, PTL

-----------------------------------------------------------------------------
(* What happens to drafts. *)

\* A handler other than that of a deletion keeps the drafts there are; it keeps a draft
\* ready to publish, unless it overwrites it by an import.
LEMMA DraftsStay ==
  ASSUME TypeOK, StatusInv, NEW r \in Requests, HandlerInv(r), NextStep(r), pc[r] # "delete_txn",
         NEW d \in Datasets
  PROVE  /\ Exists(draft[d]) => Exists(draft'[d])
         /\ draft[d].status = "ReadyToPublish" /\ pc[r] # "import_overwrite" =>
               draft'[d].status = "ReadyToPublish"
<1>1. tgt[r] \in Datasets /\ row[r] \in Row /\ draft[d] \in Row /\ draft[tgt[r]] \in Row /\ SlotInv(r)
  BY DEF TypeOK, StatusInv
<1>2. ASSUME NEW x, InsertDraft(tgt[r], x), Exists(draft[d]) PROVE draft'[d] = draft[d]
  BY <1>1, <1>2 DEF InsertDraft, TypeOK
<1>3. ASSUME NEW x, SaveDraft(tgt[r], x), NEW s \in Statuses, x.status = s PROVE draft'[d].status \in {draft[d].status, s}
  BY <1>1, <1>3 DEF SaveDraft, TypeOK
<1>4. CASE CreateInsert(r) \/ EditInsert(r) \/ ImportInsert(r) \/ CopyInsert(r)
  BY <1>2, <1>4 DEF CreateInsert, EditInsert, ImportInsert, CopyInsert, Exists
<1>5. CASE UpdateWrite(r)
  <2>1. PICK fields, db : SaveDraft(tgt[r], Updated(draft[tgt[r]], fields, db))
    BY <1>5 DEF UpdateWrite
  <2>2. Updated(draft[tgt[r]], fields, db).status = draft[tgt[r]].status
    BY <1>1 DEF Updated, Row
  <2>3. draft'[d].status = draft[d].status
    BY <1>1, <2>1, <2>2 DEF SaveDraft, TypeOK
  <2>4. QED
    BY <2>3 DEF Exists
<1>6. CASE ReadyWrite(r)
  <2>1. [row[r] EXCEPT !.status = "ReadyToPublish"].status = "ReadyToPublish"
    BY <1>1 DEF Row
  <2>2. draft'[d].status \in {draft[d].status, "ReadyToPublish"}
    BY <1>3, <1>6, <2>1 DEF ReadyWrite, Statuses
  <2>3. QED
    BY <2>2 DEF Exists
<1>7. CASE PublishSave(r)
  <2>1. row[r].status = "ReadyToPublish"
    BY <1>7 DEF PublishSave, At, HandlerInv, Publishing
  <2>2. draft'[d].status \in {draft[d].status, "ReadyToPublish"}
    BY <1>3, <1>7, <2>1 DEF PublishSave, Statuses
  <2>3. QED
    BY <2>2 DEF Exists
<1>8. CASE ImportOverwrite(r)
  <2>1. [row[r] EXCEPT !.key = NewKey].status = "Draft" /\ pc[r] = "import_overwrite"
    BY <1>1, <1>8 DEF ImportOverwrite, At, SlotInv, Row
  <2>2. draft'[d].status \in {draft[d].status, "Draft"}
    BY <1>3, <1>8, <2>1 DEF ImportOverwrite, Statuses
  <2>3. QED
    BY <2>1, <2>2 DEF Exists
<1>9. CASE \/ EditReadLive(r) \/ EditMapDenorm(r) \/ ReadyRead(r) \/ PublishRead(r)
           \/ PublishDenorm(r) \/ PublishAlloc(r) \/ RetireDeps(r) \/ RetireSave(r)
           \/ RetireStop(r) \/ Respond(r)
  BY <1>9 DEF EditReadLive, EditMapDenorm, ReadyRead, PublishRead, PublishDenorm, PublishAlloc,
     RetireDeps, RetireSave, RetireStop, Respond, tables
<1>10. QED
  BY <1>4, <1>5, <1>6, <1>7, <1>8, <1>9 DEF NextStep, DeleteTxn, At

\* Of the worker's steps only the deletion of the draft touches datasets_draft.
LEMMA WorkerDrafts ==
  ASSUME WorkerStep, wpc # "drop_draft"
  PROVE  draft' = draft
  BY DEF WorkerStep, WorkerTopic, WorkerCheck, WorkerAudit, WorkerDraft, WorkerRow, WorkerSources,
     WorkerSubmit, WorkerDropSource, WorkerDropDraft, WorkerJobs, WorkerReply, tables

\* A draft disappears only when a client deletes it or when its content is Live: the
\* workflow deletes it last, and nobody has replaced the row of datasets meanwhile.
THEOREM DraftsKept ==
  ASSUME Sequential
  PROVE  Spec => DraftKept
<1>1. ASSUME SequentialInv, [Next]_vars, NEW d \in Datasets, Exists(draft[d]), ~Exists(draft'[d])
      PROVE  live[d].key = draft[d].key \/ \E r \in Requests : At(r, "delete_txn") /\ tgt[r] = d
  <2>1. ASSUME NEW r \in Requests, NextStep(r)
        PROVE  \E q \in Requests : At(q, "delete_txn") /\ tgt[q] = d
    <3>1. pc[r] = "delete_txn"
      BY <1>1, <2>1, DraftsStay DEF SequentialInv, SequenceInv
    <3>2. DeleteTxn(r)
      BY <2>1, <3>1 DEF NextStep, CreateInsert, UpdateWrite, EditReadLive, EditMapDenorm, EditInsert,
         ReadyRead, ReadyWrite, PublishRead, PublishDenorm, PublishAlloc, PublishSave, RetireDeps,
         RetireSave, RetireStop, Respond, ImportInsert, ImportOverwrite, CopyInsert, At
    <3>3. tgt[r] = d
      BY <1>1, <3>2 DEF DeleteTxn, SequentialInv, TypeOK
    <3>4. QED
      BY <3>1, <3>3 DEF At
  <2>2. CASE WorkerStep
    <3>1. WorkerDropDraft
      BY <1>1, <2>2, WorkerDrafts DEF WorkerStep, WorkerTopic, WorkerCheck, WorkerAudit, WorkerDraft,
         WorkerRow, WorkerSources, WorkerSubmit, WorkerDropSource, WorkerJobs, WorkerReply
    <3>2. tgt[wreq] = d /\ wpc = "drop_draft"
      BY <1>1, <3>1 DEF WorkerDropDraft, SequentialInv, TypeOK
    <3>3. QED
      BY <1>1, <3>2 DEF SequentialInv, SequenceInv, PathInv, Published
  <2>3. draft' # draft
    BY <1>1
  <2>4. CASE \/ \E r \in Requests, e \in Datasets : FirstStep(r, e)
             \/ \E r \in Requests : WorkerPick(r)
             \/ WorkerAbort \/ WorkerCrash \/ ApiCrash \/ UNCHANGED vars
    BY <1>1, <2>3, <2>4, FirstStepFrame
    DEF SequentialInv, WorkerPick, WorkerAbort, WorkerCrash, ApiCrash, vars, tables
  <2>5. QED
    BY <1>1, <2>1, <2>2, <2>4 DEF Next
<1>2. SequentialInv /\ [Next]_vars =>
        [\A d \in Datasets :
           Exists(draft[d]) /\ ~Exists(draft'[d]) =>
              \/ live[d].key = draft[d].key
              \/ \E r \in Requests : At(r, "delete_txn") /\ tgt[r] = d]_vars
  BY <1>1
<1>3. QED
  BY <1>2, SequentialInvariant, PTL DEF Spec, DraftKept

-----------------------------------------------------------------------------
(* What goes Live, and what the client is told. *)

\* While the worker has a draft in its hands, only it writes the table datasets.
LEMMA RowMakesLive ==
  ASSUME Sequential, SequentialInv, [Next]_vars, NEW d \in Datasets, MadeLive(d)
  PROVE  WorkerRow
<1>1. wpc = "row" /\ live' # live /\ \A r \in Requests : pc[r] \in Waiting
  BY Alone DEF MadeLive, SequentialInv
<1>2. ~\E r \in Requests, e \in Datasets : FirstStep(r, e)
  BY <1>1, FirstStepFrame DEF SequentialInv, Waiting
<1>3. ~\E r \in Requests : NextStep(r)
  BY <1>1, NextStepFrame DEF SequentialInv
<1>4. WorkerStep
  BY <1>1, <1>2, <1>3 DEF Next, WorkerPick, WorkerAbort, WorkerCrash, ApiCrash, vars, tables
<1>5. QED
  BY <1>1, <1>4 DEF WorkerStep, WorkerTopic, WorkerCheck, WorkerAudit, WorkerDraft,
     WorkerSources, WorkerSubmit, WorkerDropSource, WorkerDropDraft, WorkerJobs, WorkerReply

\* A dataset goes Live only with masters that are Live, and with the Redis database of each:
\* what validateAndUpdateDenormConfig has found still holds when the worker writes the row.
THEOREM DenormResolved ==
  ASSUME Sequential
  PROVE  Spec => DenormResolvedWhenMadeLive
<1>1. ASSUME SequentialInv, [Next]_vars, NEW d \in Datasets, MadeLive(d)
      PROVE  \A f \in live'[d].denorm : IsLive(f.ds) /\ f.db = live[f.ds].redis
  <2>1. WorkerRow /\ tgt[wreq] = d /\ wpc = "row"
    BY <1>1, RowMakesLive DEF MadeLive
  <2>2. wrow = draft[d] /\ Resolved(d, draft[d]) /\ draft[d] \in Row
    BY <1>1, <2>1 DEF SequentialInv, SequenceInv, PathInv, Prepared, TypeOK
  <2>3. live'[d] = [draft[d] EXCEPT !.status = "Live"]
    BY <1>1, <2>1, <2>2 DEF WorkerRow, SequentialInv, TypeOK
  <2>4. live'[d].denorm = draft[d].denorm
    BY <2>2, <2>3 DEF Row
  <2>5. QED
    BY <2>2, <2>4 DEF Resolved
<1>2. SequentialInv /\ [Next]_vars =>
        [\A d \in Datasets :
           MadeLive(d) => \A f \in live'[d].denorm : IsLive(f.ds) /\ f.db = live[f.ds].redis]_vars
  BY <1>1
<1>3. QED
  BY <1>2, SequentialInvariant, PTL DEF Spec, DenormResolvedWhenMadeLive

\* When the client is told that the transition to Live succeeded, the dataset is Live,
\* unless a connection error ended the workflow early: that is answered as a success too.
THEOREM PublishSuccess ==
  ASSUME Sequential, "abort" \notin Faults
  PROVE  Spec => []PublishSuccessMeansLive
<1>1. Init => PublishSuccessMeansLive
  BY DEF Init, PublishSuccessMeansLive, At
<1>2. ASSUME SequentialInv, PublishSuccessMeansLive, [Next]_vars, NEW r \in Requests, pc'[r] = "publish_ok"
      PROVE  IsLive(tgt[r])'
  <2>1. \A q \in Requests : q = r
    BY DEF Sequential
  <2>2. CASE \E q \in Requests, d \in Datasets : FirstStep(q, d)
    <3>1. PICK d \in Datasets : FirstStep(r, d)
      BY <2>1, <2>2
    <3>2. \E next \in ApiPcs \ {"publish_ok"} : pc' = [pc EXCEPT ![r] = next]
      BY <3>1 DEF FirstStep, CreateCheck, UpdateRead, EditReadDraft,
         ReadyCheck, PublishCheck, RetireCheck, DeleteCheck, ImportRead, CopyRead, Begin, ApiPcs
    <3>3. QED
      BY <1>2, <3>2 DEF SequentialInv, TypeOK
  <2>3. CASE \E q \in Requests : NextStep(q)
    <3>1. NextStep(r)
      BY <2>1, <2>3
    <3>2. pc'[r] # "publish_ok"
      BY <1>2, <3>1 DEF SequentialInv, TypeOK, NextStep, CreateInsert, UpdateWrite, EditReadLive,
         EditMapDenorm, EditInsert, ReadyRead, ReadyWrite, PublishRead, PublishDenorm, PublishAlloc,
         PublishSave, RetireDeps, RetireSave, RetireStop, Respond, DeleteTxn, ImportInsert,
         ImportOverwrite, CopyInsert, Done, Goto, Send, AllocOrSave, At
    <3>3. QED
      BY <1>2, <3>2
  <2>4. CASE pc[r] = "publish_ok" /\ ~\E q \in Requests : NextStep(q)
    <3>1. wpc = "idle" /\ pc[r] \notin Waiting /\ cmd[r] = "none"
      BY <1>2, <2>4, Alone DEF SequentialInv, Waiting
    <3>2. pc[r] # "idle"
      BY <2>4
    <3>3. UNCHANGED <<live, tgt>> \/ ApiCrash
      BY <1>2, <2>1, <2>4, <3>1, <3>2, FirstStepFrame
      DEF Next, SequentialInv, WorkerStep, WorkerTopic, WorkerCheck, WorkerAudit, WorkerDraft, WorkerRow,
         WorkerSources, WorkerSubmit, WorkerDropSource, WorkerDropDraft, WorkerJobs, WorkerReply,
         WorkerPick, WorkerAbort, WorkerCrash, vars, tables, handlers
    <3>4. IsLive(tgt[r])
      BY <1>2, <2>4 DEF PublishSuccessMeansLive, At
    <3>5. ~ApiCrash
      BY <1>2 DEF ApiCrash
    <3>6. QED
      BY <3>3, <3>4, <3>5 DEF IsLive
  <2>5. CASE pc[r] # "publish_ok" /\ WorkerStep
    <3>1. PICK ok \in BOOLEAN : Finish(ok)
      BY <1>2, <2>5, WorkerStepFrame DEF handlers
    <3>2. wpc # "idle" /\ wreq = r
      BY <1>2, <2>1, <2>5, WorkerStepFrame DEF SequentialInv, TypeOK
    <3>3. pc[r] = "publish_sent" /\ ok /\ tgt'[r] = tgt[r]
      BY <1>2, <3>1, <3>2 DEF Finish, Answer, Answered, SequentialInv, TypeOK, ControlInv, Waiting
    <3>4. WorkerReply
      <4>1. ~UNCHANGED handlers
        BY <1>2, <2>5 DEF handlers
      <4>2. ~Finish(FALSE)
        BY <1>2, <3>2, <3>3 DEF Finish, Answer, Answered
      <4>3. \A next : ~Continue(next)
        BY <4>1 DEF Continue
      <4>4. QED
        BY <2>5, <4>2, <4>3 DEF WorkerStep, WorkerTopic, WorkerCheck, WorkerAudit, WorkerDraft, WorkerRow,
           WorkerSources, WorkerSubmit, WorkerDropSource, WorkerDropDraft, WorkerJobs
    <3>5. QED
      BY <1>2, <3>2, <3>3, <3>4 DEF WorkerReply, SequentialInv, SequenceInv, PathInv, IsLive, tables
  <2>6. CASE pc[r] # "publish_ok" /\ ~WorkerStep /\ ~(\E q \in Requests : NextStep(q))
             /\ ~(\E q \in Requests, d \in Datasets : FirstStep(q, d))
    <3>1. CASE WorkerCrash
      BY <1>2, <2>6, <3>1 DEF WorkerCrash, Answer, Answered
    <3>2. CASE ApiCrash
      BY <1>2, <3>2 DEF ApiCrash
    <3>3. CASE (\E q \in Requests : WorkerPick(q)) \/ WorkerAbort \/ UNCHANGED vars
      BY <1>2, <2>6, <3>3 DEF WorkerPick, WorkerAbort, vars, handlers
    <3>4. QED
      BY <1>2, <2>6, <3>1, <3>2, <3>3 DEF Next
  <2>7. QED
    BY <2>2, <2>3, <2>4, <2>5, <2>6
<1>3. SequentialInv /\ PublishSuccessMeansLive /\ [Next]_vars => PublishSuccessMeansLive'
  BY <1>2 DEF PublishSuccessMeansLive, At
<1>4. QED
  BY <1>1, <1>3, SequentialInvariant, PTL DEF Spec

-----------------------------------------------------------------------------
(* Who writes what Druid, the pipeline and the clients see. *)

\* Only the worker and a retirement write the table datasets.
LEMMA LiveWriters ==
  ASSUME TypeOK, [Next]_vars
  PROVE  live' = live \/ WorkerRow \/ \E r \in Requests : RetireSave(r)
<1>1. ASSUME NEW r \in Requests, NextStep(r) PROVE live' = live \/ RetireSave(r)
  BY <1>1 DEF NextStep, CreateInsert, UpdateWrite, EditReadLive, EditMapDenorm, EditInsert, ReadyRead,
     ReadyWrite, PublishRead, PublishDenorm, PublishAlloc, PublishSave, RetireDeps, RetireStop,
     Respond, DeleteTxn, ImportInsert, ImportOverwrite, CopyInsert, tables
<1>2. CASE WorkerStep
  BY <1>2 DEF WorkerStep, WorkerTopic, WorkerCheck, WorkerAudit, WorkerDraft, WorkerSources,
     WorkerSubmit, WorkerDropSource, WorkerDropDraft, WorkerJobs, WorkerReply, tables
<1>3. QED
  BY <1>1, <1>2, FirstStepFrame
  DEF Next, WorkerPick, WorkerAbort, WorkerCrash, ApiCrash, vars, tables

\* A handler that does not retire changes nothing of what is ingested.
LEMMA QuietHandler ==
  ASSUME NEW r \in Requests, NextStep(r), pc[r] \notin {"retire_save", "retire_stop"}
  PROVE  UNCHANGED <<live, source, supervisor, pipeline>>
  BY DEF NextStep, CreateInsert, UpdateWrite, EditReadLive, EditMapDenorm, EditInsert, ReadyRead,
     ReadyWrite, PublishRead, PublishDenorm, PublishAlloc, PublishSave, RetireDeps, RetireSave,
     RetireStop, Respond, DeleteTxn, ImportInsert, ImportOverwrite, CopyInsert, At, tables, engines

LEMMA RetiringHandler ==
  ASSUME NEW r \in Requests, NextStep(r), pc[r] \in {"retire_save", "retire_stop"}
  PROVE  RetireSave(r) \/ RetireStop(r)
  BY DEF NextStep, CreateInsert, UpdateWrite, EditReadLive, EditMapDenorm, EditInsert, ReadyRead,
     ReadyWrite, PublishRead, PublishDenorm, PublishAlloc, PublishSave, RetireDeps,
     Respond, DeleteTxn, ImportInsert, ImportOverwrite, CopyInsert, At

\* The steps that change neither tables nor engines.
Idling ==
    \/ \E r \in Requests, d \in Datasets : FirstStep(r, d)
    \/ \E r \in Requests : WorkerPick(r)
    \/ WorkerAbort \/ WorkerCrash \/ ApiCrash
    \/ UNCHANGED vars

LEMMA IdlingFrame ==
  ASSUME TypeOK, Idling
  PROVE  UNCHANGED <<tables, engines>>
  BY FirstStepFrame DEF Idling, WorkerPick, WorkerAbort, WorkerCrash, ApiCrash, vars

LEMMA NextCases ==
  ASSUME [Next]_vars
  PROVE  Idling \/ WorkerStep \/ \E r \in Requests : NextStep(r)
  BY DEF Next, Idling

-----------------------------------------------------------------------------
(* A failed publication can be repeated. *)

\* The handlers that delete or overwrite a draft.
Destructive == {"delete_txn", "import_insert", "import_overwrite"}

\* A Live event dataset that is not ingested as configured has a draft ready to publish.
RetryInv ==
    /\ \A r \in Requests : pc[r] \notin Destructive
    /\ \A d \in Events : IsLive(d) /\ supervisor[d] # live[d].key => draft[d].status = "ReadyToPublish"

\* Without deletions and imports, no handler is one of those.
LEMMA NoDestruction ==
  ASSUME Kinds \cap {"Delete", "Import"} = {}, TypeOK, [Next]_vars,
         \A r \in Requests : pc[r] \notin Destructive
  PROVE  \A r \in Requests : pc'[r] \notin Destructive
<1> USE DEF Destructive
<1>1. ASSUME NEW r \in Requests, NEW d \in Datasets, FirstStep(r, d)
      PROVE  \A q \in Requests : pc'[q] \notin Destructive
  <2>1. \E next \in ApiPcs \ Destructive : pc' = [pc EXCEPT ![r] = next]
    BY <1>1 DEF FirstStep, CreateCheck, UpdateRead, EditReadDraft, ReadyCheck, PublishCheck,
       RetireCheck, DeleteCheck, ImportRead, CopyRead, Begin, ApiPcs
  <2>2. QED
    BY <2>1 DEF TypeOK
<1>2. ASSUME NEW r \in Requests, NextStep(r)
      PROVE  \A q \in Requests : pc'[q] \notin Destructive
  <2>1. pc'[r] \notin Destructive
    BY <1>2 DEF TypeOK, NextStep, CreateInsert, UpdateWrite, EditReadLive,
       EditMapDenorm, EditInsert, ReadyRead, ReadyWrite, PublishRead, PublishDenorm, PublishAlloc,
       PublishSave, RetireDeps, RetireSave, RetireStop, Respond, DeleteTxn, ImportInsert,
       ImportOverwrite, CopyInsert, Done, Goto, Send, AllocOrSave, At
  <2>2. QED
    BY <1>2, <2>1, NextStepFrame
<1>3. CASE WorkerStep
  BY <1>3, WorkerStepFrame DEF Finish, Answer, Answered, handlers
<1>4. CASE (\E r \in Requests : WorkerPick(r)) \/ WorkerAbort \/ WorkerCrash \/ ApiCrash \/ UNCHANGED vars
  BY <1>4 DEF WorkerPick, WorkerAbort, WorkerCrash, ApiCrash, Finish, Answer, Answered, vars, handlers
<1>5. QED
  BY <1>1, <1>2, <1>3, <1>4 DEF Next

LEMMA RetryStep ==
  ASSUME Sequential, Kinds \cap {"Delete", "Import"} = {}, SequentialInv, RetryInv, [Next]_vars
  PROVE  RetryInv'
<1> USE DEF SequentialInv
<1>1. \A r \in Requests : pc'[r] \notin Destructive
  BY NoDestruction DEF RetryInv
<1>2. ASSUME NEW d \in Events, IsLive(d)', supervisor'[d] # live'[d].key
      PROVE  draft'[d].status = "ReadyToPublish"
  <2>1. d \in Datasets /\ d \notin Masters
    BY DEF Events
  <2>2. live'[d] = live[d] /\ supervisor'[d] = supervisor[d] => draft[d].status = "ReadyToPublish"
    BY <1>2 DEF RetryInv, IsLive
  <2>3. ASSUME NEW r \in Requests, NextStep(r) PROVE draft'[d].status = "ReadyToPublish"
    <3>1. HandlerInv(r) /\ pc[r] \notin Destructive /\ tgt[r] \in Datasets
      BY DEF SequenceInv, RetryInv, TypeOK
    <3>2. CASE RetireSave(r)
      <4>1. live'[tgt[r]] = [live[tgt[r]] EXCEPT !.status = "Retired"] \/ live' = live
        BY <3>1, <3>2 DEF RetireSave, TypeOK
      <4>2. d # tgt[r] \/ live' = live
        BY <1>2, <2>1, <3>1, <4>1 DEF IsLive, TypeOK, Row
      <4>3. live'[d] = live[d] /\ supervisor' = supervisor /\ draft' = draft
        BY <2>1, <3>1, <3>2, <4>2 DEF RetireSave, TypeOK, engines
      <4>4. QED
        BY <2>2, <4>3
    <3>3. CASE RetireStop(r)
      <4>1. live[tgt[r]].status = "Retired" /\ live' = live /\ draft' = draft
        BY <3>1, <3>3 DEF RetireStop, At, HandlerInv, tables
      <4>2. d # tgt[r]
        BY <1>2, <4>1 DEF IsLive
      <4>3. supervisor'[d] = supervisor[d]
        BY <2>1, <3>3, <4>2 DEF RetireStop, TypeOK
      <4>4. QED
        BY <2>2, <4>1, <4>3
    <3>4. CASE pc[r] \notin {"retire_save", "retire_stop"}
      <4>1. draft[d].status = "ReadyToPublish"
        BY <2>2, <2>3, <3>4, QuietHandler
      <4>2. QED
        BY <2>1, <2>3, <3>1, <4>1, DraftsStay DEF Destructive
    <3>5. QED
      BY <2>3, <3>2, <3>3, <3>4, RetiringHandler
  <2>4. CASE WorkerStep
    <3>1. wreq \in Requests /\ PathInv(tgt[wreq])
      BY <2>4, WorkerStepFrame DEF TypeOK, SequenceInv
    <3>2. CASE d # tgt[wreq]
      <4>1. live'[d] = live[d] /\ supervisor'[d] = supervisor[d] /\ draft'[d] = draft[d]
        BY <2>1, <2>4, <3>1, <3>2
        DEF WorkerStep, WorkerTopic, WorkerCheck, WorkerAudit, WorkerDraft, WorkerRow, WorkerSources,
            WorkerSubmit, WorkerDropSource, WorkerDropDraft, WorkerJobs, WorkerReply, tables, engines, TypeOK
      <4>2. QED
        BY <2>2, <4>1
    <3>3. CASE d = tgt[wreq] /\ wpc \in {"topic", "check", "audit", "draft", "row", "sources", "submit"}
      <4>1. draft[d].status = "ReadyToPublish"
        BY <3>1, <3>3 DEF PathInv, Prepared
      <4>2. QED
        BY <2>4, <3>3, <4>1, WorkerDrafts
    <3>4. CASE d = tgt[wreq] /\ wpc \in {"drop_source", "drop_draft"}
      <4>1. supervisor[d] = live[d].key
        BY <3>1, <3>4 DEF PathInv
      <4>2. live' = live /\ supervisor' = supervisor
        BY <2>4, <3>4
        DEF WorkerStep, WorkerTopic, WorkerCheck, WorkerAudit, WorkerDraft, WorkerRow, WorkerSources,
            WorkerSubmit, WorkerDropSource, WorkerDropDraft, WorkerJobs, WorkerReply, tables, engines
      <4>3. QED
        BY <1>2, <4>1, <4>2
    <3>5. CASE wpc \in {"jobs", "reply"}
      <4>1. UNCHANGED tables /\ supervisor' = supervisor
        BY <2>4, <3>5
        DEF WorkerStep, WorkerTopic, WorkerCheck, WorkerAudit, WorkerDraft, WorkerRow, WorkerSources,
            WorkerSubmit, WorkerDropSource, WorkerDropDraft, WorkerJobs, WorkerReply, engines
      <4>2. QED
        BY <2>2, <4>1 DEF tables
    <3>6. wpc # "idle" /\ wpc \in WorkerPcs
      BY <2>4, WorkerStepFrame DEF TypeOK
    <3>7. QED
      BY <3>2, <3>3, <3>4, <3>5, <3>6 DEF WorkerPcs
  <2>5. CASE Idling
    BY <2>2, <2>5, IdlingFrame DEF tables, engines
  <2>6. QED
    BY <2>3, <2>4, <2>5, NextCases
<1>3. QED
  BY <1>1, <1>2 DEF RetryInv, IsLive, Events

\* A publication that failed can be repeated, wherever the worker, its connections or
\* either service failed, as long as nobody deletes or overwrites the draft.
THEOREM FailedPublishRetryable ==
  ASSUME Sequential, Kinds \cap {"Delete", "Import"} = {}
  PROVE  Spec => []FailedPublishIsRetryable
<1>1. Init => RetryInv
  BY DEF Init, RetryInv, Destructive, NoRow, IsLive, Events
<1>2. SequentialInv /\ RetryInv /\ [Next]_vars => RetryInv'
  BY RetryStep
<1>3. RetryInv => FailedPublishIsRetryable
  BY DEF RetryInv, FailedPublishIsRetryable
<1>4. QED
  BY <1>1, <1>2, <1>3, SequentialInvariant, PTL DEF Spec

-----------------------------------------------------------------------------
(* What is ingested is what is Live. *)

\* The key of the configuration that should be running.
Target(d) == IF IsLive(d) THEN live[d].key ELSE 0

Settled(d) ==
    /\ d \in Events => supervisor[d] = Target(d)
    /\ IsLive(d) => source[d] = [status |-> "Live", key |-> live[d].key]
    /\ pipeline[d] = Target(d)

\* A retirement of d that has still to stop its supervisor, or to restart the pipeline.
Stopping(d)   == \E r \in Requests : pc[r] = "retire_stop" /\ tgt[r] = d
Restarting(d) == \E r \in Requests : cmd[r] = "RESTART_PIPELINE" /\ tgt[r] = d

\* The steps in the course of which each of the three may disagree with datasets.
Settling(d) ==
    /\ d \in Events =>
          \/ supervisor[d] = Target(d)
          \/ wpc \in {"sources", "submit"} /\ tgt[wreq] = d
          \/ Stopping(d) /\ source[d].status # "none"
    /\ IsLive(d) =>
          \/ source[d] = [status |-> "Live", key |-> live[d].key]
          \/ wpc = "sources" /\ tgt[wreq] = d
    /\ \/ pipeline[d] = Target(d)
       \/ wpc \in {"sources", "submit", "drop_source", "drop_draft", "jobs"} /\ tgt[wreq] = d
       \/ Stopping(d) \/ Restarting(d)

ConsistentInv == \A d \in Datasets : Settling(d)

\* Outside those steps a dataset is settled, and it is settled if nothing changes.
LEMMA SettledAtRest ==
  ASSUME NEW d \in Datasets, Settling(d), wpc \in {"idle", "topic", "check", "audit", "draft", "row", "reply"},
         \A r \in Requests : pc[r] # "retire_stop" /\ cmd[r] # "RESTART_PIPELINE"
  PROVE  Settled(d)
  BY DEF Settling, Settled, Stopping, Restarting

LEMMA SettledKept ==
  ASSUME NEW d \in Datasets, Settled(d), UNCHANGED <<live, source, supervisor, pipeline>>
  PROVE  Settling(d)'
  BY DEF Settling, Settled, Target, IsLive

LEMMA HandlerConsistent ==
  ASSUME Sequential, Faults \subseteq {"rollback"}, SequentialInv, ConsistentInv,
         NEW r \in Requests, NextStep(r), NEW d \in Datasets
  PROVE  Settling(d)'
<1> USE DEF SequentialInv
<1>1. wpc = "idle" /\ cmd[r] = "none" /\ \A q \in Requests : q = r
  BY NextStepFrame, Alone
<1>2. tgt[r] \in Datasets /\ live[tgt[r]] \in Row /\ HandlerInv(r) /\ Settling(d)
  BY DEF TypeOK, SequenceInv, ConsistentInv
<1>3. CASE pc[r] \notin {"retire_save", "retire_stop"}
  BY <1>1, <1>2, <1>3, QuietHandler, SettledAtRest, SettledKept
<1>4. CASE RetireSave(r)
  <2>1. Settled(d) /\ IsLive(tgt[r])
    BY <1>1, <1>2, <1>4, SettledAtRest DEF RetireSave, At, HandlerInv
  <2>2. CASE UNCHANGED <<live, source>>
    BY <1>4, <2>1, <2>2, SettledKept DEF RetireSave, engines
  <2>3. CASE ~UNCHANGED <<live, source>>
    <3>1. /\ live' = [live EXCEPT ![tgt[r]] = [live[tgt[r]] EXCEPT !.status = "Retired"]]
          /\ source' = IF source[tgt[r]].status = "none" THEN source
                       ELSE [source EXCEPT ![tgt[r]] = [source[tgt[r]] EXCEPT !.status = "Retired"]]
          /\ pc'[r] = "retire_stop" /\ tgt'[r] = tgt[r] /\ UNCHANGED <<supervisor, pipeline>>
      BY <1>4, <2>3 DEF RetireSave, Goto, engines, TypeOK
    <3>2. CASE d # tgt[r]
      <4>1. live'[d] = live[d] /\ source'[d] = source[d]
        BY <1>2, <3>1, <3>2 DEF TypeOK
      <4>2. QED
        BY <2>1, <3>1, <4>1 DEF Settling, Settled, Target, IsLive
    <3>3. CASE d = tgt[r]
      <4>1. live'[d].status = "Retired"
        BY <1>2, <3>1, <3>3 DEF TypeOK, Row
      <4>2. source[d].status = "Live"
        BY <2>1, <3>3 DEF Settled
      <4>3. source'[d].status = "Retired"
        BY <1>2, <3>1, <3>3, <4>2 DEF TypeOK, SourceRow
      <4>4. Stopping(d)'
        BY <3>1, <3>3 DEF Stopping
      <4>5. QED
        BY <4>1, <4>3, <4>4 DEF Settling, IsLive
    <3>4. QED
      BY <3>2, <3>3
  <2>4. QED
    BY <2>2, <2>3
<1>5. CASE RetireStop(r)
  <2>1. /\ live[tgt[r]].status = "Retired" /\ UNCHANGED <<live, source, pipeline>>
        /\ supervisor' = IF tgt[r] \in Masters \/ source[tgt[r]].status = "none" THEN supervisor
                         ELSE [supervisor EXCEPT ![tgt[r]] = 0]
        /\ cmd'[r] = "RESTART_PIPELINE" /\ tgt'[r] = tgt[r]
    BY <1>2, <1>5 DEF RetireStop, At, HandlerInv, Send, Goto, tables, TypeOK
  <2>2. CASE d # tgt[r]
    <3>1. Settled(d)
      BY <1>1, <1>2, <2>2 DEF Settling, Settled, Stopping, Restarting
    <3>2. supervisor'[d] = supervisor[d]
      BY <1>2, <2>1, <2>2 DEF TypeOK
    <3>3. QED
      BY <2>1, <3>1, <3>2 DEF Settling, Settled, Target, IsLive
  <2>3. CASE d = tgt[r]
    <3>1. Restarting(d)' /\ ~IsLive(d)'
      BY <2>1, <2>3 DEF Restarting, IsLive
    <3>2. d \in Events => supervisor'[d] = 0
      BY <1>1, <1>2, <2>1, <2>3 DEF Settling, Target, IsLive, Events, TypeOK
    <3>3. QED
      BY <3>1, <3>2 DEF Settling, Target
  <2>4. QED
    BY <2>2, <2>3
<1>6. QED
  BY <1>3, <1>4, <1>5, RetiringHandler

LEMMA WorkerConsistent ==
  ASSUME Sequential, Faults \subseteq {"rollback"}, SequentialInv, ConsistentInv, WorkerStep,
         NEW d \in Datasets
  PROVE  Settling(d)'
<1> USE DEF SequentialInv
<1>1. wreq \in Requests /\ PathInv(tgt[wreq]) /\ Settling(d) /\ wpc # "idle"
  BY WorkerStepFrame DEF TypeOK, SequenceInv, ConsistentInv
<1>2. PICK e \in Datasets : e = tgt[wreq]
  BY <1>1 DEF TypeOK
<1>3. /\ \A r \in Requests : pc[r] # "retire_stop" /\ cmd[r] # "RESTART_PIPELINE"
      /\ draft[e] \in Row /\ live[e] \in Row
  <2>1. \A r \in Requests : pc[r] \in Waiting /\ cmd[r] = "none"
    BY <1>1 DEF Sequential, ControlInv
  <2>2. QED
    BY <2>1 DEF Waiting, TypeOK
<1>4. ASSUME NEW next, Continue(next) PROVE wpc' = next /\ tgt'[wreq'] = e
  BY <1>2, <1>4 DEF Continue, handlers
<1>5. PathInv(e)'
  <2>1. CASE \E next : Continue(next)
    <3>1. tgt'[wreq'] = e
      BY <1>4, <2>1
    <3>2. PathInv(tgt[wreq])'
      BY <1>1, WorkerPath DEF SequenceInv
    <3>3. QED
      BY <3>1, <3>2 DEF PathInv
  <2>2. CASE \E ok \in BOOLEAN : Finish(ok)
    BY <2>2 DEF Finish, Free, PathInv
  <2>3. QED
    BY <2>1, <2>2
    DEF WorkerStep, WorkerTopic, WorkerCheck, WorkerAudit, WorkerDraft, WorkerRow, WorkerSources,
        WorkerSubmit, WorkerDropSource, WorkerDropDraft, WorkerJobs, WorkerReply
<1>6. CASE WorkerTopic \/ WorkerCheck \/ WorkerAudit \/ WorkerDraft \/ WorkerReply
  <2>1. Settled(d)
    BY <1>1, <1>3, <1>6, SettledAtRest DEF WorkerTopic, WorkerCheck, WorkerAudit, WorkerDraft, WorkerReply
  <2>2. QED
    BY <1>6, <2>1, SettledKept
    DEF WorkerTopic, WorkerCheck, WorkerAudit, WorkerDraft, WorkerReply, tables, engines
<1>7. CASE WorkerRow
  <2>1. Settled(d)
    BY <1>1, <1>3, <1>7, SettledAtRest DEF WorkerRow
  <2>2. /\ wpc' = "sources" /\ tgt'[wreq'] = e /\ UNCHANGED <<source, supervisor, pipeline>>
        /\ d # e => live'[d] = live[d]
    BY <1>2, <1>4, <1>7 DEF WorkerRow, engines, TypeOK
  <2>3. QED
    BY <2>1, <2>2 DEF Settling, Settled, Target, IsLive
<1>8. CASE WorkerSources
  <2>1. /\ wpc' = "submit" /\ tgt'[wreq'] = e /\ UNCHANGED <<live, supervisor, pipeline>>
        /\ d # e => source'[d] = source[d]
    BY <1>2, <1>4, <1>8 DEF WorkerSources, engines, TypeOK
  <2>2. source'[e] = [status |-> "Live", key |-> live'[e].key]
    BY <1>5, <2>1 DEF PathInv
  <2>3. CASE d = e
    BY <2>1, <2>2, <2>3 DEF Settling
  <2>4. CASE d # e
    <3>1. Settled(d)
      BY <1>1, <1>2, <1>3, <2>4 DEF Settling, Settled, Stopping, Restarting
    <3>2. QED
      BY <2>1, <2>4, <3>1 DEF Settling, Settled, Target, IsLive
  <2>5. QED
    BY <2>3, <2>4
<1>9. CASE WorkerSubmit
  <2>1. /\ wpc' = "drop_source" /\ tgt'[wreq'] = e /\ UNCHANGED <<live, source, pipeline>>
        /\ d # e => supervisor'[d] = supervisor[d]
    BY <1>2, <1>4, <1>9 DEF WorkerSubmit, tables, TypeOK
  <2>2. /\ source'[e] = [status |-> "Live", key |-> live'[e].key] /\ IsLive(e)'
        /\ e \in Events => supervisor'[e] = live'[e].key
    BY <1>5, <2>1 DEF PathInv, Published, IsLive, Events
  <2>3. CASE d = e
    BY <2>1, <2>2, <2>3 DEF Settling, Target, Events
  <2>4. CASE d # e
    <3>1. Settled(d)
      BY <1>1, <1>2, <1>3, <2>4 DEF Settling, Settled, Stopping, Restarting
    <3>2. QED
      BY <2>1, <2>4, <3>1 DEF Settling, Settled, Target, IsLive
  <2>5. QED
    BY <2>3, <2>4
<1>10. CASE WorkerDropSource \/ WorkerDropDraft
  <2>1. /\ wpc' \in {"drop_draft", "jobs"} /\ tgt'[wreq'] = e
        /\ UNCHANGED <<live, source, supervisor, pipeline>> /\ wpc \in {"drop_source", "drop_draft"}
    BY <1>1, <1>2, <1>4, <1>10 DEF WorkerDropSource, WorkerDropDraft, PathInv, Published, engines
  <2>2. QED
    BY <1>1, <1>2, <1>3, <2>1 DEF Settling, Target, IsLive, Stopping, Restarting
<1>11. CASE WorkerJobs
  <2>1. /\ pipeline'[d] = Target(d) /\ UNCHANGED <<live, source, supervisor>> /\ wpc = "jobs"
    BY <1>11 DEF WorkerJobs, tables, Target
  <2>2. QED
    BY <1>1, <1>3, <2>1 DEF Settling, Target, IsLive, Stopping
<1>12. QED
  BY <1>6, <1>7, <1>8, <1>9, <1>10, <1>11 DEF WorkerStep

LEMMA IdlingConsistent ==
  ASSUME Sequential, Faults \subseteq {"rollback"}, SequentialInv, ConsistentInv, Idling,
         NEW d \in Datasets
  PROVE  Settling(d)'
<1> USE DEF SequentialInv
<1>1. UNCHANGED <<live, source, supervisor, pipeline>> /\ Settling(d)
  BY IdlingFrame DEF tables, engines, ConsistentInv
<1>2. ASSUME NEW r \in Requests, NEW e \in Datasets, FirstStep(r, e) PROVE Settling(d)'
  <2>1. pc[r] = "idle" /\ wpc = "idle" /\ cmd[r] = "none" /\ \A q \in Requests : q = r
    BY <1>2, FirstStepFrame, Alone DEF Waiting
  <2>2. QED
    BY <1>1, <2>1, SettledAtRest, SettledKept
<1>3. ASSUME NEW r \in Requests, WorkerPick(r) PROVE Settling(d)'
  <2>1. /\ wpc = "idle" /\ cmd[r] \in Commands /\ cmd[r] # "none" /\ pc[r] \in Waiting
        /\ \A q \in Requests : q = r
    BY <1>3 DEF WorkerPick, TypeOK, ControlInv, Sequential
  <2>2. CASE cmd[r] = "PUBLISH_DATASET"
    <3>1. \A q \in Requests : pc[q] # "retire_stop" /\ cmd[q] # "RESTART_PIPELINE"
      BY <2>1, <2>2 DEF Waiting
    <3>2. QED
      BY <1>1, <2>1, <3>1, SettledAtRest, SettledKept
  <2>3. CASE cmd[r] = "RESTART_PIPELINE"
    <3>1. wpc' = "jobs" /\ tgt'[wreq'] = tgt[r] /\ ~Stopping(d)
      BY <1>3, <2>1, <2>3 DEF WorkerPick, Stopping, Waiting
    <3>2. Restarting(d) => tgt[r] = d
      BY <2>1 DEF Restarting
    <3>3. QED
      BY <1>1, <2>1, <3>1, <3>2 DEF Settling, Target, IsLive
  <2>4. QED
    BY <2>1, <2>2, <2>3 DEF Commands
<1>4. CASE UNCHANGED vars
  BY <1>1, <1>4 DEF Settling, Target, IsLive, Stopping, Restarting, vars, handlers, worker
<1>5. QED
  BY <1>2, <1>3, <1>4 DEF Idling, WorkerAbort, WorkerCrash, ApiCrash

\* While only transactions of the API service fail, the requests that have been answered
\* leave the tables, Druid and the pipeline in agreement, for every dataset.
THEOREM Consistency ==
  ASSUME Sequential, Faults \subseteq {"rollback"}
  PROVE  Spec => []QuiescentConsistent
<1>1. Init => ConsistentInv
  BY DEF Init, ConsistentInv, Settling, Target, IsLive, NoRow
<1>2. SequentialInv /\ ConsistentInv /\ [Next]_vars => ConsistentInv'
  BY HandlerConsistent, WorkerConsistent, IdlingConsistent, NextCases DEF ConsistentInv
<1>3. SequentialInv /\ ConsistentInv => QuiescentConsistent
  <2> SUFFICES ASSUME SequentialInv, ConsistentInv, Quiescent, NEW d \in Datasets PROVE Settled(d)
    BY DEF QuiescentConsistent, Settled, Target
  <2>1. wpc = "idle" /\ \A r \in Requests : pc[r] # "retire_stop" /\ cmd[r] # "RESTART_PIPELINE"
    BY DEF Quiescent, SequentialInv, ControlInv, Waiting
  <2>2. QED
    BY <2>1, SettledAtRest DEF ConsistentInv
<1>4. QED
  BY <1>1, <1>2, <1>3, SequentialInvariant, PTL DEF Spec

-----------------------------------------------------------------------------
(***************************************************************************)
(* The Redis databases of master datasets.  No number is drawn for two     *)
(* datasets, for every set of datasets and of overlapping requests, every  *)
(* failure and every operation but import and copy, which bring a number   *)
(* from outside or from another dataset.  The argument: a row passes its   *)
(* number on only within its dataset, in the tables, in the memory of the  *)
(* dataset's handlers and in that of the worker; a slot forgets it before  *)
(* it takes another dataset.  For a client that sends one request at a     *)
(* time it follows that a number, once Live, stays its master's: live rows *)
(* may name masters by their numbers.                                      *)
(***************************************************************************)

\* The handlers that bring the row of another dataset.
Bringing == {"import_insert", "import_overwrite", "copy_insert"}

\* A free slot holds no number, nor does a handler that waits for the command service.
DbInv ==
    /\ \A r \in Requests : /\ pc[r] \notin Bringing
                           /\ pc[r] \in {"idle"} \cup Waiting => row[r].redis = 0
    /\ RedisUnique

\* The number n is held for dataset d.
Held(n, d) ==
    /\ n # 0
    /\ \/ n \in {draft[d].redis, live[d].redis}
       \/ \E r \in Requests : tgt[r] = d /\ row[r].redis = n
       \/ wpc = "row" /\ tgt[wreq] = d /\ wrow.redis = n

LEMMA HeldIff ==
  /\ \A d, n : n \in HoldsDb(d) <=> Held(n, d)
  /\ \A d, n : n \in HoldsDb(d)' <=> Held(n, d)'
  BY DEF HoldsDb, Held

\* It is enough to follow single numbers: none is below nextDb and held twice.
LEMMA UniqueIff ==
  /\ RedisUnique <=> \A d \in Datasets : \A n : Held(n, d) =>
                        n < nextDb /\ \A e \in Datasets \ {d} : ~Held(n, e)
  /\ RedisUnique' <=> \A d \in Datasets : \A n : Held(n, d)' =>
                        n < nextDb' /\ \A e \in Datasets \ {d} : ~Held(n, e)'
<1>1. RedisUnique <=> \A d \in Datasets : /\ \A n : Held(n, d) => n < nextDb
                                          /\ \A e \in Datasets \ {d} : \A n : ~(Held(n, d) /\ Held(n, e))
  BY HeldIff DEF RedisUnique
<1>2. RedisUnique' <=> \A d \in Datasets : /\ \A n : Held(n, d)' => n < nextDb'
                                           /\ \A e \in Datasets \ {d} : \A n : ~(Held(n, d)' /\ Held(n, e)')
  BY HeldIff DEF RedisUnique
<1>3. QED
  BY <1>1, <1>2

\* A step that only passes numbers on within their datasets keeps them unique; so does one
\* that draws the next number for one dataset.
LEMMA PassedOn ==
  ASSUME RedisUnique, nextDb' = nextDb,
         \A d \in Datasets : \A n : Held(n, d)' => Held(n, d)
  PROVE  RedisUnique'
  BY UniqueIff

LEMMA DrawnOnce ==
  ASSUME TypeOK, RedisUnique, nextDb' = nextDb + 1, NEW c \in Datasets,
         \A d \in Datasets : \A n : Held(n, d)' => Held(n, d) \/ (d = c /\ n = nextDb)
  PROVE  RedisUnique'
<1>1. nextDb \in Nat /\ ~(nextDb < nextDb)
  BY DEF TypeOK
<1>2. ASSUME NEW d \in Datasets, NEW n, Held(n, d)'
      PROVE  n < nextDb' /\ \A e \in Datasets \ {d} : ~Held(n, e)'
  <2>1. CASE Held(n, d)
    <3>1. n < nextDb /\ \A e \in Datasets \ {d} : ~Held(n, e)
      BY <2>1, UniqueIff
    <3>2. n # nextDb
      BY <1>1, <3>1
    <3>3. n \in Nat
      BY <2>1 DEF Held, TypeOK, Row
    <3>4. QED
      BY <1>1, <3>1, <3>2, <3>3
  <2>2. CASE d = c /\ n = nextDb
    <3>1. \A e \in Datasets : ~Held(n, e)
      BY <1>1, <2>2, UniqueIff
    <3>2. QED
      BY <1>1, <2>2, <3>1
  <2>3. QED
    BY <1>2, <2>1, <2>2
<1>3. QED
  BY <1>2, UniqueIff

-----------------------------------------------------------------------------
(* Where the numbers of a handler come from. *)

\* The fields of a row that a change of others leaves alone.
LEMMA RedisKept ==
  ASSUME NEW x \in Row
  PROVE  /\ \A k : [x EXCEPT !.key = k].redis = x.redis
         /\ \A s : [x EXCEPT !.status = s].redis = x.redis
         /\ \A fs : [x EXCEPT !.denorm = fs].redis = x.redis
         /\ \A s, v : [x EXCEPT !.status = s, !.version = v].redis = x.redis
         /\ \A n : [x EXCEPT !.redis = n].redis = n
         /\ \A d : MergeDefaults(d, x).redis \in {0, x.redis}
  BY DEF Row, MergeDefaults

\* A first step holds nothing yet, or the draft of its dataset.
LEMMA FirstStepDb ==
  ASSUME Kinds \cap {"Import", "Copy"} = {}, TypeOK, DbInv,
         NEW r \in Requests, NEW d \in Datasets, FirstStep(r, d)
  PROVE  /\ pc'[r] \notin Bringing /\ pc'[r] \notin {"idle"} \cup Waiting
         /\ tgt'[r] = d
         /\ row'[r].redis \in {0, draft[d].redis}
<1> USE DEF Begin, Hold, TypeOK, Bringing, Waiting
<1>1. row[r].redis = 0
  BY FirstStepFrame DEF DbInv
<1>2. CASE CreateCheck(r, d) \/ EditReadDraft(r, d) \/ ReadyCheck(r, d)
  BY <1>1, <1>2 DEF CreateCheck, EditReadDraft, ReadyCheck
<1>3. CASE PublishCheck(r, d) \/ RetireCheck(r, d) \/ DeleteCheck(r, d)
  BY <1>1, <1>3 DEF PublishCheck, RetireCheck, DeleteCheck
<1>4. CASE UpdateRead(r, d)
  BY <1>4 DEF UpdateRead
<1>5. CASE ImportRead(r, d) \/ CopyRead(r, d)
  BY <1>5 DEF ImportRead, CopyRead
<1>6. QED
  BY <1>2, <1>3, <1>4, <1>5 DEF FirstStep

\* A later step writes to its draft what it holds, and holds what its dataset has, or the
\* number it draws.
LEMMA NextStepDb ==
  ASSUME TypeOK, DbInv, NEW r \in Requests, NextStep(r)
  PROVE  /\ pc'[r] \notin Bringing
         /\ pc'[r] \in {"idle"} \cup Waiting => row'[r].redis = 0
         /\ \A e \in Datasets : live'[e].redis = live[e].redis
         /\ \A e \in Datasets : \/ draft'[e].redis \in {0, draft[e].redis}
                                \/ e = tgt[r] /\ draft'[e].redis = row[r].redis
         /\ \/ nextDb' = nextDb /\ row'[r].redis = 0
            \/ /\ nextDb' = nextDb /\ tgt'[r] = tgt[r]
               /\ row'[r].redis \in {row[r].redis, draft[tgt[r]].redis, live[tgt[r]].redis}
            \/ /\ nextDb' = nextDb + 1 /\ tgt'[r] = tgt[r] /\ row'[r].redis = nextDb
               /\ draft' = draft
<1> DEFINE d == tgt[r]
<1>1. /\ d \in Datasets /\ row[r] \in Row /\ draft[d] \in Row /\ live[d] \in Row
      /\ pc[r] \notin Bringing
  BY DEF TypeOK, DbInv
<1>2. NoRow.redis = 0
  BY DEF NoRow
<1>3. ASSUME Done(r)
      PROVE  pc'[r] = "idle" /\ row'[r].redis = 0
  BY <1>2, <1>3 DEF Done, Hold, TypeOK
<1>4. ASSUME NEW x, SaveDraft(d, x), x.redis \in {0, draft[d].redis, row[r].redis}
      PROVE  \A e \in Datasets : \/ draft'[e].redis \in {0, draft[e].redis}
                                 \/ e = d /\ draft'[e].redis = row[r].redis
  BY <1>1, <1>4 DEF SaveDraft, TypeOK
<1>5. ASSUME NEW x \in Row, InsertDraft(d, x), x.redis \in {0, row[r].redis}
      PROVE  \A e \in Datasets : \/ draft'[e].redis \in {0, draft[e].redis}
                                 \/ e = d /\ draft'[e].redis = row[r].redis
  <2>1. [x EXCEPT !.key = NewKey].redis = x.redis
    BY RedisKept
  <2>2. QED
    BY <1>1, <1>5, <2>1 DEF InsertDraft, TypeOK
<1>6. CASE CreateInsert(r)
  <2>1. PICK ms \in SUBSET Masters :
          InsertDraft(d, [DefaultRow(NewKey) EXCEPT !.denorm = Unresolved(ms)])
    BY <1>6 DEF CreateInsert
  <2>2. NewKey \in Nat
    BY DEF NewKey, TypeOK
  <2>3. [DefaultRow(NewKey) EXCEPT !.denorm = Unresolved(ms)] \in Row
    BY <2>2, DefaultRowType, UnresolvedType, RowUpdate
  <2>4. [DefaultRow(NewKey) EXCEPT !.denorm = Unresolved(ms)].redis = 0
    BY DEF DefaultRow
  <2>5. QED
    BY <1>3, <1>5, <1>6, <2>1, <2>3, <2>4 DEF CreateInsert, Bringing
<1>7. CASE UpdateWrite(r)
  <2>1. PICK fields, db : /\ db \in {draft[d].redis, row[r].redis}
                          /\ SaveDraft(d, Updated(draft[d], fields, db))
    BY <1>7 DEF UpdateWrite
  <2>2. Updated(draft[d], fields, db).redis = db
    BY <1>1 DEF Updated, Row
  <2>3. QED
    BY <1>3, <1>4, <1>7, <2>1, <2>2 DEF UpdateWrite, Bringing
<1>8. CASE EditReadLive(r) \/ EditMapDenorm(r)
  <2>1. \A fs : [row[r] EXCEPT !.denorm = fs].redis = row[r].redis
    BY <1>1, RedisKept
  <2>2. UNCHANGED <<draft, live, nextDb>>
    BY <1>8 DEF EditReadLive, EditMapDenorm, tables, counters
  <2>3. CASE ~Done(r)
    <3>1. /\ pc'[r] \in {"edit_insert", "edit_denorm"} /\ tgt'[r] = d
          /\ row'[r].redis \in {row[r].redis, live[d].redis}
      <4>1. CASE EditReadLive(r)
        BY <1>1, <2>3, <4>1 DEF EditReadLive, Goto, Hold, TypeOK
      <4>2. CASE EditMapDenorm(r)
        <5>1. PICK fs : Hold(r, [row[r] EXCEPT !.denorm = fs]) /\ Goto(r, "edit_insert")
          BY <2>3, <4>2 DEF EditMapDenorm
        <5>2. QED
          BY <1>1, <2>1, <5>1 DEF Goto, Hold, TypeOK
      <4>3. QED
        BY <1>8, <4>1, <4>2
    <3>2. QED
      BY <2>2, <3>1 DEF Bringing, Waiting
  <2>4. QED
    BY <1>3, <2>2, <2>3 DEF Bringing
<1>9. CASE EditInsert(r)
  <2> DEFINE copy == [row[r] EXCEPT !.status = "Draft", !.version = row[r].version + 1]
  <2>1. row[r].version \in Nat /\ row[r].version + 1 \in Nat /\ "Draft" \in Statuses
    BY <1>1 DEF Row, Statuses
  <2>2. [row[r] EXCEPT !.status = "Draft"] \in Row
    BY <1>1, <2>1, RowUpdate
  <2>3. copy \in Row
    BY <2>1, <2>2, RowUpdate
  <2>4. copy.redis = row[r].redis
    BY <1>1, RedisKept
  <2>5. InsertDraft(d, copy) /\ Done(r) /\ UNCHANGED <<live, nextDb>>
    BY <1>9 DEF EditInsert
  <2> HIDE DEF copy
  <2>6. QED
    BY <1>3, <1>5, <2>3, <2>4, <2>5 DEF Bringing
<1>10. CASE ReadyRead(r)
  <2>1. MergeDefaults(d, draft[d]).redis \in {0, draft[d].redis}
    BY <1>1, RedisKept
  <2>2. UNCHANGED <<draft, live, nextDb>>
    BY <1>10 DEF ReadyRead, tables, counters
  <2>3. CASE ~Done(r)
    <3>1. /\ pc'[r] = "ready_write" /\ tgt'[r] = d
          /\ row'[r].redis \in {0, draft[d].redis}
      BY <1>1, <1>10, <2>1, <2>3 DEF ReadyRead, Goto, Hold, TypeOK
    <3>2. QED
      BY <2>2, <3>1 DEF Bringing, Waiting
  <2>4. QED
    BY <1>3, <2>2, <2>3 DEF Bringing
<1>11. CASE ReadyWrite(r)
  <2>1. [row[r] EXCEPT !.status = "ReadyToPublish"].redis = row[r].redis
    BY <1>1, RedisKept
  <2>2. QED
    BY <1>3, <1>4, <1>11, <2>1 DEF ReadyWrite, counters, Bringing
<1>12. CASE PublishRead(r) \/ PublishDenorm(r)
  <2>1. \A fs : [row[r] EXCEPT !.denorm = fs].redis = row[r].redis
    BY <1>1, RedisKept
  <2>2. UNCHANGED <<draft, live, nextDb>>
    BY <1>12 DEF PublishRead, PublishDenorm, tables, counters
  <2>3. CASE ~Done(r)
    <3>1. \A x : AllocOrSave(d, x) \in {"publish_alloc", "publish_save"}
      BY DEF AllocOrSave
    <3>2. /\ pc'[r] \in {"publish_denorm", "publish_alloc", "publish_save"} /\ tgt'[r] = d
          /\ row'[r].redis \in {row[r].redis, draft[d].redis}
      <4>1. CASE PublishRead(r)
        BY <1>1, <2>3, <3>1, <4>1 DEF PublishRead, Goto, Hold, TypeOK
      <4>2. CASE PublishDenorm(r)
        <5>1. PICK fs : LET x == [row[r] EXCEPT !.denorm = fs]
                        IN  Hold(r, x) /\ Goto(r, AllocOrSave(d, x))
          BY <2>3, <4>2 DEF PublishDenorm
        <5>2. QED
          BY <1>1, <2>1, <3>1, <5>1 DEF Goto, Hold, TypeOK
      <4>3. QED
        BY <1>12, <4>1, <4>2
    <3>3. QED
      BY <2>2, <3>2 DEF Bringing, Waiting
  <2>4. QED
    BY <1>3, <2>2, <2>3 DEF Bringing
<1>13. CASE PublishAlloc(r)
  <2>1. [row[r] EXCEPT !.redis = nextDb].redis = nextDb
    BY <1>1, RedisKept
  <2>2. QED
    BY <1>1, <1>13, <2>1 DEF PublishAlloc, Goto, Hold, TypeOK, tables, Bringing, Waiting
<1>14. CASE PublishSave(r)
  <2>1. CASE SaveDraft(d, row[r])
    <3>1. row'[r].redis = 0 /\ pc'[r] \in {"publish_sent", "idle"}
      BY <1>2, <1>14 DEF PublishSave, Send, Done, Goto, Hold, TypeOK
    <3>2. QED
      BY <1>4, <1>14, <2>1, <3>1 DEF PublishSave, counters, Bringing
  <2>2. CASE ~SaveDraft(d, row[r])
    BY <1>3, <1>14, <2>2 DEF PublishSave, counters, Bringing
  <2>3. QED
    BY <2>1, <2>2
<1>15. CASE RetireDeps(r) \/ RetireSave(r)
  <2>1. nextDb' = nextDb /\ draft' = draft
    BY <1>15 DEF RetireDeps, RetireSave, tables, counters
  <2>2. \A e \in Datasets : live'[e].redis = live[e].redis
    <3>1. CASE UNCHANGED live
      BY <3>1
    <3>2. CASE live' = [live EXCEPT ![d].status = "Retired"]
      BY <1>1, <3>2, RedisKept DEF TypeOK
    <3>3. QED
      BY <1>15, <3>1, <3>2 DEF RetireDeps, RetireSave, tables
  <2>3. CASE ~Done(r)
    <3>1. pc'[r] \in {"retire_save", "retire_stop"} /\ tgt'[r] = d /\ row'[r] = row[r]
      BY <1>15, <2>3 DEF RetireDeps, RetireSave, Goto, TypeOK
    <3>2. QED
      BY <2>1, <2>2, <3>1 DEF Bringing, Waiting
  <2>4. QED
    BY <1>3, <2>1, <2>2, <2>3 DEF Bringing
<1>16. CASE RetireStop(r) \/ Respond(r)
  <2>1. UNCHANGED <<draft, live, nextDb>>
    BY <1>16 DEF RetireStop, Respond, tables, counters
  <2>2. row'[r].redis = 0 /\ pc'[r] \in {"idle", "retire_sent"}
    BY <1>2, <1>16 DEF RetireStop, Respond, Send, Done, Goto, Hold, TypeOK
  <2>3. QED
    BY <2>1, <2>2 DEF Bringing
<1>17. CASE DeleteTxn(r)
  <2>1. \A e \in Datasets : draft'[e].redis \in {0, draft[e].redis}
    BY <1>2, <1>17 DEF DeleteTxn, TypeOK
  <2>2. QED
    BY <1>3, <1>17, <2>1 DEF DeleteTxn, counters, Bringing
<1>18. CASE ImportInsert(r) \/ ImportOverwrite(r) \/ CopyInsert(r)
  BY <1>1, <1>18 DEF ImportInsert, ImportOverwrite, CopyInsert, At, Bringing
<1>19. QED
  BY <1>6, <1>7, <1>8, <1>9, <1>10, <1>11, <1>12, <1>13, <1>14, <1>15, <1>16, <1>17, <1>18
  DEF NextStep

\* The worker writes to the live row what it has read of the draft, and forgets it.
LEMMA WorkerStepDb ==
  ASSUME TypeOK, WorkerStep
  PROVE  /\ nextDb' = nextDb
         /\ \A e \in Datasets : draft'[e].redis \in {0, draft[e].redis}
         /\ \A e \in Datasets : \/ live'[e].redis = live[e].redis
                                \/ wpc = "row" /\ e = tgt[wreq] /\ live'[e].redis = wrow.redis
         /\ wpc' = "row" => wrow' = draft[tgt[wreq]]
<1> DEFINE d == tgt[wreq]
<1>1. d \in Datasets /\ wrow \in Row
  BY WorkerStepFrame DEF TypeOK
<1>2. CASE WorkerTopic \/ WorkerCheck \/ WorkerAudit
  BY <1>2 DEF WorkerTopic, WorkerCheck, WorkerAudit, Continue, Finish, Free, tables, counters
<1>3. CASE WorkerDraft
  BY <1>3 DEF WorkerDraft, Continue, tables, counters
<1>4. CASE WorkerRow
  <2>1. [wrow EXCEPT !.status = "Live"].redis = wrow.redis
    BY <1>1, RedisKept
  <2>2. QED
    BY <1>1, <1>4, <2>1 DEF WorkerRow, Continue, counters, TypeOK
<1>5. CASE WorkerSources \/ WorkerSubmit \/ WorkerDropSource
  BY <1>5 DEF WorkerSources, WorkerSubmit, WorkerDropSource, Continue, Finish, Free, tables, counters
<1>6. CASE WorkerDropDraft
  BY <1>1, <1>6 DEF WorkerDropDraft, Continue, counters, NoRow, TypeOK
<1>7. CASE WorkerJobs \/ WorkerReply
  BY <1>7 DEF WorkerJobs, WorkerReply, Continue, Finish, Free, tables, counters
<1>8. QED
  BY <1>2, <1>3, <1>4, <1>5, <1>6, <1>7 DEF WorkerStep

\* An answer moves a slot to another dataset only when it is free of a number.
LEMMA AnswerDb ==
  ASSUME TypeOK, DbInv, NEW S, NEW ok \in BOOLEAN, Answer(S, ok), row' = row,
         \A r \in S : pc[r] \in Waiting
  PROVE  \A r \in Requests : /\ pc'[r] \notin Bringing
                             /\ pc'[r] \in {"idle"} \cup Waiting => row'[r].redis = 0
                             /\ tgt'[r] = tgt[r] \/ row'[r].redis = 0
<1> SUFFICES ASSUME NEW r \in Requests
             PROVE  /\ pc'[r] \notin Bringing
                    /\ pc'[r] \in {"idle"} \cup Waiting => row'[r].redis = 0
                    /\ tgt'[r] = tgt[r] \/ row'[r].redis = 0
  OBVIOUS
<1>1. CASE r \in S
  <2>1. row'[r].redis = 0
    BY <1>1 DEF DbInv
  <2>2. pc'[r] = Answered(r, ok)
    BY <1>1 DEF Answer
  <2>3. Answered(r, ok) \notin Bringing
    BY DEF Answered, Bringing
  <2>4. QED
    BY <2>1, <2>2, <2>3
<1>2. CASE r \notin S
  BY <1>2 DEF Answer, DbInv
<1>3. QED
  BY <1>1, <1>2

-----------------------------------------------------------------------------
(* The invariant. *)

LEMMA DbInit == Init => DbInv
<1> SUFFICES ASSUME Init PROVE DbInv
  OBVIOUS
<1>1. \A d \in Datasets : \A n : ~Held(n, d)
  BY DEF Init, Held, NoRow
<1>2. QED
  BY <1>1, UniqueIff DEF Init, DbInv, NoRow, Bringing

\* Where the tables keep their numbers, slots keep theirs or forget them, and the worker
\* holds what it held, numbers stay within their datasets.
LEMMA SlotsKept ==
  ASSUME TypeOK, DbInv, nextDb' = nextDb,
         \A d \in Datasets : draft'[d].redis \in {0, draft[d].redis} /\ live'[d].redis = live[d].redis,
         \A r \in Requests : row'[r].redis \in {0, row[r].redis}
                             /\ (tgt'[r] = tgt[r] \/ row'[r].redis = 0),
         wpc' = "row" => wpc = "row" /\ wrow' = wrow /\ tgt'[wreq'] = tgt[wreq]
  PROVE  RedisUnique'
<1>1. \A d \in Datasets : \A n : Held(n, d)' => Held(n, d)
  BY DEF Held
<1>2. QED
  BY <1>1, PassedOn DEF DbInv

LEMMA DbStep ==
  ASSUME Kinds \cap {"Import", "Copy"} = {}, TypeOK, ControlInv, DbInv, [Next]_vars
  PROVE  DbInv'
<1>1. CASE \E r \in Requests, d \in Datasets : FirstStep(r, d)
  <2>1. PICK r \in Requests, d \in Datasets : FirstStep(r, d)
    BY <1>1
  <2>2. /\ pc[r] = "idle"
        /\ UNCHANGED <<draft, live, nextDb, wreq, wpc, wrow>>
        /\ \A q \in Requests \ {r} : pc'[q] = pc[q] /\ tgt'[q] = tgt[q] /\ row'[q] = row[q]
    BY <2>1, FirstStepFrame DEF tables, counters, worker
  <2>3. /\ pc'[r] \notin Bringing /\ pc'[r] \notin {"idle"} \cup Waiting
        /\ tgt'[r] = d /\ row'[r].redis \in {0, draft[d].redis}
    BY <2>1, FirstStepDb
  <2>4. wpc = "row" => wreq \in Requests \ {r}
    BY <2>2 DEF ControlInv, Waiting, TypeOK
  <2>5. \A e \in Datasets : \A n : Held(n, e)' => Held(n, e)
    BY <2>2, <2>3, <2>4 DEF Held
  <2>6. RedisUnique'
    BY <2>2, <2>5, PassedOn DEF DbInv
  <2>7. QED
    BY <2>2, <2>3, <2>6 DEF DbInv
<1>2. CASE \E r \in Requests : NextStep(r)
  <2>1. PICK r \in Requests : NextStep(r)
    BY <1>2
  <2>2. /\ pc[r] \notin Waiting
        /\ UNCHANGED <<wreq, wpc, wrow>>
        /\ \A q \in Requests \ {r} : pc'[q] = pc[q] /\ tgt'[q] = tgt[q] /\ row'[q] = row[q]
    BY <2>1, NextStepFrame DEF worker
  <2>3. /\ pc'[r] \notin Bringing
        /\ pc'[r] \in {"idle"} \cup Waiting => row'[r].redis = 0
        /\ \A e \in Datasets : live'[e].redis = live[e].redis
        /\ \A e \in Datasets : \/ draft'[e].redis \in {0, draft[e].redis}
                               \/ e = tgt[r] /\ draft'[e].redis = row[r].redis
        /\ \/ nextDb' = nextDb /\ row'[r].redis = 0
           \/ /\ nextDb' = nextDb /\ tgt'[r] = tgt[r]
              /\ row'[r].redis \in {row[r].redis, draft[tgt[r]].redis, live[tgt[r]].redis}
           \/ /\ nextDb' = nextDb + 1 /\ tgt'[r] = tgt[r] /\ row'[r].redis = nextDb
              /\ draft' = draft
    BY <2>1, NextStepDb
  <2>4. wpc = "row" => wreq \in Requests \ {r}
    BY <2>2 DEF ControlInv, Waiting, TypeOK
  <2>5. tgt[r] \in Datasets
    BY DEF TypeOK
  <2>6. CASE nextDb' = nextDb /\ (row'[r].redis = 0 \/ (tgt'[r] = tgt[r] /\
               row'[r].redis \in {row[r].redis, draft[tgt[r]].redis, live[tgt[r]].redis}))
    <3>1. \A e \in Datasets : \A n : Held(n, e)' => Held(n, e)
      BY <2>2, <2>3, <2>4, <2>5, <2>6 DEF Held
    <3>2. QED
      BY <2>2, <2>3, <2>6, <3>1, PassedOn DEF DbInv
  <2>7. CASE nextDb' = nextDb + 1 /\ tgt'[r] = tgt[r] /\ row'[r].redis = nextDb /\ draft' = draft
    <3>1. \A e \in Datasets : \A n : Held(n, e)' => Held(n, e) \/ (e = tgt[r] /\ n = nextDb)
      BY <2>2, <2>3, <2>4, <2>5, <2>7 DEF Held
    <3>2. RedisUnique'
      BY <2>5, <2>7, <3>1, DrawnOnce DEF DbInv
    <3>3. QED
      BY <2>2, <2>3, <3>2 DEF DbInv
  <2>8. QED
    BY <2>3, <2>6, <2>7
<1>3. CASE \E r \in Requests : WorkerPick(r)
  <2>1. UNCHANGED <<draft, live, nextDb, pc, tgt, row>> /\ wpc' # "row"
    BY <1>3 DEF WorkerPick, tables, counters
  <2>2. RedisUnique'
    BY <2>1, SlotsKept
  <2>3. QED
    BY <2>1, <2>2 DEF DbInv
<1>4. CASE WorkerStep
  <2>1. wpc # "idle" /\ wreq \in Requests /\ tgt[wreq] \in Datasets /\ pc[wreq] \in Waiting
    BY <1>4, WorkerStepFrame DEF TypeOK, ControlInv
  <2>2. /\ nextDb' = nextDb
        /\ \A e \in Datasets : draft'[e].redis \in {0, draft[e].redis}
        /\ \A e \in Datasets : \/ live'[e].redis = live[e].redis
                               \/ wpc = "row" /\ e = tgt[wreq] /\ live'[e].redis = wrow.redis
        /\ wpc' = "row" => wrow' = draft[tgt[wreq]]
    BY <1>4, WorkerStepDb
  <2>3. /\ row' = row
        /\ wpc' = "row" => wreq' = wreq /\ tgt' = tgt
        /\ \A r \in Requests : /\ pc'[r] \notin Bringing
                               /\ pc'[r] \in {"idle"} \cup Waiting => row'[r].redis = 0
                               /\ tgt'[r] = tgt[r] \/ row'[r].redis = 0
    <3>1. CASE UNCHANGED <<wreq, handlers>>
      BY <3>1 DEF handlers, DbInv
    <3>2. CASE \E ok \in BOOLEAN : Finish(ok)
      <4>1. PICK ok \in BOOLEAN : Finish(ok)
        BY <3>2
      <4>2. Answer({wreq}, ok) /\ row' = row /\ wpc' = "idle"
        BY <4>1 DEF Finish, Free
      <4>3. QED
        BY <2>1, <4>2, AnswerDb
    <3>3. QED
      BY <1>4, <3>1, <3>2, WorkerStepFrame
  <2>4. \A d \in Datasets : \A n : Held(n, d)' => Held(n, d)
    BY <2>1, <2>2, <2>3 DEF Held
  <2>5. QED
    BY <2>2, <2>3, <2>4, PassedOn DEF DbInv
<1>5. CASE WorkerAbort \/ WorkerCrash
  <2>1. \E S, ok : ok \in BOOLEAN /\ Answer(S, ok) /\ \A r \in S : pc[r] \in Waiting
    <3>1. CASE WorkerAbort
      <4>1. Answer({wreq}, TRUE) /\ \A r \in {wreq} : pc[r] \in Waiting
        BY <3>1 DEF WorkerAbort, Finish, ControlInv
      <4>2. QED
        BY <4>1
    <3>2. CASE WorkerCrash
      <4>1. PICK lost \in SUBSET {r \in Requests : cmd[r] # "none"} : Answer(lost \cup {wreq}, FALSE)
        BY <3>2 DEF WorkerCrash
      <4>2. \A r \in lost \cup {wreq} : pc[r] \in Waiting
        BY <3>2 DEF WorkerCrash, ControlInv
      <4>3. QED
        BY <4>1, <4>2
    <3>3. QED
      BY <1>5, <3>1, <3>2
  <2>2. UNCHANGED <<draft, live, nextDb, row>> /\ wpc' = "idle"
    BY <1>5 DEF WorkerAbort, WorkerCrash, Finish, Free, tables, counters
  <2>3. \A r \in Requests : /\ pc'[r] \notin Bringing
                            /\ pc'[r] \in {"idle"} \cup Waiting => row'[r].redis = 0
                            /\ tgt'[r] = tgt[r] \/ row'[r].redis = 0
    BY <2>1, <2>2, AnswerDb
  <2>4. RedisUnique'
    BY <2>2, <2>3, SlotsKept
  <2>5. QED
    BY <2>3, <2>4 DEF DbInv
<1>6. CASE ApiCrash
  <2>1. /\ UNCHANGED <<draft, live, nextDb, wreq, wpc, wrow>>
        /\ row' = [r \in Requests |-> NoRow]
        /\ \A r \in Requests : pc'[r] \in {"idle", "orphan"}
        /\ wpc # "idle" => tgt'[wreq] = tgt[wreq]
    <3>1. PICK lost \in SUBSET {r \in Requests : cmd[r] # "none"} :
            LET served == {r \in Requests \ lost : pc[r] \in {"publish_sent", "retire_sent", "orphan"}}
            IN  /\ pc' = [r \in Requests |-> IF r \in served THEN "orphan" ELSE "idle"]
                /\ tgt' = [r \in Requests |-> IF r \in served THEN tgt[r] ELSE AnyDataset]
      BY <1>6 DEF ApiCrash
    <3>2. wpc # "idle" => wreq \in Requests \ lost /\ pc[wreq] \in Waiting
      BY DEF ControlInv, TypeOK
    <3>3. QED
      BY <1>6, <3>1, <3>2 DEF ApiCrash, tables, counters, worker, Waiting
  <2>2. \A r \in Requests : row'[r].redis = 0
    BY <2>1 DEF NoRow
  <2>3. RedisUnique'
    BY <2>1, <2>2, SlotsKept
  <2>4. QED
    BY <2>1, <2>2, <2>3 DEF DbInv, Bringing
<1>7. CASE UNCHANGED vars
  <2>1. UNCHANGED <<draft, live, nextDb, pc, tgt, row, wreq, wpc, wrow>>
    BY <1>7 DEF vars, tables, counters, handlers, worker
  <2>2. RedisUnique'
    BY <2>1, SlotsKept
  <2>3. QED
    BY <2>1, <2>2 DEF DbInv
<1>8. QED
  BY <1>1, <1>2, <1>3, <1>4, <1>5, <1>6, <1>7 DEF Next

\* The inductive invariant of the numbers, of the commands that wait, and of the types.
LEMMA DbInvariant ==
  ASSUME Kinds \cap {"Import", "Copy"} = {}
  PROVE  Spec => [](TypeOK /\ ControlInv /\ DbInv)
<1>1. Init => ControlInv /\ DbInv
  BY ControlInit, DbInit
<1>2. TypeOK /\ ControlInv /\ DbInv /\ [Next]_vars => (ControlInv /\ DbInv)'
  BY ControlStep, DbStep
<1>3. QED
  BY <1>1, <1>2, TypeCorrect, PTL DEF Spec

\* No Redis database is drawn for two datasets, whatever the interleaving of publications
\* and updates, and whatever fails.
THEOREM RedisUniqueness ==
  ASSUME Kinds \cap {"Import", "Copy"} = {}
  PROVE  Spec => []RedisUnique
<1>1. DbInv => RedisUnique
  BY DEF DbInv
<1>2. QED
  BY <1>1, DbInvariant, PTL

-----------------------------------------------------------------------------
(* One request at a time: the Redis databases of masters, and the masters  *)
(* that a draft made from a live row names.                                *)

LiveHasDb == \A m \in Masters : Exists(live[m]) => live[m].redis # 0

\* A retirement writes the status only.
LEMMA RetiredRow ==
  ASSUME TypeOK, NEW r \in Requests, IsLive(tgt[r]), RetireSave(r), NEW d \in Datasets
  PROVE  /\ live'[d].redis = live[d].redis /\ live'[d].denorm = live[d].denorm
         /\ Exists(live'[d]) <=> Exists(live[d])
<1>1. PICK c \in Datasets : c = tgt[r]
  BY DEF TypeOK
<1>2. \/ live' = live
      \/ live' = [live EXCEPT ![c] = [live[c] EXCEPT !.status = "Retired"]]
  BY <1>1 DEF RetireSave
<1>3. live[c] \in Row
  BY DEF TypeOK
<1>4. /\ [live[c] EXCEPT !.status = "Retired"].redis = live[c].redis
      /\ [live[c] EXCEPT !.status = "Retired"].denorm = live[c].denorm
      /\ [live[c] EXCEPT !.status = "Retired"].status = "Retired"
  BY <1>3 DEF Row
<1>5. QED
  BY <1>1, <1>2, <1>4 DEF Exists, IsLive, TypeOK

\* A Live row is written from a prepared draft, and a retirement keeps its number.
LEMMA LiveHasDbStep ==
  ASSUME SequentialInv, LiveHasDb, [Next]_vars
  PROVE  LiveHasDb'
<1> USE DEF SequentialInv
<1>1. ASSUME WorkerRow, NEW m \in Masters, Exists(live'[m]) PROVE live'[m].redis # 0
  <2>1. m \in Datasets /\ draft[m] \in Row
    BY DatasetsAssumption DEF TypeOK
  <2>2. CASE m = tgt[wreq]
    <3>1. live'[m] = [draft[m] EXCEPT !.status = "Live"] /\ HasDb(m, draft[m])
      BY <1>1, <2>1, <2>2 DEF WorkerRow, SequenceInv, PathInv, Prepared, TypeOK
    <3>2. QED
      BY <2>1, <3>1 DEF HasDb, Row
  <2>3. CASE m # tgt[wreq]
    BY <1>1, <2>1, <2>3 DEF WorkerRow, TypeOK, LiveHasDb
  <2>4. QED
    BY <2>2, <2>3
<1>2. ASSUME NEW r \in Requests, RetireSave(r), NEW m \in Masters, Exists(live'[m])
      PROVE  live'[m].redis # 0
  <2>1. m \in Datasets /\ tgt[r] \in Datasets /\ live[m] \in Row /\ IsLive(tgt[r])
    BY <1>2, DatasetsAssumption DEF RetireSave, At, TypeOK, SequenceInv, HandlerInv
  <2>2. live'[m].redis = live[m].redis /\ Exists(live[m])
    BY <1>2, <2>1, RetiredRow DEF SequentialInv
  <2>3. QED
    BY <1>2, <2>2 DEF LiveHasDb
<1>3. QED
  BY <1>1, <1>2, LiveWriters DEF LiveHasDb

\* Every master that has been Live has a Redis database, and its own.
THEOREM LiveMastersDb ==
  ASSUME Sequential, Kinds \cap {"Import", "Copy"} = {}
  PROVE  Spec => []LiveMastersOwnDb
<1>1. Init => LiveHasDb
  BY DatasetsAssumption DEF Init, LiveHasDb, Exists, NoRow
<1>2. SequentialInv /\ LiveHasDb /\ [Next]_vars => LiveHasDb'
  BY LiveHasDbStep
<1>3. LiveHasDb /\ RedisUnique => LiveMastersOwnDb
  <2> SUFFICES ASSUME LiveHasDb, RedisUnique, NEW m \in Masters, Exists(live[m]),
                      NEW n \in Masters \ {m}, live[n].redis = live[m].redis
               PROVE  FALSE
    BY DEF LiveMastersOwnDb, LiveHasDb
  <2>1. live[m].redis # 0 /\ m \in Datasets /\ n \in Datasets \ {m}
    BY DatasetsAssumption DEF LiveHasDb
  <2>2. live[m].redis \in HoldsDb(m) /\ live[m].redis \in HoldsDb(n)
    BY <2>1 DEF HoldsDb
  <2>3. QED
    BY <2>1, <2>2 DEF RedisUnique
<1>4. QED
  BY <1>1, <1>2, <1>3, SequentialInvariant, RedisUniqueness, PTL DEF Spec

MastersOnly(x) == \A f \in x.denorm : f.ds \in Masters

\* The row x of a master that has been Live has the number of the live row.
Keeps(d, x) == d \in Masters /\ Exists(live[d]) => x.redis = live[d].redis

Owned(d, x) == MastersOnly(x) /\ (Exists(x) => Keeps(d, x))

\* The fields of a live row name masters that have been Live, by the number each still has.
LiveOwned ==
    \A d \in Datasets :
        /\ MastersOnly(live[d])
        /\ \A f \in live[d].denorm : Exists(live[f.ds]) /\ f.db = live[f.ds].redis

\* What a handler relies on between two awaits.
RowOwned(r) ==
    LET d == tgt[r] IN
    /\ MastersOnly(row[r])
    /\ pc[r] \notin Bringing
    /\ pc[r] = "create_insert" => ~Exists(live[d])
    /\ pc[r] \in {"update_write", "edit_denorm", "edit_insert", "ready_write", "publish_denorm",
                  "publish_alloc", "publish_save"} => Keeps(d, row[r])
    /\ pc[r] = "publish_alloc" => d \in Masters /\ row[r].redis = 0
    /\ pc[r] = "edit_denorm" => row[r] = live[d]
    /\ pc[r] = "edit_insert" => MastersOf(row[r]) = MastersOf(live[d])

DraftsOwned == \A d \in Datasets : Owned(d, draft[d])

OwnInv == DraftsOwned /\ LiveOwned /\ LiveHasDb /\ \A r \in Requests : RowOwned(r)

\* A free slot, and one whose handler only waits or deletes, relies on nothing.
LEMMA RestingOwn ==
  ASSUME NEW r \in Requests, MastersOnly(row'[r]),
         pc'[r] \in {"idle", "failed", "publish_ok", "retire_ok", "edit_live", "ready_read", "publish_read",
                     "retire_deps", "retire_save", "retire_stop", "delete_txn"} \cup Waiting
  PROVE  RowOwned(r)'
  BY DEF RowOwned, Bringing, Waiting, MastersOnly

\* Writes to drafts.
LEMMA OwnedSaved ==
  ASSUME TypeOK, DraftsOwned, live' = live, NEW d \in Datasets, NEW x, SaveDraft(d, x), Owned(d, x)
  PROVE  DraftsOwned'
  BY DEF DraftsOwned, Owned, Keeps, MastersOnly, SaveDraft, TypeOK

LEMMA OwnedInserted ==
  ASSUME TypeOK, DraftsOwned, live' = live, NEW d \in Datasets, NEW x \in Row, InsertDraft(d, x), Owned(d, x)
  PROVE  DraftsOwned'
<1>1. /\ [x EXCEPT !.key = NewKey].redis = x.redis /\ [x EXCEPT !.key = NewKey].denorm = x.denorm
      /\ [x EXCEPT !.key = NewKey].status = x.status
  BY DEF Row
<1>2. QED
  BY <1>1 DEF DraftsOwned, Owned, Keeps, MastersOnly, InsertDraft, TypeOK, Exists

LEMMA OwnedSame ==
  ASSUME DraftsOwned, live' = live, draft' = draft
  PROVE  DraftsOwned'
  BY DEF DraftsOwned, Owned, Keeps, MastersOnly

\* The steps that end a handler after a write to the drafts.
LEMMA DraftingOwn ==
  ASSUME TypeOK, StatusInv, OwnInv, NEW r \in Requests,
         CreateInsert(r) \/ UpdateWrite(r) \/ EditInsert(r) \/ ReadyWrite(r) \/ PublishSave(r) \/ DeleteTxn(r)
  PROVE  /\ live' = live /\ row'[r] = NoRow /\ pc'[r] \in {"idle", "publish_sent"}
         /\ DraftsOwned'
<1> DEFINE d == tgt[r]
<1>1. /\ d \in Datasets /\ row[r] \in Row /\ draft[d] \in Row /\ NewKey \in Nat
      /\ RowOwned(r) /\ MastersOnly(row[r]) /\ DraftsOwned
  BY DEF TypeOK, NewKey, OwnInv, RowOwned
<1>2. /\ live' = live /\ row'[r] = NoRow /\ pc'[r] \in {"idle", "publish_sent"}
  BY DEF CreateInsert, UpdateWrite, EditInsert, ReadyWrite, PublishSave, DeleteTxn, Done, Send, Goto, Hold, TypeOK
<1>3. CASE CreateInsert(r)
  <2>1. PICK ms \in SUBSET Masters :
          InsertDraft(d, [DefaultRow(NewKey) EXCEPT !.denorm = Unresolved(ms)])
    BY <1>3 DEF CreateInsert
  <2> DEFINE x == [DefaultRow(NewKey) EXCEPT !.denorm = Unresolved(ms)]
  <2>2. x \in Row
    BY <1>1, DefaultRowType, UnresolvedType, RowUpdate
  <2>3. ~Exists(live[d])
    BY <1>1, <1>3 DEF CreateInsert, At, RowOwned
  <2>4. Owned(d, x)
    BY <2>3 DEF Owned, Keeps, MastersOnly, DefaultRow, Unresolved
  <2> HIDE DEF x
  <2>5. QED
    BY <1>1, <1>2, <2>1, <2>2, <2>4, OwnedInserted DEF x
<1>4. CASE UpdateWrite(r)
  <2>1. PICK fields \in {draft[d].denorm} \cup MergedDenorms(row[r].denorm),
             db \in {draft[d].redis, row[r].redis} :
               SaveDraft(d, Updated(draft[d], fields, db))
    BY <1>4 DEF UpdateWrite
  <2>2. \A f \in fields : f.ds \in Masters
    BY <1>1, <2>1 DEF MergedDenorms, MergeDenorm, Unresolved, MastersOnly, DraftsOwned, Owned
  <2>3. /\ Updated(draft[d], fields, db).denorm = fields /\ Updated(draft[d], fields, db).redis = db
        /\ Updated(draft[d], fields, db).status = draft[d].status
    BY <1>1 DEF Updated, Row
  <2>4. Keeps(d, row[r]) /\ (Exists(draft[d]) => Keeps(d, draft[d]))
    BY <1>1, <1>4 DEF UpdateWrite, At, RowOwned, DraftsOwned, Owned
  <2>5. Exists(draft[d]) => Owned(d, Updated(draft[d], fields, db))
    BY <2>1, <2>2, <2>3, <2>4 DEF Owned, Keeps, MastersOnly
  <2>6. CASE Exists(draft[d])
    BY <1>1, <1>2, <2>1, <2>5, <2>6, OwnedSaved
  <2>7. CASE ~Exists(draft[d])
    BY <1>1, <1>2, <2>1, <2>7, OwnedSame DEF SaveDraft
  <2>8. QED
    BY <2>6, <2>7
<1>5. CASE EditInsert(r)
  <2>1. PICK x : x = [row[r] EXCEPT !.status = "Draft", !.version = row[r].version + 1]
    OBVIOUS
  <2>2. x \in Row /\ x.denorm = row[r].denorm /\ x.redis = row[r].redis
    <3>1. row[r].version + 1 \in Nat /\ "Draft" \in Statuses
      BY <1>1 DEF Row, Statuses
    <3>2. [row[r] EXCEPT !.status = "Draft"] \in Row
      BY <1>1, <3>1, RowUpdate
    <3>3. x \in Row
      BY <2>1, <3>1, <3>2, RowUpdate
    <3>4. QED
      BY <1>1, <2>1, <3>3 DEF Row
  <2>3. Keeps(d, row[r]) /\ InsertDraft(d, x)
    BY <1>1, <1>5, <2>1 DEF EditInsert, At, RowOwned
  <2>4. Owned(d, x)
    BY <1>1, <2>2, <2>3 DEF Owned, Keeps, MastersOnly
  <2>5. QED
    BY <1>1, <1>2, <2>2, <2>3, <2>4, OwnedInserted
<1>6. CASE ReadyWrite(r)
  <2>1. PICK x : x = [row[r] EXCEPT !.status = "ReadyToPublish"]
    OBVIOUS
  <2>2. x.denorm = row[r].denorm /\ x.redis = row[r].redis
    BY <1>1, <2>1 DEF Row
  <2>3. Keeps(d, row[r]) /\ SaveDraft(d, x)
    BY <1>1, <1>6, <2>1 DEF ReadyWrite, At, RowOwned
  <2>4. Owned(d, x)
    BY <1>1, <2>2, <2>3 DEF Owned, Keeps, MastersOnly
  <2>5. QED
    BY <1>1, <1>2, <2>3, <2>4, OwnedSaved
<1>7. CASE PublishSave(r)
  <2>1. Owned(d, row[r])
    BY <1>1, <1>7 DEF PublishSave, At, RowOwned, Owned
  <2>2. QED
    BY <1>1, <1>2, <1>7, <2>1, OwnedSaved, OwnedSame DEF PublishSave
<1>8. CASE DeleteTxn(r)
  <2>1. \A e \in Datasets : draft'[e] \in {draft[e], NoRow}
    BY <1>1, <1>8 DEF DeleteTxn, TypeOK
  <2>2. ASSUME NEW e \in Datasets PROVE Owned(e, draft[e])'
    <3>1. CASE draft'[e] = draft[e]
      BY <1>1, <1>2, <3>1 DEF DraftsOwned, Owned, Keeps, MastersOnly
    <3>2. CASE draft'[e] = NoRow
      BY <3>2 DEF NoRow, Owned, MastersOnly, Exists
    <3>3. QED
      BY <2>1, <3>1, <3>2
  <2>3. QED
    BY <1>2, <2>2 DEF DraftsOwned
<1>9. QED
  BY <1>3, <1>4, <1>5, <1>6, <1>7, <1>8

\* The fields made for masters name these masters.
LEMMA UnresolvedMasters ==
  ASSUME NEW ms
  PROVE  {f.ds : f \in Unresolved(ms)} = ms
<1>1. ASSUME NEW m \in ms PROVE \E f \in Unresolved(ms) : m = f.ds
  <2>1. [ds |-> m, db |-> 0] \in Unresolved(ms) /\ m = [ds |-> m, db |-> 0].ds
    BY DEF Unresolved
  <2>2. QED
    BY <2>1
<1>2. \A f \in Unresolved(ms) : f.ds \in ms
  BY DEF Unresolved
<1>3. QED
  BY <1>1, <1>2

\* A draft made from a live row names the masters whose numbers the live row has: no other
\* Live master has such a number.
LEMMA MappedMasters ==
  ASSUME TypeOK, OwnInv, RedisUnique, NEW d \in Datasets,
         NEW g \in [live[d].denorm -> Masters],
         \A f \in live[d].denorm : g[f] \in MastersAt(f.db)
  PROVE  \A f \in live[d].denorm : g[f] = f.ds
<1> SUFFICES ASSUME NEW f \in live[d].denorm PROVE g[f] = f.ds
  OBVIOUS
<1>1. /\ f.ds \in Masters /\ Exists(live[f.ds]) /\ f.db = live[f.ds].redis
      /\ g[f] \in Masters /\ live[g[f]].redis = f.db /\ f.ds \in Datasets /\ g[f] \in Datasets
  BY DatasetsAssumption DEF OwnInv, LiveOwned, MastersOnly, MastersAt
<1>2. f.db # 0
  BY <1>1 DEF OwnInv, LiveHasDb
<1>3. f.db \in HoldsDb(f.ds) /\ f.db \in HoldsDb(g[f])
  BY <1>1, <1>2 DEF HoldsDb
<1>4. QED
  BY <1>1, <1>3 DEF RedisUnique

\* The steps of a handler that only reads.
LEMMA ReadingOwn ==
  ASSUME TypeOK, StatusInv, OwnInv, RedisUnique, NEW r \in Requests,
         \/ EditReadLive(r) \/ EditMapDenorm(r) \/ ReadyRead(r) \/ PublishRead(r)
         \/ PublishDenorm(r) \/ PublishAlloc(r) \/ RetireDeps(r) \/ RetireStop(r) \/ Respond(r)
  PROVE  UNCHANGED <<draft, live>> /\ RowOwned(r)'
<1>1. PICK d \in Datasets : d = tgt[r]
  BY DEF TypeOK
<1>2. /\ row[r] \in Row /\ draft[d] \in Row /\ live[d] \in Row
      /\ RowOwned(r) /\ MastersOnly(row[r]) /\ Owned(d, draft[d]) /\ MastersOnly(live[d])
  BY DEF TypeOK, OwnInv, RowOwned, DraftsOwned, LiveOwned
<1>3. UNCHANGED <<draft, live>>
  BY DEF EditReadLive, EditMapDenorm, ReadyRead, PublishRead, PublishDenorm, PublishAlloc, RetireDeps,
     RetireStop, Respond, tables
<1>4. MastersOnly(NoRow)
  BY DEF MastersOnly, NoRow
<1>5. CASE Done(r)
  <2>1. row'[r] = NoRow /\ pc'[r] = "idle"
    BY <1>5 DEF Done, Hold, TypeOK
  <2>2. MastersOnly(row'[r])
    BY <1>4, <2>1
  <2>3. RowOwned(r)'
    BY <2>1, <2>2, RestingOwn
  <2>4. QED
    BY <1>3, <2>3
<1>6. CASE EditReadLive(r) /\ ~Done(r)
  <2>1. /\ pc'[r] = IF live[d].denorm = {} THEN "edit_insert" ELSE "edit_denorm"
        /\ row'[r] = live[d] /\ tgt'[r] = d
    BY <1>1, <1>6 DEF EditReadLive, Goto, Hold, TypeOK
  <2>2. QED
    BY <1>2, <1>3, <2>1 DEF RowOwned, Keeps, MastersOnly, Bringing
<1>7. CASE EditMapDenorm(r) /\ ~Done(r)
  <2>1. row[r] = live[d] /\ pc[r] = "edit_denorm"
    BY <1>1, <1>2, <1>7 DEF EditMapDenorm, At, RowOwned
  <2>2. PICK g \in [live[d].denorm -> Masters] :
          /\ \A f \in live[d].denorm : g[f] \in MastersAt(f.db)
          /\ Hold(r, [live[d] EXCEPT !.denorm = Unresolved({g[f] : f \in live[d].denorm})])
          /\ Goto(r, "edit_insert")
    BY <1>7, <2>1 DEF EditMapDenorm
  <2>3. \A f \in live[d].denorm : g[f] = f.ds
    BY <2>2, MappedMasters
  <2>4. PICK x : x = [live[d] EXCEPT !.denorm = Unresolved({g[f] : f \in live[d].denorm})]
    OBVIOUS
  <2>5. row'[r] = x /\ pc'[r] = "edit_insert" /\ tgt'[r] = d
    BY <1>1, <2>2, <2>4 DEF Hold, Goto, TypeOK
  <2>6. x.redis = live[d].redis /\ x.denorm = Unresolved({g[f] : f \in live[d].denorm})
    BY <1>2, <2>4 DEF Row
  <2>7. {g[f] : f \in live[d].denorm} = MastersOf(live[d])
    BY <2>3 DEF MastersOf
  <2>8. MastersOf(x) = MastersOf(live[d])
    BY <2>6, <2>7, UnresolvedMasters DEF MastersOf
  <2>9. MastersOnly(x)
    BY <2>6 DEF MastersOnly, Unresolved
  <2>10. QED
    BY <1>3, <2>5, <2>6, <2>8, <2>9 DEF RowOwned, Keeps, Bringing, MastersOnly, MastersOf
<1>8. CASE ReadyRead(r) /\ ~Done(r)
  <2>1. /\ pc'[r] = "ready_write" /\ tgt'[r] = d /\ Exists(draft[d])
        /\ row'[r] = MergeDefaults(d, draft[d])
    BY <1>1, <1>8 DEF ReadyRead, Goto, Hold, TypeOK
  <2>2. /\ MergeDefaults(d, draft[d]).denorm = draft[d].denorm
        /\ d \in Masters => MergeDefaults(d, draft[d]).redis = draft[d].redis
    BY <1>2 DEF MergeDefaults, Row
  <2>3. QED
    BY <1>2, <1>3, <2>1, <2>2 DEF RowOwned, Owned, Keeps, MastersOnly, Bringing
<1>9. CASE PublishRead(r) /\ ~Done(r)
  <2>1. /\ pc'[r] = IF draft[d].denorm = {} THEN AllocOrSave(d, draft[d]) ELSE "publish_denorm"
        /\ tgt'[r] = d /\ Exists(draft[d]) /\ row'[r] = draft[d]
    BY <1>1, <1>9 DEF PublishRead, Goto, Hold, TypeOK
  <2>2. QED
    BY <1>2, <1>3, <2>1 DEF RowOwned, Owned, Keeps, MastersOnly, Bringing, AllocOrSave
<1>10. CASE PublishDenorm(r) /\ ~Done(r)
  <2>1. PICK x : x = [row[r] EXCEPT !.denorm = {[ds |-> m, db |-> live[m].redis] : m \in MastersOf(row[r])}]
    OBVIOUS
  <2>2. /\ pc'[r] = AllocOrSave(d, x) /\ tgt'[r] = d /\ row'[r] = x /\ pc[r] = "publish_denorm"
    BY <1>1, <1>10, <2>1 DEF PublishDenorm, Goto, Hold, At, TypeOK
  <2>3. /\ x.redis = row[r].redis
        /\ x.denorm = {[ds |-> m, db |-> live[m].redis] : m \in MastersOf(row[r])}
    BY <1>2, <2>1 DEF Row
  <2>4. MastersOnly(x)
    BY <1>2, <2>3 DEF MastersOnly, MastersOf
  <2>5. Keeps(d, x)
    BY <1>1, <1>2, <2>2, <2>3 DEF RowOwned, Keeps
  <2>6. QED
    BY <1>3, <2>2, <2>4, <2>5 DEF RowOwned, Keeps, MastersOnly, Bringing, AllocOrSave
<1>11. CASE PublishAlloc(r)
  <2>1. PICK x : x = [row[r] EXCEPT !.redis = nextDb]
    OBVIOUS
  <2>2. /\ pc'[r] = "publish_save" /\ tgt'[r] = d /\ row'[r] = x /\ pc[r] = "publish_alloc"
        /\ x.denorm = row[r].denorm
    BY <1>1, <1>2, <1>11, <2>1 DEF PublishAlloc, Goto, Hold, At, TypeOK, Row
  <2>3. ~Exists(live[d])
    BY <1>1, <1>2, <2>2 DEF RowOwned, Keeps, OwnInv, LiveHasDb
  <2>4. QED
    BY <1>2, <1>3, <2>2, <2>3 DEF RowOwned, Keeps, MastersOnly, Bringing
<1>12. CASE (RetireDeps(r) \/ RetireStop(r)) /\ ~Done(r)
  <2>1. pc'[r] \in {"retire_save", "retire_sent"} /\ row'[r] \in {row[r], NoRow}
    BY <1>12 DEF RetireDeps, RetireStop, Send, Goto, Hold, TypeOK
  <2>2. QED
    BY <1>2, <1>3, <1>4, <2>1, RestingOwn DEF Waiting
<1>13. QED
  BY <1>3, <1>5, <1>6, <1>7, <1>8, <1>9, <1>10, <1>11, <1>12 DEF Respond

\* A retirement keeps the number and the fields of the live row.
LEMMA RetireOwn ==
  ASSUME TypeOK, StatusInv, OwnInv, NEW r \in Requests, HandlerInv(r), RetireSave(r)
  PROVE  DraftsOwned' /\ LiveOwned' /\ RowOwned(r)'
<1>1. PICK c \in Datasets : c = tgt[r]
  BY DEF TypeOK
<1>2. IsLive(c) /\ draft' = draft /\ MastersOnly(row[r])
  BY <1>1 DEF RetireSave, At, HandlerInv, OwnInv, RowOwned
<1>3. \A d \in Datasets : /\ live'[d].redis = live[d].redis /\ live'[d].denorm = live[d].denorm
                          /\ Exists(live'[d]) <=> Exists(live[d])
  BY <1>1, <1>2, RetiredRow
<1>4. LiveOwned'
  <2>1. \A d \in Datasets : \A f \in live[d].denorm : f.ds \in Datasets
    BY DatasetsAssumption DEF OwnInv, LiveOwned, MastersOnly
  <2>2. QED
    BY <1>3, <2>1 DEF OwnInv, LiveOwned, MastersOnly
<1>5. DraftsOwned'
  BY <1>2, <1>3 DEF OwnInv, DraftsOwned, Owned, Keeps, MastersOnly
<1>6. RowOwned(r)'
  <2>1. pc'[r] \in {"retire_stop", "idle"} /\ row'[r] \in {row[r], NoRow}
    BY DEF RetireSave, Goto, Done, Hold, TypeOK
  <2>2. MastersOnly(row'[r])
    BY <1>2, <2>1 DEF MastersOnly, NoRow
  <2>3. QED
    BY <2>1, <2>2, RestingOwn
<1>7. QED
  BY <1>4, <1>5, <1>6

\* The worker writes a prepared draft, with the number that the dataset had.
LEMMA WorkerOwn ==
  ASSUME TypeOK, OwnInv, PathInv(tgt[wreq]), WorkerStep
  PROVE  DraftsOwned' /\ LiveOwned'
<1>1. PICK c \in Datasets : c = tgt[wreq]
  BY WorkerStepFrame DEF TypeOK
<1>2. CASE WorkerRow
  <2>1. /\ draft[c] \in Row /\ live' = [live EXCEPT ![c] = [draft[c] EXCEPT !.status = "Live"]]
        /\ draft' = draft /\ Resolved(c, draft[c]) /\ Exists(draft[c])
    BY <1>1, <1>2 DEF WorkerRow, PathInv, Prepared, TypeOK, Exists
  <2>2. /\ live'[c].redis = draft[c].redis /\ live'[c].denorm = draft[c].denorm /\ Exists(live'[c])
        /\ \A d \in Datasets \ {c} : live'[d] = live[d]
    BY <2>1 DEF TypeOK, Row, Exists
  <2>3. MastersOnly(draft[c]) /\ Keeps(c, draft[c])
    BY <2>1 DEF OwnInv, DraftsOwned, Owned
  <2>4. ASSUME NEW d \in Datasets, NEW f \in live'[d].denorm
        PROVE  f.ds \in Masters /\ Exists(live'[f.ds]) /\ f.db = live'[f.ds].redis
    <3>1. CASE d = c
      BY <2>1, <2>2, <2>3, <2>4, <3>1, DatasetsAssumption DEF Resolved, MastersOnly, IsLive, Exists
    <3>2. CASE d # c
      <4>1. f.ds \in Masters /\ Exists(live[f.ds]) /\ f.db = live[f.ds].redis
        BY <2>2, <2>4, <3>2 DEF OwnInv, LiveOwned, MastersOnly
      <4>2. QED
        BY <2>2, <2>3, <4>1, DatasetsAssumption DEF Keeps
    <3>3. QED
      BY <3>1, <3>2
  <2>5. LiveOwned'
    BY <2>4 DEF LiveOwned, MastersOnly
  <2>6. DraftsOwned'
    BY <2>1, <2>2 DEF OwnInv, DraftsOwned, Owned, Keeps, MastersOnly
  <2>7. QED
    BY <2>5, <2>6
<1>3. CASE ~WorkerRow
  <2>1. live' = live /\ \A d \in Datasets : draft'[d] \in {draft[d], NoRow}
    BY <1>3 DEF WorkerStep, WorkerTopic, WorkerCheck, WorkerAudit, WorkerDraft, WorkerSources,
       WorkerSubmit, WorkerDropSource, WorkerDropDraft, WorkerJobs, WorkerReply, tables, TypeOK
  <2>2. LiveOwned'
    BY <2>1 DEF OwnInv, LiveOwned
  <2>3. \A d \in Datasets : Owned(d, draft[d]) => Owned(d, draft[d])'
    BY <2>1 DEF Owned, Keeps, MastersOnly, Exists, NoRow
  <2>4. QED
    BY <2>2, <2>3 DEF OwnInv, DraftsOwned
<1>4. QED
  BY <1>2, <1>3

\* A first step reads at most the draft.
LEMMA FirstStepOwn ==
  ASSUME TypeOK, OwnInv, DbInv', NEW r \in Requests, NEW d \in Datasets, FirstStep(r, d)
  PROVE  UNCHANGED <<draft, live>> /\ RowOwned(r)'
<1>1. UNCHANGED <<draft, live>> /\ MastersOnly(row[r]) /\ Owned(d, draft[d]) /\ pc'[r] \notin Bringing
  BY FirstStepFrame DEF tables, OwnInv, RowOwned, DraftsOwned, DbInv
<1>2. CASE CreateCheck(r, d)
  <2>1. pc'[r] = "create_insert" /\ tgt'[r] = d /\ ~Exists(live[d]) /\ row' = row
    BY <1>2 DEF CreateCheck, Begin, TypeOK
  <2>2. QED
    BY <1>1, <2>1 DEF RowOwned, Bringing, MastersOnly
<1>3. CASE UpdateRead(r, d)
  <2>1. pc'[r] = "update_write" /\ tgt'[r] = d /\ Exists(draft[d]) /\ row'[r] = draft[d]
    BY <1>3 DEF UpdateRead, Begin, Hold, Exists, TypeOK
  <2>2. QED
    BY <1>1, <2>1 DEF RowOwned, Bringing, MastersOnly, Owned, Keeps
<1>4. CASE \/ EditReadDraft(r, d) \/ ReadyCheck(r, d) \/ PublishCheck(r, d) \/ RetireCheck(r, d)
           \/ DeleteCheck(r, d)
  <2>1. row' = row /\ pc'[r] \in {"edit_live", "ready_read", "publish_read", "retire_deps",
                                  "retire_save", "delete_txn"}
    BY <1>4 DEF EditReadDraft, ReadyCheck, PublishCheck, RetireCheck, DeleteCheck, Begin, TypeOK
  <2>2. QED
    BY <1>1, <2>1, RestingOwn
<1>5. CASE ImportRead(r, d) \/ CopyRead(r, d)
  BY <1>1, <1>5 DEF ImportRead, CopyRead, Begin, Bringing, TypeOK
<1>6. QED
  BY <1>2, <1>3, <1>4, <1>5 DEF FirstStep

LEMMA OwnStep ==
  ASSUME Sequential, SequentialInv, DbInv, DbInv', OwnInv, [Next]_vars
  PROVE  OwnInv'
<1> USE DEF SequentialInv
<1>1. LiveHasDb' /\ RedisUnique
  BY LiveHasDbStep DEF OwnInv, DbInv
<1>2. ASSUME UNCHANGED <<draft, live>> PROVE DraftsOwned' /\ LiveOwned'
  BY <1>2, OwnedSame DEF OwnInv, LiveOwned
<1>3. ASSUME NEW r \in Requests, NEW d \in Datasets, FirstStep(r, d) PROVE OwnInv'
  BY <1>1, <1>2, <1>3, FirstStepOwn DEF OwnInv, Sequential
<1>4. ASSUME NEW r \in Requests, NextStep(r) PROVE OwnInv'
  <2>1. \A q \in Requests : q = r
    BY DEF Sequential
  <2>2. DraftsOwned' /\ LiveOwned' /\ RowOwned(r)'
    <3>1. CASE \/ CreateInsert(r) \/ UpdateWrite(r) \/ EditInsert(r) \/ ReadyWrite(r) \/ PublishSave(r)
               \/ DeleteTxn(r)
      <4>1. live' = live /\ row'[r] = NoRow /\ pc'[r] \in {"idle", "publish_sent"} /\ DraftsOwned'
        BY <3>1, DraftingOwn
      <4>2. MastersOnly(row'[r])
        BY <4>1 DEF MastersOnly, NoRow
      <4>3. QED
        BY <4>1, <4>2, RestingOwn DEF Waiting, OwnInv, LiveOwned
    <3>2. CASE \/ EditReadLive(r) \/ EditMapDenorm(r) \/ ReadyRead(r) \/ PublishRead(r)
               \/ PublishDenorm(r) \/ PublishAlloc(r) \/ RetireDeps(r) \/ RetireStop(r) \/ Respond(r)
      BY <1>1, <1>2, <3>2, ReadingOwn
    <3>3. CASE RetireSave(r)
      BY <3>3, RetireOwn DEF SequenceInv
    <3>4. CASE ImportInsert(r) \/ ImportOverwrite(r) \/ CopyInsert(r)
      BY <3>4 DEF ImportInsert, ImportOverwrite, CopyInsert, At, DbInv, Bringing
    <3>5. QED
      BY <1>4, <3>1, <3>2, <3>3, <3>4 DEF NextStep
  <2>3. QED
    BY <1>1, <2>1, <2>2 DEF OwnInv
<1>5. ASSUME NEW r \in Requests, pc[r] \in Waiting, row'[r] \in {row[r], NoRow},
             pc'[r] \in {"idle", "failed", "publish_ok", "retire_ok"} \cup Waiting
      PROVE  RowOwned(r)'
  <2>1. MastersOnly(row'[r])
    BY <1>5 DEF OwnInv, RowOwned, MastersOnly, NoRow
  <2>2. QED
    BY <1>5, <2>1, RestingOwn
<1>6. CASE WorkerStep
  <2>1. \A r \in Requests : pc[r] \in Waiting
    BY <1>6, WorkerStepFrame DEF Sequential, ControlInv, TypeOK
  <2>2. /\ row' = row
        /\ \A r \in Requests : pc'[r] \in {"idle", "failed", "publish_ok", "retire_ok"} \cup Waiting
    BY <1>6, <2>1, WorkerStepFrame DEF Finish, Answer, Answered, handlers
  <2>3. DraftsOwned' /\ LiveOwned'
    BY <1>6, WorkerOwn DEF SequenceInv
  <2>4. QED
    BY <1>1, <1>5, <2>1, <2>2, <2>3 DEF OwnInv
<1>7. CASE WorkerAbort \/ WorkerCrash
  <2>1. \A r \in Requests : pc[r] \in Waiting
    BY <1>7 DEF WorkerAbort, WorkerCrash, Sequential, ControlInv, TypeOK
  <2>2. /\ row' = row /\ UNCHANGED <<draft, live>>
        /\ \A r \in Requests : pc'[r] \in {"idle", "failed", "publish_ok", "retire_ok"} \cup Waiting
    BY <1>7, <2>1 DEF WorkerAbort, WorkerCrash, Finish, Answer, Answered, tables
  <2>3. QED
    BY <1>1, <1>2, <1>5, <2>1, <2>2 DEF OwnInv
<1>8. CASE ApiCrash
  <2>1. /\ UNCHANGED <<draft, live>>
        /\ \A r \in Requests : pc'[r] \in {"idle", "orphan"} /\ row'[r] = NoRow
    BY <1>8 DEF ApiCrash, tables
  <2>2. MastersOnly(NoRow)
    BY DEF MastersOnly, NoRow
  <2>3. \A r \in Requests : RowOwned(r)'
    BY <2>1, <2>2, RestingOwn DEF Waiting
  <2>4. QED
    BY <1>1, <1>2, <2>1, <2>3 DEF OwnInv
<1>9. CASE (\E r \in Requests : WorkerPick(r)) \/ UNCHANGED vars
  <2>1. UNCHANGED <<draft, live, pc, tgt, row>>
    BY <1>9 DEF WorkerPick, vars, tables, handlers
  <2>2. \A r \in Requests : RowOwned(r)'
    BY <2>1 DEF OwnInv, RowOwned, Keeps
  <2>3. QED
    BY <1>1, <1>2, <2>1, <2>2 DEF OwnInv
<1>10. QED
  BY <1>3, <1>4, <1>6, <1>7, <1>8, <1>9 DEF Next

\* A draft made from a live row is denormalised with the same masters, though the live row
\* names them by their Redis databases: those are unique and never change.
THEOREM EditsKeepMasters ==
  ASSUME Sequential, Kinds \cap {"Import", "Copy"} = {}
  PROVE  Spec => EditKeepsMasters
<1>1. Init => OwnInv
  BY DatasetsAssumption DEF Init, OwnInv, DraftsOwned, LiveOwned, LiveHasDb, RowOwned, Owned, MastersOnly,
     Exists, NoRow, Bringing
<1>2. SequentialInv /\ DbInv /\ DbInv' /\ OwnInv /\ [Next]_vars => OwnInv'
  BY OwnStep
<1>3. ASSUME SequentialInv, OwnInv, [Next]_vars, NEW r \in Requests, At(r, "edit_insert"), draft' # draft
      PROVE  MastersOf(draft'[tgt[r]]) = MastersOf(live[tgt[r]])
  <2>1. wpc = "idle" /\ \A q \in Requests : q = r /\ cmd[q] = "none"
    BY <1>3, Alone DEF SequentialInv, At, Waiting
  <2>2. NextStep(r)
    BY <1>3, <2>1, FirstStepFrame
    DEF Next, SequentialInv, WorkerStep, WorkerTopic, WorkerCheck, WorkerAudit, WorkerDraft, WorkerRow,
        WorkerSources, WorkerSubmit, WorkerDropSource, WorkerDropDraft, WorkerJobs, WorkerReply,
        WorkerPick, WorkerAbort, WorkerCrash, ApiCrash, vars, tables
  <2>3. EditInsert(r)
    BY <1>3, <2>2 DEF NextStep, CreateInsert, UpdateWrite, EditReadLive, EditMapDenorm, ReadyRead,
       ReadyWrite, PublishRead, PublishDenorm, PublishAlloc, PublishSave, RetireDeps, RetireSave,
       RetireStop, Respond, DeleteTxn, ImportInsert, ImportOverwrite, CopyInsert, At
  <2>4. PICK x : x = [row[r] EXCEPT !.status = "Draft", !.version = row[r].version + 1]
    OBVIOUS
  <2>5. /\ draft'[tgt[r]] = [x EXCEPT !.key = NewKey] /\ row[r] \in Row
    BY <1>3, <2>3, <2>4 DEF EditInsert, InsertDraft, SequentialInv, TypeOK
  <2>6. draft'[tgt[r]].denorm = row[r].denorm
    BY <2>4, <2>5 DEF Row
  <2>7. MastersOf(row[r]) = MastersOf(live[tgt[r]])
    BY <1>3 DEF At, OwnInv, RowOwned
  <2>8. QED
    BY <2>6, <2>7 DEF MastersOf
<1>4. SequentialInv /\ OwnInv /\ [Next]_vars =>
        [\A r \in Requests :
            At(r, "edit_insert") /\ draft' # draft =>
               MastersOf(draft'[tgt[r]]) = MastersOf(live[tgt[r]])]_vars
  BY <1>3
<1>5. TypeOK /\ ControlInv /\ DbInv => DbInv
  OBVIOUS
<1>6. QED
  BY <1>1, <1>2, <1>4, <1>5, SequentialInvariant, DbInvariant, PTL DEF Spec, EditKeepsMasters

=============================================================================
