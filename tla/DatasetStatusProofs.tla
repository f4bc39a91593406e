------------------------- MODULE DatasetStatusProofs -------------------------
(***************************************************************************)
(* DatasetLifecycle is type correct and implements DatasetStatus, and      *)
(* publication keeps its order, for every set of datasets, masters and     *)
(* requests, every choice of operations and failures, and every bound.     *)
(* Types: first the facts about rows that the actions rest on, then one    *)
(* step per action.  Statuses: a request whose command the worker executes *)
(* waits for the answer, so that its dataset does not change under the     *)
(* worker (ControlInv); and what handlers hold in memory between their     *)
(* awaits has a status that may be written (StatusInv).                    *)
(***************************************************************************)
EXTENDS DatasetLifecycle, TLAPS

-----------------------------------------------------------------------------
(* Types. *)

\* A dataset chosen to reset the target of a free slot is a dataset.
LEMMA AnyDatasetType == AnyDataset \in Datasets
  BY DatasetsAssumption DEF AnyDataset

\* The row that stands for no row is a row.
LEMMA NoRowType == NoRow \in Row
  BY DEF NoRow, Row, Statuses

\* Denorm fields whose Redis database is not filled in yet are denorm fields.
LEMMA UnresolvedType ==
  ASSUME NEW ms \in SUBSET Masters
  PROVE  Unresolved(ms) \subseteq Fields
  BY DatasetsAssumption DEF Unresolved, Fields

\* Changing a field of a row to a value of its type gives a row.
LEMMA RowUpdate ==
  ASSUME NEW x \in Row
  PROVE  /\ \A s \in Statuses : [x EXCEPT !.status = s] \in Row
         /\ \A k \in Nat : [x EXCEPT !.key = k] \in Row
         /\ \A v \in Nat : [x EXCEPT !.version = v] \in Row
         /\ \A n \in Nat : [x EXCEPT !.redis = n] \in Row
         /\ \A fs \in SUBSET Fields : [x EXCEPT !.denorm = fs] \in Row
         /\ x.status \in Statuses /\ x.key \in Nat /\ x.version \in Nat
         /\ x.redis \in Nat /\ x.denorm \in SUBSET Fields
  BY DEF Row

\* The default row of a key is a row.
LEMMA DefaultRowType == \A k \in Nat : DefaultRow(k) \in Row
  BY DEF DefaultRow, Row, Statuses

\* Merging the default configuration over a row gives a row.
LEMMA MergeDefaultsType ==
  ASSUME NEW d, NEW x \in Row
  PROVE  MergeDefaults(d, x) \in Row
  BY DEF MergeDefaults, Row

\* Merging a request's denorm fields into a row's gives denorm fields.
LEMMA MergeDenormType ==
  ASSUME NEW fields \in SUBSET Fields, NEW upsert \in SUBSET Masters, NEW remove
  PROVE  MergeDenorm(fields, upsert, remove) \in SUBSET Fields
  BY UnresolvedType DEF MergeDenorm

-----------------------------------------------------------------------------
(* The initial state. *)

LEMMA TypeInit == Init => TypeOK
  BY AnyDatasetType, NoRowType
  DEF Init, TypeOK, NoSource, SourceRow, FirstDb, ApiPcs, Commands, WorkerPcs

-----------------------------------------------------------------------------
(* The worker. *)

\* The answer to a set of requests keeps the control states and targets typed.
LEMMA AnswerType ==
  ASSUME TypeOK, NEW S, NEW ok \in BOOLEAN, Answer(S, ok)
  PROVE  pc' \in [Requests -> ApiPcs] /\ tgt' \in [Requests -> Datasets]
<1>1. \A r \in Requests : Answered(r, ok) \in ApiPcs
  BY DEF Answered, ApiPcs
<1>2. QED
  BY <1>1, AnyDatasetType DEF Answer, TypeOK

\* So does the end of a workflow.
LEMMA FinishType ==
  ASSUME TypeOK, NEW ok \in BOOLEAN, Finish(ok)
  PROVE  /\ pc' \in [Requests -> ApiPcs] /\ tgt' \in [Requests -> Datasets]
         /\ row' \in [Requests -> Row] /\ cmd' \in [Requests -> Commands]
         /\ wreq' \in Requests \cup {NoRequest} /\ wpc' \in WorkerPcs /\ wrow' \in Row
         /\ wpc' # "idle" => wreq' \in Requests
<1>1. Answer({wreq}, ok)
  BY DEF Finish
<1>2. pc' \in [Requests -> ApiPcs] /\ tgt' \in [Requests -> Datasets]
  BY <1>1, AnswerType
<1>3. QED
  BY <1>2, NoRowType DEF Finish, Free, TypeOK, WorkerPcs

\* And going on to the next step of a workflow.
LEMMA ContinueType ==
  ASSUME TypeOK, wpc # "idle", NEW next \in WorkerPcs, Continue(next)
  PROVE  /\ pc' \in [Requests -> ApiPcs] /\ tgt' \in [Requests -> Datasets]
         /\ row' \in [Requests -> Row] /\ cmd' \in [Requests -> Commands]
         /\ wreq' \in Requests \cup {NoRequest} /\ wpc' \in WorkerPcs
         /\ wpc' # "idle" => wreq' \in Requests
  BY DEF Continue, TypeOK, handlers

LEMMA WorkerType == TypeOK /\ WorkerStep => TypeOK'
<1> SUFFICES ASSUME TypeOK, WorkerStep PROVE TypeOK'
  OBVIOUS
<1> USE DEF tables, engines, counters
<1>1. CASE WorkerTopic
  BY <1>1, FinishType, ContinueType DEF WorkerTopic, TypeOK, WorkerPcs
<1>2. CASE WorkerCheck
  <2>1. PICK n \in {"audit", "draft"} : Continue(n)
    BY <1>2 DEF WorkerCheck
  <2>2. QED
    BY <1>2, <2>1, ContinueType DEF WorkerCheck, TypeOK, WorkerPcs
<1>3. CASE WorkerAudit
  BY <1>3, FinishType, ContinueType DEF WorkerAudit, TypeOK, WorkerPcs
<1>4. CASE WorkerDraft
  <2>1. tgt[wreq] \in Datasets /\ draft[tgt[wreq]] \in Row
    BY <1>4 DEF WorkerDraft, TypeOK
  <2>2. PICK n \in {"row", "submit"} : Continue(n)
    BY <1>4 DEF WorkerDraft
  <2>3. QED
    BY <1>4, <2>1, <2>2, ContinueType DEF WorkerDraft, TypeOK, WorkerPcs
<1>5. CASE WorkerRow
  <2>1. [wrow EXCEPT !.status = "Live"] \in Row
    BY RowUpdate DEF TypeOK, Statuses
  <2>2. live' \in [Datasets -> Row] /\ wrow' \in Row
    BY <1>5, <2>1, NoRowType DEF WorkerRow, TypeOK
  <2>3. QED
    BY <1>5, <2>2, ContinueType DEF WorkerRow, TypeOK, WorkerPcs
<1>6. CASE WorkerSources
  <2>1. source' \in [Datasets -> SourceRow]
    BY <1>6 DEF WorkerSources, TypeOK, SourceRow
  <2>2. QED
    BY <1>6, <2>1, ContinueType DEF WorkerSources, TypeOK, WorkerPcs
<1>7. CASE WorkerSubmit
  <2>1. supervisor' \in [Datasets -> Nat]
    BY <1>7 DEF WorkerSubmit, TypeOK, SourceRow
  <2>2. PICK n \in {"drop_source", "jobs"} : Continue(n)
    BY <1>7 DEF WorkerSubmit
  <2>3. QED
    BY <1>7, <2>1, <2>2, ContinueType DEF WorkerSubmit, TypeOK, WorkerPcs
<1>8. CASE WorkerDropSource
  <2> DEFINE d == tgt[wreq]
  <2>1. CASE Exists(draft[d])
    <3>1. dsDraft' = [dsDraft EXCEPT ![d] = 0] /\ Continue("drop_draft") /\ UNCHANGED wrow
      BY <1>8, <2>1 DEF WorkerDropSource
    <3>2. QED
      BY <1>8, <3>1, ContinueType DEF WorkerDropSource, TypeOK, WorkerPcs
  <2>2. CASE ~Exists(draft[d])
    <3>1. Finish(FALSE) /\ UNCHANGED dsDraft
      BY <1>8, <2>2 DEF WorkerDropSource
    <3>2. QED
      BY <1>8, <3>1, FinishType DEF WorkerDropSource, TypeOK
  <2>3. QED
    BY <2>1, <2>2
<1>9. CASE WorkerDropDraft
  <2>1. draft' \in [Datasets -> Row]
    BY <1>9, NoRowType DEF WorkerDropDraft, TypeOK
  <2>2. QED
    BY <1>9, <2>1, ContinueType DEF WorkerDropDraft, TypeOK, WorkerPcs
<1>10. CASE WorkerJobs
  <2>1. pipeline' \in [Datasets -> Nat]
    BY <1>10, RowUpdate DEF WorkerJobs, TypeOK
  <2>2. QED
    BY <1>10, <2>1, ContinueType DEF WorkerJobs, TypeOK, WorkerPcs
<1>11. CASE WorkerReply
  BY <1>11, FinishType DEF WorkerReply, TypeOK
<1>12. QED
  BY <1>1, <1>2, <1>3, <1>4, <1>5, <1>6, <1>7, <1>8, <1>9, <1>10, <1>11 DEF WorkerStep

LEMMA WorkerPickType ==
  ASSUME TypeOK, NEW r \in Requests, WorkerPick(r)
  PROVE  TypeOK'
  BY DEF WorkerPick, TypeOK, Commands, WorkerPcs, tables, engines, counters

LEMMA FailureType == TypeOK /\ (WorkerAbort \/ WorkerCrash \/ ApiCrash) => TypeOK'
<1> SUFFICES ASSUME TypeOK, WorkerAbort \/ WorkerCrash \/ ApiCrash PROVE TypeOK'
  OBVIOUS
<1> USE DEF tables, engines, counters
<1>1. CASE WorkerAbort
  BY <1>1, FinishType DEF WorkerAbort, TypeOK
<1>2. CASE WorkerCrash
  <2>1. pc' \in [Requests -> ApiPcs] /\ tgt' \in [Requests -> Datasets]
    <3>1. PICK lost \in SUBSET {r \in Requests : cmd[r] # "none"} :
            Answer(lost \cup {wreq}, FALSE)
      BY <1>2 DEF WorkerCrash
    <3>2. QED
      BY <3>1, AnswerType
  <2>2. cmd' \in [Requests -> Commands]
    BY <1>2 DEF WorkerCrash, TypeOK, Commands
  <2>3. QED
    BY <1>2, <2>1, <2>2, NoRowType DEF WorkerCrash, Free, TypeOK, WorkerPcs
<1>3. CASE ApiCrash
  <2>1. /\ pc' \in [Requests -> ApiPcs] /\ tgt' \in [Requests -> Datasets]
        /\ cmd' \in [Requests -> Commands] /\ row' \in [Requests -> Row]
    BY <1>3, AnyDatasetType, NoRowType DEF ApiCrash, TypeOK, ApiPcs, Commands
  <2>2. QED
    BY <1>3, <2>1 DEF ApiCrash, TypeOK, worker
<1>4. QED
  BY <1>1, <1>2, <1>3

-----------------------------------------------------------------------------
(* The handlers of the API service. *)

\* The control part of the state, which every action of a handler changes.
HandlersOK ==
    /\ pc \in [Requests -> ApiPcs]
    /\ tgt \in [Requests -> Datasets]
    /\ row \in [Requests -> Row]
    /\ cmd \in [Requests -> Commands]

LEMMA DoneType ==
  ASSUME TypeOK, NEW r \in Requests, Done(r)
  PROVE  /\ pc' \in [Requests -> ApiPcs] /\ tgt' \in [Requests -> Datasets]
         /\ row' \in [Requests -> Row]
  BY AnyDatasetType, NoRowType DEF Done, Hold, TypeOK, ApiPcs

LEMMA StepType ==
  ASSUME TypeOK, NEW r \in Requests, NEW next \in ApiPcs, NEW x \in Row,
         Goto(r, next), Hold(r, x)
  PROVE  /\ pc' \in [Requests -> ApiPcs] /\ tgt' \in [Requests -> Datasets]
         /\ row' \in [Requests -> Row]
  BY DEF Goto, Hold, TypeOK

LEMMA SendType ==
  ASSUME TypeOK, NEW r \in Requests, NEW command \in Commands, NEW next \in ApiPcs,
         Send(r, command, next)
  PROVE  HandlersOK'
  BY NoRowType DEF Send, Goto, Hold, TypeOK, HandlersOK

LEMMA BeginType ==
  ASSUME TypeOK, NEW r \in Requests, NEW kind, NEW d \in Datasets, NEW next \in ApiPcs,
         Begin(r, kind, d, next)
  PROVE  pc' \in [Requests -> ApiPcs] /\ tgt' \in [Requests -> Datasets]
  BY DEF Begin, TypeOK

LEMMA SaveDraftType ==
  ASSUME TypeOK, NEW d \in Datasets, NEW x \in Row, SaveDraft(d, x)
  PROVE  draft' \in [Datasets -> Row]
  BY DEF SaveDraft, TypeOK

LEMMA InsertDraftType ==
  ASSUME TypeOK, NEW d \in Datasets, NEW x \in Row, InsertDraft(d, x)
  PROVE  draft' \in [Datasets -> Row] /\ lastKey' \in Nat
<1>1. NewKey \in Nat
  BY DEF NewKey, TypeOK
<1>2. [x EXCEPT !.key = NewKey] \in Row
  BY <1>1, RowUpdate
<1>3. QED
  BY <1>1, <1>2 DEF InsertDraft, TypeOK

LEMMA FirstStepType ==
  ASSUME TypeOK, NEW r \in Requests, NEW d \in Datasets, FirstStep(r, d)
  PROVE  TypeOK'
<1> USE DEF tables, engines, counters, worker
<1>1. draft[d] \in Row /\ live[d] \in Row
  BY DEF TypeOK
<1>2. CASE CreateCheck(r, d)
  BY <1>2, BeginType DEF CreateCheck, TypeOK, ApiPcs
<1>3. CASE UpdateRead(r, d)
  BY <1>1, <1>3, BeginType DEF UpdateRead, Hold, TypeOK, ApiPcs
<1>4. CASE EditReadDraft(r, d)
  BY <1>4, BeginType DEF EditReadDraft, TypeOK, ApiPcs
<1>5. CASE ReadyCheck(r, d)
  BY <1>5, BeginType DEF ReadyCheck, TypeOK, ApiPcs
<1>6. CASE PublishCheck(r, d)
  BY <1>6, BeginType DEF PublishCheck, TypeOK, ApiPcs
<1>7. CASE RetireCheck(r, d)
  BY <1>7, BeginType DEF RetireCheck, TypeOK, ApiPcs
<1>8. CASE DeleteCheck(r, d)
  BY <1>8, BeginType DEF DeleteCheck, TypeOK, ApiPcs
<1>9. CASE ImportRead(r, d)
  <2>1. PICK ms \in SUBSET Masters, db \in Nat :
          Hold(r, [DefaultRow(0) EXCEPT !.denorm = Unresolved(ms), !.redis = db])
    <3>1. {0} \cup FirstDb .. (nextDb - 1) \subseteq Nat
      BY DEF FirstDb, TypeOK
    <3>2. {m \in Masters : IsLive(m)} \subseteq Masters
      OBVIOUS
    <3>3. QED
      BY <1>9, <3>1, <3>2 DEF ImportRead
  <2>2. [DefaultRow(0) EXCEPT !.denorm = Unresolved(ms), !.redis = db] \in Row
    BY DefaultRowType, UnresolvedType, RowUpdate
  <2>3. row' \in [Requests -> Row]
    BY <2>1, <2>2 DEF Hold, TypeOK
  <2>4. QED
    BY <1>9, <2>3, BeginType DEF ImportRead, TypeOK, ApiPcs
<1>10. CASE CopyRead(r, d)
  <2>1. PICK s \in Datasets, x \in {live, draft} :
          Hold(r, [x[s] EXCEPT !.status = "Draft", !.version = 1])
    BY <1>10 DEF CopyRead
  <2>2. x[s] \in Row
    BY <2>1 DEF TypeOK
  <2>3. [x[s] EXCEPT !.status = "Draft", !.version = 1] \in Row
    BY <2>2 DEF Row, Statuses
  <2>4. row' \in [Requests -> Row]
    BY <2>1, <2>3 DEF Hold, TypeOK
  <2>5. QED
    BY <1>10, <2>4, BeginType DEF CopyRead, TypeOK, ApiPcs
<1>11. QED
  BY <1>2, <1>3, <1>4, <1>5, <1>6, <1>7, <1>8, <1>9, <1>10 DEF FirstStep

\* Create, update, edit, import and copy: the handlers that write drafts.
LEMMA DraftingType ==
  ASSUME TypeOK, NEW r \in Requests,
         \/ CreateInsert(r) \/ UpdateWrite(r) \/ EditReadLive(r) \/ EditMapDenorm(r)
         \/ EditInsert(r) \/ ImportInsert(r) \/ ImportOverwrite(r) \/ CopyInsert(r)
  PROVE  TypeOK'
<1> USE DEF tables, engines, counters, worker
<1>1. /\ tgt[r] \in Datasets /\ row[r] \in Row /\ draft[tgt[r]] \in Row
      /\ live[tgt[r]] \in Row /\ NewKey \in Nat
  BY DEF TypeOK, NewKey
<1>2. CASE CreateInsert(r)
  <2>1. PICK ms \in SUBSET Masters :
          InsertDraft(tgt[r], [DefaultRow(NewKey) EXCEPT !.denorm = Unresolved(ms)])
    BY <1>2 DEF CreateInsert
  <2>2. [DefaultRow(NewKey) EXCEPT !.denorm = Unresolved(ms)] \in Row
    BY <1>1, DefaultRowType, UnresolvedType, RowUpdate
  <2>3. draft' \in [Datasets -> Row] /\ lastKey' \in Nat
    BY <1>1, <2>1, <2>2, InsertDraftType
  <2>4. QED
    BY <1>2, <2>3, DoneType DEF CreateInsert, TypeOK
<1>3. CASE UpdateWrite(r)
  <2>1. PICK fields \in {draft[tgt[r]].denorm} \cup MergedDenorms(row[r].denorm),
             db \in {draft[tgt[r]].redis, row[r].redis} :
          SaveDraft(tgt[r], Updated(draft[tgt[r]], fields, db))
    BY <1>3 DEF UpdateWrite
  <2>2. fields \in SUBSET Fields
    <3>1. row[r].denorm \in SUBSET Fields /\ draft[tgt[r]].denorm \in SUBSET Fields
      BY <1>1, RowUpdate
    <3>2. MergedDenorms(row[r].denorm) \subseteq SUBSET Fields
      BY <3>1, MergeDenormType DEF MergedDenorms
    <3>3. QED
      BY <2>1, <3>1, <3>2
  <2>3. db \in Nat
    BY <1>1, <2>1, RowUpdate
  <2>4. Updated(draft[tgt[r]], fields, db) \in Row
    BY <1>1, <2>2, <2>3 DEF Updated, Row
  <2>5. draft' \in [Datasets -> Row]
    BY <1>1, <2>1, <2>4, SaveDraftType
  <2>6. QED
    BY <1>1, <1>3, <2>5, DoneType DEF UpdateWrite, TypeOK
<1>4. CASE EditReadLive(r)
  <2>1. CASE Exists(live[tgt[r]])
    <3>1. PICK next \in {"edit_insert", "edit_denorm"} :
            Goto(r, next) /\ Hold(r, live[tgt[r]])
      BY <1>4, <2>1 DEF EditReadLive
    <3>2. next \in ApiPcs
      BY <3>1 DEF ApiPcs
    <3>3. QED
      BY <1>1, <1>4, <3>1, <3>2, StepType DEF EditReadLive, TypeOK
  <2>2. CASE ~Exists(live[tgt[r]])
    BY <1>4, <2>2, DoneType DEF EditReadLive, TypeOK
  <2>3. QED
    BY <2>1, <2>2
<1>5. CASE EditMapDenorm(r)
  <2>1. CASE Done(r)
    BY <1>5, <2>1, DoneType DEF EditMapDenorm, TypeOK
  <2>2. CASE ~Done(r)
    <3>1. PICK g \in [row[r].denorm -> Masters] :
            /\ Hold(r, [row[r] EXCEPT !.denorm = Unresolved({g[f] : f \in row[r].denorm})])
            /\ Goto(r, "edit_insert")
      BY <1>5, <2>2 DEF EditMapDenorm
    <3>2. [row[r] EXCEPT !.denorm = Unresolved({g[f] : f \in row[r].denorm})] \in Row
      <4>1. {g[f] : f \in row[r].denorm} \in SUBSET Masters
        BY <3>1
      <4>2. QED
        BY <1>1, <4>1, UnresolvedType, RowUpdate
    <3>3. QED
      BY <1>5, <3>1, <3>2, StepType DEF EditMapDenorm, TypeOK, ApiPcs
  <2>3. QED
    BY <2>1, <2>2
<1>6. CASE EditInsert(r)
  <2> DEFINE copy == [row[r] EXCEPT !.status = "Draft",
                                  !.version = row[r].version + 1]
  <2>1. copy \in Row
    <3>1. row[r].version \in Nat /\ "Draft" \in Statuses
      BY <1>1 DEF Row, Statuses
    <3>2. row[r].version + 1 \in Nat
      BY <3>1
    <3>3. [row[r] EXCEPT !.status = "Draft"] \in Row
      BY <1>1, <3>1, RowUpdate
    <3>4. QED
      BY <3>2, <3>3, RowUpdate
  <2>2. InsertDraft(tgt[r], copy)
    BY <1>6 DEF EditInsert
  <2> HIDE DEF copy
  <2>3. draft' \in [Datasets -> Row] /\ lastKey' \in Nat
    BY <1>1, <2>1, <2>2, InsertDraftType
  <2>4. QED
    BY <1>6, <2>3, DoneType DEF EditInsert, TypeOK
<1>7. CASE ImportInsert(r)
  <2>1. draft' \in [Datasets -> Row] /\ lastKey' \in Nat
    BY <1>1, <1>7, InsertDraftType DEF ImportInsert
  <2>2. CASE Done(r)
    BY <1>7, <2>1, <2>2, DoneType DEF ImportInsert, TypeOK
  <2>3. CASE ~Done(r)
    BY <1>7, <2>1, <2>3 DEF ImportInsert, Goto, TypeOK, ApiPcs
  <2>4. QED
    BY <2>2, <2>3
<1>8. CASE ImportOverwrite(r)
  <2>1. [row[r] EXCEPT !.key = NewKey] \in Row
    BY <1>1, RowUpdate
  <2>2. draft' \in [Datasets -> Row]
    BY <1>1, <1>8, <2>1, SaveDraftType DEF ImportOverwrite
  <2>3. QED
    BY <1>1, <1>8, <2>2, DoneType DEF ImportOverwrite, TypeOK
<1>9. CASE CopyInsert(r)
  <2>1. draft' \in [Datasets -> Row] /\ lastKey' \in Nat
    BY <1>1, <1>9, InsertDraftType DEF CopyInsert
  <2>2. QED
    BY <1>9, <2>1, DoneType DEF CopyInsert, TypeOK
<1>10. QED
  BY <1>2, <1>3, <1>4, <1>5, <1>6, <1>7, <1>8, <1>9

\* The status transitions.
LEMMA TransitionType ==
  ASSUME TypeOK, NEW r \in Requests,
         \/ ReadyRead(r) \/ ReadyWrite(r)
         \/ PublishRead(r) \/ PublishDenorm(r) \/ PublishAlloc(r) \/ PublishSave(r)
         \/ RetireDeps(r) \/ RetireSave(r) \/ RetireStop(r) \/ Respond(r) \/ DeleteTxn(r)
  PROVE  TypeOK'
<1> USE DEF tables, engines, counters, worker
<1>1. /\ tgt[r] \in Datasets /\ row[r] \in Row /\ draft[tgt[r]] \in Row
  BY DEF TypeOK
<1>2. \A x : AllocOrSave(tgt[r], x) \in ApiPcs
  BY DEF AllocOrSave, ApiPcs
<1>3. CASE ReadyRead(r)
  <2>1. CASE Done(r)
    BY <1>3, <2>1, DoneType DEF ReadyRead, TypeOK
  <2>2. CASE ~Done(r)
    BY <1>1, <1>3, <2>2, MergeDefaultsType, StepType DEF ReadyRead, TypeOK, ApiPcs
  <2>3. QED
    BY <2>1, <2>2
<1>4. CASE ReadyWrite(r)
  <2>1. [row[r] EXCEPT !.status = "ReadyToPublish"] \in Row
    BY <1>1, RowUpdate DEF Statuses
  <2>2. draft' \in [Datasets -> Row]
    BY <1>1, <1>4, <2>1, SaveDraftType DEF ReadyWrite
  <2>3. QED
    BY <1>4, <2>2, DoneType DEF ReadyWrite, TypeOK
<1>5. CASE PublishRead(r)
  <2>1. CASE Exists(draft[tgt[r]])
    <3>1. PICK next \in {AllocOrSave(tgt[r], draft[tgt[r]]), "publish_denorm"} :
            Goto(r, next) /\ Hold(r, draft[tgt[r]])
      BY <1>5, <2>1 DEF PublishRead
    <3>2. next \in ApiPcs
      BY <1>2, <3>1 DEF ApiPcs
    <3>3. QED
      BY <1>1, <1>5, <3>1, <3>2, StepType DEF PublishRead, TypeOK
  <2>2. CASE ~Exists(draft[tgt[r]])
    BY <1>5, <2>2, DoneType DEF PublishRead, TypeOK
  <2>3. QED
    BY <2>1, <2>2
<1>6. CASE PublishDenorm(r)
  <2> DEFINE ms == MastersOf(row[r])
             fs == {[ds |-> m, db |-> live[m].redis] : m \in ms}
             resolved == [row[r] EXCEPT !.denorm = fs]
  <2>1. resolved \in Row
    <3>1. ms \subseteq Datasets
      BY <1>1 DEF MastersOf, Row, Fields
    <3>2. \A m \in ms : live[m].redis \in Nat
      BY <3>1, RowUpdate DEF TypeOK
    <3>3. fs \in SUBSET Fields
      BY <3>1, <3>2 DEF Fields
    <3>4. QED
      BY <1>1, <3>3, RowUpdate
  <2>2. CASE Done(r)
    BY <1>6, <2>2, DoneType DEF PublishDenorm, TypeOK
  <2>3. CASE ~Done(r)
    <3>1. Hold(r, resolved) /\ Goto(r, AllocOrSave(tgt[r], resolved))
      BY <1>6, <2>3 DEF PublishDenorm
    <3>2. QED
      BY <1>2, <1>6, <2>1, <3>1, StepType DEF PublishDenorm, TypeOK
  <2>4. QED
    BY <2>2, <2>3
<1>7. CASE PublishAlloc(r)
  <2>1. [row[r] EXCEPT !.redis = nextDb] \in Row
    BY <1>1, RowUpdate DEF TypeOK
  <2>2. QED
    BY <1>7, <2>1, StepType DEF PublishAlloc, TypeOK, ApiPcs
<1>8. CASE PublishSave(r)
  <2>1. CASE Done(r) /\ UNCHANGED <<draft, dsDraft, cmd>>
    BY <1>8, <2>1, DoneType DEF PublishSave, TypeOK
  <2>2. CASE /\ SaveDraft(tgt[r], row[r])
             /\ dsDraft' = [dsDraft EXCEPT ![tgt[r]] = row[r].key]
             /\ Send(r, "PUBLISH_DATASET", "publish_sent")
    <3>1. draft' \in [Datasets -> Row] /\ dsDraft' \in [Datasets -> Nat]
      BY <1>1, <2>2, SaveDraftType, RowUpdate DEF TypeOK
    <3>2. HandlersOK'
      BY <2>2, SendType DEF Commands, ApiPcs
    <3>3. QED
      BY <1>8, <3>1, <3>2 DEF PublishSave, TypeOK, HandlersOK
  <2>3. QED
    BY <1>8, <2>1, <2>2 DEF PublishSave
<1>9. CASE RetireDeps(r)
  BY <1>9, DoneType DEF RetireDeps, Goto, TypeOK, ApiPcs
<1>10. CASE RetireSave(r)
  <2>1. CASE Done(r) /\ UNCHANGED <<live, source>>
    BY <1>10, <2>1, DoneType DEF RetireSave, TypeOK
  <2>2. CASE /\ live' = [live EXCEPT ![tgt[r]].status = "Retired"]
             /\ source' = IF source[tgt[r]].status = "none" THEN source
                          ELSE [source EXCEPT ![tgt[r]].status = "Retired"]
             /\ Goto(r, "retire_stop") /\ UNCHANGED row
    <3>1. live' = [live EXCEPT ![tgt[r]] = [live[tgt[r]] EXCEPT !.status = "Retired"]]
      BY <2>2
    <3>2. live[tgt[r]] \in Row /\ "Retired" \in Statuses
      BY <1>1 DEF TypeOK, Statuses
    <3>3. live' \in [Datasets -> Row]
      BY <3>1, <3>2, RowUpdate DEF TypeOK
    <3>4. [source[tgt[r]] EXCEPT !.status = "Retired"] \in SourceRow
      BY <1>1 DEF TypeOK, SourceRow
    <3>5. [source EXCEPT ![tgt[r]].status = "Retired"] =
            [source EXCEPT ![tgt[r]] = [source[tgt[r]] EXCEPT !.status = "Retired"]]
      OBVIOUS
    <3>6. source' \in [Datasets -> SourceRow]
      BY <2>2, <3>4, <3>5 DEF TypeOK
    <3>7. QED
      BY <1>10, <2>2, <3>3, <3>6 DEF RetireSave, Goto, TypeOK, ApiPcs
  <2>3. QED
    BY <1>10, <2>1, <2>2 DEF RetireSave
<1>11. CASE RetireStop(r)
  <2>1. supervisor' \in [Datasets -> Nat]
    BY <1>11 DEF RetireStop, TypeOK
  <2>2. CASE Done(r) /\ UNCHANGED cmd
    BY <1>11, <2>1, <2>2, DoneType DEF RetireStop, TypeOK
  <2>3. CASE Send(r, "RESTART_PIPELINE", "retire_sent")
    <3>1. HandlersOK'
      BY <2>3, SendType DEF Commands, ApiPcs
    <3>2. QED
      BY <1>11, <2>1, <3>1 DEF RetireStop, TypeOK, HandlersOK
  <2>4. QED
    BY <1>11, <2>2, <2>3 DEF RetireStop
<1>12. CASE Respond(r)
  BY <1>12, DoneType DEF Respond, TypeOK
<1>13. CASE DeleteTxn(r)
  <2>1. draft' \in [Datasets -> Row] /\ dsDraft' \in [Datasets -> Nat]
    BY <1>13, NoRowType DEF DeleteTxn, TypeOK
  <2>2. QED
    BY <1>13, <2>1, DoneType DEF DeleteTxn, TypeOK
<1>14. QED
  BY <1>3, <1>4, <1>5, <1>6, <1>7, <1>8, <1>9, <1>10, <1>11, <1>12, <1>13

-----------------------------------------------------------------------------

\* Every step keeps the state typed.
LEMMA TypeStep == TypeOK /\ [Next]_vars => TypeOK'
<1> SUFFICES ASSUME TypeOK, [Next]_vars PROVE TypeOK'
  OBVIOUS
<1>1. CASE \E r \in Requests, d \in Datasets : FirstStep(r, d)
  BY <1>1, FirstStepType
<1>2. CASE \E r \in Requests : NextStep(r)
  <2>1. PICK r \in Requests : NextStep(r)
    BY <1>2
  <2>2. QED
    BY <2>1, DraftingType, TransitionType DEF NextStep
<1>3. CASE \E r \in Requests : WorkerPick(r)
  BY <1>3, WorkerPickType
<1>4. CASE WorkerStep
  BY <1>4, WorkerType
<1>5. CASE WorkerAbort \/ WorkerCrash \/ ApiCrash
  BY <1>5, FailureType
<1>6. CASE UNCHANGED vars
  BY <1>6 DEF vars, tables, engines, counters, handlers, worker, TypeOK
<1>7. QED
  BY <1>1, <1>2, <1>3, <1>4, <1>5, <1>6 DEF Next

\* In every reachable state the tables hold rows, the handlers and the worker are at one
\* of their steps, and a busy worker works for a request.
THEOREM TypeCorrect == Spec => []TypeOK
  BY TypeInit, TypeStep, PTL DEF Spec

-----------------------------------------------------------------------------
(* The inductive invariants. *)

\* The handlers that wait for the command service, and those gone while they waited.
Waiting == {"publish_sent", "retire_sent", "orphan"}

\* A command belongs to a handler that waits, also while the worker executes it.
ControlInv ==
    /\ \A r \in Requests : cmd[r] # "none" => pc[r] \in Waiting
    /\ wpc # "idle" => pc[wreq] \in Waiting /\ cmd[wreq] = "none"

\* The statuses of the rows in the tables.
TablesInv ==
    \A d \in Datasets : /\ draft[d].status \in {"none", "Draft", "ReadyToPublish"}
                        /\ live[d].status \in {"none", "Live", "Retired"}

\* The statuses of the rows that a handler relies on between two awaits.
SlotInv(r) ==
    /\ pc[r] \in {"publish_denorm", "publish_alloc", "publish_save"} =>
         row[r].status \in {"Draft", "ReadyToPublish"}
    /\ pc[r] \in {"import_insert", "import_overwrite", "copy_insert"} =>
         row[r].status = "Draft"
    /\ pc[r] \in {"retire_deps", "retire_save"} =>
         live[tgt[r]].status \in {"Live", "Retired"}

StatusInv == TablesInv /\ \A r \in Requests : SlotInv(r)

\* PublicationOrder, and what the worker relies on before it writes datasources.
OrderInv ==
    /\ PublicationOrder
    /\ wpc = "sources" => Exists(live[tgt[wreq]])

-----------------------------------------------------------------------------
(* What a handler leaves alone. *)

\* The first step of a handler is taken in a free slot and changes no table.
LEMMA FirstStepFrame ==
  ASSUME TypeOK, NEW r \in Requests, NEW d \in Datasets, FirstStep(r, d)
  PROVE  /\ pc[r] = "idle"
         /\ UNCHANGED <<tables, engines, counters, cmd, worker>>
         /\ \A q \in Requests \ {r} : pc'[q] = pc[q] /\ tgt'[q] = tgt[q] /\ row'[q] = row[q]
<1> USE DEF Begin, Hold, TypeOK
<1>1. CASE CreateCheck(r, d) \/ EditReadDraft(r, d) \/ ReadyCheck(r, d)
  BY <1>1 DEF CreateCheck, EditReadDraft, ReadyCheck
<1>2. CASE PublishCheck(r, d) \/ RetireCheck(r, d) \/ DeleteCheck(r, d)
  BY <1>2 DEF PublishCheck, RetireCheck, DeleteCheck
<1>3. CASE UpdateRead(r, d)
  BY <1>3 DEF UpdateRead
<1>4. CASE ImportRead(r, d)
  BY <1>4 DEF ImportRead
<1>5. CASE CopyRead(r, d)
  BY <1>5 DEF CopyRead
<1>6. QED
  BY <1>1, <1>2, <1>3, <1>4, <1>5 DEF FirstStep

\* A later step of a handler changes its own slot only, and is not taken while it waits
\* for the command service; it waits once it has sent a command.
LEMMA NextStepFrame ==
  ASSUME TypeOK, NEW r \in Requests, NextStep(r)
  PROVE  /\ pc[r] \notin Waiting
         /\ cmd'[r] = cmd[r] \/ pc'[r] \in Waiting
         /\ UNCHANGED worker
         /\ \A q \in Requests \ {r} : /\ pc'[q] = pc[q] /\ tgt'[q] = tgt[q]
                                      /\ row'[q] = row[q] /\ cmd'[q] = cmd[q]
<1> USE DEF At, Done, Goto, Hold, Send, Waiting, TypeOK
<1>1. CASE CreateInsert(r) \/ UpdateWrite(r)
  BY <1>1 DEF CreateInsert, UpdateWrite
<1>2. CASE EditReadLive(r) \/ EditMapDenorm(r) \/ EditInsert(r)
  BY <1>2 DEF EditReadLive, EditMapDenorm, EditInsert
<1>3. CASE ReadyRead(r) \/ ReadyWrite(r)
  BY <1>3 DEF ReadyRead, ReadyWrite
<1>4. CASE PublishRead(r) \/ PublishDenorm(r)
  BY <1>4 DEF PublishRead, PublishDenorm
<1>5. CASE PublishAlloc(r) \/ PublishSave(r)
  BY <1>5 DEF PublishAlloc, PublishSave
<1>6. CASE RetireDeps(r) \/ RetireSave(r)
  BY <1>6 DEF RetireDeps, RetireSave
<1>7. CASE RetireStop(r) \/ Respond(r)
  BY <1>7 DEF RetireStop, Respond
<1>8. CASE DeleteTxn(r) \/ ImportInsert(r) \/ ImportOverwrite(r) \/ CopyInsert(r)
  BY <1>8 DEF DeleteTxn, ImportInsert, ImportOverwrite, CopyInsert
<1>9. QED
  BY <1>1, <1>2, <1>3, <1>4, <1>5, <1>6, <1>7, <1>8 DEF NextStep

\* A step of a workflow leaves the handlers alone, or ends the workflow.
LEMMA WorkerStepFrame ==
  ASSUME WorkerStep
  PROVE  /\ wpc # "idle"
         /\ \/ UNCHANGED <<wreq, handlers>>
            \/ \E ok \in BOOLEAN : Finish(ok)
<1>1. CASE WorkerTopic \/ WorkerCheck \/ WorkerAudit \/ WorkerDraft
  BY <1>1 DEF WorkerTopic, WorkerCheck, WorkerAudit, WorkerDraft, Continue
<1>2. CASE WorkerRow \/ WorkerSources \/ WorkerSubmit
  BY <1>2 DEF WorkerRow, WorkerSources, WorkerSubmit, Continue
<1>3. CASE WorkerDropSource \/ WorkerDropDraft \/ WorkerJobs \/ WorkerReply
  BY <1>3 DEF WorkerDropSource, WorkerDropDraft, WorkerJobs, WorkerReply, Continue
<1>4. QED
  BY <1>1, <1>2, <1>3 DEF WorkerStep

-----------------------------------------------------------------------------
(* Commands and the handlers that wait for them. *)

LEMMA ControlInit == Init => ControlInv
  BY DEF Init, ControlInv

\* The end of a workflow, and what answers several requests.
LEMMA ControlAnswer ==
  ASSUME TypeOK, ControlInv, NEW S \in SUBSET Requests, NEW ok \in BOOLEAN, Answer(S, ok),
         wpc' = "idle",
         \A r \in Requests : cmd'[r] = "none" \/ (r \notin S /\ cmd'[r] = cmd[r])
  PROVE  ControlInv'
  BY DEF ControlInv, Answer, TypeOK

LEMMA ControlStep == TypeOK /\ ControlInv /\ [Next]_vars => ControlInv'
<1> SUFFICES ASSUME TypeOK, ControlInv, [Next]_vars PROVE ControlInv'
  OBVIOUS
<1>1. CASE \E r \in Requests, d \in Datasets : FirstStep(r, d)
  <2>1. PICK r \in Requests, d \in Datasets : FirstStep(r, d)
    BY <1>1
  <2>2. QED
    BY <2>1, FirstStepFrame DEF ControlInv, Waiting, worker, TypeOK
<1>2. CASE \E r \in Requests : NextStep(r)
  <2>1. PICK r \in Requests : NextStep(r)
    BY <1>2
  <2>2. QED
    BY <2>1, NextStepFrame DEF ControlInv, worker, TypeOK
<1>3. CASE \E r \in Requests : WorkerPick(r)
  BY <1>3 DEF WorkerPick, ControlInv, TypeOK
<1>4. CASE WorkerStep
  <2>1. CASE UNCHANGED <<wreq, handlers>>
    BY <1>4, <2>1, WorkerStepFrame DEF ControlInv, handlers
  <2>2. CASE \E ok \in BOOLEAN : Finish(ok)
    <3>1. PICK ok \in BOOLEAN : Finish(ok)
      BY <2>2
    <3>2. {wreq} \in SUBSET Requests /\ cmd[wreq] = "none"
      BY <1>4, WorkerStepFrame DEF TypeOK, ControlInv
    <3>3. QED
      BY <3>1, <3>2, ControlAnswer DEF Finish, Free
  <2>3. QED
    BY <1>4, <2>1, <2>2, WorkerStepFrame
<1>5. CASE WorkerAbort
  <2>1. {wreq} \in SUBSET Requests /\ cmd[wreq] = "none"
    BY <1>5 DEF WorkerAbort, TypeOK, ControlInv
  <2>2. QED
    BY <1>5, <2>1, ControlAnswer DEF WorkerAbort, Finish, Free
<1>6. CASE WorkerCrash
  <2>1. PICK lost \in SUBSET {r \in Requests : cmd[r] # "none"} :
          /\ cmd' = [r \in Requests |-> IF r \in lost THEN "none" ELSE cmd[r]]
          /\ Answer(lost \cup {wreq}, FALSE)
    BY <1>6 DEF WorkerCrash
  <2>2. wreq \in Requests /\ cmd[wreq] = "none"
    BY <1>6 DEF WorkerCrash, TypeOK, ControlInv
  <2>3. QED
    BY <1>6, <2>1, <2>2, ControlAnswer DEF WorkerCrash, Free
<1>7. CASE ApiCrash
  <2>1. PICK lost \in SUBSET {r \in Requests : cmd[r] # "none"} :
          /\ pc' = [r \in Requests |->
                      IF r \in {q \in Requests \ lost : pc[q] \in Waiting}
                        THEN "orphan" ELSE "idle"]
          /\ cmd' = [r \in Requests |-> IF r \in lost THEN "none" ELSE cmd[r]]
    BY <1>7 DEF ApiCrash, Waiting
  <2>2. QED
    BY <1>7, <2>1 DEF ApiCrash, ControlInv, Waiting, worker, TypeOK
<1>8. CASE UNCHANGED vars
  BY <1>8 DEF vars, handlers, worker, ControlInv
<1>9. QED
  BY <1>1, <1>2, <1>3, <1>4, <1>5, <1>6, <1>7, <1>8 DEF Next

-----------------------------------------------------------------------------
(* What a handler does to the statuses. *)

DraftStatus == [d \in Datasets |-> draft[d].status]
LiveStatus  == [d \in Datasets |-> live[d].status]

\* The status of a draft stays, or changes as DatasetStatus allows.
MayBecome(from, to) ==
    \/ from = to
    \/ from = "none" /\ to = "Draft"
    \/ from = "Draft" /\ to \in {"ReadyToPublish", "none"}
    \/ from = "ReadyToPublish" /\ to \in {"Draft", "none"}

\* An UPDATE of a draft gives it the status of what is written, if it exists.
LEMMA SaveDraftStatus ==
  ASSUME TypeOK, NEW d \in Datasets, NEW x, SaveDraft(d, x)
  PROVE  DraftStatus' = [DraftStatus EXCEPT ![d] = IF Exists(draft[d]) THEN x.status
                                                  ELSE draft[d].status]
  BY DEF SaveDraft, DraftStatus, TypeOK

\* An INSERT of a draft gives it the status of what is written, if it does not exist.
LEMMA InsertDraftStatus ==
  ASSUME TypeOK, NEW d \in Datasets, NEW x \in Row, InsertDraft(d, x)
  PROVE  DraftStatus' = [DraftStatus EXCEPT ![d] = IF Exists(draft[d]) THEN draft[d].status
                                                  ELSE x.status]
<1>1. [x EXCEPT !.key = NewKey].status = x.status
  BY DEF Row
<1>2. QED
  BY <1>1 DEF InsertDraft, DraftStatus, TypeOK

\* A later step of a handler changes the draft or retires the live row of its dataset.
LEMMA NextStepEffect ==
  ASSUME TypeOK, StatusInv, NEW r \in Requests, NextStep(r)
  PROVE  \/ /\ LiveStatus' = LiveStatus
            /\ \E s : /\ MayBecome(draft[tgt[r]].status, s)
                      /\ DraftStatus' = [DraftStatus EXCEPT ![tgt[r]] = s]
         \/ /\ DraftStatus' = DraftStatus
            /\ live[tgt[r]].status \in {"Live", "Retired"}
            /\ LiveStatus' = [LiveStatus EXCEPT ![tgt[r]] = "Retired"]
<1> DEFINE d == tgt[r]
<1>1. /\ d \in Datasets /\ row[r] \in Row /\ draft[d] \in Row /\ live[d] \in Row
      /\ draft[d].status \in {"none", "Draft", "ReadyToPublish"}
  BY DEF TypeOK, StatusInv, TablesInv
<1> DEFINE DraftMoves == \E s : /\ MayBecome(draft[d].status, s)
                                /\ DraftStatus' = [DraftStatus EXCEPT ![d] = s]
<1>2. CASE UNCHANGED <<draft, live>>
  <2>1. DraftStatus' = [DraftStatus EXCEPT ![d] = draft[d].status] /\ LiveStatus' = LiveStatus
    BY <1>1, <1>2 DEF DraftStatus, LiveStatus
  <2>2. QED
    BY <2>1 DEF MayBecome
<1>3. ASSUME NEW x, SaveDraft(d, x), UNCHANGED live,
             Exists(draft[d]) => MayBecome(draft[d].status, x.status)
      PROVE  LiveStatus' = LiveStatus /\ DraftMoves
  BY <1>1, <1>3, SaveDraftStatus DEF LiveStatus, MayBecome
<1>4. ASSUME NEW x \in Row, InsertDraft(d, x), UNCHANGED live, x.status = "Draft"
      PROVE  LiveStatus' = LiveStatus /\ DraftMoves
  BY <1>1, <1>4, InsertDraftStatus DEF LiveStatus, MayBecome, Exists
<1>5. CASE CreateInsert(r)
  <2>1. PICK ms \in SUBSET Masters :
          InsertDraft(d, [DefaultRow(NewKey) EXCEPT !.denorm = Unresolved(ms)])
    BY <1>5 DEF CreateInsert
  <2>2. NewKey \in Nat
    BY DEF NewKey, TypeOK
  <2>3. [DefaultRow(NewKey) EXCEPT !.denorm = Unresolved(ms)] \in Row
    BY <2>2, DefaultRowType, UnresolvedType, RowUpdate
  <2>4. [DefaultRow(NewKey) EXCEPT !.denorm = Unresolved(ms)].status = "Draft"
    BY DEF DefaultRow
  <2>5. QED
    BY <1>4, <1>5, <2>1, <2>3, <2>4 DEF CreateInsert
<1>6. CASE UpdateWrite(r)
  <2>1. PICK fields, db : SaveDraft(d, Updated(draft[d], fields, db))
    BY <1>6 DEF UpdateWrite
  <2>2. Updated(draft[d], fields, db).status = draft[d].status
    BY <1>1 DEF Updated, Row
  <2>3. QED
    BY <1>3, <1>6, <2>1, <2>2 DEF UpdateWrite, MayBecome
<1>7. CASE EditReadLive(r) \/ EditMapDenorm(r) \/ ReadyRead(r)
  BY <1>2, <1>7 DEF EditReadLive, EditMapDenorm, ReadyRead, tables
<1>8. CASE EditInsert(r)
  <2> DEFINE copy == [row[r] EXCEPT !.status = "Draft",
                                  !.version = row[r].version + 1]
  <2>1. copy \in Row /\ copy.status = "Draft"
    <3>1. row[r].version \in Nat /\ "Draft" \in Statuses
      BY <1>1 DEF Row, Statuses
    <3>2. row[r].version + 1 \in Nat
      BY <3>1
    <3>3. [row[r] EXCEPT !.status = "Draft"] \in Row
      BY <1>1, <3>1, RowUpdate
    <3>4. copy \in Row
      BY <3>2, <3>3, RowUpdate
    <3>5. copy.status = "Draft"
      BY <1>1 DEF Row
    <3>6. QED
      BY <3>4, <3>5
  <2>2. InsertDraft(d, copy) /\ UNCHANGED live
    BY <1>8 DEF EditInsert
  <2> HIDE DEF copy
  <2>3. QED
    BY <1>4, <2>1, <2>2
<1>9. CASE ReadyWrite(r)
  <2>1. [row[r] EXCEPT !.status = "ReadyToPublish"].status = "ReadyToPublish"
    BY <1>1 DEF Row
  <2>2. QED
    BY <1>1, <1>3, <1>9, <2>1 DEF ReadyWrite, MayBecome, Exists
<1>10. CASE PublishRead(r) \/ PublishDenorm(r) \/ PublishAlloc(r)
  BY <1>2, <1>10 DEF PublishRead, PublishDenorm, PublishAlloc, tables
<1>11. CASE PublishSave(r)
  <2>1. row[r].status \in {"Draft", "ReadyToPublish"}
    BY <1>11 DEF PublishSave, At, StatusInv, SlotInv
  <2>2. CASE SaveDraft(d, row[r])
    BY <1>1, <1>3, <1>11, <2>1, <2>2 DEF PublishSave, MayBecome, Exists
  <2>3. QED
    BY <1>2, <1>11, <2>2 DEF PublishSave
<1>12. CASE RetireDeps(r) \/ RetireStop(r) \/ Respond(r)
  BY <1>2, <1>12 DEF RetireDeps, RetireStop, Respond, tables
<1>13. CASE RetireSave(r)
  <2>1. live[d].status \in {"Live", "Retired"} /\ UNCHANGED draft
    BY <1>13 DEF RetireSave, At, StatusInv, SlotInv
  <2>2. CASE live' = [live EXCEPT ![d].status = "Retired"]
    <3>1. live' = [live EXCEPT ![d] = [live[d] EXCEPT !.status = "Retired"]]
      BY <2>2
    <3>2. [live[d] EXCEPT !.status = "Retired"].status = "Retired"
      BY <1>1 DEF Row
    <3>3. LiveStatus' = [LiveStatus EXCEPT ![d] = "Retired"]
      BY <1>1, <3>1, <3>2 DEF LiveStatus, TypeOK
    <3>4. QED
      BY <2>1, <3>3 DEF DraftStatus
  <2>3. QED
    BY <1>2, <1>13, <2>1, <2>2 DEF RetireSave
<1>14. CASE DeleteTxn(r)
  <2>1. CASE draft' = [draft EXCEPT ![d] = NoRow]
    <3>1. DraftStatus' = [DraftStatus EXCEPT ![d] = "none"]
      BY <1>1, <2>1 DEF DraftStatus, NoRow, TypeOK
    <3>2. QED
      BY <1>1, <1>14, <3>1 DEF DeleteTxn, LiveStatus, MayBecome
  <2>2. QED
    BY <1>2, <1>14, <2>1 DEF DeleteTxn
<1>15. CASE ImportInsert(r)
  BY <1>1, <1>4, <1>15 DEF ImportInsert, At, StatusInv, SlotInv
<1>16. CASE ImportOverwrite(r)
  <2>1. [row[r] EXCEPT !.key = NewKey].status = "Draft"
    BY <1>1, <1>16 DEF ImportOverwrite, At, StatusInv, SlotInv, Row
  <2>2. QED
    BY <1>1, <1>3, <1>16, <2>1 DEF ImportOverwrite, MayBecome, Exists
<1>17. CASE CopyInsert(r)
  BY <1>1, <1>4, <1>17 DEF CopyInsert, At, StatusInv, SlotInv
<1>18. QED
  BY <1>5, <1>6, <1>7, <1>8, <1>9, <1>10, <1>11, <1>12, <1>13, <1>14, <1>15, <1>16, <1>17
  DEF NextStep

-----------------------------------------------------------------------------
(* The statuses of the rows. *)

LEMMA StatusInit == Init => StatusInv
  BY AnyDatasetType DEF Init, StatusInv, TablesInv, SlotInv, NoRow

\* A slot that does not change keeps its conditions: a dataset that has been Live stays
\* Live or Retired.
LEMMA OtherSlots ==
  ASSUME TypeOK, NEW q \in Requests, SlotInv(q),
         pc'[q] = pc[q], tgt'[q] = tgt[q], row'[q] = row[q],
         \A d \in Datasets : live[d].status \in {"Live", "Retired"} =>
                                live'[d].status \in {"Live", "Retired"}
  PROVE  SlotInv(q)'
  BY DEF SlotInv, TypeOK

\* A slot that is free, or whose handler waits or answers, has no conditions.
LEMMA FreeSlot ==
  ASSUME NEW q \in Requests,
         pc'[q] \in {"idle", "failed", "publish_ok", "retire_ok"} \cup Waiting
  PROVE  SlotInv(q)'
  BY DEF SlotInv, Waiting

\* The first step of a handler establishes the conditions of its slot.
LEMMA FirstStepSlot ==
  ASSUME TypeOK, StatusInv, NEW r \in Requests, NEW d \in Datasets, FirstStep(r, d)
  PROVE  SlotInv(r)'
<1> USE DEF SlotInv, Begin, Hold, TypeOK
<1>1. CASE CreateCheck(r, d) \/ EditReadDraft(r, d) \/ ReadyCheck(r, d)
  BY <1>1 DEF CreateCheck, EditReadDraft, ReadyCheck
<1>2. CASE PublishCheck(r, d) \/ DeleteCheck(r, d) \/ UpdateRead(r, d)
  BY <1>2 DEF PublishCheck, DeleteCheck, UpdateRead
<1>3. CASE RetireCheck(r, d)
  BY <1>3 DEF RetireCheck, IsLive, tables
<1>4. CASE ImportRead(r, d)
  <2>1. PICK ms, db : Hold(r, [DefaultRow(0) EXCEPT !.denorm = Unresolved(ms), !.redis = db])
    BY <1>4 DEF ImportRead
  <2>2. [DefaultRow(0) EXCEPT !.denorm = Unresolved(ms), !.redis = db].status = "Draft"
    BY DEF DefaultRow
  <2>3. QED
    BY <1>4, <2>1, <2>2 DEF ImportRead
<1>5. CASE CopyRead(r, d)
  <2>1. PICK s \in Datasets, x \in {live, draft} :
          Hold(r, [x[s] EXCEPT !.status = "Draft", !.version = 1])
    BY <1>5 DEF CopyRead
  <2>2. [x[s] EXCEPT !.status = "Draft", !.version = 1].status = "Draft"
    BY <2>1 DEF Row
  <2>3. QED
    BY <1>5, <2>1, <2>2 DEF CopyRead
<1>6. QED
  BY <1>1, <1>2, <1>3, <1>4, <1>5 DEF FirstStep

\* So does each later step.
LEMMA NextStepSlot ==
  ASSUME TypeOK, StatusInv, NEW r \in Requests, NextStep(r)
  PROVE  SlotInv(r)'
<1> USE DEF SlotInv, At, Goto, Hold, TypeOK
<1>1. /\ row[r] \in Row /\ draft[tgt[r]] \in Row
      /\ draft[tgt[r]].status \in {"none", "Draft", "ReadyToPublish"}
  BY DEF StatusInv, TablesInv
<1>2. \A x : AllocOrSave(tgt[r], x) \in {"publish_alloc", "publish_save"}
  BY DEF AllocOrSave
<1>3. CASE Done(r)
  BY <1>3, FreeSlot DEF Done
<1>4. CASE EditReadLive(r) \/ EditMapDenorm(r)
  BY <1>3, <1>4 DEF EditReadLive, EditMapDenorm
<1>5. CASE ReadyRead(r)
  BY <1>3, <1>5 DEF ReadyRead
<1>6. CASE PublishRead(r)
  BY <1>1, <1>2, <1>3, <1>6 DEF PublishRead, Exists
<1>7. CASE PublishDenorm(r)
  <2>1. row[r].status \in {"Draft", "ReadyToPublish"}
    BY <1>7 DEF PublishDenorm, StatusInv
  <2>2. \A fs : [row[r] EXCEPT !.denorm = fs].status = row[r].status
    BY <1>1 DEF Row
  <2>3. CASE ~Done(r)
    <3>1. PICK fs : LET x == [row[r] EXCEPT !.denorm = fs]
                    IN  Hold(r, x) /\ Goto(r, AllocOrSave(tgt[r], x))
      BY <1>7, <2>3 DEF PublishDenorm
    <3>2. QED
      BY <1>2, <2>1, <2>2, <3>1
  <2>4. QED
    BY <1>3, <2>3
<1>8. CASE PublishAlloc(r)
  <2>1. row[r].status \in {"Draft", "ReadyToPublish"}
    BY <1>8 DEF PublishAlloc, StatusInv
  <2>2. [row[r] EXCEPT !.redis = nextDb].status = row[r].status
    BY <1>1 DEF Row
  <2>3. QED
    BY <1>8, <2>1, <2>2 DEF PublishAlloc
<1>9. CASE PublishSave(r)
  BY <1>3, <1>9 DEF PublishSave, Send
<1>10. CASE RetireDeps(r)
  BY <1>3, <1>10 DEF RetireDeps, StatusInv, tables
<1>11. CASE RetireSave(r) \/ RetireStop(r)
  BY <1>3, <1>11 DEF RetireSave, RetireStop, Send
<1>12. CASE ImportInsert(r)
  BY <1>3, <1>12 DEF ImportInsert, StatusInv
<1>13. CASE \/ CreateInsert(r) \/ UpdateWrite(r) \/ EditInsert(r) \/ ReadyWrite(r)
            \/ Respond(r) \/ DeleteTxn(r) \/ ImportOverwrite(r) \/ CopyInsert(r)
  BY <1>3, <1>13 DEF CreateInsert, UpdateWrite, EditInsert, ReadyWrite, Respond, DeleteTxn,
                     ImportOverwrite, CopyInsert
<1>14. QED
  BY <1>4, <1>5, <1>6, <1>7, <1>8, <1>9, <1>10, <1>11, <1>12, <1>13 DEF NextStep

\* Equations between status functions, read row by row.
LEMMA SameDraftStatus ==
  ASSUME DraftStatus' = DraftStatus
  PROVE  \A e \in Datasets : draft'[e].status = draft[e].status
<1>1. ASSUME NEW e \in Datasets
      PROVE  (DraftStatus')[e] = draft'[e].status /\ DraftStatus[e] = draft[e].status
  BY DEF DraftStatus
<1>2. QED
  BY <1>1

LEMMA SameLiveStatus ==
  ASSUME LiveStatus' = LiveStatus
  PROVE  \A e \in Datasets : live'[e].status = live[e].status
<1>1. ASSUME NEW e \in Datasets
      PROVE  (LiveStatus')[e] = live'[e].status /\ LiveStatus[e] = live[e].status
  BY DEF LiveStatus
<1>2. QED
  BY <1>1

LEMMA OtherDraftStatus ==
  ASSUME NEW d, NEW s, DraftStatus' = [DraftStatus EXCEPT ![d] = s]
  PROVE  \A e \in Datasets : draft'[e].status = IF e = d THEN s ELSE draft[e].status
<1>1. ASSUME NEW e \in Datasets
      PROVE  (DraftStatus')[e] = draft'[e].status /\ DraftStatus[e] = draft[e].status
  BY DEF DraftStatus
<1>2. DOMAIN DraftStatus = Datasets
  BY DEF DraftStatus
<1>3. QED
  BY <1>1, <1>2

LEMMA OtherLiveStatus ==
  ASSUME NEW d, NEW s, LiveStatus' = [LiveStatus EXCEPT ![d] = s]
  PROVE  \A e \in Datasets : live'[e].status = IF e = d THEN s ELSE live[e].status
<1>1. ASSUME NEW e \in Datasets
      PROVE  (LiveStatus')[e] = live'[e].status /\ LiveStatus[e] = live[e].status
  BY DEF LiveStatus
<1>2. DOMAIN LiveStatus = Datasets
  BY DEF LiveStatus
<1>3. QED
  BY <1>1, <1>2

\* A handler's step keeps the statuses, those of other slots included.
LEMMA StatusHandler ==
  ASSUME TypeOK, StatusInv, NEW r \in Requests, SlotInv(r)',
         \A q \in Requests \ {r} : pc'[q] = pc[q] /\ tgt'[q] = tgt[q] /\ row'[q] = row[q],
         TablesInv',
         \A d \in Datasets : live[d].status \in {"Live", "Retired"} =>
                                live'[d].status \in {"Live", "Retired"}
  PROVE  StatusInv'
  BY OtherSlots DEF StatusInv

\* The worker and failures change no row in memory, and answer or end handlers.
LEMMA StatusOther ==
  ASSUME TypeOK, StatusInv, TablesInv',
         \A d \in Datasets : live[d].status \in {"Live", "Retired"} =>
                                live'[d].status \in {"Live", "Retired"},
         \A q \in Requests :
            \/ pc'[q] \in {"idle", "failed", "publish_ok", "retire_ok"} \cup Waiting
            \/ pc'[q] = pc[q] /\ tgt'[q] = tgt[q] /\ row'[q] = row[q]
  PROVE  StatusInv'
  BY OtherSlots, FreeSlot DEF StatusInv

\* An answer leaves each handler as it is, or answered.
LEMMA AnswerSlots ==
  ASSUME TypeOK, NEW S, NEW ok \in BOOLEAN, Answer(S, ok), UNCHANGED row
  PROVE  \A q \in Requests :
            \/ pc'[q] \in {"idle", "failed", "publish_ok", "retire_ok"} \cup Waiting
            \/ pc'[q] = pc[q] /\ tgt'[q] = tgt[q] /\ row'[q] = row[q]
  BY DEF Answer, Answered, TypeOK

\* What a step of the worker does to the statuses.
LEMMA WorkerStepEffect ==
  ASSUME TypeOK, StatusInv, WorkerStep
  PROVE  /\ \/ DraftStatus' = DraftStatus
            \/ DraftStatus' = [DraftStatus EXCEPT ![tgt[wreq]] = "none"]
         /\ \/ LiveStatus' = LiveStatus
            \/ /\ wpc = "row" /\ wpc' = "sources"
               /\ DraftStatus' = DraftStatus
               /\ LiveStatus' = [LiveStatus EXCEPT ![tgt[wreq]] = "Live"]
<1> DEFINE d == tgt[wreq]
<1>1. wpc # "idle" /\ d \in Datasets
  BY WorkerStepFrame DEF TypeOK
<1>2. CASE UNCHANGED <<draft, live>>
  BY <1>2 DEF DraftStatus, LiveStatus
<1>3. CASE WorkerTopic \/ WorkerCheck \/ WorkerAudit \/ WorkerDraft
  BY <1>2, <1>3 DEF WorkerTopic, WorkerCheck, WorkerAudit, WorkerDraft, tables
<1>4. CASE WorkerRow
  <2>1. [wrow EXCEPT !.status = "Live"].status = "Live"
    BY DEF TypeOK, Row
  <2>2. LiveStatus' = [LiveStatus EXCEPT ![d] = "Live"]
    BY <1>1, <1>4, <2>1 DEF WorkerRow, LiveStatus, TypeOK
  <2>3. QED
    BY <1>4, <2>2 DEF WorkerRow, Continue, DraftStatus
<1>5. CASE WorkerSources \/ WorkerSubmit \/ WorkerDropSource
  BY <1>2, <1>5 DEF WorkerSources, WorkerSubmit, WorkerDropSource, tables
<1>6. CASE WorkerDropDraft
  <2>1. DraftStatus' = [DraftStatus EXCEPT ![d] = "none"]
    BY <1>1, <1>6 DEF WorkerDropDraft, DraftStatus, NoRow, TypeOK
  <2>2. QED
    BY <1>6, <2>1 DEF WorkerDropDraft, LiveStatus
<1>7. CASE WorkerJobs \/ WorkerReply
  BY <1>2, <1>7 DEF WorkerJobs, WorkerReply, tables
<1>8. QED
  BY <1>3, <1>4, <1>5, <1>6, <1>7 DEF WorkerStep

LEMMA StatusStep == TypeOK /\ StatusInv /\ [Next]_vars => StatusInv'
<1> SUFFICES ASSUME TypeOK, StatusInv, [Next]_vars PROVE StatusInv'
  OBVIOUS
<1>1. CASE \E r \in Requests, d \in Datasets : FirstStep(r, d)
  <2>1. PICK r \in Requests, d \in Datasets : FirstStep(r, d)
    BY <1>1
  <2>2. UNCHANGED <<draft, live>> /\ TablesInv'
    BY <2>1, FirstStepFrame DEF tables, StatusInv, TablesInv
  <2>3. QED
    BY <2>1, <2>2, FirstStepFrame, FirstStepSlot, StatusHandler
<1>2. CASE \E r \in Requests : NextStep(r)
  <2>1. PICK r \in Requests : NextStep(r)
    BY <1>2
  <2>2. tgt[r] \in Datasets
    BY DEF TypeOK
  <2>3. /\ TablesInv'
        /\ \A d \in Datasets : live[d].status \in {"Live", "Retired"} =>
                                  live'[d].status \in {"Live", "Retired"}
    <3>1. CASE /\ LiveStatus' = LiveStatus
               /\ \E s : /\ MayBecome(draft[tgt[r]].status, s)
                         /\ DraftStatus' = [DraftStatus EXCEPT ![tgt[r]] = s]
      <4>1. PICK s : /\ MayBecome(draft[tgt[r]].status, s)
                     /\ DraftStatus' = [DraftStatus EXCEPT ![tgt[r]] = s]
        BY <3>1
      <4>2. \A e \in Datasets :
              draft'[e].status = IF e = tgt[r] THEN s ELSE draft[e].status
        BY <4>1, OtherDraftStatus
      <4>3. \A e \in Datasets : live'[e].status = live[e].status
        BY <3>1, SameLiveStatus
      <4>4. QED
        BY <2>2, <4>1, <4>2, <4>3 DEF StatusInv, TablesInv, MayBecome
    <3>2. CASE /\ DraftStatus' = DraftStatus
               /\ LiveStatus' = [LiveStatus EXCEPT ![tgt[r]] = "Retired"]
      <4>1. \A e \in Datasets : draft'[e].status = draft[e].status
        BY <3>2, SameDraftStatus
      <4>2. \A e \in Datasets :
              live'[e].status = IF e = tgt[r] THEN "Retired" ELSE live[e].status
        BY <3>2, OtherLiveStatus
      <4>3. QED
        BY <2>2, <4>1, <4>2 DEF StatusInv, TablesInv
    <3>3. QED
      BY <2>1, <3>1, <3>2, NextStepEffect
  <2>4. QED
    BY <2>1, <2>3, NextStepFrame, NextStepSlot, StatusHandler
<1>3. CASE \E r \in Requests : WorkerPick(r)
  <2>1. UNCHANGED <<draft, live, pc, tgt, row>>
    BY <1>3 DEF WorkerPick, tables
  <2>2. QED
    BY <2>1, StatusOther DEF StatusInv, TablesInv
<1>4. CASE WorkerStep
  <2>1. wpc # "idle" /\ tgt[wreq] \in Datasets
    BY <1>4, WorkerStepFrame DEF TypeOK
  <2>2. /\ TablesInv'
        /\ \A d \in Datasets : live[d].status \in {"Live", "Retired"} =>
                                  live'[d].status \in {"Live", "Retired"}
    <3>1. /\ \/ DraftStatus' = DraftStatus
             \/ DraftStatus' = [DraftStatus EXCEPT ![tgt[wreq]] = "none"]
          /\ \/ LiveStatus' = LiveStatus
             \/ LiveStatus' = [LiveStatus EXCEPT ![tgt[wreq]] = "Live"]
      BY <1>4, WorkerStepEffect
    <3>2. \A d \in Datasets : draft'[d].status \in {draft[d].status, "none"}
      <4>1. CASE DraftStatus' = DraftStatus
        BY <4>1, SameDraftStatus
      <4>2. CASE DraftStatus' = [DraftStatus EXCEPT ![tgt[wreq]] = "none"]
        <5>1. \A e \in Datasets :
                draft'[e].status = IF e = tgt[wreq] THEN "none" ELSE draft[e].status
          BY <4>2, OtherDraftStatus
        <5>2. QED
          BY <5>1
      <4>3. QED
        BY <3>1, <4>1, <4>2
    <3>3. \A d \in Datasets : live'[d].status \in {live[d].status, "Live"}
      <4>1. CASE LiveStatus' = LiveStatus
        BY <4>1, SameLiveStatus
      <4>2. CASE LiveStatus' = [LiveStatus EXCEPT ![tgt[wreq]] = "Live"]
        <5>1. \A e \in Datasets :
                live'[e].status = IF e = tgt[wreq] THEN "Live" ELSE live[e].status
          BY <4>2, OtherLiveStatus
        <5>2. QED
          BY <5>1
      <4>3. QED
        BY <3>1, <4>1, <4>2
    <3>4. QED
      BY <3>2, <3>3 DEF StatusInv, TablesInv
  <2>3. CASE UNCHANGED <<wreq, handlers>>
    BY <2>2, <2>3, StatusOther DEF handlers
  <2>4. CASE \E ok \in BOOLEAN : Finish(ok)
    BY <2>2, <2>4, StatusOther, AnswerSlots DEF Finish
  <2>5. QED
    BY <1>4, <2>3, <2>4, WorkerStepFrame
<1>5. CASE WorkerAbort \/ WorkerCrash
  <2>1. \E S : \E ok \in BOOLEAN : Answer(S, ok)
    <3>1. CASE WorkerAbort
      BY <3>1 DEF WorkerAbort, Finish
    <3>2. CASE WorkerCrash
      <4>1. PICK S : Answer(S, FALSE)
        BY <3>2 DEF WorkerCrash
      <4>2. QED
        BY <4>1
    <3>3. QED
      BY <1>5, <3>1, <3>2
  <2>2. UNCHANGED <<draft, live, row>>
    BY <1>5 DEF WorkerAbort, WorkerCrash, Finish, tables
  <2>3. QED
    BY <2>1, <2>2, StatusOther, AnswerSlots DEF StatusInv, TablesInv
<1>6. CASE ApiCrash
  <2>1. UNCHANGED <<draft, live>> /\ \A q \in Requests : pc'[q] \in {"orphan", "idle"}
    BY <1>6 DEF ApiCrash, tables
  <2>2. QED
    BY <2>1, StatusOther DEF StatusInv, TablesInv, Waiting
<1>7. CASE UNCHANGED vars
  BY <1>7, StatusOther DEF vars, tables, handlers, StatusInv, TablesInv
<1>8. QED
  BY <1>1, <1>2, <1>3, <1>4, <1>5, <1>6, <1>7 DEF Next

-----------------------------------------------------------------------------
(* The steps of DatasetStatus. *)

\* The datasets whose approved draft is being made live.
Approved == {d \in Datasets : wpc = "row" /\ tgt[wreq] = d}

StatusStutter == UNCHANGED <<DraftStatus, LiveStatus, Approved>>

LEMMA AbstractStutter ==
  ASSUME StatusStutter
  PROVE  [Status!StatusNext]_(Status!statusVars)
  BY DEF StatusStutter, DraftStatus, LiveStatus, Approved, Status!statusVars

LEMMA AbstractDraft ==
  ASSUME NEW d \in Datasets, NEW s, MayBecome(draft[d].status, s),
         DraftStatus' = [DraftStatus EXCEPT ![d] = s],
         UNCHANGED <<LiveStatus, Approved>>
  PROVE  [Status!StatusNext]_(Status!statusVars)
<1>1. DraftStatus[d] = draft[d].status
  BY DEF DraftStatus
<1>2. CASE s = draft[d].status
  <2>1. DraftStatus' = DraftStatus
    BY <1>1, <1>2 DEF DraftStatus
  <2>2. QED
    BY <2>1, AbstractStutter DEF StatusStutter
<1>3. CASE draft[d].status = "none" /\ s = "Draft"
  <2>1. Status!NewDraft(d)
    BY <1>1, <1>3 DEF Status!NewDraft, Status!MoveDraft, DraftStatus, LiveStatus, Approved
  <2>2. QED
    BY <2>1 DEF Status!StatusNext
<1>4. CASE draft[d].status = "Draft" /\ s = "ReadyToPublish"
  <2>1. Status!MakeReady(d)
    BY <1>1, <1>4 DEF Status!MakeReady, Status!MoveDraft, DraftStatus, LiveStatus, Approved
  <2>2. QED
    BY <2>1 DEF Status!StatusNext
<1>5. CASE draft[d].status = "ReadyToPublish" /\ s = "Draft"
  <2>1. Status!Reopen(d)
    BY <1>1, <1>5 DEF Status!Reopen, Status!MoveDraft, DraftStatus, LiveStatus, Approved
  <2>2. QED
    BY <2>1 DEF Status!StatusNext
<1>6. CASE draft[d].status \in {"Draft", "ReadyToPublish"} /\ s = "none"
  <2>1. Status!Discard(d)
    BY <1>1, <1>6 DEF Status!Discard, Status!MoveDraft, DraftStatus, LiveStatus, Approved
  <2>2. QED
    BY <2>1 DEF Status!StatusNext
<1>7. QED
  BY <1>2, <1>3, <1>4, <1>5, <1>6 DEF MayBecome

LEMMA AbstractRetire ==
  ASSUME NEW d \in Datasets, live[d].status \in {"Live", "Retired"},
         LiveStatus' = [LiveStatus EXCEPT ![d] = "Retired"],
         UNCHANGED <<DraftStatus, Approved>>
  PROVE  [Status!StatusNext]_(Status!statusVars)
<1>1. CASE live[d].status = "Live"
  <2>1. Status!Retire(d)
    BY <1>1 DEF Status!Retire, DraftStatus, LiveStatus, Approved
  <2>2. QED
    BY <2>1 DEF Status!StatusNext
<1>2. CASE live[d].status = "Retired"
  <2>1. LiveStatus' = LiveStatus
    BY <1>2 DEF LiveStatus
  <2>2. QED
    BY <2>1, AbstractStutter DEF StatusStutter
<1>3. QED
  BY <1>1, <1>2

LEMMA AbstractApprove ==
  ASSUME NEW d \in Datasets, draft[d].status = "ReadyToPublish",
         Approved' = Approved \cup {d}, UNCHANGED <<DraftStatus, LiveStatus>>
  PROVE  [Status!StatusNext]_(Status!statusVars)
<1>1. Status!Approve(d)
  BY DEF Status!Approve, DraftStatus, LiveStatus, Approved
<1>2. QED
  BY <1>1 DEF Status!StatusNext

LEMMA AbstractAbandon ==
  ASSUME NEW d \in Datasets, Approved' = Approved \ {d},
         UNCHANGED <<DraftStatus, LiveStatus>>
  PROVE  [Status!StatusNext]_(Status!statusVars)
<1>1. Status!Abandon(d)
  BY DEF Status!Abandon, DraftStatus, LiveStatus, Approved
<1>2. QED
  BY <1>1 DEF Status!StatusNext

LEMMA AbstractGoLive ==
  ASSUME NEW d \in Approved, Approved' = Approved \ {d},
         LiveStatus' = [LiveStatus EXCEPT ![d] = "Live"], UNCHANGED DraftStatus
  PROVE  [Status!StatusNext]_(Status!statusVars)
<1>1. d \in Datasets
  BY DEF Approved
<1>2. Status!GoLive(d)
  BY DEF Status!GoLive, DraftStatus, LiveStatus, Approved
<1>3. QED
  BY <1>1, <1>2 DEF Status!StatusNext

-----------------------------------------------------------------------------
(* Every step of the services is a step of DatasetStatus, or none. *)

LEMMA StatusInitRefines == Init => Status!StatusInit
  BY DEF Init, NoRow, Status!StatusInit

\* The worker's steps: it approves when it finds the draft ready, and goes live next.
LEMMA WorkerRefines ==
  ASSUME TypeOK, StatusInv, WorkerStep
  PROVE  [Status!StatusNext]_(Status!statusVars)
<1> DEFINE d == tgt[wreq]
<1>1. wpc # "idle" /\ d \in Datasets
  BY WorkerStepFrame DEF TypeOK
<1>2. /\ d \in Datasets /\ draft[d].status \in {"none", "Draft", "ReadyToPublish"}
  BY <1>1 DEF StatusInv, TablesInv
<1>3. CASE WorkerDraft
  <2>1. wpc = "draft" /\ UNCHANGED <<draft, live>>
    BY <1>3 DEF WorkerDraft, tables
  <2>2. UNCHANGED <<DraftStatus, LiveStatus>>
    BY <2>1 DEF DraftStatus, LiveStatus
  <2>3. CASE draft[d].status = "ReadyToPublish"
    <3>1. wpc' = "row" /\ UNCHANGED <<wreq, handlers>>
      BY <1>3, <2>3 DEF WorkerDraft, Continue
    <3>2. Approved' = Approved \cup {d}
      BY <1>1, <2>1, <3>1 DEF Approved, handlers
    <3>3. QED
      BY <1>1, <2>2, <2>3, <3>2, AbstractApprove
  <2>4. CASE draft[d].status # "ReadyToPublish"
    <3>1. wpc' = "submit"
      BY <1>3, <2>4 DEF WorkerDraft, Continue
    <3>2. Approved' = Approved
      BY <2>1, <3>1 DEF Approved
    <3>3. QED
      BY <2>2, <3>2, AbstractStutter DEF StatusStutter
  <2>5. QED
    BY <2>3, <2>4
<1>4. CASE WorkerRow
  <2>1. wpc = "row" /\ wpc' = "sources"
    BY <1>4 DEF WorkerRow, Continue
  <2>2. Approved = {d} /\ Approved' = {}
    BY <1>1, <2>1 DEF Approved
  <2>3. [wrow EXCEPT !.status = "Live"].status = "Live"
    BY DEF TypeOK, Row
  <2>4. LiveStatus' = [LiveStatus EXCEPT ![d] = "Live"] /\ UNCHANGED DraftStatus
    BY <1>1, <1>4, <2>3 DEF WorkerRow, LiveStatus, DraftStatus, TypeOK
  <2>5. QED
    BY <2>2, <2>4, AbstractGoLive
<1>5. CASE WorkerStep /\ ~WorkerDraft /\ ~WorkerRow
  <2>1. wpc # "row" /\ wpc' # "row"
    <3>1. CASE WorkerTopic \/ WorkerCheck \/ WorkerAudit
      BY <3>1 DEF WorkerTopic, WorkerCheck, WorkerAudit, Continue, Finish, Free
    <3>2. CASE WorkerSources \/ WorkerSubmit \/ WorkerDropSource
      BY <3>2 DEF WorkerSources, WorkerSubmit, WorkerDropSource, Continue, Finish, Free
    <3>3. CASE WorkerDropDraft \/ WorkerJobs \/ WorkerReply
      BY <3>3 DEF WorkerDropDraft, WorkerJobs, WorkerReply, Continue, Finish, Free
    <3>4. QED
      BY <1>5, <3>1, <3>2, <3>3 DEF WorkerStep
  <2>2. UNCHANGED Approved
    BY <2>1 DEF Approved
  <2>3. UNCHANGED LiveStatus
    BY <2>1, WorkerStepEffect
  <2>4. CASE DraftStatus' = DraftStatus
    BY <2>2, <2>3, <2>4, AbstractStutter DEF StatusStutter
  <2>5. CASE DraftStatus' = [DraftStatus EXCEPT ![d] = "none"]
    <3>1. MayBecome(draft[d].status, "none")
      BY <1>2 DEF MayBecome
    <3>2. QED
      BY <1>1, <2>2, <2>3, <2>5, <3>1, AbstractDraft
  <2>6. QED
    BY <2>4, <2>5, WorkerStepEffect
<1>6. QED
  BY <1>3, <1>4, <1>5

\* A step that leaves the worker and its request's dataset alone approves nothing.
LEMMA ApprovedFrame ==
  ASSUME UNCHANGED <<wpc, wreq>>, wpc = "row" => tgt'[wreq] = tgt[wreq]
  PROVE  UNCHANGED Approved
  BY DEF Approved

LEMMA StepRefines ==
  TypeOK /\ ControlInv /\ StatusInv /\ [Next]_vars => [Status!StatusNext]_(Status!statusVars)
<1> SUFFICES ASSUME TypeOK, ControlInv, StatusInv, [Next]_vars
             PROVE  [Status!StatusNext]_(Status!statusVars)
  OBVIOUS
<1>1. ASSUME UNCHANGED <<draft, live>>, UNCHANGED Approved
      PROVE  [Status!StatusNext]_(Status!statusVars)
  BY <1>1, AbstractStutter DEF StatusStutter, DraftStatus, LiveStatus
<1>2. wpc = "row" => wreq \in Requests /\ pc[wreq] \in Waiting /\ tgt[wreq] \in Datasets
  BY DEF TypeOK, ControlInv
<1>3. CASE \E r \in Requests, d \in Datasets : FirstStep(r, d)
  <2>1. PICK r \in Requests, d \in Datasets : FirstStep(r, d)
    BY <1>3
  <2>2. /\ UNCHANGED <<draft, live, wpc, wreq>> /\ pc[r] = "idle"
        /\ \A q \in Requests \ {r} : tgt'[q] = tgt[q]
    BY <2>1, FirstStepFrame DEF tables, worker
  <2>3. QED
    BY <1>1, <1>2, <2>2, ApprovedFrame DEF Waiting
<1>4. CASE \E r \in Requests : NextStep(r)
  <2>1. PICK r \in Requests : NextStep(r)
    BY <1>4
  <2>2. tgt[r] \in Datasets
    BY DEF TypeOK
  <2>3. UNCHANGED Approved
    <3>1. /\ UNCHANGED <<wpc, wreq>> /\ pc[r] \notin Waiting
          /\ \A q \in Requests \ {r} : tgt'[q] = tgt[q]
      BY <2>1, NextStepFrame DEF worker
    <3>2. QED
      BY <1>2, <3>1, ApprovedFrame
  <2>4. CASE /\ LiveStatus' = LiveStatus
             /\ \E s : /\ MayBecome(draft[tgt[r]].status, s)
                       /\ DraftStatus' = [DraftStatus EXCEPT ![tgt[r]] = s]
    BY <2>2, <2>3, <2>4, AbstractDraft
  <2>5. CASE /\ DraftStatus' = DraftStatus
             /\ live[tgt[r]].status \in {"Live", "Retired"}
             /\ LiveStatus' = [LiveStatus EXCEPT ![tgt[r]] = "Retired"]
    BY <2>2, <2>3, <2>5, AbstractRetire
  <2>6. QED
    BY <2>1, <2>4, <2>5, NextStepEffect
<1>5. CASE \E r \in Requests : WorkerPick(r)
  <2>1. UNCHANGED <<draft, live, tgt>> /\ wpc = "idle" /\ wpc' # "row"
    BY <1>5 DEF WorkerPick, tables
  <2>2. UNCHANGED Approved
    BY <2>1 DEF Approved
  <2>3. QED
    BY <1>1, <2>1, <2>2
<1>6. CASE WorkerStep
  BY <1>6, WorkerRefines
<1>7. CASE WorkerAbort \/ WorkerCrash
  <2>1. UNCHANGED <<draft, live>> /\ wpc' = "idle"
    BY <1>7 DEF WorkerAbort, WorkerCrash, Finish, Free, tables
  <2>2. UNCHANGED <<DraftStatus, LiveStatus>> /\ Approved' = {}
    BY <2>1 DEF DraftStatus, LiveStatus, Approved
  <2>3. CASE wpc = "row"
    <3>1. Approved = {tgt[wreq]} /\ tgt[wreq] \in Datasets
      BY <1>2, <2>3 DEF Approved
    <3>2. QED
      BY <2>2, <3>1, AbstractAbandon
  <2>4. CASE wpc # "row"
    <3>1. Approved = {}
      BY <2>4 DEF Approved
    <3>2. QED
      BY <2>2, <3>1, AbstractStutter DEF StatusStutter
  <2>5. QED
    BY <2>3, <2>4
<1>8. CASE ApiCrash
  <2>1. PICK lost \in SUBSET {r \in Requests : cmd[r] # "none"} :
          tgt' = [r \in Requests |->
                    IF r \in {q \in Requests \ lost : pc[q] \in Waiting}
                      THEN tgt[r] ELSE AnyDataset]
    BY <1>8 DEF ApiCrash, Waiting
  <2>2. wpc = "row" => wreq \in {q \in Requests \ lost : pc[q] \in Waiting}
    BY <1>2, <2>1 DEF ControlInv
  <2>3. UNCHANGED <<draft, live, wpc, wreq>>
    BY <1>8 DEF ApiCrash, tables, worker
  <2>4. QED
    BY <1>1, <1>2, <2>1, <2>2, <2>3, ApprovedFrame
<1>9. CASE UNCHANGED vars
  <2>1. UNCHANGED <<draft, live, wpc, wreq, tgt>>
    BY <1>9 DEF vars, tables, handlers, worker
  <2>2. QED
    BY <1>1, <2>1, ApprovedFrame
<1>10. QED
  BY <1>3, <1>4, <1>5, <1>6, <1>7, <1>8, <1>9 DEF Next

\* The API service and the command service together implement the status machine of
\* DatasetStatus, whatever overlaps and whatever fails.
THEOREM StatusImplemented == Spec => ImplementsStatus
<1>1. Spec => [](TypeOK /\ ControlInv /\ StatusInv)
  BY TypeInit, TypeStep, ControlInit, ControlStep, StatusInit, StatusStep, PTL DEF Spec
<1>2. QED
  BY <1>1, StatusInitRefines, StepRefines, PTL
  DEF Spec, ImplementsStatus, Status!StatusSpec

-----------------------------------------------------------------------------
(* The order of publication. *)

LEMMA OrderInit == Init => OrderInv
  BY DEF Init, OrderInv, PublicationOrder, NoSource, NoRow, Exists

\* OrderInv depends on what exists, on what Druid runs and on the worker's step.
LEMMA OrderKept ==
  ASSUME OrderInv,
         \A d \in Datasets :
           /\ supervisor'[d] \in {supervisor[d], 0}
           /\ source'[d].status = "none" <=> source[d].status = "none"
           /\ Exists(live[d]) => Exists(live'[d]),
         wpc' = "sources" => wpc = "sources" /\ tgt'[wreq'] = tgt[wreq]
                             /\ tgt[wreq] \in Datasets
  PROVE  OrderInv'
  BY DEF OrderInv, PublicationOrder, Exists

\* A handler ends what Druid runs, if anything, and creates or removes no datasource.
LEMMA NextStepOrder ==
  ASSUME TypeOK, StatusInv, NEW r \in Requests, NextStep(r), NEW d \in Datasets
  PROVE  /\ supervisor'[d] \in {supervisor[d], 0}
         /\ source'[d].status = "none" <=> source[d].status = "none"
         /\ Exists(live[d]) => Exists(live'[d])
<1>1. Exists(live[d]) => Exists(live'[d])
  <2>1. CASE LiveStatus' = LiveStatus
    BY <2>1, SameLiveStatus DEF Exists
  <2>2. CASE LiveStatus' = [LiveStatus EXCEPT ![tgt[r]] = "Retired"]
    <3>1. live'[d].status = IF d = tgt[r] THEN "Retired" ELSE live[d].status
      BY <2>2, OtherLiveStatus DEF TypeOK
    <3>2. QED
      BY <3>1 DEF Exists
  <2>3. QED
    BY <2>1, <2>2, NextStepEffect
<1>2. CASE RetireSave(r)
  <2>1. source[tgt[r]].status # "none" =>
          [source[tgt[r]] EXCEPT !.status = "Retired"].status = "Retired"
    BY DEF TypeOK, SourceRow
  <2>2. \/ source' = source
        \/ /\ source[tgt[r]].status # "none"
           /\ source' = [source EXCEPT ![tgt[r]] =
                            [source[tgt[r]] EXCEPT !.status = "Retired"]]
    BY <1>2 DEF RetireSave
  <2>3. source'[d].status = "none" <=> source[d].status = "none"
    BY <2>1, <2>2 DEF TypeOK
  <2>4. QED
    BY <1>1, <1>2, <2>3 DEF RetireSave, engines
<1>3. CASE RetireStop(r)
  BY <1>1, <1>3 DEF RetireStop, tables, TypeOK
<1>4. CASE ~RetireSave(r) /\ ~RetireStop(r)
  <2>1. UNCHANGED <<source, engines>>
    <3>1. CASE CreateInsert(r) \/ UpdateWrite(r) \/ EditReadLive(r) \/ EditMapDenorm(r)
               \/ EditInsert(r) \/ ReadyRead(r) \/ ReadyWrite(r)
      BY <3>1 DEF CreateInsert, UpdateWrite, EditReadLive, EditMapDenorm, EditInsert,
                  ReadyRead, ReadyWrite, tables
    <3>2. CASE PublishRead(r) \/ PublishDenorm(r) \/ PublishAlloc(r) \/ PublishSave(r)
      BY <3>2 DEF PublishRead, PublishDenorm, PublishAlloc, PublishSave, tables
    <3>3. CASE RetireDeps(r) \/ Respond(r) \/ DeleteTxn(r) \/ ImportInsert(r)
               \/ ImportOverwrite(r) \/ CopyInsert(r)
      BY <3>3 DEF RetireDeps, Respond, DeleteTxn, ImportInsert, ImportOverwrite,
                  CopyInsert, tables
    <3>4. QED
      BY <1>4, <3>1, <3>2, <3>3 DEF NextStep
  <2>2. QED
    BY <1>1, <2>1 DEF engines
<1>5. QED
  BY <1>2, <1>3, <1>4

\* The worker writes the row of the dataset, then its datasource, then posts its spec.
LEMMA WorkerOrder ==
  ASSUME TypeOK, OrderInv, WorkerStep
  PROVE  OrderInv'
<1> DEFINE d == tgt[wreq]
<1>1. wpc # "idle" /\ d \in Datasets
  BY WorkerStepFrame DEF TypeOK
<1>2. CASE WorkerTopic \/ WorkerCheck \/ WorkerAudit \/ WorkerDraft
  <2>1. UNCHANGED <<tables, engines>> /\ wpc' # "sources"
    BY <1>2 DEF WorkerTopic, WorkerCheck, WorkerAudit, WorkerDraft, Continue, Finish, Free
  <2>2. QED
    BY <2>1, OrderKept DEF tables, engines
<1>3. CASE WorkerRow
  <2>1. [wrow EXCEPT !.status = "Live"].status = "Live"
    BY DEF TypeOK, Row
  <2>2. /\ \A e \in Datasets : live'[e] = IF e = d THEN [wrow EXCEPT !.status = "Live"]
                                                    ELSE live[e]
        /\ UNCHANGED <<source, supervisor>> /\ tgt'[wreq'] = d
    BY <1>3 DEF WorkerRow, Continue, handlers, engines, TypeOK
  <2>3. QED
    BY <1>1, <2>1, <2>2 DEF OrderInv, PublicationOrder, Exists
<1>4. CASE WorkerSources
  <2>1. UNCHANGED <<live, supervisor>> /\ Exists(live[d]) /\ wpc' = "submit"
    BY <1>4 DEF WorkerSources, Continue, engines, OrderInv
  <2>2. \A e \in Datasets : \/ source'[e] = source[e]
                            \/ e = d /\ source'[e].status = "Live"
    BY <1>4 DEF WorkerSources, TypeOK
  <2>3. QED
    BY <2>1, <2>2 DEF OrderInv, PublicationOrder, Exists
<1>5. CASE WorkerSubmit
  <2>1. UNCHANGED <<live, source>> /\ wpc' # "sources"
    BY <1>5 DEF WorkerSubmit, Continue, tables
  <2>2. \A e \in Datasets : \/ supervisor'[e] = supervisor[e]
                            \/ e = d /\ source[e].status # "none"
    BY <1>5 DEF WorkerSubmit, TypeOK
  <2>3. QED
    BY <2>1, <2>2 DEF OrderInv, PublicationOrder
<1>6. CASE WorkerDropSource \/ WorkerDropDraft \/ WorkerJobs \/ WorkerReply
  <2>1. UNCHANGED <<live, source, supervisor>> /\ wpc' # "sources"
    BY <1>6 DEF WorkerDropSource, WorkerDropDraft, WorkerJobs, WorkerReply, Continue,
                Finish, Free, tables, engines
  <2>2. QED
    BY <2>1, OrderKept
<1>7. QED
  BY <1>2, <1>3, <1>4, <1>5, <1>6 DEF WorkerStep

LEMMA OrderStep ==
  TypeOK /\ ControlInv /\ StatusInv /\ OrderInv /\ [Next]_vars => OrderInv'
<1> SUFFICES ASSUME TypeOK, ControlInv, StatusInv, OrderInv, [Next]_vars
             PROVE  OrderInv'
  OBVIOUS
<1>1. wpc = "sources" => /\ wreq \in Requests /\ tgt[wreq] \in Datasets
                         /\ pc[wreq] \in Waiting /\ cmd[wreq] = "none"
  BY DEF TypeOK, ControlInv
<1>2. ASSUME UNCHANGED <<tables, engines>>,
             wpc' = "sources" => wpc = "sources" /\ tgt'[wreq'] = tgt[wreq]
      PROVE  OrderInv'
  BY <1>1, <1>2, OrderKept DEF tables, engines
<1>3. CASE \E r \in Requests, d \in Datasets : FirstStep(r, d)
  <2>1. PICK r \in Requests, d \in Datasets : FirstStep(r, d)
    BY <1>3
  <2>2. /\ UNCHANGED <<tables, engines, wreq, wpc>> /\ pc[r] = "idle"
        /\ \A q \in Requests \ {r} : tgt'[q] = tgt[q]
    BY <2>1, FirstStepFrame DEF worker
  <2>3. QED
    BY <1>1, <1>2, <2>2 DEF Waiting
<1>4. CASE \E r \in Requests : NextStep(r)
  <2>1. PICK r \in Requests : NextStep(r)
    BY <1>4
  <2>2. /\ UNCHANGED <<wreq, wpc>> /\ pc[r] \notin Waiting
        /\ \A q \in Requests \ {r} : tgt'[q] = tgt[q]
    BY <2>1, NextStepFrame DEF worker
  <2>3. wpc' = "sources" => wpc = "sources" /\ tgt'[wreq'] = tgt[wreq]
                            /\ tgt[wreq] \in Datasets
    BY <1>1, <2>2
  <2>4. QED
    BY <2>1, <2>3, NextStepOrder, OrderKept
<1>5. CASE \E r \in Requests : WorkerPick(r)
  BY <1>2, <1>5 DEF WorkerPick
<1>6. CASE WorkerStep
  BY <1>6, WorkerOrder
<1>7. CASE WorkerAbort \/ WorkerCrash
  BY <1>2, <1>7 DEF WorkerAbort, WorkerCrash, Finish, Free
<1>8. CASE ApiCrash
  <2>1. PICK lost \in SUBSET {r \in Requests : cmd[r] # "none"} :
          tgt' = [r \in Requests |->
                    IF r \in {q \in Requests \ lost : pc[q] \in Waiting}
                      THEN tgt[r] ELSE AnyDataset]
    BY <1>8 DEF ApiCrash, Waiting
  <2>2. UNCHANGED <<tables, engines, wreq, wpc>>
    BY <1>8 DEF ApiCrash, worker
  <2>3. QED
    BY <1>1, <1>2, <2>1, <2>2
<1>9. CASE UNCHANGED vars
  BY <1>2, <1>9 DEF vars, handlers, worker
<1>10. QED
  BY <1>3, <1>4, <1>5, <1>6, <1>7, <1>8, <1>9 DEF Next

\* Whatever overlaps and whatever fails, Druid ingests only for datasources, and there
\* are datasources only for datasets, that the tables have.
THEOREM PublicationOrdered == Spec => []PublicationOrder
<1>1. Spec => [](TypeOK /\ ControlInv /\ StatusInv /\ OrderInv)
  BY TypeInit, TypeStep, ControlInit, ControlStep, StatusInit, StatusStep,
     OrderInit, OrderStep, PTL DEF Spec
<1>2. OrderInv => PublicationOrder
  BY DEF OrderInv
<1>3. QED
  BY <1>1, <1>2, PTL

=============================================================================
