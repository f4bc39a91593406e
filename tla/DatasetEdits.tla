---------------------------- MODULE DatasetEdits ----------------------------
(***************************************************************************)
(* Updates of one draft by several users.  A user fetches the draft and    *)
(* its version_key, and sends an update with that key; the update reads    *)
(* the draft, compares the keys, merges the request into what it read and  *)
(* writes the columns it made, whatever has been written to the draft      *)
(* since.  The new key is the clock's.                                     *)
(*                                                                         *)
(* A field is the path of its keys in data_schema; what a transformation   *)
(* or a denormalisation does is left out, and so are the columns that no   *)
(* other depends on.                                                       *)
(***************************************************************************)
EXTENDS Naturals, Sequences

CONSTANTS
    FieldPaths, \* fields, each a sequence of keys
    OutFields,  \* fields that masters are denormalised into
    Users,      \* users with an update of the draft to make
    UpdateRequests, \* what they send, apart from the key
    MaxNow,     \* bound on the clock, in milliseconds
    MaxWrites   \* bound on the updates

VARIABLES
    draft,      \* the row of datasets_draft
    now,        \* Date.now()
    times,      \* the time each version of the draft was made at (history)
    stale,      \* the versions made out of an older one than the one they followed (history)
    updates     \* what each user is doing

editVars == <<draft, now, times, stale, updates>>

Keys  == {"data_key", "partition_key", "timestamp_key"}
NoKey == << >>    \* "" for a key of keys_config

\* A part of the request that is absent.
NoSchema == {}
NoConfig == << >>

DenormFields == [out : OutFields, field : FieldPaths]

\* A request without any part is refused.  Of several masters for one field the first is taken
\* (unionWith), so that a request has one.
UpdateRequestsAssumption ==
    \A q \in UpdateRequests :
        /\ q.schema \subseteq FieldPaths /\ q.upsert \subseteq FieldPaths /\ q.remove \subseteq FieldPaths
        /\ q.denorm \subseteq DenormFields /\ q.undenorm \subseteq OutFields
        /\ \A d, e \in q.denorm : d.out = e.out => d = e
        /\ q.keys = NoConfig \/ q.keys \in [Keys -> FieldPaths]
ASSUME UpdateRequestsAssumption
ASSUME TimeBoundsAssumption == MaxNow \in Nat /\ MaxWrites \in Nat

\* A field has a name.
ASSUME FieldPathsAssumption == NoKey \notin FieldPaths

\* The user has the version with number seen, and the update read the one with number read.
Unstarted == [at |-> "away", seen |-> 0, key |-> 0, read |-> 0, made |-> 0, patch |-> << >>]

EditTypeOK ==
    /\ draft.data_schema \subseteq FieldPaths /\ draft.transformations_config \subseteq FieldPaths
    /\ draft.denorm_config \subseteq DenormFields
    /\ draft.keys_config \in [Keys -> FieldPaths \cup {NoKey}]
    /\ draft.version_key \in 0 .. MaxNow /\ now \in 0 .. MaxNow
    /\ Len(times) \in 1 .. MaxWrites + 1 /\ stale \subseteq 2 .. Len(times)
    /\ \A u \in Users : updates[u].at \in {"away", "editing", "writing"} /\ updates[u].seen <= Len(times)
    /\ \A d, e \in draft.denorm_config : d.out = e.out => d = e

EditInit ==
    /\ \E f \in FieldPaths : draft = [data_schema |-> FieldPaths, transformations_config |-> {f},
                                      denorm_config |-> {}, keys_config |-> [k \in Keys |-> f], version_key |-> 0]
    /\ now = 0 /\ times = <<0>> /\ stale = {}
    /\ updates = [u \in Users |-> Unstarted]

-----------------------------------------------------------------------------
(* mergeDraftDataset *)

\* getMissingFieldsInNewSchema: with a field go those inside it.
FieldsRemoved(row, q) == IF q.schema = NoSchema THEN {} ELSE row.data_schema \ q.schema

\* mergeTransformationsConfig
MergeTransformations(row, q) ==
    ((row.transformations_config \ q.remove) \cup q.upsert) \ FieldsRemoved(row, q)

\* Mutant: what the request has is added to what is there.
MergeDenorm_Adds(row, q) ==
    { d \in row.denorm_config \cup q.denorm : d.out \notin q.undenorm /\ d.field \notin FieldsRemoved(row, q) }

\* mergeDenormConfig: the request replaces what goes into the same field.
MergeDenorm(row, q) ==
    LET kept == { d \in row.denorm_config : d.out \notin q.undenorm \cup { e.out : e \in q.denorm } }
    IN { d \in kept \cup q.denorm : d.field \notin FieldsRemoved(row, q) }

\* The keys of the request, or else the draft's, without those of removed fields.
MergeKeys(row, q) ==
    LET keys == IF q.keys = NoConfig THEN row.keys_config ELSE q.keys
    IN [k \in Keys |-> IF keys[k] \in FieldsRemoved(row, q) THEN NoKey ELSE keys[k]]

\* The columns that an update writes are those of the request, and those that a removed field
\* may be in.
Columns(row, q) ==
    LET removes == FieldsRemoved(row, q) # {} IN
    {"version_key"}
      \cup (IF q.schema # NoSchema THEN {"data_schema"} ELSE {})
      \cup (IF removes \/ q.upsert \cup q.remove # {} THEN {"transformations_config"} ELSE {})
      \cup (IF removes \/ q.denorm # {} \/ q.undenorm # {} THEN {"denorm_config"} ELSE {})
      \cup (IF q.keys # NoConfig \/ MergeKeys(row, q) # row.keys_config THEN {"keys_config"} ELSE {})

\* Mutant: the key stays.
VersionKey_Kept(row) == row.version_key

\* version_key: Date.now()
VersionKey(row) == now

MergeDraftDataset(row, q) ==
    [c \in Columns(row, q) |->
        CASE c = "version_key"            -> VersionKey(row)
          [] c = "data_schema"            -> q.schema
          [] c = "transformations_config" -> MergeTransformations(row, q)
          [] c = "denorm_config"          -> MergeDenorm(row, q)
          [] c = "keys_config"            -> MergeKeys(row, q)]

-----------------------------------------------------------------------------

\* The user fetches the draft for editing, anew if need be.
FetchDraft(u) ==
    /\ updates[u].at # "writing"
    /\ updates' = [updates EXCEPT ![u] = [Unstarted EXCEPT !.at = "editing", !.seen = Len(times), !.key = draft.version_key]]
    /\ UNCHANGED <<draft, now, times, stale>>

\* datasetUpdate up to the write: DATASET_OUTDATED leaves the user with what he has.
StartUpdate(u, q) ==
    /\ updates[u].at = "editing"
    /\ updates[u].key = draft.version_key
    /\ updates' = [updates EXCEPT ![u].at = "writing", ![u].read = Len(times), ![u].made = now,
                                  ![u].patch = MergeDraftDataset(draft, q)]
    /\ UNCHANGED <<draft, now, times, stale>>

\* updateDraftDataset: the row is found by its id alone.
WriteUpdate(u) ==
    /\ updates[u].at = "writing" /\ Len(times) <= MaxWrites
    /\ draft' = LET patch == updates[u].patch
                IN [c \in DOMAIN draft |-> IF c \in DOMAIN patch THEN patch[c] ELSE draft[c]]
    /\ times' = Append(times, updates[u].made)
    /\ stale' = IF updates[u].read < Len(times) THEN stale \cup {Len(times) + 1} ELSE stale
    /\ updates' = [updates EXCEPT ![u] = Unstarted]
    /\ UNCHANGED now

\* The database refuses: the user may send it again.
FailUpdate(u) ==
    /\ updates[u].at = "writing"
    /\ updates' = [updates EXCEPT ![u].at = "editing", ![u].patch = << >>, ![u].read = 0, ![u].made = 0]
    /\ UNCHANGED <<draft, now, times, stale>>

Tick ==
    /\ now < MaxNow /\ now' = now + 1
    /\ UNCHANGED <<draft, times, stale, updates>>

EditNext ==
    \/ \E u \in Users : FetchDraft(u) \/ WriteUpdate(u) \/ FailUpdate(u) \/ \E q \in UpdateRequests : StartUpdate(u, q)
    \/ Tick

EditSpec == EditInit /\ [][EditNext]_editVars

-----------------------------------------------------------------------------
(* Properties *)

Writing(u) == updates[u].at = "writing" /\ Len(times') > Len(times) /\ updates'[u].at # "writing"

\* An update overwrites a version its user has not seen only if that version was written while
\* the update was under way, or was made in the millisecond of the version the user has, or if
\* other updates have overlapped since, so that keys may have gone back and come again: users
\* who take turns are told that theirs is outdated.
LossNeedsOverlap ==
    \A u \in Users : Writing(u) =>
        LET seen == updates[u].seen IN
        \A v \in seen + 1 .. Len(times) :
            \/ v > updates[u].read \/ times[v] = times[seen]
            \/ stale \cap (seen + 1 .. updates[u].read) # {}

\* An update that nobody else writes during leaves no transformation, master or key of a field
\* that it removes, though it may itself bring one.
RemovedFieldsUnused ==
    \A u \in Users : Writing(u) /\ updates[u].read = Len(times) =>
        LET removed == draft.data_schema \ draft'.data_schema IN
        /\ draft'.transformations_config \cap removed = {}
        /\ \A d \in draft'.denorm_config : d.field \notin removed
        /\ \A k \in Keys : draft'.keys_config[k] \notin removed

\* An update loses no version that its user could not have seen, and leaves no use of what it
\* removes.
UpdatesSound == [][LossNeedsOverlap /\ RemovedFieldsUnused]_editVars
=============================================================================
