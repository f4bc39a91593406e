----------------------------- MODULE TableSpecs -----------------------------
(***************************************************************************)
(* The tables of a dataset: the ingestion specs for Druid and for the data *)
(* lake (Hudi) that a publication makes out of its schema, the masters it  *)
(* is denormalised with and its transformations.  A publication writes the *)
(* specs as drafts, which the command service makes live; a column of the  *)
(* lake keeps its place in every later spec.                               *)
(*                                                                         *)
(* A path in the schema is a sequence of keys, and a key a sequence of     *)
(* words: Druid joins keys with ".", the lake joins them with "_", which   *)
(* may already join the words of a key.  Expressions are left out.         *)
(***************************************************************************)
EXTENDS Naturals, SequencesExt, Positions

CONSTANTS
    Fields,      \* what a field of the schema may be: its path and its type
    MasterPaths, \* the paths of the schema of the master
    OutKey,      \* the key that the master is denormalised into
    Transforms,  \* what a transformation may make: a path and a type
    Timestamp,   \* timestamp_key, a path
    Partition,   \* partition_key, a path
    MaxEdits     \* how often the dataset or its master is changed

Path == Seq(Seq(STRING))

ASSUME FieldsAssumption ==
    /\ Fields \cup Transforms \subseteq [path : Path, type : STRING]
    /\ MasterPaths \subseteq Path /\ OutKey \in Seq(STRING)

VARIABLES
    schema,      \* data_schema of the dataset: fields, some of which are deleted
    denorm,      \* whether it is denormalised with the master
    transforms,  \* transformations_config
    master,      \* data_schema of the master
    lake,        \* lakehouse_enabled
    drafts,      \* datasources_draft: the spec for each store, NoSpec if there is none
    lives,       \* datasources
    edits

tableVars == <<schema, denorm, transforms, master, lake, drafts, lives, edits>>

\* A field that is not deleted.
There(f) == [path |-> f.path, type |-> f.type, deleted |-> FALSE]

NoSpec == << >>
Druid  == "druid"
Lake   == "datalake"
Stores == {Druid, Lake}

\* The fields that every table has: syncts and the source of the event.
Syncts  == [path |-> << <<"obsrv">>, <<"meta">>, <<"syncts">> >>, type |-> "string", deleted |-> FALSE]
SourceOf == << << <<"obsrv">>, <<"connector">> >>, << <<"obsrv">>, <<"id">> >> >>

\* The fields of a dataset, those of its master under the out key, and those of the system have
\* names of their own.  The code leaves that to its users: an event has one value under a name.
ASSUME PathNamesAssumption ==
    LET own    == { f.path : f \in Fields }
        joined == { <<OutKey>> \o p : p \in MasterPaths }
        made   == { t.path : t \in Transforms }
    IN /\ own \cap joined = {}
       /\ (own \cup joined \cup made \cup {Partition}) \cap ({Syncts.path} \cup ToSet(SourceOf)) = {}

-----------------------------------------------------------------------------
(* Fields *)

\* flattenSchema: the name of a path in a store.
NameIn(store, path) == IF store = Druid THEN path ELSE FlattenSeq(path)

FlattenSchema(store, fields) ==
    [i \in DOMAIN fields |-> [name |-> NameIn(store, fields[i].path),
                              type |-> fields[i].type, deleted |-> fields[i].deleted]]

Named(fields) == { fields[i].name : i \in DOMAIN fields }

\* The fields that transformations make take the place of those of the same name.
WithTransforms(fields, made) == ElementsAt(fields, { i \in DOMAIN fields : fields[i].name \notin Named(made) }) \o made

\* getAllFields and getAllFieldsHudi: a field that is deleted is left out last.
AllFields(store) ==
    LET denormed == IF denorm THEN [i \in DOMAIN master |-> [master[i] EXCEPT !.path = <<OutKey>> \o @]] ELSE << >>
        fields   == WithTransforms(FlattenSchema(store, schema \o denormed), FlattenSchema(store, transforms))
                        \o FlattenSchema(store, <<Syncts>>)
    IN ElementsAt(fields, { i \in DOMAIN fields : ~ fields[i].deleted })

\* The partition column comes first.
Partitioned(fields, key) ==
    LET moved == { i \in DOMAIN fields : fields[i].name = key }
    IN (IF moved = {} THEN << >> ELSE <<fields[Position(moved, 1)]>>) \o ElementsAt(fields, DOMAIN fields \ moved)

\* getDruidDimensions: the timestamp is no dimension.
DruidDimensions(fields) ==
    LET ordered == Partitioned(fields, Partition)
        columns == ElementsAt(ordered, { i \in DOMAIN ordered : ordered[i].name # Timestamp })
    IN [i \in DOMAIN columns |-> columns[i].name] \o SourceOf

\* getDruidFlattenSpec
DruidFlattenSpec(fields) == Named(fields) \cup ToSet(SourceOf)

GetDruidIngestionSpec ==
    LET fields == AllFields(Druid)
    IN [dimensions |-> DruidDimensions(fields), paths |-> DruidFlattenSpec(fields)]

\* getHudiColumnSpec
HudiColumnSpec(fields) ==
    LET columns == [i \in DOMAIN fields |-> [name |-> fields[i].name, type |-> fields[i].type]]
                   \o [i \in DOMAIN SourceOf |-> [name |-> NameIn(Lake, SourceOf[i]), type |-> "string"]]
    IN [i \in DOMAIN columns |-> [name |-> columns[i].name, type |-> columns[i].type, index |-> i]]

MaxIndex(columns) == CHOOSE n \in { columns[i].index : i \in DOMAIN columns } :
                        \A i \in DOMAIN columns : columns[i].index <= n

\* Mutant: currIndex++ for ++currIndex.
NextIndex_Post(old, i) == MaxIndex(old) + i - 1

\* The index of the i-th new column.
NextIndex(old, i) == MaxIndex(old) + i

\* getHudiIngestionSpecForUpdate: the columns of the live spec stay as they are, and those
\* whose names are new are appended.
UpdatedColumns(old, columns) ==
    LET new == ElementsAt(columns, { i \in DOMAIN columns : columns[i].name \notin Named(old) })
    IN old \o [i \in DOMAIN new |-> [new[i] EXCEPT !.index = NextIndex(old, i)]]

\* Mutant: the columns are numbered anew.
GetHudiIngestionSpec_Anew == HudiColumnSpec(AllFields(Lake))

\* updateHudiDataSource, and createHudiDataSource while there is no live one.
GetHudiIngestionSpec ==
    LET columns == HudiColumnSpec(AllFields(Lake))
    IN IF lives[Lake] = NoSpec THEN columns ELSE UpdatedColumns(lives[Lake], columns)

-----------------------------------------------------------------------------

TableTypeOK ==
    /\ \A i \in DOMAIN schema : [path |-> schema[i].path, type |-> schema[i].type] \in Fields
    /\ denorm \in BOOLEAN /\ lake \in BOOLEAN
    /\ DOMAIN drafts = Stores /\ DOMAIN lives = Stores
    /\ \A s \in Stores : lives[s] # NoSpec => drafts[s] # NoSpec

TableInit ==
    /\ \E f \in Fields : f.path = Timestamp /\ schema = <<There(f)>>
    /\ denorm = FALSE /\ transforms = << >> /\ master = << >>
    /\ lake \in BOOLEAN
    /\ drafts = [s \in Stores |-> NoSpec] /\ lives = drafts
    /\ edits = 0

-----------------------------------------------------------------------------
(* A dataset is edited between its publications, and its master by others. *)

Paths(fields) == { fields[i].path : i \in DOMAIN fields }

AddField(f) ==
    /\ f.path \notin Paths(schema)
    /\ schema' = Append(schema, There(f))
    /\ UNCHANGED <<denorm, transforms, master, lake>>

\* A field is excluded, or taken back; the timestamp is not excluded.
SwitchField(i) ==
    /\ schema[i].path # Timestamp
    /\ schema' = [schema EXCEPT ![i].deleted = ~ @]
    /\ UNCHANGED <<denorm, transforms, master, lake>>

RetypeField(i, f) ==
    /\ f.path = schema[i].path
    /\ schema' = [schema EXCEPT ![i].type = f.type]
    /\ UNCHANGED <<denorm, transforms, master, lake>>

Transform(t) ==
    /\ transforms' = IF t.path \in Paths(transforms) THEN << >> ELSE <<There(t)>>
    /\ UNCHANGED <<schema, denorm, master, lake>>

Denormalise ==
    /\ denorm' = ~ denorm
    /\ UNCHANGED <<schema, transforms, master, lake>>

ChangeMaster(p) ==
    /\ master' = IF p \in Paths(master) THEN << >>
                 ELSE Append(master, [path |-> p, type |-> "string", deleted |-> FALSE])
    /\ UNCHANGED <<schema, denorm, transforms, lake>>

SwitchLake ==
    /\ lake' = ~ lake
    /\ UNCHANGED <<schema, denorm, transforms, master>>

EditTables ==
    /\ edits < MaxEdits /\ edits' = edits + 1
    /\ \/ \E f \in Fields : AddField(f) \/ \E i \in DOMAIN schema : RetypeField(i, f)
       \/ \E i \in DOMAIN schema : SwitchField(i)
       \/ \E t \in Transforms : Transform(t)
       \/ \E p \in MasterPaths : ChangeMaster(p)
       \/ Denormalise \/ SwitchLake
    /\ UNCHANGED <<drafts, lives>>

\* The transaction of publishDataset: a store that is not enabled keeps its draft.
PublishTables ==
    /\ drafts' = [s \in Stores |-> CASE s = Druid -> GetDruidIngestionSpec
                                     [] s = Lake  -> IF lake THEN GetHudiIngestionSpec ELSE drafts[s]]
    /\ UNCHANGED <<schema, denorm, transforms, master, lake, lives, edits>>

\* The command service makes all the drafts live; it may not come to it.
DeployTables ==
    /\ drafts[Druid] # NoSpec
    /\ lives' = drafts
    /\ UNCHANGED <<schema, denorm, transforms, master, lake, drafts, edits>>

TableNext == EditTables \/ PublishTables \/ DeployTables

TableSpec == TableInit /\ [][TableNext]_tableVars

-----------------------------------------------------------------------------
(* Properties *)

\* No two columns of a table of the lake have the same index.
LakeIndexesDistinct ==
    \A i, j \in DOMAIN drafts[Lake] : drafts[Lake][i].index = drafts[Lake][j].index => i = j

\* The names that an event of the dataset has values under.
Wanted(store) ==
    LET own    == { schema[i] : i \in { k \in DOMAIN schema : ~ schema[k].deleted } }
        joined == IF denorm THEN { <<OutKey>> \o p : p \in Paths(master) } ELSE {}
    IN { NameIn(store, p) : p \in { f.path : f \in own } \cup joined \cup Paths(transforms) \cup {Syncts.path} }

\* A column of the live table of the lake keeps its name, type and index, whatever becomes of
\* its field and of the publications in between: files written before are read by it.
LakeColumnsKept == IsPrefix(lives[Lake], lives'[Lake])

\* A publication gives every value of an event a place in its tables: a column of the lake,
\* and a dimension of Druid, or its timestamp, with a path to read it by.
SpecsCoverEvents ==
    drafts' # drafts =>
        LET spec == drafts'[Druid] IN
        /\ Wanted(Druid) \ {Timestamp} \subseteq ToSet(spec.dimensions)
        /\ ToSet(spec.dimensions) \cup {Timestamp} \subseteq spec.paths
        /\ lake => Wanted(Lake) \subseteq Named(drafts'[Lake])

\* Over a series of edits and publications, old files stay readable and new events have a place.
TablesServeEvents == [][LakeColumnsKept /\ SpecsCoverEvents]_tableVars

\* No dimension of Druid is there twice, and the partition key is the first if it is one, even
\* if a transformation makes a field that the schema has.
DimensionsDistinct ==
    drafts[Druid] # NoSpec =>
        LET dimensions == drafts[Druid].dimensions IN
        /\ \A i, j \in DOMAIN dimensions : dimensions[i] = dimensions[j] => i = j
        /\ Partition \in ToSet(dimensions) => dimensions[1] = Partition

\* Neither table has two columns in one place.
SpecsDistinct == LakeIndexesDistinct /\ DimensionsDistinct
=============================================================================
