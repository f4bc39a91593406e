-------------------------- MODULE SchemaGeneration --------------------------
(***************************************************************************)
(* The schema that the API service suggests for samples of events: a       *)
(* schema is inferred for each sample, fields whose samples differ in type *)
(* are resolved, and dedup keys are suggested from how much the values of  *)
(* a field vary.  That last finding is a global of the module: a request   *)
(* that brings JSON schemas is answered with the finding of whichever      *)
(* request brought samples last.                                           *)
(*                                                                         *)
(* Samples are flat: what is inferred for a value is its type and format,  *)
(* and messages, required lists and the formats of arrival are left out.   *)
(***************************************************************************)
EXTENDS Integers, FiniteSetsExt, Functions, SequencesExt, Positions

CONSTANTS
    FieldNames,  \* the fields of events
    Events,      \* what a sample may be: functions from fields to values
    MaxSamples,  \* bound on the samples of a request
    RollupRatio  \* rollup_ratio, in percent

VARIABLES
    samples,     \* the events of the request: functions from fields to values
    rollupInfo,  \* what was found of the samples analysed last
    generated    \* the answer to the request, NoAnswer before

schemaVars == <<samples, rollupInfo, generated>>

Scalars  == {"string", "number", "integer", "boolean"}
Null     == "null"
NoFormat == "none"
Dates    == {"date", "date-time", "epoch"}

\* The value of a field that removeEmpty takes out.
Empty == [type |-> "object", format |-> NoFormat, value |-> "empty"]

\* What there is of a field that a sample lacks.
Undefined == [type |-> "undefined", format |-> NoFormat, value |-> "undefined"]

Value == { v \in [type : Scalars \cup {Null}, format : {"uuid", "email", NoFormat} \cup Dates, value : STRING] :
            /\ v.format # NoFormat => v.type \in {"string", "integer"}
            /\ v.format \in {"uuid", "email"} => v.type = "string" } \cup {Empty}

ASSUME EventsAssumption == \A e \in Events : DOMAIN e \subseteq FieldNames /\ \A f \in DOMAIN e : e[f] \in Value
ASSUME RatioAssumption == RollupRatio \in 1 .. 100
ASSUME SamplesAssumption == MaxSamples \in Nat

AnswerKinds == {"samples", "batch", "schemas"}
NoAnswer    == [kind |-> "none", failed |-> FALSE, schema |-> << >>, dedup |-> {}]
Failure(kind) == [NoAnswer EXCEPT !.kind = kind, !.failed = TRUE]

-----------------------------------------------------------------------------
(* Inference *)

\* removeEmpty
RemoveEmpty(event) == Restrict(event, { f \in DOMAIN event : event[f] # Empty })

\* inferSchema and validateEpoch: the schema of each sample.
InferSchema(events) == [i \in DOMAIN events |-> RemoveEmpty(events[i])]

\* The values of a field in those that have it, in their order.
Occurrences(schemas, f) ==
    LET having == ElementsAt(schemas, { i \in DOMAIN schemas : f \in DOMAIN schemas[i] })
    IN [i \in DOMAIN having |-> having[i][f]]

FieldsOf(schemas) == UNION { DOMAIN schemas[i] : i \in DOMAIN schemas }

Types(schemas, f) == LET found == Occurrences(schemas, f) IN [i \in DOMAIN found |-> found[i].type]

\* mergeSchema: what a later schema says of a field replaces what an earlier one says, and a
\* format stays where the later has none.
MergedFormat(schemas, f) ==
    LET found     == Occurrences(schemas, f)
        formatted == { i \in DOMAIN found : found[i].format # NoFormat }
    IN IF formatted = {} THEN NoFormat ELSE found[Max(formatted)].format

\* The types of a field that no other is more frequent than.
MostFrequentOf(types) ==
    { t \in ToSet(types) : \A u \in ToSet(types) :
        Cardinality({ i \in DOMAIN types : types[i] = u }) <= Cardinality({ i \in DOMAIN types : types[i] = t }) }

FirstAt(types, t) == Min({ i \in DOMAIN types : types[i] = t })

\* The first type but null.
FirstTyped(types) == types[Min({ i \in DOMAIN types : types[i] # Null })]

\* Mutant: the rarest type wins.
Resolution_Rarest(types) ==
    IF MostFrequentOf(types) = ToSet(types) THEN FirstTyped(types)
    ELSE CHOOSE t \in ToSet(types) : t \notin MostFrequentOf(types)

\* findDataTypeConflicts: if all types are equally frequent the first but null, otherwise the
\* most frequent, and of several the one that appeared last.
Resolution(types) ==
    IF MostFrequentOf(types) = ToSet(types) THEN FirstTyped(types)
    ELSE CHOOSE t \in MostFrequentOf(types) : \A u \in MostFrequentOf(types) : FirstAt(types, u) <= FirstAt(types, t)

Conflicting(types) == Cardinality(ToSet(types)) > 1

ResolvedType(types) == IF Conflicting(types) THEN Resolution(types) ELSE types[1]

\* updateDataTypes replaces what is known of a field by its type: its format is lost.
ResolvedFormat(schemas, f) ==
    IF Conflicting(Types(schemas, f)) THEN NoFormat ELSE MergedFormat(schemas, f)

\* mapDataTypes, and removeFormats after it
DataType(type, format) ==
    CASE type = "string" /\ format \in Dates     -> format
      [] type = "integer" /\ format \in Dates    -> "epoch"
      [] type = "number"                         -> "double"
      [] OTHER                                   -> type

\* Neither setNulltype nor a resolution to null leaves a type that getArrivalFormat has a
\* mapping for, and it throws.
Unmapped(schemas) == \E f \in FieldsOf(schemas) : ResolvedType(Types(schemas, f)) = Null

-----------------------------------------------------------------------------
(* Suggestions *)

UniqueFormats == {"uuid", "email"}

\* Math.round of a percentage
Percent(n, total) == (200 * n + total) \div (2 * total)

\* generateUniqueValues: of the fields that are unique by their format, what the data has.
UniqueValues(data, schemas) ==
    [f \in { g \in FieldsOf(schemas) : MergedFormat(schemas, g) \in UniqueFormats } |->
        [i \in DOMAIN data |-> IF f \in DOMAIN data[i] THEN data[i][f].value ELSE Undefined.value]]

Share(values) ==
    Max({ Percent(Cardinality({ i \in DOMAIN values : values[i] = v }), Len(values)) : v \in ToSet(values) })

\* generateRollupSummary: a field is to be indexed if one value of it is frequent.
Indexed(values) == Share(values) >= RollupRatio

NoRollup == << >>
Rollup(data, schemas) == LET unique == UniqueValues(data, schemas) IN [f \in DOMAIN unique |-> Indexed(unique[f])]

\* The finding of schemaCardinalityAnalyser.
Analyse(data, schemas) == [summary |-> Rollup(data, schemas)]

\* findFormatConflicts: of several formats, that of a person's data and that of a date are
\* named before uuid.
SuggestsDedup(schemas, f) ==
    LET formats == { v.format : v \in ToSet(Occurrences(schemas, f)) }
    IN "uuid" \in formats /\ formats \cap {"email", "date", "date-time"} = {}

\* processingConfig: without a finding all the fields are suggested.
DedupKeys(schemas, rollup) ==
    { f \in FieldsOf(schemas) :
        /\ SuggestsDedup(schemas, f)
        /\ rollup # NoRollup => f \in DOMAIN rollup.summary /\ ~ rollup.summary[f] }

\* process
Answer(kind, schemas, rollup) ==
    IF Unmapped(schemas) THEN Failure(kind)
    ELSE [kind   |-> kind, failed |-> FALSE,
          schema |-> [f \in FieldsOf(schemas) |->
                        LET type == ResolvedType(Types(schemas, f))
                        IN [type |-> type, data_type |-> DataType(type, ResolvedFormat(schemas, f))]],
          dedup  |-> DedupKeys(schemas, rollup)]

-----------------------------------------------------------------------------

SchemaTypeOK ==
    /\ Len(samples) <= MaxSamples
    /\ \A i \in DOMAIN samples : DOMAIN samples[i] \subseteq FieldNames
    /\ rollupInfo = NoRollup \/ rollupInfo.summary \in [DOMAIN rollupInfo.summary -> BOOLEAN]
    /\ generated = NoAnswer \/ generated.kind \in AnswerKinds
    /\ generated.dedup \subseteq DOMAIN generated.schema /\ DOMAIN generated.schema \subseteq FieldNames
    /\ \A f \in DOMAIN generated.schema :
        generated.schema[f].type \in Scalars /\ generated.schema[f].data_type \in Scalars \cup Dates \cup {"double"}

SchemaInit == samples = << >> /\ rollupInfo = NoRollup /\ generated = NoAnswer

\* The user of the API makes up the request, and after an answer the next one.
AddSample(event) ==
    /\ IF generated = NoAnswer THEN Len(samples) < MaxSamples /\ samples' = Append(samples, event)
       ELSE samples' = <<event>>
    /\ generated' = NoAnswer
    /\ UNCHANGED rollupInfo

\* Mutant: the configuration is suggested before the samples are analysed.
GenerateFromSamples_Before ==
    LET schemas == InferSchema(samples) IN
    /\ rollupInfo' = Analyse(schemas, schemas)
    /\ generated' = Answer("samples", schemas, rollupInfo)

\* schemaGenerate for samples.  Empty values are deleted from the samples themselves.
GenerateFromSamples ==
    LET schemas == InferSchema(samples) IN
    /\ rollupInfo' = Analyse(schemas, schemas)
    /\ generated' = Answer("samples", schemas, rollupInfo')

\* schemaGenerate for a batch: the analyser is given the batch, which has no field of its events.
GenerateFromBatch ==
    LET schemas == InferSchema(samples) IN
    /\ rollupInfo' = Analyse(<< << >> >>, schemas)
    /\ generated' = Answer("batch", schemas, rollupInfo')

\* A batch without events under its extraction key is refused before.
RefuseBatch ==
    /\ generated' = Failure("batch")
    /\ UNCHANGED rollupInfo

\* schemaGenerate for JSON schemas, which may say what schemas of samples do.
GenerateFromSchemas ==
    /\ generated' = Answer("schemas", InferSchema(samples), rollupInfo)
    /\ UNCHANGED rollupInfo

SchemaNext ==
    \/ \E event \in Events : AddSample(event)
    \/ /\ samples # << >> /\ generated = NoAnswer
       /\ GenerateFromSamples \/ GenerateFromBatch \/ RefuseBatch \/ GenerateFromSchemas
       /\ UNCHANGED samples

SchemaSpec == SchemaInit /\ [][SchemaNext]_schemaVars

-----------------------------------------------------------------------------
(* Properties *)

Succeeded == generated.kind # "none" /\ ~ generated.failed

Count(f, type) == Cardinality({ i \in DOMAIN samples : f \in DOMAIN samples[i] /\ samples[i][f].type = type })

\* The type suggested for a field is one that samples have and none more often, whatever
\* conflicts there are in other fields and in whichever order the samples come.
TypeIsMostFrequent ==
    Succeeded => \A f \in DOMAIN generated.schema : \A type \in Scalars \cup {Null} :
        Count(f, type) <= Count(f, generated.schema[f].type) /\ Count(f, generated.schema[f].type) > 0

\* Samples that have types for a field as often as they have null for it get an answer, in
\* which each of their fields has a data type.
TypedSamplesAnswered ==
    generated.kind \in {"samples", "schemas"}
      /\ (\A f \in FieldNames : Count(f, Null) > 0 => \E type \in Scalars :
            /\ Count(f, type) = Count(f, Null)
            /\ \A other \in Scalars : Count(f, other) \in {0, Count(f, Null)})
      => /\ Succeeded
         /\ \A f \in FieldNames : (\E type \in Scalars : Count(f, type) > 0) =>
                f \in DOMAIN generated.schema /\ generated.schema[f].data_type # Null

\* Conflicts of types are resolved, and by the samples.
ConflictsResolved == TypeIsMostFrequent /\ TypedSamplesAnswered

\* The dedup keys suggested for samples are of those very samples, whatever was asked before:
\* fields whose values differ, among them the uuids that all samples have and no two share.
DedupFromOwnSamples ==
    Succeeded /\ generated.kind = "samples" =>
        \A f \in FieldNames :
            LET value(i) == IF f \in DOMAIN samples[i] THEN samples[i][f] ELSE Empty
            IN /\ f \in generated.dedup => \E i, j \in DOMAIN samples : value(i) # value(j)
               /\ RollupRatio > 50 /\ Len(samples) > 1 /\ (\A i \in DOMAIN samples : value(i).format = "uuid")
                    /\ (\A i, j \in DOMAIN samples : value(i) = value(j) => i = j)
                    => f \in generated.dedup
=============================================================================
