------------------------------ MODULE MCServices ------------------------------
(* The services of the API service that share no state with the lifecycle  *)
(* of datasets nor with one another: one of them runs in each behaviour,    *)
(* and TLC checks the properties of all of them in one run.                 *)
EXTENDS MCSystemRules, DatasetHealth, DataQuery, NotificationChannels, Silences, TableSpecs,
        DatasetEdits, SchemaGeneration, DatasetAlerts

VARIABLE part

Parts == {"rules", "health", "query", "channels", "silences", "tables", "edits", "schema", "alerts"}

-----------------------------------------------------------------------------
(* Health: of a dataset, of a master, and of queries. *)

AskedSets == {<<{"infra"}, TRUE>>, <<{"processing"}, FALSE>>, <<{"query"}, FALSE>>}

(* Queries: within the rules and against them, of every entry point. *)

Query == [entry |-> "native", tables |-> {"t"}, ctes |-> {}, params |-> ("t" :> "a1"), byAlias |-> TRUE,
          limit |-> << >>, comma |-> FALSE, threshold |-> 0, marked |-> FALSE, broken |-> FALSE,
          ruled |-> FALSE, dated |-> TRUE, from |-> 1, to |-> 1]

QuerySet == {
    [Query EXCEPT !.limit = <<9>>, !.threshold = 9, !.ruled = TRUE, !.from = 4],
    [Query EXCEPT !.limit = <<9>>, !.threshold = 9, !.ruled = TRUE, !.to = 2],
    [Query EXCEPT !.entry = "json", !.limit = <<2>>, !.ruled = TRUE, !.dated = FALSE],
    [Query EXCEPT !.entry = "template", !.params = ("t" :> "a2")],
    [Query EXCEPT !.entry = "sql", !.tables = {"t", "u", "w"}, !.ctes = {"w"},
                  !.params = ("t" :> "a1" @@ "u" :> "a2"), !.limit = <<2, 9>>, !.comma = TRUE],
    [Query EXCEPT !.entry = "sql", !.params = ("t" :> "s1"), !.byAlias = FALSE] }

(* Tables: "a.b" and "a_b" are different fields that have one name in the lake. *)

Ts      == << <<"ts">> >>
A_B     == << <<"a">>, <<"b">> >>
AB      == << <<"a", "b">> >>
OutName == <<"m">>

FieldSet     == {[path |-> Ts, type |-> "string"], [path |-> A_B, type |-> "string"],
                 [path |-> AB, type |-> "string"], [path |-> AB, type |-> "number"]}
TransformSet == {[path |-> A_B, type |-> "number"], [path |-> AB, type |-> "number"]}
MasterSet    == {<< <<"k">> >>, << <<"b">> >>}

(* Edits: of a field with another inside, removed, brought back and referred to. *)

Outer == <<"a">>
Inner == <<"a", "b">>
Other == <<"c">>
PathSet == {Outer, Inner, Other}

Nothing == [schema |-> NoSchema, upsert |-> {}, remove |-> {}, denorm |-> {}, undenorm |-> {}, keys |-> NoConfig]
Join(f) == {[out |-> "m", field |-> f]}

RequestSet == {
    [Nothing EXCEPT !.schema = {Other}, !.upsert = {Outer},
                    !.keys = [k \in Keys |-> IF k = "data_key" THEN Other ELSE Inner]],
    [Nothing EXCEPT !.schema = PathSet],
    [Nothing EXCEPT !.schema = {Outer, Inner}, !.denorm = Join(Other)],
    [Nothing EXCEPT !.upsert = {Inner}, !.remove = {Other}],
    [Nothing EXCEPT !.denorm = Join(Other), !.keys = [k \in Keys |-> Inner]],
    [Nothing EXCEPT !.denorm = Join(Inner)],
    [Nothing EXCEPT !.undenorm = {"m"}] }

(* Samples: conflicts of type, nulls, missing fields, and uuids that are repeated. *)

Sampled(type, format, value) == [type |-> type, format |-> format, value |-> value]
Text == Sampled("string", NoFormat, "x")
One  == Sampled("integer", NoFormat, "1")
Nil  == Sampled(Null, NoFormat, "n")
Id1  == Sampled("string", "uuid", "u1")
Id2  == Sampled("string", "uuid", "u2")
Day  == Sampled("string", "date", "d")

EventSet == {
    << >>, "f" :> Text, "f" :> Nil, "f" :> One, "f" :> Id1 @@ "g" :> Nil, "f" :> Id2 @@ "g" :> Text,
    "f" :> Id1 @@ "g" :> One, "f" :> Day @@ "g" :> Empty, "f" :> Id2 @@ "g" :> Id1, "f" :> Nil @@ "g" :> Id1 }

(* Alerts of datasets: two templates of one category. *)

OneCategory == <<"Processing", "Processing">>

MonitoredSymmetry == Permutations(Monitored) \cup Permutations(Titles)

-----------------------------------------------------------------------------

\* A part that does not run is in one of its initial states.
OneOf(S) == CHOOSE x \in S : TRUE

ServicesInit ==
    /\ part \in Parts
    /\ JobInit /\ HealthInit /\ DataQueryInit /\ ChannelInit /\ SilenceInit /\ TableInit /\ EditInit /\ SchemaInit
    /\ DatasetAlertsInit
    /\ part # "rules" => faults = {}
    /\ part # "health" => reading["events"] = "some"
    /\ rows["a1"].ref = "s1" /\ rows["a2"].ref = "s2"   \* a move may make them the same
    /\ part # "channels" => \A c \in Channels : channel[c].name = OneOf(ChannelNames)
    /\ part # "tables" => lake
    /\ part # "alerts" => \A d, e \in Monitored : title[d] = title[e]
    /\ draft.transformations_config = {Inner}

Still(p, state) == part # p => UNCHANGED state

ServicesNext ==
    /\ \/ part = "rules" /\ JobNext
       \/ part = "health" /\ HealthNext
       \/ part = "query" /\ DataQueryNext
       \/ part = "channels" /\ ChannelNext
       \/ part = "silences" /\ SilenceNext
       \/ part = "tables" /\ TableNext
       \/ part = "edits" /\ EditNext
       \/ part = "schema" /\ SchemaNext
       \/ part = "alerts" /\ DatasetAlertsNext
    /\ Still("rules", allVars)
    /\ Still("health", healthVars) /\ Still("query", dataQueryVars) /\ Still("channels", channelVars)
    /\ Still("silences", silenceVars) /\ Still("tables", tableVars) /\ Still("edits", editVars)
    /\ Still("schema", schemaVars) /\ Still("alerts", alertVars)
    /\ UNCHANGED part

serviceVars == <<part, allVars, healthVars, dataQueryVars, channelVars, silenceVars, tableVars, editVars,
                 schemaVars, alertVars>>

\* The state of the service that runs has the form that its operations rely on; the others
\* stay in a state that one of its behaviours begins with.
ServicesTypeOK ==
    /\ part = "rules" => TypeOK /\ JobTypeOK
    /\ part = "health" => HealthTypeOK
    /\ part = "query" => DataQueryTypeOK
    /\ part = "channels" => ChannelTypeOK
    /\ part = "silences" => SilenceTypeOK
    /\ part = "tables" => TableTypeOK
    /\ part = "edits" => EditTypeOK
    /\ part = "schema" => SchemaTypeOK
    /\ part = "alerts" => DatasetAlertsTypeOK

ServicesSpec == ServicesInit /\ [][ServicesNext]_serviceVars

=============================================================================
