----------------------------- MODULE DataQuery -----------------------------
(***************************************************************************)
(* Queries of the clients: native queries and SQL (/v2/data/query) and the *)
(* filled in query templates.  A query is validated and limited, its       *)
(* tables are mapped to the datasources of Druid, the datasources are      *)
(* looked up in Druid, and then it is executed.  Requests overlap, and     *)
(* what they have looked up may change at any await; the validator keeps   *)
(* the request it works on in variables of its module.                     *)
(*                                                                         *)
(* A query is abstracted to its tables, its limits and its dates.          *)
(***************************************************************************)
EXTENDS Integers, SequencesExt

CONSTANTS
    Queries,    \* the queries that clients send, see below
    Clients,    \* each sends one query
    Aliases,    \* names of datasources, each of a dataset of its own
    Sources,    \* datasources of Druid (datasource_ref)
    MaxResultRowLimit, MaxResultThreshold, MaxDateRange,
    MaxMoves    \* how often the tables or Druid change

\* A query is a record of
\*   entry      "native", "sql", "template" (a template of SQL) or "json" (one of an object)
\*   tables     the tables that it reads, in a subquery or not: a native query reads one
\*   ctes       the names that its statement declares itself
\*   params     what the request says a table is: an alias, or a datasource unless byAlias
\*   limit      << >> is none; <<n>> or <<n, offset>>; with comma, <<offset, n>>
\*   threshold  0 is none
\*   marked     its text has {{LIMIT}} in it
\*   broken     its text cannot be parsed
\*   ruled      its dataset has query rules
\*   from, to   the days of its interval, when they can be read as dates: dated
QueryFields == {"entry", "tables", "ctes", "params", "byAlias", "limit", "comma", "threshold",
                "marked", "broken", "ruled", "dated", "from", "to"}

\* Only SQL reads several tables, declares some, or is given datasources for them.
IsQuery(q) ==
    /\ DOMAIN q = QueryFields
    /\ q.entry \in {"native", "sql", "template", "json"}
    /\ q.entry # "sql" => q.byAlias /\ q.ctes = {} /\ \E t \in q.tables : q.tables = {t}
    /\ q.limit \in Seq(Nat) /\ Len(q.limit) <= 2
    /\ q.threshold \in Nat /\ q.from \in Int /\ q.to \in Int

ASSUME QueriesAssumption == \A q \in Queries : IsQuery(q)
ASSUME RulesAssumption == {MaxResultRowLimit, MaxResultThreshold, MaxDateRange} \subseteq Nat

VARIABLES
    rows,      \* table `datasources`: the datasource and the status of every alias
    loaded,    \* how much of a datasource Druid has loaded: "no", "part" or "full"
    listed,    \* the datasources that Druid lists
    asking,    \* the query of a client as it is now
    at,        \* where its request is
    source,    \* the datasource that it has mapped each table to
    toLoad,    \* the datasources whose load status it has yet to ask for
    validator, \* the dataset and the datasource in the variables of the validator's module
    met,       \* what was true at some time since the request began
    ran,       \* the clients whose query Druid has executed
    moves

dataQueryVars == <<rows, loaded, listed, asking, at, source, toLoad, validator, met, ran, moves>>

Unset   == "none"
Pending == {"resolve", "validate", "reference", "map", "load", "list", "execute"}

DataQueryTypeOK ==
    /\ \A a \in Aliases : rows[a].ref \in Sources /\ rows[a].status \in {"Live", "Retired"}
    /\ loaded \in [Sources -> {"no", "part", "full"}]
    /\ listed \subseteq Sources
    /\ at \in [Clients -> Pending \cup {"new", "ok", "refused", "failed"}]
    /\ \A c \in Clients :
        /\ Range(source[c]) \subseteq Sources
        /\ toLoad[c] \subseteq Range(source[c])
        /\ toLoad[c] # {} => at[c] = "load"
        /\ c \in ran => at[c] \in {"ok", "failed"}

\* What can be looked up now.
Truth == [rows |-> { [alias |-> a, ref |-> rows[a].ref, status |-> rows[a].status] : a \in Aliases },
          full |-> { s \in Sources : loaded[s] = "full" },
          listed |-> listed]

DataQueryInit ==
    /\ rows \in [Aliases -> [ref : Sources, status : {"Live"}]]
    /\ loaded = [s \in Sources |-> "full"] /\ listed = Sources
    /\ asking = [c \in Clients |-> << >>]
    /\ at = [c \in Clients |-> "new"]
    /\ source = [c \in Clients |-> << >>] /\ toLoad = [c \in Clients |-> {}]
    /\ validator = [dataset |-> Unset, source |-> Unset]
    /\ met = [c \in Clients |-> Truth] /\ ran = {}
    /\ moves = 0

-----------------------------------------------------------------------------
(* Limits *)

GetLimit(n, max) == IF n > max THEN max ELSE n

Capped(limit, i) == [limit EXCEPT ![i] = GetLimit(@, MaxResultRowLimit)]

\* Mutant: the first number of the clause is taken for the limit whatever separates the two.
LimitIndex_First(q) == 1

\* Which number of the LIMIT clause limits the rows.
LimitIndex(q) == IF q.comma /\ Len(q.limit) > 1 THEN 2 ELSE 1

\* A text that has {{LIMIT}} is left alone, one without a limit gets one.
ParseSqlQuery(q) ==
    IF q.marked THEN q
    ELSE [q EXCEPT !.limit = IF @ = << >> THEN <<MaxResultRowLimit>> ELSE Capped(@, LimitIndex(q))]

\* A limit of 0 in an object counts as none.
Limitless(q) == q.limit \in {<< >>, <<0>>}

\* An object without a limit gets none: it is the threshold that is set to the limit.
LimitObject(q) ==
    IF Limitless(q) THEN [q EXCEPT !.threshold = MaxResultRowLimit]
    ELSE [q EXCEPT
            !.threshold = IF q.threshold = 0 THEN MaxResultThreshold ELSE GetLimit(@, MaxResultThreshold),
            !.limit     = Capped(@, 1)]

IsObject(q) == q.entry \in {"native", "json"}

\* A text that cannot be parsed gets a limit unless the word is in it.
SetQueryLimits(q) ==
    IF IsObject(q) THEN LimitObject(q)
    ELSE IF ~ q.broken THEN ParseSqlQuery(q)
    ELSE [q EXCEPT !.limit = IF @ = << >> THEN <<MaxResultRowLimit>> ELSE @]

IsValidDateRange(q) == q.to - q.from <= MaxDateRange /\ q.from - q.to <= MaxDateRange

\* "null" is an answer of its own, "long" an exception.
ValidateQueryRules(q) ==
    IF ~ q.ruled \/ ~ IsObject(q) THEN "valid"
    ELSE IF ~ q.dated THEN "null"
    ELSE IF IsValidDateRange(q) THEN "valid" ELSE "long"

-----------------------------------------------------------------------------
(* Requests.  An await ends a step, and may end the request with an error. *)

Advance(c, where) == at' = [at EXCEPT ![c] = where]

ReplyQuery(c, outcome) == Advance(c, outcome) /\ toLoad' = [toLoad EXCEPT ![c] = {}] /\ UNCHANGED source

\* The load status of the datasources is asked for next.
Look(c, map) ==
    /\ source' = [source EXCEPT ![c] = map]
    /\ toLoad' = [toLoad EXCEPT ![c] = Range(map)]
    /\ Advance(c, "load")

Unmoved == UNCHANGED <<rows, loaded, listed, moves>>

SendQuery(c) ==
    /\ at[c] = "new"
    /\ \E q \in Queries :
        /\ asking' = [asking EXCEPT ![c] = q]
        /\ Advance(c, CASE q.entry = "native" -> "resolve" [] q.entry = "sql" -> "map" [] OTHER -> "validate")
    /\ met' = [met EXCEPT ![c] = Truth]
    /\ UNCHANGED <<source, toLoad, validator, ran>> /\ Unmoved

\* The only table of a native query or a template, and the name it is known by.
TableOf(q) == CHOOSE t \in q.tables : TRUE
KeyOf(q)   == q.params[TableOf(q)]

OnlySource(q, ref) == [t \in {TableOf(q)} |-> ref]

\* What validateQuery does before its first await; the query keeps its limits if it is refused.
ValidateQuery(c, dataset, ref, next) ==
    /\ validator' = [dataset |-> dataset, source |-> ref]
    /\ asking' = [asking EXCEPT ![c] = SetQueryLimits(@)]
    /\ CASE ValidateQueryRules(asking[c]) = "valid" -> next
         [] ValidateQueryRules(asking[c]) = "null"  ->
                ReplyQuery(c, IF asking[c].entry = "native" THEN "refused" ELSE "ok")
         [] OTHER                                   -> ReplyQuery(c, "refused")

\* A native query: the datasource has been found, whatever its status.
ResolveNative(c) ==
    /\ at[c] = "resolve"
    /\ LET key == KeyOf(asking[c]) IN
        IF key \in Aliases
        THEN ValidateQuery(c, key, rows[key].ref, Look(c, OnlySource(asking[c], rows[key].ref)))
        ELSE ReplyQuery(c, "refused") /\ UNCHANGED <<asking, validator>>
    /\ UNCHANGED <<met, ran>> /\ Unmoved

\* A template names its dataset only: the datasource is looked up after the validation.
ValidateTemplate(c) ==
    /\ at[c] = "validate"
    /\ ValidateQuery(c, KeyOf(asking[c]), Unset, Advance(c, "reference") /\ UNCHANGED <<source, toLoad>>)
    /\ UNCHANGED <<met, ran>> /\ Unmoved

\* Mutant: after the await the dataset is read from the variable of the module.
ReferenceOf_Module(c) == validator.dataset

\* The dataset whose datasource a template reads.
ReferenceOf(c) == KeyOf(asking[c])

ResolveTemplate(c) ==
    /\ at[c] = "reference"
    /\ LET key == ReferenceOf(c) IN
        IF key \in Aliases THEN Look(c, OnlySource(asking[c], rows[key].ref)) ELSE ReplyQuery(c, "refused")
    /\ UNCHANGED <<asking, validator, met, ran>> /\ Unmoved

\* The names that a statement does not declare itself.
CollectTableEntries(q) == q.tables \ q.ctes

\* The datasources of the Live rows with this alias, or this datasource.
LiveRef(name, byAlias) ==
    { rows[a].ref : a \in { b \in Aliases : /\ rows[b].status = "Live"
                                            /\ name = IF byAlias THEN b ELSE rows[b].ref } }

\* The parameters of an SQL query give every table its datasource, or the query is refused.
BuildSqlQuery(c) ==
    /\ at[c] = "map"
    /\ LET q == asking[c]
           tables == CollectTableEntries(q)
       IN IF /\ ~ q.broken
             /\ tables \subseteq DOMAIN q.params
             /\ \A t \in tables : LiveRef(q.params[t], q.byAlias) # {}
          THEN Look(c, [t \in tables |-> CHOOSE s \in LiveRef(q.params[t], q.byAlias) : TRUE])
          ELSE ReplyQuery(c, "refused")
    /\ UNCHANGED <<asking, validator, met, ran>> /\ Unmoved

\* Mutant: the other datasources are not asked for once one is loaded.
StillToLoad_None(c, s) == {}

StillToLoad(c, s) == toLoad[c] \ {s}

CheckSupervisorAvailability(c) ==
    /\ at[c] = "load"
    /\ \/ \E s \in toLoad[c] :
            IF loaded[s] = "full"
            THEN /\ toLoad' = [toLoad EXCEPT ![c] = StillToLoad(c, s)]
                 /\ UNCHANGED <<at, source>>
            ELSE ReplyQuery(c, "refused")
       \/ toLoad[c] = {} /\ Advance(c, "list") /\ UNCHANGED <<source, toLoad>>
    /\ UNCHANGED <<asking, validator, met, ran>> /\ Unmoved

\* The list of Druid is looked up; an SQL query gets its limit when it has been rewritten.
CheckListed(c) ==
    /\ at[c] = "list"
    /\ IF Range(source[c]) \subseteq listed
       THEN /\ Advance(c, "execute")
            /\ asking' = IF asking[c].entry = "sql" THEN [asking EXCEPT ![c] = SetQueryLimits(@)] ELSE asking
            /\ UNCHANGED <<source, toLoad>>
       ELSE ReplyQuery(c, "refused") /\ UNCHANGED asking
    /\ UNCHANGED <<validator, met, ran>> /\ Unmoved

\* Druid executes the query and answers, or its answer is an error.
ExecuteQuery(c) ==
    /\ at[c] = "execute"
    /\ ran' = ran \cup {c}
    /\ \E outcome \in {"ok", "failed"} : ReplyQuery(c, outcome)
    /\ UNCHANGED <<asking, validator, met>> /\ Unmoved

\* The database or Druid cannot be reached at an await.
FailQuery(c) ==
    /\ at[c] \in Pending
    /\ ReplyQuery(c, "failed")
    /\ UNCHANGED <<asking, validator, met, ran>> /\ Unmoved

\* A dataset is published, with the same or another datasource, or retired; Druid loads,
\* loses or drops segments of a datasource, or begins or ceases to list it.
Move ==
    /\ moves < MaxMoves
    /\ moves' = moves + 1
    /\ \/ /\ \E a \in Aliases, s \in Sources, status \in {"Live", "Retired"} :
                rows' = [rows EXCEPT ![a] = [ref |-> s, status |-> status]]
          /\ UNCHANGED <<loaded, listed>>
       \/ /\ \E s \in Sources, part \in {"no", "part", "full"} : loaded' = [loaded EXCEPT ![s] = part]
          /\ UNCHANGED <<rows, listed>>
       \/ /\ \E s \in Sources : listed' = SymDiff(listed, {s})
          /\ UNCHANGED <<rows, loaded>>
    /\ met' = [c \in Clients |->
                IF at[c] \notin Pending THEN met[c]
                ELSE [rows |-> met[c].rows \cup Truth'.rows, full |-> met[c].full \cup Truth'.full,
                      listed |-> met[c].listed \cup Truth'.listed]]
    /\ UNCHANGED <<asking, at, source, toLoad, validator, ran>>

DataQueryNext ==
    \/ \E c \in Clients :
        \/ SendQuery(c) \/ ResolveNative(c) \/ ValidateTemplate(c) \/ ResolveTemplate(c)
        \/ BuildSqlQuery(c) \/ CheckSupervisorAvailability(c) \/ CheckListed(c)
        \/ ExecuteQuery(c) \/ FailQuery(c)
    \/ Move

DataQuerySpec == DataQueryInit /\ [][DataQueryNext]_dataQueryVars

-----------------------------------------------------------------------------
(* Properties *)

\* Every table of a query that was executed had its datasource while the request was waiting:
\* the one of the alias that this request gave for it, of a Live dataset if the query is SQL,
\* whatever other requests have left in the variables of the validator.
OwnSource ==
    \A c \in ran : \A t \in DOMAIN source[c] : \E row \in met[c].rows :
        /\ row.ref = source[c][t]
        /\ asking[c].params[t] = IF asking[c].byAlias THEN row.alias ELSE row.ref
        /\ asking[c].entry = "sql" => row.status = "Live"

\* A query is executed on datasources only that were loaded and listed while it was waiting,
\* and on a datasource for every table that it does not declare itself.
OnLoadedSources ==
    \A c \in ran :
        /\ Range(source[c]) \subseteq met[c].full \cap met[c].listed
        /\ asking[c].tables \ asking[c].ctes = DOMAIN source[c]

\* What is executed has a limit on its rows that is within the maximum, if it is text that can
\* be parsed and has no {{LIMIT}}, or an object that came with a limit.
RowsLimited ==
    \A c \in ran :
        LET q == asking[c] IN
        IF IsObject(q) THEN ~ Limitless(q) => q.limit[1] <= MaxResultRowLimit /\ q.threshold <= MaxResultThreshold
        ELSE q.marked \/ q.broken \/ (IF q.comma THEN Last(q.limit) ELSE q.limit[1]) <= MaxResultRowLimit

\* A native query of a dataset with query rules spans no more days than they allow.
RangeLimited ==
    \A c \in ran : IsObject(asking[c]) /\ asking[c].ruled =>
        asking[c].dated /\ asking[c].from - asking[c].to \in -MaxDateRange .. MaxDateRange

\* Druid executes no query that asks for more rows or more days than the rules allow.
WithinLimits == RowsLimited /\ RangeLimited
=============================================================================
