----------------------------- MODULE DatasetAlerts -----------------------------
(***************************************************************************)
(* The alerts of datasets.  The first publication of a dataset creates a   *)
(* metric and an alert for each template of the configuration, in its      *)
(* transaction, and publishes the alerts once the command service has made *)
(* the dataset live; what fails there is only logged.  The retirement of   *)
(* the dataset deletes them one by one, with their rules in Grafana and    *)
(* their silences, and the metrics after them.                             *)
(*                                                                         *)
(* Postgres does not fail outside of transactions, and the service does    *)
(* not restart.  Grafana is the groups of rules: the folders, and the      *)
(* requests of users about single alerts, are those of AlertRules.  An     *)
(* alert is known by its dataset and template.                             *)
(***************************************************************************)
EXTENDS Naturals, FiniteSets, Sequences

CONSTANTS
    Monitored,  \* datasets
    Templates,  \* alertsConfig.json: the category of each metric
    Titles,     \* what the names of alerts may make of a dataset id
    Crew,       \* status transitions in progress at the same time
    MaxOrders,  \* how many there are
    MaxMuted    \* alerts that have a silence at the same time

Indexes  == DOMAIN Templates
Sections == { Templates[i] : i \in Indexes }
NoSuch   == "none"

\* The alerts come in the order of their templates.
ASSUME TemplatesAssumption == Indexes \subseteq Nat

VARIABLES
    title,      \* of each dataset, which never changes
    dataset,    \* table datasets: the status of each
    alertRow,   \* table alerts
    metricRow,  \* table metrics
    muted,      \* the alerts that have a silence, in its table and in Grafana
    group,      \* Grafana: the rules of each category
    crew,       \* what each transition is doing
    retired,    \* the datasets that ever were
    harmed,     \* those of which a call failed, and those whose alerts are named alike
    crossed,    \* those whose transitions overlapped with others
    orphaned,   \* the silences that outlived their alert, as they could not be deleted with it
    orders

alertVars ==
    <<title, dataset, alertRow, metricRow, muted, group, crew, retired, harmed, crossed, orphaned, orders>>

NoTask == [at |-> "idle", of |-> NoSuch, new |-> FALSE, todo |-> {}, seen |-> {}]

Rule(d, i)  == <<title[d], i>>
Homonyms(d) == { e \in Monitored : title[e] = title[d] }
Busy        == { w \in Crew : crew[w].at # "idle" }
RowsFor(d)  == { i \in Indexes : alertRow[d][i] # "none" }

DatasetAlertsTypeOK ==
    /\ title \in [Monitored -> Titles]
    /\ dataset \in [Monitored -> {"none", "Live", "Retired"}]
    /\ alertRow \in [Monitored -> [Indexes -> {"none", "draft", "live"}]]
    /\ metricRow \in [Monitored -> SUBSET Indexes] /\ muted \in [Monitored -> SUBSET Indexes]
    /\ orphaned \in [Monitored -> SUBSET Indexes]
    /\ \A c \in Sections : \A rule \in group[c] : rule \in Titles \X Indexes /\ Templates[rule[2]] = c
    /\ \A w \in Crew :
        /\ crew[w].at \in {"idle", "save", "command", "list", "publish", "post", "mark",
                           "retire", "find", "drop", "unpost", "destroy", "unmute", "metrics"}
        /\ crew[w].at \in {"post", "mark", "unpost", "destroy", "unmute"} => crew[w].todo # {}
        /\ crew[w].at # "idle" => crew[w].of \in Monitored

DatasetAlertsInit ==
    /\ title \in [Monitored -> Titles]
    /\ dataset = [d \in Monitored |-> "none"]
    /\ alertRow = [d \in Monitored |-> [i \in Indexes |-> "none"]]
    /\ metricRow = [d \in Monitored |-> {}] /\ muted = [d \in Monitored |-> {}]
    /\ group = [c \in Sections |-> {}]
    /\ crew = [w \in Crew |-> NoTask]
    /\ orphaned = [d \in Monitored |-> {}]
    /\ retired = {} /\ harmed = {} /\ crossed = {} /\ orders = 0

-----------------------------------------------------------------------------

On(w, step)   == crew[w].at = step
Turn(w, step) == crew' = [crew EXCEPT ![w].at = step, ![w].seen = {}]
Leave(w)      == crew' = [crew EXCEPT ![w] = NoTask]

\* A call fails, and the transition ends.
Harm(w)    == harmed' = harmed \cup Homonyms(crew[w].of)
Abandon(w) == Leave(w) /\ Harm(w)

\* The alert at work is the first of those to do: they come in the order of their rows.
Current(w) == CHOOSE i \in crew[w].todo : \A j \in crew[w].todo : i[1] <= j[1]
IndexOf(w) == Current(w)[1]
RuleOf(w)  == Rule(crew[w].of, IndexOf(w))
GroupOf(w) == Templates[IndexOf(w)]
Rest(w)    == crew[w].todo \ {Current(w)}

\* The alerts of a dataset with their status.
AlertsOf(d) == { <<i, alertRow[d][i]>> : i \in RowsFor(d) }

tablesOfAlerts == <<alertRow, metricRow, muted, orphaned>>

\* Transitions are alike: a new one takes the first slot that is free.
TakeOrder(w, d, step) ==
    /\ Busy # Crew /\ w = CHOOSE v \in Crew \ Busy : TRUE
    /\ orders < MaxOrders
    /\ orders' = orders + 1
    /\ crew' = [crew EXCEPT ![w] = [NoTask EXCEPT !.at = step, !.of = d, !.new = dataset[d] = "none"]]
    /\ crossed' = IF Busy = {} THEN crossed ELSE crossed \cup {d} \cup { crew[v].of : v \in Busy }
    /\ UNCHANGED <<title, dataset, tablesOfAlerts, group, retired, harmed>>

\* What no step of a transition changes.
Settled == UNCHANGED <<title, crossed, orders>>

-----------------------------------------------------------------------------
(* Publication *)

\* The live row is looked up before anything is written.
PublishMonitored(w, d) == TakeOrder(w, d, "save")

\* Names of alerts and aliases of metrics are unique.
NamesTaken(d) == metricRow[d] # {} \/ \E e \in Homonyms(d) : RowsFor(e) # {}

CreateAlerts(d) ==
    /\ alertRow' = [alertRow EXCEPT ![d] = [i \in Indexes |-> "draft"]]
    /\ metricRow' = [metricRow EXCEPT ![d] = Indexes]

\* createDatasetAlertsDraft, in the transaction that saves the draft of the dataset.
SaveDrafts(w) ==
    /\ On(w, "save")
    /\ LET d == crew[w].of
           creates == crew[w].new /\ RowsFor(d) = {}
       IN \/ /\ ~ creates
             /\ Turn(w, "command") /\ UNCHANGED tablesOfAlerts
          \/ /\ creates /\ ~ NamesTaken(d)
             /\ CreateAlerts(d) /\ Turn(w, "command") /\ UNCHANGED <<muted, orphaned>>
          \/ Leave(w) /\ UNCHANGED tablesOfAlerts                \* rolled back
    /\ Settled /\ UNCHANGED <<dataset, group, retired, harmed>>

\* The command service makes the dataset live, or fails before or after that.
PublishCommand(w) ==
    /\ On(w, "command")
    /\ LET made == [dataset EXCEPT ![crew[w].of] = "Live"] IN
        \/ /\ dataset' = made
           /\ IF crew[w].new THEN Turn(w, "list") ELSE Leave(w)
           /\ UNCHANGED harmed
        \/ dataset' = made /\ Abandon(w)
        \/ Leave(w) /\ UNCHANGED <<dataset, harmed>>
    /\ Settled /\ UNCHANGED <<tablesOfAlerts, group, retired>>

\* publishAlertRule: an error is logged, and ends the publication of the alerts.
ListAlerts(w) ==
    /\ On(w, "list")
    /\ crew' = [crew EXCEPT ![w].at = "publish", ![w].todo = AlertsOf(crew[w].of)]
    /\ Settled /\ UNCHANGED <<dataset, tablesOfAlerts, group, retired, harmed>>

\* A row that is gone is passed over; a rule of that name in the group is an error.
ReadRules(w) ==
    /\ On(w, "publish")
    /\ \/ crew[w].todo = {} /\ Leave(w) /\ UNCHANGED harmed
       \/ /\ crew[w].todo # {}
          /\ IF IndexOf(w) \notin RowsFor(crew[w].of)
             THEN crew' = [crew EXCEPT ![w].todo = Rest(w)] /\ UNCHANGED harmed
             ELSE \/ /\ RuleOf(w) \notin group[GroupOf(w)]
                     /\ crew' = [crew EXCEPT ![w].at = "post", ![w].seen = group[GroupOf(w)]]
                     /\ UNCHANGED harmed
                  \/ Abandon(w)
    /\ Settled /\ UNCHANGED <<dataset, tablesOfAlerts, group, retired>>

\* Mutant: the group is posted with the new rule alone.
WithRule_Alone(rules, rule) == {rule}

WithRule(rules, rule) == rules \cup {rule}

\* The reply may be lost.
PostRules(w) ==
    /\ On(w, "post")
    /\ \/ /\ group' = [group EXCEPT ![GroupOf(w)] = WithRule(crew[w].seen, RuleOf(w))]
          /\ \/ Turn(w, "mark") /\ UNCHANGED harmed
             \/ Abandon(w)
       \/ Abandon(w) /\ UNCHANGED group
    /\ Settled /\ UNCHANGED <<dataset, tablesOfAlerts, retired>>

\* The status of the row, if it is still there.
MarkLive(w) ==
    /\ On(w, "mark")
    /\ LET d == crew[w].of
           i == IndexOf(w)
       IN alertRow' = IF i \in RowsFor(d) THEN [alertRow EXCEPT ![d][i] = "live"] ELSE alertRow
    /\ crew' = [crew EXCEPT ![w].at = "publish", ![w].todo = Rest(w)]
    /\ Settled /\ UNCHANGED <<dataset, metricRow, muted, orphaned, group, retired, harmed>>

-----------------------------------------------------------------------------
(* Retirement *)

RetireMonitored(w, d) == dataset[d] = "Live" /\ TakeOrder(w, d, "retire")

RetireTables(w) ==
    /\ On(w, "retire")
    /\ \/ /\ dataset' = [dataset EXCEPT ![crew[w].of] = "Retired"]
          /\ retired' = retired \cup {crew[w].of}
          /\ Turn(w, "find")
       \/ Leave(w) /\ UNCHANGED <<dataset, retired>>
    /\ Settled /\ UNCHANGED <<tablesOfAlerts, group, harmed>>

\* Mutant: only the alerts that are published are found.
AlertsToDelete_Live(d) == { a \in AlertsOf(d) : a[2] = "live" }

AlertsToDelete(d) == AlertsOf(d)

FindAlerts(w) ==
    /\ On(w, "find")
    /\ crew' = [crew EXCEPT ![w].at = "drop", ![w].todo = AlertsToDelete(crew[w].of)]
    /\ Settled /\ UNCHANGED <<dataset, tablesOfAlerts, group, retired, harmed>>

\* An alert that was live when it was found has a rule; what goes wrong with it is logged.
NextAlert(w) ==
    /\ On(w, "drop")
    /\ \/ crew[w].todo = {} /\ Turn(w, "metrics") /\ UNCHANGED harmed
       \/ /\ crew[w].todo # {}
          /\ LET rules == group[GroupOf(w)]
                 live == Current(w)[2] = "live"
             IN \/ /\ live /\ rules # {}
                   /\ crew' = [crew EXCEPT ![w].at = "unpost", ![w].seen = rules]
                   /\ UNCHANGED harmed
                \/ (~ live \/ rules = {}) /\ Turn(w, "destroy") /\ UNCHANGED harmed
                \/ live /\ Turn(w, "destroy") /\ Harm(w)
    /\ Settled /\ UNCHANGED <<dataset, tablesOfAlerts, group, retired>>

\* The only rule of a group is deleted with the group, whichever it is.
WithoutRule(rules, rule) == IF Cardinality(rules) > 1 THEN rules \ {rule} ELSE {}

UnpostRule(w) ==
    /\ On(w, "unpost")
    /\ \/ /\ group' = [group EXCEPT ![GroupOf(w)] = WithoutRule(crew[w].seen, RuleOf(w))]
          /\ UNCHANGED harmed
       \/ Harm(w) /\ UNCHANGED group
    /\ Turn(w, "destroy")
    /\ Settled /\ UNCHANGED <<dataset, tablesOfAlerts, retired>>

DestroyAlert(w) ==
    /\ On(w, "destroy")
    /\ alertRow' = [alertRow EXCEPT ![crew[w].of][IndexOf(w)] = "none"]
    /\ Turn(w, "unmute")
    /\ Settled /\ UNCHANGED <<dataset, metricRow, muted, orphaned, group, retired, harmed>>

\* A silence that cannot be deleted ends the retirement with an error.
Unmute(w) ==
    /\ On(w, "unmute")
    /\ \/ /\ muted' = [muted EXCEPT ![crew[w].of] = @ \ {IndexOf(w)}]
          /\ crew' = [crew EXCEPT ![w].at = "drop", ![w].todo = Rest(w)]
          /\ UNCHANGED <<harmed, orphaned>>
       \/ /\ IndexOf(w) \in muted[crew[w].of]
          /\ orphaned' = [orphaned EXCEPT ![crew[w].of] = @ \cup {IndexOf(w)}]
          /\ Abandon(w) /\ UNCHANGED muted
    /\ Settled /\ UNCHANGED <<dataset, alertRow, metricRow, group, retired>>

DropMetrics(w) ==
    /\ On(w, "metrics")
    /\ metricRow' = [metricRow EXCEPT ![crew[w].of] = {}]
    /\ Leave(w)
    /\ Settled /\ UNCHANGED <<dataset, alertRow, muted, orphaned, group, retired, harmed>>

\* A user silences an alert between transitions: those of other datasets do not meet it.
MuteAlert(d, i) ==
    /\ alertRow[d][i] = "live" /\ i \notin muted[d]
    /\ Busy = {}
    /\ Cardinality(UNION { {e} \X muted[e] : e \in Monitored }) < MaxMuted
    /\ muted' = [muted EXCEPT ![d] = @ \cup {i}]
    /\ UNCHANGED <<title, dataset, alertRow, metricRow, group, crew, retired, harmed, crossed, orphaned, orders>>

DatasetAlertsNext ==
    \/ \E w \in Crew :
        \/ \E d \in Monitored : PublishMonitored(w, d) \/ RetireMonitored(w, d)
        \/ SaveDrafts(w) \/ PublishCommand(w) \/ ListAlerts(w) \/ ReadRules(w) \/ PostRules(w) \/ MarkLive(w)
        \/ RetireTables(w) \/ FindAlerts(w) \/ NextAlert(w) \/ UnpostRule(w) \/ DestroyAlert(w) \/ Unmute(w)
        \/ DropMetrics(w)
    \/ \E d \in Monitored, i \in Indexes : MuteAlert(d, i)

DatasetAlertsSpec == DatasetAlertsInit /\ [][DatasetAlertsNext]_alertVars

-----------------------------------------------------------------------------
(* Properties *)

AtEase(d)     == d \notin crossed /\ \A w \in Crew : crew[w].of # d
IsIn(d, i)    == Rule(d, i) \in group[Templates[i]]
AlertsGone(d) == RowsFor(d) = {} /\ metricRow[d] = {} /\ muted[d] = {}

\* Until a dataset is retired it has an alert and a metric for every template or none at all,
\* whatever fails, overlaps or is tried again.
AlertsComplete ==
    \A d \in Monitored \ retired :
        \/ RowsFor(d) = Indexes /\ metricRow[d] = Indexes
        \/ AlertsGone(d)

\* As long as transitions do not overlap, an alert that the table says is live is evaluated by
\* Grafana, whatever has failed.  After two of them did, even if they were of one dataset, so
\* that its rule was deleted twice, a rule of any other may be missing: the datasets share the
\* groups of their categories, and the only rule of a group goes with it.
LiveAlertsInstalled ==
    crossed = {} =>
        \A d \in Monitored : AtEase(d) => \A i \in Indexes : alertRow[d][i] = "live" => IsIn(d, i)

\* If nothing fails either, all alerts of a dataset that is live are live, and one that is not
\* has no rule in Grafana and, once it was retired, no alert, metric or silence: for good, as
\* only a dataset that is new gets alerts.
AlertsFollowDataset ==
    \A d \in Monitored : AtEase(d) /\ d \notin harmed =>
        IF dataset[d] = "Live" /\ d \notin retired THEN \A i \in Indexes : alertRow[d][i] = "live"
        ELSE /\ Homonyms(d) = {d} => \A i \in Indexes : ~ IsIn(d, i)
             /\ d \in retired => AlertsGone(d)

\* The alerts of datasets, their metrics and the rules in Grafana agree with what is live.
AlertsAgree == AlertsComplete /\ LiveAlertsInstalled /\ AlertsFollowDataset

\* A rule leaves Grafana by the retirement of its dataset, as long as no transitions overlap.
RulesOfOthersKept ==
    crossed = {} =>
        \A c \in Sections : \A rule \in group[c] \ group'[c] :
            \E w \in Crew : On(w, "unpost") /\ title[crew[w].of] = rule[1]

\* A retirement that is answered with success leaves no alert or metric of its dataset, and no
\* silence but those that an earlier retirement failed to delete, whatever failed in its
\* publication or fails in Grafana, if it did not overlap.
RetirementClears ==
    \A w \in Crew, d \in Monitored \ crossed :
        On(w, "metrics") /\ crew[w].of = d /\ crew'[w].at = "idle" =>
            RowsFor(d)' = {} /\ metricRow'[d] = {} /\ muted'[d] \subseteq orphaned[d]

\* Transitions remove the alerts of their dataset, all of them, and no others.
AlertsRemoved == [][RulesOfOthersKept /\ RetirementClears]_alertVars
=============================================================================
