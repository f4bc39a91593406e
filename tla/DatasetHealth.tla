---------------------------- MODULE DatasetHealth ----------------------------
(***************************************************************************)
(* Health of datasets.  A check asks the infrastructure, Druid and         *)
(* Prometheus one after the other and draws its conclusions from all the   *)
(* answers, while any of them may change.  The list of live datasets       *)
(* checks all of them at the same time, and all checks share one admin     *)
(* client of Kafka, which each of them connects and disconnects.           *)
(*                                                                         *)
(* Numbers are abstracted to what the thresholds tell apart.               *)
(***************************************************************************)
EXTENDS Naturals, Sequences, FiniteSets

CONSTANTS
    Checks,      \* health checks that may run at the same time
    Asked,       \* the requests: the categories, and whether the dataset is a master
    MaxChanges,  \* how often something breaks or recovers
    MaxChecks    \* how many checks are made

\* The schema of the request admits no other categories.
ASSUME AskedAssumption == Asked \subseteq (SUBSET {"infra", "processing", "query"}) \X BOOLEAN
ASSUME CheckBoundsAssumption == MaxChanges \in Nat /\ MaxChecks \in Nat

Infra == <<"postgres", "druid", "flink", "kafka">>
Rates == {"validation", "dedup", "denorm", "transform"}
Items == {"postgres", "druid", "flink", "kafka", "redis", "events", "speed"} \cup Rates

\* What there is to be read; "bad" is an error of the call, or an answer that means one.
ProbeReadings == {"good", "bad"}
EventReadings == {"some", "zero", "bad"}
SpeedReadings == {"good", "slow", "bad"}
RateReadings  == {"none", "few", "many", "bad"}   \* few: within the threshold

Readings(item) ==
    CASE item = "events" -> EventReadings
      [] item = "speed"  -> SpeedReadings
      [] item \in Rates  -> RateReadings
      [] OTHER           -> ProbeReadings

Best(item) == CASE item = "events" -> "some" [] item \in Rates -> "none" [] OTHER -> "good"

VARIABLES
    reading,  \* the reading of every item now
    toRead,   \* the items that a check has yet to read, in order
    got,      \* what it has read, by category
    changed,  \* the items that changed while it ran
    wants,    \* the categories that it was asked for
    admin,    \* the checks that are connecting the admin client of Kafka, or have it connected
    shaken,   \* those whose connection another one has closed
    report,   \* the components and the status that the last check answered
    changes, checked  \* how many changes and checks there were

healthVars == <<reading, toRead, got, changed, wants, admin, shaken, report, changes, checked>>

Idle(c) == wants[c] = {}

NoReport == [status |-> "none"]

HealthTypeOK ==
    /\ \A item \in Items : reading[item] \in Readings(item)
    /\ \A c \in Checks :
        /\ toRead[c] \in Seq({"infra", "processing"} \X Items)
        /\ changed[c] \subseteq Items
        /\ wants[c] \subseteq {"infra", "processing", "query"}
        /\ c \in admin => toRead[c] # << >> /\ Head(toRead[c])[2] = "kafka"
    /\ shaken \subseteq Checks
    /\ report.status \in {"none", "Healthy", "UnHealthy", "error"}
    /\ changes \in 0 .. MaxChanges /\ checked \in 0 .. MaxChecks

\* Everything works, and there have been events today or not.
HealthInit ==
    /\ \E events \in {"some", "zero"} :
          reading = [[item \in Items |-> Best(item)] EXCEPT !["events"] = events]
    /\ toRead = [c \in Checks |-> << >>]
    /\ got = [c \in Checks |-> << >>]
    /\ changed = [c \in Checks |-> {}]
    /\ wants = [c \in Checks |-> {}]
    /\ admin = {}
    /\ shaken = {}
    /\ report = NoReport
    /\ changes = 0
    /\ checked = 0

\* Something breaks, recovers, or is counted.
Change(item) ==
    /\ changes < MaxChanges
    /\ changes' = changes + 1
    /\ \E value \in Readings(item) \ {reading[item]} :
          reading' = [reading EXCEPT ![item] = value]
    /\ changed' = [c \in Checks |-> IF Idle(c) THEN {} ELSE changed[c] \cup {item}]
    /\ UNCHANGED <<toRead, got, wants, admin, shaken, report, checked>>

-----------------------------------------------------------------------------
(* A check. *)

InfraPlan(master) ==
    [k \in 1 .. Len(Infra) |-> <<"infra", Infra[k]>>]
        \o (IF master THEN << <<"infra", "redis">> >> ELSE << >>)

ProcessingPlan ==
    LET order == <<"flink", "events", "speed", "validation", "dedup", "denorm", "transform">>
    IN [k \in 1 .. Len(order) |-> <<"processing", order[k]>>]

\* A request names categories of one dataset; the list of live datasets wants the first two.
Start(c, categories, master) ==
    /\ Idle(c) /\ checked < MaxChecks
    /\ wants' = [wants EXCEPT ![c] = categories]
    /\ toRead' = [toRead EXCEPT ![c] =
           (IF "infra" \in categories THEN InfraPlan(master) ELSE << >>)
               \o (IF "processing" \in categories THEN ProcessingPlan ELSE << >>)]
    /\ got' = [got EXCEPT ![c] = << >>]
    /\ changed' = [changed EXCEPT ![c] = {}]
    /\ shaken' = shaken \ {c}
    /\ report' = NoReport
    /\ checked' = checked + 1
    /\ UNCHANGED <<reading, admin, changes>>

Note(c, value) ==
    /\ got' = [got EXCEPT ![c] = Append(@, <<Head(toRead[c]), value>>)]
    /\ toRead' = [toRead EXCEPT ![c] = Tail(@)]

\* One call, whose failure is caught and counts as "bad".
Read(c) ==
    /\ toRead[c] # << >> /\ Head(toRead[c])[2] # "kafka"
    /\ Note(c, reading[Head(toRead[c])[2]])
    /\ UNCHANGED <<reading, changed, wants, admin, shaken, report, changes, checked>>

\* admin.connect() ...
Connect(c) ==
    /\ toRead[c] # << >> /\ Head(toRead[c])[2] = "kafka" /\ c \notin admin
    /\ admin' = admin \cup {c}
    /\ UNCHANGED <<reading, toRead, got, changed, wants, shaken, report, changes, checked>>

\* ... and, whatever came of it, admin.disconnect(), which also breaks the connection that
\* another check is waiting for: that one may find Kafka bad.
Disconnect(c) ==
    /\ c \in admin
    /\ \E value \in {reading["kafka"]} \cup (IF c \in shaken THEN {"bad"} ELSE {}) : Note(c, value)
    /\ admin' = admin \ {c}
    /\ shaken' = shaken \cup (admin \ {c})
    /\ UNCHANGED <<reading, changed, wants, report, changes, checked>>

\* What was read of an item in a category.
Seen(c, category, item) ==
    got[c][CHOOSE k \in DOMAIN got[c] : got[c][k][1] = <<category, item>>][2]

Healthy(ok) == IF ok THEN "Healthy" ELSE "UnHealthy"

\* Mutant: without events no failure counts.
RateOk_AnyOfNone(rate, events) == rate = "none" \/ rate = "few" \/ (rate = "many" /\ events # "some")

\* Failures in percent of the events, and any failure at all when there are no events.
RateOk(rate, events) == rate = "none" \/ (rate = "few" /\ events = "some")

InfraComponents(c) ==
    LET items == {got[c][k][1][2] : k \in {j \in DOMAIN got[c] : got[c][j][1][1] = "infra"}}
    IN [item \in items |-> Healthy(Seen(c, "infra", item) = "good")]

\* The status computed for the transformations is assigned to the component denorm, over
\* its own; the component transform keeps that of the call to Prometheus.
ProcessingComponents(c) ==
    LET saw(item) == Seen(c, "processing", item)
        rate(item) == Healthy(RateOk(saw(item), saw("events")))
    IN [pipeline   |-> Healthy(saw("flink") = "good"),
        events     |-> Healthy(saw("events") # "bad"),
        speed      |-> Healthy(saw("speed") = "good"),
        validation |-> rate("validation"),
        dedup      |-> rate("dedup"),
        denorm     |-> rate("transform"),
        transform  |-> Healthy(saw("transform") # "bad")]

AllHealthy(components) == \A k \in DOMAIN components : components[k] = "Healthy"

\* The overall status; the query category needs dataset.id, which was not selected.
Reply(c) ==
    /\ ~ Idle(c) /\ toRead[c] = << >>
    /\ LET none == [k \in {} |-> "Healthy"]
           i == IF "infra" \in wants[c] THEN InfraComponents(c) ELSE none
           p == IF "processing" \in wants[c] THEN ProcessingComponents(c) ELSE none
       IN report' = IF "query" \in wants[c] THEN [status |-> "error"]
                    ELSE [status     |-> Healthy(AllHealthy(i) /\ AllHealthy(p)),
                          components |-> DOMAIN i \cup DOMAIN p,
                          steady     |-> [item \in Items \ changed[c] |-> reading[item]],
                          shaken     |-> c \in shaken]
    /\ wants' = [wants EXCEPT ![c] = {}]
    /\ got' = [got EXCEPT ![c] = << >>]
    /\ changed' = [changed EXCEPT ![c] = {}]
    /\ shaken' = shaken \ {c}
    /\ UNCHANGED <<reading, toRead, admin, changes, checked>>

HealthNext ==
    \/ \E item \in Items : Change(item)
    \/ \E c \in Checks :
        \/ \E request \in Asked : Start(c, request[1], request[2])
        \/ Read(c) \/ Connect(c) \/ Disconnect(c) \/ Reply(c)

HealthSpec == HealthInit /\ [][HealthNext]_healthVars

-----------------------------------------------------------------------------
(* Properties. *)

\* Of an answer that is no error: what held all the time that the check ran.
Steady(item, values) == item \in DOMAIN report.steady /\ report.steady[item] \in values

Answered == report.status \in {"Healthy", "UnHealthy"}

\* What was bad all the time that a check ran makes the dataset unhealthy: no error that a
\* probe catches, and no order of the probes, hides it.  Only denorm failures go unnoticed.
LastingFailureReported ==
    Answered /\ report.status = "Healthy" =>
        /\ \A item \in (report.components \cap Items) \ {"denorm"} : ~ Steady(item, {"bad", "slow"})
        /\ "pipeline" \in report.components =>
            /\ ~ Steady("flink", {"bad"})
            /\ \A item \in Rates \ {"denorm"} :
                  /\ ~ Steady(item, {"bad", "many"})
                  /\ ~ (Steady(item, {"few"}) /\ Steady("events", {"zero", "bad"}))

\* A check of a system in which nothing was bad or over a threshold all the while answers
\* Healthy, unless another check closed the Kafka connection that it was waiting for.
NoFalseAlarm ==
    Answered /\ ~ report.shaken /\ (\A item \in Items : Steady(item, {"good", "some", "zero", "none"}))
        => report.status = "Healthy"

\* A report is right about what did not change while its values were read one by one.
HealthTruthful == LastingFailureReported /\ NoFalseAlarm

=============================================================================
