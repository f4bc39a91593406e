-------------------------- MODULE DatasetAlertsProofs --------------------------
(***************************************************************************)
(* The alerts of datasets, for every set of datasets, titles and           *)
(* templates, any number of transitions that overlap or not, every failure *)
(* and every bound: the tables, the groups of rules in Grafana and the     *)
(* status of the datasets agree, and a retirement removes the alerts of    *)
(* its dataset, all of them, and no others.                                *)
(***************************************************************************)
EXTENDS DatasetAlerts, FiniteSetTheorems, WellFoundedInduction, TLAPS

-----------------------------------------------------------------------------
(* The inductive invariant. *)

\* The steps of a retirement after the tables; those with an alert in hand; those of a
\* publication after the dataset is live.
Removing   == {"find", "drop", "unpost", "destroy", "unmute", "metrics"}
InHand     == {"post", "mark", "unpost", "destroy", "unmute"}
Installing == {"list", "publish", "post", "mark"}
Steps      == {"idle", "save", "command", "retire"} \cup Removing \cup Installing

\* The indexes of alerts.
StillToDo(todo) == { a[1] : a \in todo }

\* The form of what a transition is doing.
Tasks == [at : Steps, of : Monitored \cup {NoSuch}, new : BOOLEAN,
          todo : SUBSET (Indexes \X {"draft", "live"}), seen : SUBSET (Titles \X Indexes)]

\* A step with an alert in hand has one to do; the group that was read is that of its alert;
\* what removes alerts has retired the dataset.
TaskInv(w) ==
    /\ crew[w].at # "idle" => crew[w].of \in Monitored
    /\ crew[w].at \in InHand => crew[w].todo # {}
    /\ \A a, b \in crew[w].todo : a[1] = b[1] => a = b
    /\ IsFiniteSet(crew[w].seen) /\ (crew[w].at \notin {"post", "unpost"} => crew[w].seen = {})
    /\ \A rule \in crew[w].seen : Templates[rule[2]] = GroupOf(w)
    /\ crew[w].at \in Removing => crew[w].of \in retired

\* Types.
AlertTypes ==
    /\ DatasetAlertsTypeOK /\ crew \in [Crew -> Tasks]
    /\ retired \subseteq Monitored /\ harmed \subseteq Monitored /\ crossed \subseteq Monitored
    /\ DOMAIN group = Sections /\ \A c \in Sections : IsFiniteSet(group[c])
    /\ \A w \in Crew : TaskInv(w)

\* Which datasets were retired; AlertsComplete; datasets of one name never both have alerts, as
\* the names of alerts are unique; and what it is to overlap.
TableInv ==
    /\ \A d \in Monitored : (dataset[d] = "Retired" => d \in retired) /\ (dataset[d] = "none" => d \notin retired)
    /\ AlertsComplete
    /\ \A d, e \in Monitored : d # e /\ title[d] = title[e] => RowsFor(d) = {} \/ RowsFor(e) = {}
    /\ \A v, w \in Busy : v # w => crew[v].of \in crossed

\* What a transition has read is still so when it uses it, if none overlaps with it.
GroupInv(w) ==
    /\ crew[w].at \in {"post", "unpost"} => crew[w].seen = group[GroupOf(w)]
    /\ crew[w].at = "mark" => RuleOf(w) \in group[GroupOf(w)]
    /\ crew[w].at \in {"drop", "unpost", "destroy"} => \A a \in crew[w].todo : alertRow[crew[w].of][a[1]] = a[2]
    /\ crew[w].at = "unmute" => \A a \in Rest(w) : alertRow[crew[w].of][a[1]] = a[2]
    /\ crew[w].at = "unpost" => Current(w)[2] = "live"

\* A live alert has its rule, unless the rule was just deleted and the row is next.
InstalledInv ==
    crossed = {} =>
      /\ \A w \in Crew : GroupInv(w)
      /\ \A d \in Monitored, i \in Indexes : alertRow[d][i] = "live" /\ ~ IsIn(d, i) =>
            \E w \in Crew : On(w, "destroy") /\ crew[w].of = d /\ IndexOf(w) = i

\* What the retirement of a dataset has still to remove.
ToRemove(w) == IF crew[w].at \in {"drop", "unpost", "destroy"} THEN StillToDo(crew[w].todo)
               ELSE IF crew[w].at = "unmute" THEN StillToDo(Rest(w)) ELSE {}

\* A silence is that of a row, or of an alert whose row was just deleted; the rows of a dataset
\* whose removal has begun are those that it has still to do.
RemovalInv(d) ==
    /\ \A i \in muted[d] \ orphaned[d] : i \in RowsFor(d) \/ \E w \in Busy : On(w, "unmute") /\ crew[w].of = d /\ IndexOf(w) = i
    /\ \A w \in Busy : crew[w].of = d /\ crew[w].at \in Removing \ {"find"} => RowsFor(d) \subseteq ToRemove(w)

\* A dataset that is live for the first time; its transition is at one of these steps.
WithRules(d)     == dataset[d] = "Live" /\ d \notin retired
AtWork(d, steps) == \E w \in Busy : crew[w].of = d /\ crew[w].at \in steps

\* Whose rule may still be in Grafana.
RuleDue(d, i) ==
    \/ WithRules(d)
    \/ \E w \in Busy : /\ crew[w].of = d
                       /\ \/ On(w, "find") /\ alertRow[d][i] = "live"
                          \/ crew[w].at \in {"drop", "unpost"} /\ i \in StillToDo(crew[w].todo)
                          \/ crew[w].at \in {"destroy", "unmute"} /\ i \in StillToDo(Rest(w))

\* A publication creates and publishes all alerts of a dataset that is new, and a retirement
\* begins when all are live.
PublishInv(w, d) ==
    /\ crew[w].at \in {"save", "command"} => (crew[w].new <=> dataset[d] = "none")
    /\ crew[w].at = "command" /\ crew[w].new => RowsFor(d) = Indexes
    /\ crew[w].at \in Installing => WithRules(d) /\ RowsFor(d) = Indexes
    /\ crew[w].at \in Installing \ {"list"} => \A i \in Indexes : alertRow[d][i] = "live" \/ i \in StillToDo(crew[w].todo)
    /\ crew[w].at = "find" => \A i \in Indexes : alertRow[d][i] # "draft"
    /\ crew[w].at = "retire" => dataset[d] = "Live"
    /\ crew[w].at \in Removing \ {"find"} => \A a \in crew[w].todo : a[2] = "live"

\* All of it, as long as nothing fails.
FollowInv(d) ==
    /\ orphaned[d] = {}
    /\ \A w \in Busy : crew[w].of = d => PublishInv(w, d)
    /\ WithRules(d) /\ ~ AtWork(d, Installing) => \A i \in Indexes : alertRow[d][i] = "live"
    /\ d \in retired /\ ~ AtWork(d, Removing) => AlertsGone(d)
    /\ Homonyms(d) = {d} => \A i \in Indexes :
         IsIn(d, i) \/ (\E w \in Crew : Rule(d, i) \in crew[w].seen) => RuleDue(d, i)

\* The inductive invariant.
DatasetAlertInv ==
    /\ AlertTypes /\ TableInv /\ InstalledInv
    /\ \A d \in Monitored \ crossed : RemovalInv(d) /\ (d \notin harmed => FollowInv(d))

\* A step of w is about its dataset.
StepFrame(w) ==
    LET e == crew[w].of IN
    /\ w \in Busy /\ e \in Monitored
    /\ \A v \in Crew \ {w} : crew'[v] = crew[v]
    /\ crew'[w].at # "idle" => crew'[w].of = e
    /\ title' = title /\ crossed' = crossed /\ harmed \subseteq harmed'
    /\ \A d \in Monitored \ {e} :
        /\ alertRow'[d] = alertRow[d] /\ metricRow'[d] = metricRow[d]
        /\ muted'[d] = muted[d] /\ orphaned'[d] = orphaned[d]
        /\ dataset'[d] = dataset[d] /\ (d \in retired' <=> d \in retired)

\* The steps of a transition, once it has begun.
StepOf(w) ==
    \/ SaveDrafts(w) \/ PublishCommand(w) \/ ListAlerts(w) \/ ReadRules(w) \/ PostRules(w) \/ MarkLive(w)
    \/ RetireTables(w) \/ FindAlerts(w) \/ NextAlert(w) \/ UnpostRule(w) \/ DestroyAlert(w) \/ Unmute(w)
    \/ DropMetrics(w)

-----------------------------------------------------------------------------
(* The alert at work, and types. *)

\* The order of the naturals, as a relation.
LEMMA NatOrder == \A m, n \in Nat : m < n => <<m, n>> \in OpToRel(<, Nat)
  BY DEF OpToRel

\* A set of naturals has a least element: the alerts to do have a first.
LEMMA Least ==
  ASSUME NEW S, S \subseteq Nat, S # {}
  PROVE  \E n \in S : \A m \in S : n <= m
<1>1. PICK n \in S : \A m \in S : ~ (<<m, n>> \in OpToRel(<, Nat))
  BY NatLessThanWellFounded, WFMin
<1>2. \A m \in S : ~ (m < n)
  BY <1>1, NatOrder
<1>3. QED
  BY <1>2

\* The alert at work is one of those to do.
LEMMA CurrentIn ==
  ASSUME NEW w \in Crew, crew[w].todo \subseteq Indexes \X {"draft", "live"}, crew[w].todo # {}
  PROVE  /\ Current(w) \in crew[w].todo /\ IndexOf(w) \in Indexes /\ GroupOf(w) \in Sections
         /\ Current(w) = <<IndexOf(w), Current(w)[2]>> /\ Current(w)[2] \in {"draft", "live"}
<1> DEFINE S == { a[1] : a \in crew[w].todo }
<1>1. S \subseteq Nat /\ S # {}
  BY TemplatesAssumption
<1>2. PICK n \in S : \A m \in S : n <= m
  <2> HIDE DEF S
  <2> QED BY <1>1, Least
<1>3. \E i \in crew[w].todo : \A j \in crew[w].todo : i[1] <= j[1]
  BY <1>2
<1>4. Current(w) \in crew[w].todo
  BY <1>3 DEF Current
<1>5. QED
  BY <1>4 DEF IndexOf, GroupOf, Sections

\* A transition whose alerts to do stay has the same one at work.
LEMMA SameTodo ==
  ASSUME NEW v \in Crew, crew'[v].todo = crew[v].todo
  PROVE  /\ Current(v)' = Current(v) /\ IndexOf(v)' = IndexOf(v) /\ GroupOf(v)' = GroupOf(v)
         /\ Rest(v)' = Rest(v)
         /\ (title' = title /\ crew'[v].of = crew[v].of => RuleOf(v)' = RuleOf(v))
<1>1. Current(v)' = Current(v)
  BY DEF Current
<1>2. QED
  BY <1>1 DEF IndexOf, GroupOf, Rest, RuleOf, Rule

\* What a step does to the work in hand.
LEMMA TurnTypes ==
  ASSUME AlertTypes, NEW w \in Crew, NEW step \in Steps, Turn(w, step)
  PROVE  /\ crew' \in [Crew -> Tasks] /\ \A v \in Crew \ {w} : crew'[v] = crew[v]
         /\ crew'[w].at = step /\ crew'[w].of = crew[w].of /\ crew'[w].new = crew[w].new
         /\ crew'[w].todo = crew[w].todo /\ crew'[w].seen = {}
  BY DEF AlertTypes, Tasks, Turn

LEMMA LeaveTypes ==
  ASSUME AlertTypes, NEW w \in Crew, Leave(w)
  PROVE  /\ crew' \in [Crew -> Tasks] /\ \A v \in Crew \ {w} : crew'[v] = crew[v]
         /\ crew'[w] = NoTask
  BY DEF AlertTypes, Tasks, Leave, NoTask, Steps

\* What the types are made of: the tables, the groups and the transitions.
TableTypes ==
    /\ title \in [Monitored -> Titles]
    /\ dataset \in [Monitored -> {"none", "Live", "Retired"}]
    /\ alertRow \in [Monitored -> [Indexes -> {"none", "draft", "live"}]]
    /\ metricRow \in [Monitored -> SUBSET Indexes] /\ muted \in [Monitored -> SUBSET Indexes]
    /\ orphaned \in [Monitored -> SUBSET Indexes]
    /\ retired \subseteq Monitored /\ harmed \subseteq Monitored /\ crossed \subseteq Monitored

RulesByCategory ==
    /\ DOMAIN group = Sections
    /\ \A c \in Sections :
        /\ IsFiniteSet(group[c])
        /\ \A rule \in group[c] : rule \in Titles \X Indexes /\ Templates[rule[2]] = c

CrewTypes == crew \in [Crew -> Tasks] /\ \A w \in Crew : TaskInv(w)

\* The types are those of their parts.
LEMMA AlertTypesParts == AlertTypes <=> TableTypes /\ RulesByCategory /\ CrewTypes
<1>1. CrewTypes => \A w \in Crew :
        /\ crew[w].at \in {"idle", "save", "command", "list", "publish", "post", "mark",
                           "retire", "find", "drop", "unpost", "destroy", "unmute", "metrics"}
        /\ crew[w].at \in {"post", "mark", "unpost", "destroy", "unmute"} => crew[w].todo # {}
        /\ crew[w].at # "idle" => crew[w].of \in Monitored
  BY DEF CrewTypes, TaskInv, Tasks, Steps, Removing, Installing, InHand
<1>2. QED
  BY <1>1 DEF AlertTypes, DatasetAlertsTypeOK, TableTypes, RulesByCategory, CrewTypes

\* A slot that is free has the form of one.
LEMMA NoTaskFits ==
  ASSUME NEW w \in Crew, crew[w] = NoTask
  PROVE  crew[w] \in Tasks /\ TaskInv(w)
  BY FS_EmptySet DEF NoTask, Tasks, Steps, TaskInv, InHand, Removing

\* The types at first.
LEMMA AlertTypesInitial == DatasetAlertsInit => AlertTypes
<1> SUFFICES ASSUME DatasetAlertsInit PROVE AlertTypes
  OBVIOUS
<1>1. TableTypes
  BY DEF DatasetAlertsInit, TableTypes
<1>2. RulesByCategory
  BY FS_EmptySet DEF DatasetAlertsInit, RulesByCategory
<1>3. CrewTypes
  BY NoTaskFits DEF DatasetAlertsInit, CrewTypes
<1>4. QED
  BY <1>1, <1>2, <1>3, AlertTypesParts

\* The transitions that do not take the step keep theirs.
LEMMA CrewTypesKept ==
  ASSUME CrewTypes, NEW w \in Crew, crew' \in [Crew -> Tasks], TaskInv(w)',
         \A v \in Crew \ {w} : crew'[v] = crew[v], retired \subseteq retired'
  PROVE  CrewTypes'
<1>1. ASSUME NEW v \in Crew, v # w PROVE TaskInv(v)'
  <2>1. crew'[v] = crew[v] /\ GroupOf(v)' = GroupOf(v)
    BY <1>1, SameTodo
  <2>2. TaskInv(v)
    BY DEF CrewTypes
  <2>3. QED
    BY <2>1, <2>2 DEF TaskInv
<1>2. QED
  BY <1>1 DEF CrewTypes

\* What an alert in hand is.
LEMMA WorkTypes ==
  ASSUME AlertTypes, NEW w \in Busy
  PROVE  /\ w \in Crew /\ crew[w] \in Tasks /\ TaskInv(w) /\ crew[w].of \in Monitored
         /\ crew[w].todo \subseteq Indexes \X {"draft", "live"}
         /\ crew[w].todo # {} =>
             /\ Current(w) \in crew[w].todo /\ IndexOf(w) \in Indexes /\ GroupOf(w) \in Sections
             /\ Current(w) = <<IndexOf(w), Current(w)[2]>> /\ Current(w)[2] \in {"draft", "live"}
             /\ RuleOf(w) = <<title[crew[w].of], IndexOf(w)>> /\ RuleOf(w) \in Titles \X Indexes
             /\ Templates[RuleOf(w)[2]] = GroupOf(w)
<1>1. w \in Crew /\ crew[w] \in Tasks /\ TaskInv(w) /\ crew[w].of \in Monitored
  BY DEF AlertTypes, Busy, TaskInv
<1>2. crew[w].todo \subseteq Indexes \X {"draft", "live"}
  BY <1>1 DEF Tasks
<1>3. title[crew[w].of] \in Titles
  BY <1>1 DEF AlertTypes, DatasetAlertsTypeOK
<1>4. QED
  BY <1>1, <1>2, <1>3, CurrentIn DEF RuleOf, Rule, GroupOf

\* What a step leaves in hand, from the step that it turns to.
LEMMA TurnedTask ==
  ASSUME AlertTypes, NEW w \in Busy, NEW step \in Steps, Turn(w, step), retired \subseteq retired',
         step # "idle", step \in InHand => crew[w].todo # {}, step \in Removing => crew[w].of \in retired'
  PROVE  crew' \in [Crew -> Tasks] /\ TaskInv(w)' /\ \A v \in Crew \ {w} : crew'[v] = crew[v]
<1>1. w \in Crew /\ TaskInv(w)
  BY WorkTypes
<1>2. /\ crew' \in [Crew -> Tasks] /\ \A v \in Crew \ {w} : crew'[v] = crew[v]
      /\ crew'[w].at = step /\ crew'[w].of = crew[w].of /\ crew'[w].todo = crew[w].todo /\ crew'[w].seen = {}
  BY <1>1, TurnTypes
<1>3. crew[w].of \in Monitored
  BY WorkTypes
<1>4. TaskInv(w)'
  BY <1>1, <1>2, <1>3, FS_EmptySet DEF TaskInv
<1>5. QED
  BY <1>2, <1>4

LEMMA LeftTask ==
  ASSUME AlertTypes, NEW w \in Busy, Leave(w)
  PROVE  crew' \in [Crew -> Tasks] /\ TaskInv(w)' /\ \A v \in Crew \ {w} : crew'[v] = crew[v]
<1>1. w \in Crew
  BY DEF Busy
<1>2. crew' \in [Crew -> Tasks] /\ crew'[w] = NoTask /\ \A v \in Crew \ {w} : crew'[v] = crew[v]
  BY <1>1, LeaveTypes
<1>3. TaskInv(w)'
  BY <1>2, FS_EmptySet DEF NoTask, TaskInv, InHand, Removing
<1>4. QED
  BY <1>2, <1>3

\* What harms a dataset harms known ones.
LEMMA HarmTypes ==
  ASSUME AlertTypes, NEW w \in Busy, Harm(w)
  PROVE  harmed' \subseteq Monitored /\ harmed \subseteq harmed' /\ crew[w].of \in harmed'
  BY WorkTypes DEF AlertTypes, Harm, Homonyms

\* The types after a step of a transition.
LEMMA StepTypes ==
  ASSUME AlertTypes, NEW w \in Busy, crew' \in [Crew -> Tasks], TaskInv(w)',
         \A v \in Crew \ {w} : crew'[v] = crew[v], retired \subseteq retired', TableTypes', RulesByCategory'
  PROVE  AlertTypes'
<1>1. CrewTypes'
  BY CrewTypesKept, AlertTypesParts, WorkTypes
<1>2. AlertTypes' <=> (TableTypes' /\ RulesByCategory' /\ CrewTypes')
  BY AlertTypesParts, PTL
<1>3. QED
  BY <1>1, <1>2

\* The types after each step, and what of the other datasets it leaves alone.
LEMMA SaveTypes ==
  ASSUME AlertTypes, NEW w \in Busy, SaveDrafts(w)
  PROVE  AlertTypes' /\ StepFrame(w)
<1>1. w \in Crew /\ crew[w].of \in Monitored /\ TaskInv(w)
  BY WorkTypes
<1>2. (Turn(w, "command") \/ Leave(w)) /\ Settled /\ UNCHANGED <<dataset, group, retired, harmed, muted, orphaned>>
  BY DEF SaveDrafts, tablesOfAlerts
<1>3. crew' \in [Crew -> Tasks] /\ TaskInv(w)' /\ \A v \in Crew \ {w} : crew'[v] = crew[v]
  BY <1>2, TurnedTask, LeftTask DEF Steps, InHand, Removing
<1>4. UNCHANGED <<alertRow, metricRow>> \/ CreateAlerts(crew[w].of)
  BY DEF SaveDrafts, tablesOfAlerts
<1>5. TableTypes'
  <2>1. TableTypes
    BY AlertTypesParts
  <2>2. CASE UNCHANGED <<alertRow, metricRow>>
    BY <1>2, <2>1, <2>2 DEF TableTypes, Settled
  <2>3. CASE CreateAlerts(crew[w].of)
    <3>1. alertRow' \in [Monitored -> [Indexes -> {"none", "draft", "live"}]] /\ metricRow' \in [Monitored -> SUBSET Indexes]
      BY <2>1, <2>3, <1>1 DEF TableTypes, CreateAlerts
    <3>2. QED
      BY <1>2, <2>1, <3>1 DEF TableTypes, Settled
  <2>4. QED
    BY <1>4, <2>2, <2>3
<1>6. RulesByCategory'
  BY <1>2, AlertTypesParts DEF RulesByCategory
<1>7. AlertTypes'
  BY <1>2, <1>3, <1>5, <1>6, StepTypes
<1>8. crew'[w].at # "idle" => crew'[w].of = crew[w].of
  BY <1>1, <1>2, TurnTypes, LeaveTypes DEF Steps, NoTask
<1>9. \A d \in Monitored \ {crew[w].of} : alertRow'[d] = alertRow[d] /\ metricRow'[d] = metricRow[d]
  BY <1>1, <1>4, AlertTypesParts DEF TableTypes, CreateAlerts
<1>10. QED
  BY <1>1, <1>2, <1>3, <1>7, <1>8, <1>9 DEF StepFrame, Settled

\* Who takes part in a step, and what is left in hand.
CrewStep(w) ==
    /\ crew' \in [Crew -> Tasks] /\ TaskInv(w)' /\ \A v \in Crew \ {w} : crew'[v] = crew[v]
    /\ crew'[w].at # "idle" => crew'[w].of = crew[w].of

LEMMA TurnStep ==
  ASSUME AlertTypes, NEW w \in Busy, NEW step \in Steps, Turn(w, step), retired \subseteq retired',
         step # "idle", step \in InHand => crew[w].todo # {}, step \in Removing => crew[w].of \in retired'
  PROVE  CrewStep(w)
  BY TurnedTask, TurnTypes, WorkTypes DEF CrewStep

LEMMA LeaveStep ==
  ASSUME AlertTypes, NEW w \in Busy, Leave(w)
  PROVE  CrewStep(w)
  BY LeftTask, LeaveTypes, WorkTypes DEF CrewStep, NoTask

LEMMA HarmedTypes ==
  ASSUME AlertTypes, NEW w \in Busy, harmed' = harmed \/ Harm(w)
  PROVE  harmed' \subseteq Monitored /\ harmed \subseteq harmed'
  BY HarmTypes, AlertTypesParts DEF TableTypes

\* A step that leaves the tables alone.
LEMMA PassiveStep ==
  ASSUME AlertTypes, NEW w \in Busy, CrewStep(w), Settled, UNCHANGED <<dataset, tablesOfAlerts, retired>>,
         harmed' = harmed \/ Harm(w), RulesByCategory'
  PROVE  AlertTypes' /\ StepFrame(w)
<1>1. TableTypes'
  BY HarmedTypes, AlertTypesParts DEF TableTypes, Settled, tablesOfAlerts
<1>2. AlertTypes'
  BY <1>1, StepTypes DEF CrewStep
<1>3. QED
  BY <1>2, HarmedTypes, WorkTypes DEF StepFrame, CrewStep, Settled, tablesOfAlerts

LEMMA SameGroup ==
  ASSUME AlertTypes, UNCHANGED group
  PROVE  RulesByCategory'
  BY AlertTypesParts DEF RulesByCategory

\* The alerts of a dataset are those of its rows, with their status.
LEMMA AlertsOfTypes ==
  ASSUME AlertTypes, NEW d \in Monitored
  PROVE  /\ AlertsOf(d) \subseteq Indexes \X {"draft", "live"} /\ StillToDo(AlertsOf(d)) = RowsFor(d)
         /\ \A a, b \in AlertsOf(d) : a[1] = b[1] => a = b
         /\ \A a \in AlertsOf(d) : alertRow[d][a[1]] = a[2]
<1>1. alertRow[d] \in [Indexes -> {"none", "draft", "live"}]
  BY AlertTypesParts DEF TableTypes
<1>2. \A a \in AlertsOf(d) : a[1] \in Indexes /\ alertRow[d][a[1]] # "none" /\ a = <<a[1], alertRow[d][a[1]]>>
  BY DEF AlertsOf, RowsFor
<1>3. \A i \in RowsFor(d) : <<i, alertRow[d][i]>> \in AlertsOf(d)
  BY DEF AlertsOf
<1>4. StillToDo(AlertsOf(d)) = RowsFor(d)
  <2>1. ASSUME NEW i \in RowsFor(d) PROVE i \in StillToDo(AlertsOf(d))
    <3>1. <<i, alertRow[d][i]>> \in AlertsOf(d) /\ <<i, alertRow[d][i]>>[1] = i
      BY <1>3
    <3>2. QED
      BY ONLY <3>1 DEF StillToDo
  <2>2. ASSUME NEW a \in AlertsOf(d) PROVE a[1] \in RowsFor(d)
    BY DEF AlertsOf
  <2>3. QED
    BY <2>1, <2>2 DEF StillToDo
<1>5. AlertsOf(d) \subseteq Indexes \X {"draft", "live"}
  BY <1>1, <1>2
<1>6. QED
  BY <1>2, <1>4, <1>5

LEMMA ListTypes ==
  ASSUME AlertTypes, NEW w \in Busy, ListAlerts(w)
  PROVE  AlertTypes' /\ StepFrame(w)
<1>1. w \in Crew /\ crew[w].of \in Monitored /\ TaskInv(w) /\ crew[w] \in Tasks /\ crew[w].seen = {}
  BY WorkTypes DEF TaskInv, ListAlerts, On
<1>2. AlertsOf(crew[w].of) \subseteq Indexes \X {"draft", "live"}
      /\ \A a, b \in AlertsOf(crew[w].of) : a[1] = b[1] => a = b
  BY <1>1, AlertsOfTypes
<1>3. /\ crew' \in [Crew -> Tasks] /\ \A v \in Crew \ {w} : crew'[v] = crew[v]
      /\ crew'[w].at = "publish" /\ crew'[w].of = crew[w].of /\ crew'[w].seen = {}
      /\ crew'[w].todo = AlertsOf(crew[w].of)
  BY <1>1, <1>2 DEF ListAlerts, AlertTypes, Tasks, Steps, Installing
<1>4. TaskInv(w)'
  BY <1>1, <1>2, <1>3, FS_EmptySet DEF TaskInv, InHand, Removing
<1>5. QED
  BY <1>3, <1>4, PassiveStep, SameGroup DEF CrewStep, ListAlerts

LEMMA FindTypes ==
  ASSUME AlertTypes, NEW w \in Busy, FindAlerts(w)
  PROVE  AlertTypes' /\ StepFrame(w)
<1>1. w \in Crew /\ crew[w].of \in Monitored /\ TaskInv(w) /\ crew[w] \in Tasks /\ crew[w].seen = {}
      /\ crew[w].of \in retired /\ retired' = retired
  BY WorkTypes DEF TaskInv, FindAlerts, On, Removing
<1>2. AlertsOf(crew[w].of) \subseteq Indexes \X {"draft", "live"}
      /\ \A a, b \in AlertsOf(crew[w].of) : a[1] = b[1] => a = b
  BY <1>1, AlertsOfTypes
<1>3. /\ crew' \in [Crew -> Tasks] /\ \A v \in Crew \ {w} : crew'[v] = crew[v]
      /\ crew'[w].at = "drop" /\ crew'[w].of = crew[w].of /\ crew'[w].seen = {}
      /\ crew'[w].todo = AlertsOf(crew[w].of)
  BY <1>1, <1>2 DEF FindAlerts, AlertsToDelete, AlertTypes, Tasks, Steps, Removing
<1>4. TaskInv(w)'
  BY <1>1, <1>2, <1>3, FS_EmptySet DEF TaskInv, InHand
<1>5. QED
  BY <1>3, <1>4, PassiveStep, SameGroup DEF CrewStep, FindAlerts

\* What a transition has read of the group of its alert.
LEMMA SeenGroup ==
  ASSUME AlertTypes, NEW w \in Busy, crew[w].todo # {}, NEW step \in {"post", "unpost"},
         crew' = [crew EXCEPT ![w].at = step, ![w].seen = group[GroupOf(w)]],
         step = "unpost" => crew[w].of \in retired, retired' = retired
  PROVE  CrewStep(w)
<1>1. w \in Crew /\ crew[w].of \in Monitored /\ TaskInv(w) /\ crew[w] \in Tasks /\ GroupOf(w) \in Sections
  BY WorkTypes
<1>2. /\ group[GroupOf(w)] \subseteq Titles \X Indexes /\ IsFiniteSet(group[GroupOf(w)])
      /\ \A rule \in group[GroupOf(w)] : Templates[rule[2]] = GroupOf(w)
  BY <1>1, AlertTypesParts DEF RulesByCategory
<1>3. /\ crew' \in [Crew -> Tasks] /\ \A v \in Crew \ {w} : crew'[v] = crew[v]
      /\ crew'[w].at = step /\ crew'[w].of = crew[w].of /\ crew'[w].todo = crew[w].todo
      /\ crew'[w].seen = group[GroupOf(w)]
  BY <1>1, <1>2 DEF AlertTypes, Tasks, Steps, Installing, Removing
<1>4. GroupOf(w)' = GroupOf(w)
  BY <1>1, <1>3, SameTodo
<1>5. TaskInv(w)'
  BY <1>1, <1>2, <1>3, <1>4 DEF TaskInv, InHand, Removing
<1>6. QED
  BY <1>3, <1>5 DEF CrewStep

\* A transition goes on with the rest of its alerts.
LEMMA NextInHand ==
  ASSUME AlertTypes, NEW w \in Busy, crew[w].todo # {}, NEW step \in {"publish", "drop"}, crew[w].seen = {},
         crew' = [crew EXCEPT ![w].at = step, ![w].todo = Rest(w)],
         step = "drop" => crew[w].of \in retired, retired' = retired
  PROVE  CrewStep(w) /\ crew'[w].todo = Rest(w) /\ crew'[w].at = step /\ crew'[w].of = crew[w].of /\ crew'[w].seen = {}
<1>1. w \in Crew /\ crew[w].of \in Monitored /\ TaskInv(w) /\ crew[w] \in Tasks
  BY WorkTypes
<1>2. Rest(w) \subseteq Indexes \X {"draft", "live"} /\ \A a, b \in Rest(w) : a[1] = b[1] => a = b
  BY <1>1 DEF Rest, Tasks, TaskInv
<1>3. /\ crew' \in [Crew -> Tasks] /\ \A v \in Crew \ {w} : crew'[v] = crew[v]
      /\ crew'[w].at = step /\ crew'[w].of = crew[w].of /\ crew'[w].todo = Rest(w)
      /\ crew'[w].seen = {}
  BY <1>1, <1>2 DEF AlertTypes, Tasks, Steps, Installing, Removing
<1>4. crew'[w].at \notin InHand /\ (crew'[w].at \in Removing => crew'[w].of \in retired')
  BY <1>3 DEF InHand, Removing
<1>5. TaskInv(w)'
  <2>1. /\ crew'[w].at # "idle" => crew'[w].of \in Monitored
        /\ crew'[w].at \in InHand => crew'[w].todo # {}
        /\ crew'[w].at \in Removing => crew'[w].of \in retired'
    BY <1>1, <1>3, <1>4
  <2>2. \A a, b \in crew'[w].todo : a[1] = b[1] => a = b
    BY <1>2, <1>3
  <2>3. IsFiniteSet(crew'[w].seen) /\ crew'[w].seen = {}
    BY <1>3, FS_EmptySet
  <2>4. \A rule \in crew'[w].seen : Templates[rule[2]] = GroupOf(w)'
    BY <2>3
  <2>5. QED
    BY <2>1, <2>2, <2>3, <2>4 DEF TaskInv
<1>6. QED
  BY <1>3, <1>5 DEF CrewStep

LEMMA ReadTypes ==
  ASSUME AlertTypes, NEW w \in Busy, ReadRules(w)
  PROVE  AlertTypes' /\ StepFrame(w)
<1>1. TaskInv(w) /\ On(w, "publish") /\ crew[w].seen = {} /\ crew[w].at = "publish" /\ w \in Crew
  BY WorkTypes DEF TaskInv, ReadRules, On
<1>2. (harmed' = harmed \/ Harm(w)) /\ Settled /\ UNCHANGED <<dataset, tablesOfAlerts, group, retired>>
  BY DEF ReadRules, Abandon
<1>3. CASE Leave(w)
  BY <1>2, <1>3, LeaveStep, PassiveStep, SameGroup
<1>4. CASE crew[w].todo # {} /\ crew' = [crew EXCEPT ![w].at = "post", ![w].seen = group[GroupOf(w)]]
  BY <1>2, <1>4, SeenGroup, PassiveStep, SameGroup
<1>5. CASE crew[w].todo # {} /\ crew' = [crew EXCEPT ![w].todo = Rest(w)]
  <2>1. crew' = [crew EXCEPT ![w].at = "publish", ![w].todo = Rest(w)]
    BY <1>1, <1>5 DEF AlertTypes, Tasks
  <2>2. QED
    BY <1>1, <1>2, <1>5, <2>1, NextInHand, PassiveStep, SameGroup
<1>6. QED
  BY <1>3, <1>4, <1>5 DEF ReadRules, Abandon

LEMMA NextAlertTypes ==
  ASSUME AlertTypes, NEW w \in Busy, NextAlert(w)
  PROVE  AlertTypes' /\ StepFrame(w)
<1>1. TaskInv(w) /\ crew[w].at = "drop" /\ crew[w].of \in retired /\ w \in Crew
  BY WorkTypes DEF TaskInv, NextAlert, On, Removing
<1>2. (harmed' = harmed \/ Harm(w)) /\ Settled /\ UNCHANGED <<dataset, tablesOfAlerts, group, retired>>
  BY DEF NextAlert
<1>3. CASE Turn(w, "metrics")
  BY <1>1, <1>2, <1>3, TurnStep, PassiveStep, SameGroup DEF Steps, Removing, InHand
<1>4. CASE crew[w].todo # {} /\ crew' = [crew EXCEPT ![w].at = "unpost", ![w].seen = group[GroupOf(w)]]
  BY <1>1, <1>2, <1>4, SeenGroup, PassiveStep, SameGroup
<1>5. CASE crew[w].todo # {} /\ Turn(w, "destroy")
  BY <1>1, <1>2, <1>5, TurnStep, PassiveStep, SameGroup DEF Steps, Removing, InHand
<1>6. QED
  BY <1>3, <1>4, <1>5 DEF NextAlert

\* The types of a group that is written.
LEMMA GroupWith ==
  ASSUME AlertTypes, NEW w \in Busy, crew[w].todo # {}, NEW rules, IsFiniteSet(rules),
         rules \subseteq crew[w].seen \cup {RuleOf(w)}, group' = [group EXCEPT ![GroupOf(w)] = rules]
  PROVE  RulesByCategory'
<1>1. \A rule \in rules : rule \in Titles \X Indexes /\ Templates[rule[2]] = GroupOf(w)
  BY WorkTypes DEF TaskInv, Tasks
<1>2. RulesByCategory /\ GroupOf(w) \in Sections
  BY AlertTypesParts, WorkTypes
<1>3. QED
  BY <1>1, <1>2 DEF RulesByCategory

LEMMA PostTypes ==
  ASSUME AlertTypes, NEW w \in Busy, PostRules(w)
  PROVE  AlertTypes' /\ StepFrame(w)
<1>1. TaskInv(w) /\ crew[w].at = "post" /\ w \in Crew /\ crew[w].todo # {} /\ IsFiniteSet(crew[w].seen)
  BY WorkTypes DEF TaskInv, PostRules, On, InHand
<1>2. (harmed' = harmed \/ Harm(w)) /\ Settled /\ UNCHANGED <<dataset, tablesOfAlerts, retired>>
  BY DEF PostRules, Abandon
<1>3. RulesByCategory'
  <2>1. IsFiniteSet(crew[w].seen \cup {RuleOf(w)})
    BY <1>1, FS_AddElement
  <2>2. CASE group' = [group EXCEPT ![GroupOf(w)] = WithRule(crew[w].seen, RuleOf(w))]
    BY <1>1, <2>1, <2>2, GroupWith DEF WithRule
  <2>3. CASE UNCHANGED group
    BY <2>3, SameGroup
  <2>4. QED
    BY <2>2, <2>3 DEF PostRules
<1>4. CrewStep(w)
  <2>1. Turn(w, "mark") \/ Leave(w)
    BY DEF PostRules, Abandon
  <2>2. QED
    BY <1>1, <1>2, <2>1, TurnStep, LeaveStep DEF Steps, Installing, Removing, InHand
<1>5. QED
  BY <1>2, <1>3, <1>4, PassiveStep

LEMMA UnpostTypes ==
  ASSUME AlertTypes, NEW w \in Busy, UnpostRule(w)
  PROVE  AlertTypes' /\ StepFrame(w)
<1>1. /\ TaskInv(w) /\ crew[w].at = "unpost" /\ w \in Crew /\ crew[w].todo # {} /\ IsFiniteSet(crew[w].seen)
      /\ crew[w].of \in retired
  BY WorkTypes DEF TaskInv, UnpostRule, On, InHand, Removing
<1>2. (harmed' = harmed \/ Harm(w)) /\ Settled /\ UNCHANGED <<dataset, tablesOfAlerts, retired>>
  BY DEF UnpostRule
<1>3. RulesByCategory'
  <2>1. /\ IsFiniteSet(WithoutRule(crew[w].seen, RuleOf(w)))
        /\ WithoutRule(crew[w].seen, RuleOf(w)) \subseteq crew[w].seen
    BY <1>1, FS_RemoveElement, FS_EmptySet DEF WithoutRule
  <2>2. CASE group' = [group EXCEPT ![GroupOf(w)] = WithoutRule(crew[w].seen, RuleOf(w))]
    BY <1>1, <2>1, <2>2, GroupWith
  <2>3. CASE UNCHANGED group
    BY <2>3, SameGroup
  <2>4. QED
    BY <2>2, <2>3 DEF UnpostRule
<1>4. CrewStep(w)
  <2>1. Turn(w, "destroy")
    BY DEF UnpostRule
  <2>2. QED
    BY <1>1, <1>2, <2>1, TurnStep DEF Steps, Removing, InHand
<1>5. QED
  BY <1>2, <1>3, <1>4, PassiveStep

\* The tables of alerts keep the rows of the other datasets.
RowsFrame(e) ==
    \A d \in Monitored \ {e} :
        /\ alertRow'[d] = alertRow[d] /\ metricRow'[d] = metricRow[d]
        /\ muted'[d] = muted[d] /\ orphaned'[d] = orphaned[d]

LEMMA SameRows == UNCHANGED tablesOfAlerts => \A e : RowsFrame(e)
  BY DEF tablesOfAlerts, RowsFrame

\* A step that changes the tables of one dataset.
LEMMA TableStep ==
  ASSUME AlertTypes, NEW w \in Busy, CrewStep(w), Settled, UNCHANGED <<dataset, group, retired>>,
         harmed' = harmed \/ Harm(w), RowsFrame(crew[w].of),
         alertRow' \in [Monitored -> [Indexes -> {"none", "draft", "live"}]],
         metricRow' \in [Monitored -> SUBSET Indexes], muted' \in [Monitored -> SUBSET Indexes],
         orphaned' \in [Monitored -> SUBSET Indexes]
  PROVE  AlertTypes' /\ StepFrame(w)
<1>1. TableTypes'
  BY HarmedTypes, AlertTypesParts DEF TableTypes, Settled
<1>2. AlertTypes'
  BY <1>1, StepTypes, SameGroup DEF CrewStep
<1>3. QED
  BY <1>2, HarmedTypes, WorkTypes DEF StepFrame, CrewStep, Settled, RowsFrame

LEMMA MarkTypes ==
  ASSUME AlertTypes, NEW w \in Busy, MarkLive(w)
  PROVE  AlertTypes' /\ StepFrame(w)
<1>1. TaskInv(w) /\ crew[w].at = "mark" /\ crew[w].todo # {} /\ crew[w].seen = {} /\ crew[w].of \in Monitored
      /\ IndexOf(w) \in Indexes
  BY WorkTypes DEF TaskInv, MarkLive, On, InHand
<1>2. CrewStep(w)
  BY <1>1, NextInHand DEF MarkLive
<1>3. TableTypes
  BY AlertTypesParts
<1>4. alertRow' = alertRow \/ alertRow' = [alertRow EXCEPT ![crew[w].of][IndexOf(w)] = "live"]
  BY DEF MarkLive
<1>5. /\ alertRow' \in [Monitored -> [Indexes -> {"none", "draft", "live"}]]
      /\ \A d \in Monitored \ {crew[w].of} : alertRow'[d] = alertRow[d]
  <2>1. CASE alertRow' = alertRow
    BY <1>3, <2>1 DEF TableTypes
  <2>2. CASE alertRow' = [alertRow EXCEPT ![crew[w].of][IndexOf(w)] = "live"]
    BY <1>1, <1>3, <2>2 DEF TableTypes
  <2>3. QED
    BY <1>4, <2>1, <2>2
<1>6. RowsFrame(crew[w].of)
  BY <1>5 DEF RowsFrame, MarkLive
<1>7. QED
  BY <1>2, <1>3, <1>5, <1>6, TableStep DEF MarkLive, TableTypes

LEMMA DestroyTypes ==
  ASSUME AlertTypes, NEW w \in Busy, DestroyAlert(w)
  PROVE  AlertTypes' /\ StepFrame(w)
<1>1. /\ TaskInv(w) /\ crew[w].at = "destroy" /\ crew[w].todo # {} /\ crew[w].of \in Monitored
      /\ IndexOf(w) \in Indexes /\ crew[w].of \in retired
  BY WorkTypes DEF TaskInv, DestroyAlert, On, InHand, Removing
<1>2. CrewStep(w)
  BY <1>1, TurnStep DEF DestroyAlert, Steps, Removing, InHand
<1>3. TableTypes
  BY AlertTypesParts
<1>5. /\ alertRow' \in [Monitored -> [Indexes -> {"none", "draft", "live"}]]
      /\ \A d \in Monitored \ {crew[w].of} : alertRow'[d] = alertRow[d]
  BY <1>1, <1>3 DEF TableTypes, DestroyAlert
<1>6. RowsFrame(crew[w].of)
  BY <1>5 DEF RowsFrame, DestroyAlert
<1>7. QED
  BY <1>2, <1>3, <1>5, <1>6, TableStep DEF DestroyAlert, TableTypes

LEMMA UnmuteTypes ==
  ASSUME AlertTypes, NEW w \in Busy, Unmute(w)
  PROVE  AlertTypes' /\ StepFrame(w)
<1>1. /\ TaskInv(w) /\ crew[w].at = "unmute" /\ crew[w].todo # {} /\ crew[w].of \in Monitored
      /\ IndexOf(w) \in Indexes /\ crew[w].of \in retired /\ crew[w].seen = {} /\ retired' = retired
  BY WorkTypes DEF TaskInv, Unmute, On, InHand, Removing
<1>2. CrewStep(w)
  <2>1. Leave(w) \/ crew' = [crew EXCEPT ![w].at = "drop", ![w].todo = Rest(w)]
    BY DEF Unmute, Abandon
  <2>2. QED
    BY <1>1, <2>1, NextInHand, LeaveStep
<1>3. TableTypes
  BY AlertTypesParts
<1>4. /\ muted' = muted \/ muted' = [muted EXCEPT ![crew[w].of] = @ \ {IndexOf(w)}]
      /\ orphaned' = orphaned \/ orphaned' = [orphaned EXCEPT ![crew[w].of] = @ \cup {IndexOf(w)}]
      /\ harmed' = harmed \/ Harm(w)
  BY DEF Unmute, Abandon
<1>5. /\ muted' \in [Monitored -> SUBSET Indexes] /\ orphaned' \in [Monitored -> SUBSET Indexes]
      /\ \A d \in Monitored \ {crew[w].of} : muted'[d] = muted[d] /\ orphaned'[d] = orphaned[d]
  <2>1. /\ muted' \in [Monitored -> SUBSET Indexes]
        /\ \A d \in Monitored \ {crew[w].of} : muted'[d] = muted[d]
    BY <1>1, <1>3, <1>4 DEF TableTypes
  <2>2. /\ orphaned' \in [Monitored -> SUBSET Indexes]
        /\ \A d \in Monitored \ {crew[w].of} : orphaned'[d] = orphaned[d]
    BY <1>1, <1>3, <1>4 DEF TableTypes
  <2>3. QED
    BY <2>1, <2>2
<1>6. RowsFrame(crew[w].of)
  BY <1>5 DEF RowsFrame, Unmute
<1>7. QED
  BY <1>2, <1>3, <1>4, <1>5, <1>6, TableStep DEF Unmute, TableTypes

LEMMA DropTypes ==
  ASSUME AlertTypes, NEW w \in Busy, DropMetrics(w)
  PROVE  AlertTypes' /\ StepFrame(w)
<1>1. CrewStep(w) /\ crew[w].of \in Monitored
  BY LeaveStep, WorkTypes DEF DropMetrics
<1>2. TableTypes
  BY AlertTypesParts
<1>3. metricRow' \in [Monitored -> SUBSET Indexes] /\ \A d \in Monitored \ {crew[w].of} : metricRow'[d] = metricRow[d]
  BY <1>1, <1>2 DEF TableTypes, DropMetrics
<1>4. RowsFrame(crew[w].of)
  BY <1>3 DEF RowsFrame, DropMetrics
<1>5. QED
  BY <1>1, <1>2, <1>3, <1>4, TableStep DEF DropMetrics, TableTypes

\* A step that changes the status of the dataset.
LEMMA StatusStep ==
  ASSUME AlertTypes, NEW w \in Busy, CrewStep(w), Settled, UNCHANGED <<tablesOfAlerts, group>>,
         harmed' = harmed \/ Harm(w),
         dataset' = dataset \/ \E s \in {"Live", "Retired"} : dataset' = [dataset EXCEPT ![crew[w].of] = s],
         retired' = retired \/ retired' = retired \cup {crew[w].of}
  PROVE  AlertTypes' /\ StepFrame(w)
<1>1. crew[w].of \in Monitored /\ TableTypes
  BY WorkTypes, AlertTypesParts
<1>2. /\ dataset' \in [Monitored -> {"none", "Live", "Retired"}]
      /\ \A d \in Monitored \ {crew[w].of} : dataset'[d] = dataset[d]
  BY <1>1 DEF TableTypes
<1>3. TableTypes'
  BY <1>1, <1>2, HarmedTypes DEF TableTypes, Settled, tablesOfAlerts
<1>4. AlertTypes'
  BY <1>3, StepTypes, SameGroup DEF CrewStep
<1>5. QED
  BY <1>1, <1>2, <1>4, HarmedTypes, WorkTypes DEF StepFrame, CrewStep, Settled, tablesOfAlerts

LEMMA CommandTypes ==
  ASSUME AlertTypes, NEW w \in Busy, PublishCommand(w)
  PROVE  AlertTypes' /\ StepFrame(w)
<1>1. (Turn(w, "list") \/ Leave(w)) /\ retired' = retired
  BY DEF PublishCommand, Abandon
<1>2. CrewStep(w)
  BY <1>1, TurnStep, LeaveStep DEF Steps, Installing, Removing, InHand
<1>3. QED
  BY <1>1, <1>2, StatusStep DEF PublishCommand, Abandon

LEMMA RetireTypes ==
  ASSUME AlertTypes, NEW w \in Busy, RetireTables(w)
  PROVE  AlertTypes' /\ StepFrame(w)
<1>1. CASE Turn(w, "find") /\ retired' = retired \cup {crew[w].of}
  BY <1>1, TurnStep, StatusStep DEF Steps, Removing, InHand, RetireTables
<1>2. CASE Leave(w)
  BY <1>2, LeaveStep, StatusStep DEF RetireTables
<1>3. QED
  BY <1>1, <1>2 DEF RetireTables

\* The types after any step of a transition, and what it leaves alone.
LEMMA StepOfTypes ==
  ASSUME AlertTypes, NEW w \in Crew, StepOf(w)
  PROVE  w \in Busy /\ AlertTypes' /\ StepFrame(w)
<1>1. w \in Busy
  BY DEF StepOf, SaveDrafts, PublishCommand, ListAlerts, ReadRules, PostRules, MarkLive, RetireTables, FindAlerts,
         NextAlert, UnpostRule, DestroyAlert, Unmute, DropMetrics, On, Busy
<1>2. QED
  BY <1>1, SaveTypes, CommandTypes, ListTypes, ReadTypes, PostTypes, MarkTypes, RetireTypes, FindTypes,
     NextAlertTypes, UnpostTypes, DestroyTypes, UnmuteTypes, DropTypes DEF StepOf

\* An order takes a slot that is free.
LEMMA OrderTypes ==
  ASSUME AlertTypes, NEW w \in Crew, NEW d \in Monitored, NEW step \in {"save", "retire"}, TakeOrder(w, d, step)
  PROVE  /\ AlertTypes' /\ w \notin Busy /\ \A v \in Crew \ {w} : crew'[v] = crew[v]
         /\ crew'[w] = [at |-> step, of |-> d, new |-> dataset[d] = "none", todo |-> {}, seen |-> {}]
<1>1. w \notin Busy
  BY DEF TakeOrder, Busy
<1>2. /\ crew' \in [Crew -> Tasks] /\ \A v \in Crew \ {w} : crew'[v] = crew[v]
      /\ crew'[w] = [at |-> step, of |-> d, new |-> dataset[d] = "none", todo |-> {}, seen |-> {}]
  BY DEF TakeOrder, AlertTypes, Tasks, NoTask, Steps
<1>3. TaskInv(w)'
  <2>1. crew'[w].seen = {} /\ IsFiniteSet(crew'[w].seen)
    BY <1>2, FS_EmptySet
  <2>2. QED
    BY <1>2, <2>1 DEF TaskInv, InHand, Removing
<1>4. CrewTypes'
  BY <1>2, <1>3, CrewTypesKept, AlertTypesParts DEF TakeOrder
<1>5. TableTypes'
  <2>1. crossed' \subseteq Monitored
    BY AlertTypesParts, WorkTypes DEF TakeOrder, TableTypes
  <2>2. QED
    BY <2>1, AlertTypesParts DEF TakeOrder, TableTypes, tablesOfAlerts
<1>6. RulesByCategory'
  BY SameGroup DEF TakeOrder
<1>7. AlertTypes' <=> (TableTypes' /\ RulesByCategory' /\ CrewTypes')
  BY AlertTypesParts, PTL
<1>8. QED
  BY <1>1, <1>2, <1>4, <1>5, <1>6, <1>7

\* What a silence of a user changes.
LEMMA MuteTypes ==
  ASSUME AlertTypes, NEW d \in Monitored, NEW i \in Indexes, MuteAlert(d, i)
  PROVE  AlertTypes' /\ muted'[d] = muted[d] \cup {i} /\ \A e \in Monitored \ {d} : muted'[e] = muted[e]
<1>1. TableTypes
  BY AlertTypesParts
<1>2. /\ muted' \in [Monitored -> SUBSET Indexes]
      /\ muted'[d] = muted[d] \cup {i} /\ \A e \in Monitored \ {d} : muted'[e] = muted[e]
  BY <1>1 DEF TableTypes, MuteAlert
<1>3. TableTypes'
  BY <1>1, <1>2 DEF TableTypes, MuteAlert
<1>4. CrewTypes'
  <2>1. \A v \in Crew : TaskInv(v)'
    <3> TAKE v \in Crew
    <3>1. crew' = crew /\ retired' = retired /\ TaskInv(v) /\ GroupOf(v)' = GroupOf(v)
      BY SameTodo, AlertTypesParts DEF MuteAlert, CrewTypes
    <3>2. QED
      BY <3>1 DEF TaskInv
  <2>2. QED
    BY <2>1, AlertTypesParts DEF CrewTypes, MuteAlert
<1>5. RulesByCategory'
  BY SameGroup DEF MuteAlert
<1>7. AlertTypes' <=> (TableTypes' /\ RulesByCategory' /\ CrewTypes')
  BY AlertTypesParts, PTL
<1>8. QED
  BY <1>2, <1>3, <1>4, <1>5, <1>7

-----------------------------------------------------------------------------
(* The tables of alerts and metrics. *)

\* What TableInv says of one dataset.
StatusOk(d) == (dataset[d] = "Retired" => d \in retired) /\ (dataset[d] = "none" => d \notin retired)
Complete(d) == d \notin retired => (RowsFor(d) = Indexes /\ metricRow[d] = Indexes) \/ AlertsGone(d)

LEMMA TableInvParts ==
  ASSUME TableInv, NEW d \in Monitored
  PROVE  StatusOk(d) /\ Complete(d)
  BY DEF TableInv, StatusOk, Complete, AlertsComplete

\* The tables of the other datasets, and the transitions, after a step.
LEMMA FrameRows ==
  ASSUME NEW w, StepFrame(w), NEW d \in Monitored, d # crew[w].of
  PROVE  RowsFor(d)' = RowsFor(d) /\ (AlertsGone(d)' <=> AlertsGone(d)) /\ (WithRules(d)' <=> WithRules(d))
<1>1. RowsFor(d)' = RowsFor(d)
  BY DEF StepFrame, RowsFor
<1>2. QED
  BY <1>1 DEF StepFrame, AlertsGone, WithRules

LEMMA FrameBusy ==
  ASSUME AlertTypes, AlertTypes', NEW w, StepFrame(w)
  PROVE  /\ Busy' \subseteq Busy /\ \A v \in Busy' : crew'[v].of = crew[v].of
         /\ \A v \in Busy' \ {w} : crew'[v] = crew[v]
  BY DEF StepFrame, Busy

\* A step of a transition changes the tables of its dataset, and rows appear only where no
\* dataset of that name has any.
LEMMA TableKept ==
  ASSUME AlertTypes, AlertTypes', TableInv, NEW w \in Busy, StepFrame(w),
         NEW e \in Monitored, e = crew[w].of, StatusOk(e)', Complete(e)',
         RowsFor(e)' \subseteq RowsFor(e) \/ \A f \in Homonyms(e) : RowsFor(f) = {}
  PROVE  TableInv'
<1>1. \A d \in Monitored \ {e} : RowsFor(d)' = RowsFor(d) /\ (AlertsGone(d)' <=> AlertsGone(d))
  BY FrameRows
<1>2. \A d \in Monitored : StatusOk(d)' /\ Complete(d)'
  BY <1>1, TableInvParts DEF StepFrame, StatusOk, Complete
<1>3. \A d, f \in Monitored : d # f /\ title'[d] = title'[f] => RowsFor(d)' = {} \/ RowsFor(f)' = {}
  <2> SUFFICES ASSUME NEW d \in Monitored, NEW f \in Monitored, d # f, title'[d] = title'[f]
               PROVE  RowsFor(d)' = {} \/ RowsFor(f)' = {}
    OBVIOUS
  <2>1. RowsFor(d) = {} \/ RowsFor(f) = {}
    BY DEF TableInv, StepFrame
  <2>2. title = title' /\ (d = e => f \in Homonyms(e)) /\ (f = e => d \in Homonyms(e))
    BY DEF StepFrame, Homonyms
  <2>3. QED
    BY <1>1, <2>1, <2>2
<1>4. \A v, u \in Busy' : v # u => crew'[v].of \in crossed'
  BY FrameBusy DEF TableInv, StepFrame
<1>5. QED
  BY <1>2, <1>3, <1>4 DEF TableInv, StatusOk, Complete, AlertsComplete

\* A step that leaves the rows, the metrics and the status alone.
LEMMA TableSame ==
  ASSUME AlertTypes, AlertTypes', TableInv, NEW w \in Busy, StepFrame(w),
         UNCHANGED <<dataset, alertRow, metricRow, muted, retired>>
  PROVE  TableInv'
<1>1. PICK e \in Monitored : e = crew[w].of
  BY WorkTypes
<1>2. RowsFor(e)' = RowsFor(e)
  BY DEF RowsFor
<1>3. StatusOk(e)' /\ Complete(e)'
  BY <1>2, TableInvParts DEF StatusOk, Complete, AlertsGone
<1>4. QED
  BY <1>1, <1>2, <1>3, TableKept

\* The tables after any step of a transition, an order and a silence.
LEMMA TableStepInv ==
  ASSUME AlertTypes, TableInv, NEW w \in Crew, StepOf(w)
  PROVE  TableInv'
<1>1. w \in Busy /\ AlertTypes' /\ StepFrame(w)
  BY StepOfTypes
<1>2. PICK e \in Monitored : e = crew[w].of
  BY <1>1, WorkTypes
<1>3. StatusOk(e) /\ Complete(e) /\ TableTypes /\ TaskInv(w)
  BY <1>1, <1>2, TableInvParts, AlertTypesParts, WorkTypes
<1>4. CASE ListAlerts(w) \/ ReadRules(w) \/ PostRules(w) \/ FindAlerts(w) \/ NextAlert(w) \/ UnpostRule(w)
  BY <1>1, <1>4, TableSame
     DEF ListAlerts, ReadRules, PostRules, FindAlerts, NextAlert, UnpostRule, tablesOfAlerts
<1>5. CASE SaveDrafts(w)
  <2>1. CASE UNCHANGED tablesOfAlerts
    BY <1>1, <1>5, <2>1, TableSame DEF SaveDrafts, tablesOfAlerts
  <2>2. CASE CreateAlerts(e) /\ ~ NamesTaken(e)
    <3>1. RowsFor(e)' = Indexes /\ metricRow'[e] = Indexes
      BY <1>2, <1>3, <2>2 DEF TableTypes, CreateAlerts, RowsFor
    <3>2. StatusOk(e)' /\ Complete(e)'
      BY <1>3, <1>5, <3>1 DEF StatusOk, Complete, SaveDrafts
    <3>3. QED
      BY <1>1, <1>2, <2>2, <3>2, TableKept DEF NamesTaken
  <2>3. QED
    BY <1>2, <1>5, <2>1, <2>2 DEF SaveDrafts
<1>6. CASE PublishCommand(w)
  <2>1. RowsFor(e)' = RowsFor(e) /\ (AlertsGone(e)' <=> AlertsGone(e)) /\ retired' = retired /\ metricRow' = metricRow
    BY <1>6 DEF PublishCommand, tablesOfAlerts, RowsFor, AlertsGone
  <2>2. dataset'[e] = dataset[e] \/ dataset'[e] = "Live"
    BY <1>2, <1>3, <1>6 DEF TableTypes, PublishCommand
  <2>3. StatusOk(e)' /\ Complete(e)'
    BY <1>3, <2>1, <2>2 DEF StatusOk, Complete
  <2>4. QED
    BY <1>1, <1>2, <2>1, <2>3, TableKept
<1>7. CASE RetireTables(w)
  <2>1. RowsFor(e)' = RowsFor(e) /\ (AlertsGone(e)' <=> AlertsGone(e)) /\ metricRow' = metricRow
    BY <1>7 DEF RetireTables, tablesOfAlerts, RowsFor, AlertsGone
  <2>2. \/ dataset'[e] = dataset[e] /\ retired' = retired
        \/ dataset'[e] = "Retired" /\ e \in retired'
    BY <1>2, <1>3, <1>7 DEF TableTypes, RetireTables
  <2>3. StatusOk(e)' /\ Complete(e)'
    BY <1>3, <2>1, <2>2 DEF StatusOk, Complete
  <2>4. QED
    BY <1>1, <1>2, <2>1, <2>3, TableKept
<1>8. CASE MarkLive(w)
  <2>1. IndexOf(w) \in Indexes
    BY <1>1, <1>3, <1>8, WorkTypes DEF MarkLive, On, TaskInv, InHand
  <2>2. RowsFor(e)' = RowsFor(e)
    <3>1. CASE IndexOf(w) \in RowsFor(e)
      <4>1. alertRow' = [alertRow EXCEPT ![e][IndexOf(w)] = "live"]
        BY <1>2, <1>8, <3>1 DEF MarkLive
      <4>2. \A i \in Indexes : alertRow'[e][i] # "none" <=> alertRow[e][i] # "none"
        BY <1>2, <1>3, <2>1, <3>1, <4>1 DEF TableTypes, RowsFor
      <4>3. QED
        BY <4>2 DEF RowsFor
    <3>2. CASE IndexOf(w) \notin RowsFor(e)
      BY <1>2, <1>8, <3>2 DEF MarkLive, RowsFor
    <3>3. QED
      BY <3>1, <3>2
  <2>3. StatusOk(e)' /\ Complete(e)'
    BY <1>3, <1>8, <2>2 DEF StatusOk, Complete, AlertsGone, MarkLive
  <2>4. QED
    BY <1>1, <1>2, <2>2, <2>3, TableKept
<1>9. CASE DestroyAlert(w)
  <2>1. IndexOf(w) \in Indexes /\ e \in retired
    BY <1>1, <1>2, <1>3, <1>9, WorkTypes DEF DestroyAlert, On, TaskInv, InHand, Removing
  <2>2. RowsFor(e)' \subseteq RowsFor(e)
    BY <1>2, <1>3, <1>9 DEF TableTypes, DestroyAlert, RowsFor
  <2>3. StatusOk(e)' /\ Complete(e)'
    BY <1>3, <1>9, <2>1 DEF StatusOk, Complete, DestroyAlert
  <2>4. QED
    BY <1>1, <1>2, <2>2, <2>3, TableKept
<1>10. CASE Unmute(w) \/ DropMetrics(w)
  <2>1. e \in retired /\ retired' = retired /\ dataset' = dataset /\ alertRow' = alertRow
    BY <1>2, <1>3, <1>10 DEF Unmute, DropMetrics, On, TaskInv, Removing
  <2>2. RowsFor(e)' = RowsFor(e) /\ StatusOk(e)' /\ Complete(e)'
    BY <1>3, <2>1 DEF StatusOk, Complete, RowsFor
  <2>3. QED
    BY <1>1, <1>2, <2>2, TableKept
<1>11. QED
  BY <1>4, <1>5, <1>6, <1>7, <1>8, <1>9, <1>10 DEF StepOf

LEMMA TableOrder ==
  ASSUME AlertTypes, TableInv, NEW w \in Crew, NEW d \in Monitored, NEW step \in {"save", "retire"}, TakeOrder(w, d, step)
  PROVE  TableInv'
<1>1. /\ AlertTypes' /\ w \notin Busy /\ \A v \in Crew \ {w} : crew'[v] = crew[v]
      /\ crew'[w] = [at |-> step, of |-> d, new |-> dataset[d] = "none", todo |-> {}, seen |-> {}]
  BY OrderTypes
<1>2. UNCHANGED <<title, dataset, alertRow, metricRow, muted, retired>>
  BY DEF TakeOrder, tablesOfAlerts
<1>3. AlertsComplete' /\ (\A f \in Monitored : RowsFor(f)' = RowsFor(f))
  BY <1>2 DEF TableInv, AlertsComplete, RowsFor, AlertsGone
<1>4. \A v, u \in Busy' : v # u => crew'[v].of \in crossed'
  <2> SUFFICES ASSUME NEW v \in Busy', NEW u \in Busy', v # u PROVE crew'[v].of \in crossed'
    OBVIOUS
  <2>1. Busy' \subseteq Busy \cup {w} /\ v \in Crew /\ u \in Crew
    BY <1>1 DEF Busy
  <2>2. CASE Busy = {}
    BY <2>1, <2>2
  <2>3. CASE Busy # {}
    <3>1. crossed' = crossed \cup {d} \cup { crew[x].of : x \in Busy }
      BY <2>3 DEF TakeOrder
    <3>2. QED
      BY <1>1, <2>1, <3>1
  <2>4. QED
    BY <2>2, <2>3
<1>5. QED
  BY <1>2, <1>3, <1>4 DEF TableInv

LEMMA TableMute ==
  ASSUME AlertTypes, TableInv, NEW d \in Monitored, NEW i \in Indexes, MuteAlert(d, i)
  PROVE  TableInv'
<1>1. UNCHANGED <<title, dataset, alertRow, metricRow, crew, retired, crossed>> /\ muted'[d] = muted[d] \cup {i}
      /\ \A e \in Monitored \ {d} : muted'[e] = muted[e]
  BY MuteTypes DEF MuteAlert
<1>2. \A e \in Monitored : RowsFor(e)' = RowsFor(e)
  BY <1>1 DEF RowsFor
<1>3. i \in RowsFor(d)
  BY DEF RowsFor, MuteAlert
<1>4. AlertsComplete'
  BY <1>1, <1>2, <1>3 DEF TableInv, AlertsComplete, AlertsGone
<1>5. QED
  BY <1>1, <1>2, <1>4 DEF TableInv, Busy

-----------------------------------------------------------------------------
(* The rules in Grafana, as long as transitions do not overlap. *)

\* Of a dataset whose transitions do not overlap with others, at most one is busy, and no other then.
LEMMA Alone ==
  ASSUME AlertTypes, TableInv, NEW w \in Busy, NEW d \in Monitored \ crossed
  PROVE  /\ crew[w].of = d => \A v \in Busy : v = w
         /\ crew[w].of # d => \A v \in Busy : crew[v].of # d
  BY DEF TableInv

\* As long as transitions do not overlap, one is busy at the most.
LEMMA Sole ==
  ASSUME AlertTypes, TableInv, crossed = {}, NEW w \in Busy
  PROVE  Busy = {w}
  BY WorkTypes, Alone

\* As long as transitions do not overlap, only the rule of the alert at work leaves a group.
LEMMA UnpostedRule ==
  ASSUME AlertTypes, TableInv, InstalledInv, crossed = {}, NEW w \in Busy, UnpostRule(w), NEW c \in Sections
  PROVE  group'[c] \subseteq group[c] /\ group[c] \ group'[c] \subseteq {RuleOf(w)}
<1> DEFINE e == crew[w].of
           i == IndexOf(w)
<1>1. /\ w \in Crew /\ crew[w].at = "unpost" /\ crew[w].todo # {} /\ e \in Monitored /\ i \in Indexes
      /\ GroupOf(w) \in Sections /\ Current(w) \in crew[w].todo /\ IsFiniteSet(crew[w].seen)
      /\ RuleOf(w) = <<title[e], i>>
  BY WorkTypes DEF UnpostRule, On, TaskInv, InHand
<1>2. crew[w].seen = group[GroupOf(w)] /\ alertRow[e][i] = "live"
  BY <1>1 DEF InstalledInv, GroupInv, IndexOf
<1>3. RuleOf(w) \in group[GroupOf(w)]
  <2>1. \A v \in Crew : ~ On(v, "destroy")
    BY <1>1, Sole DEF On, Busy
  <2>2. IsIn(e, i)
    BY <1>1, <1>2, <2>1 DEF InstalledInv
  <2>3. QED
    BY <2>2 DEF IsIn, RuleOf, GroupOf
<1>4. WithoutRule(crew[w].seen, RuleOf(w)) = crew[w].seen \ {RuleOf(w)}
  <2>1. CASE Cardinality(crew[w].seen) > 1
    BY <2>1 DEF WithoutRule
  <2>2. CASE ~ (Cardinality(crew[w].seen) > 1)
    <3>1. Cardinality(crew[w].seen) \in Nat /\ Cardinality(crew[w].seen) # 0
      BY <1>1, <1>2, <1>3, FS_CardinalityType, FS_EmptySet
    <3>2. Cardinality(crew[w].seen) = 1
      BY <2>2, <3>1
    <3>3. PICK rule : crew[w].seen = {rule}
      BY <1>1, <3>2, FS_Singleton
    <3>4. QED
      BY <1>2, <1>3, <2>2, <3>3 DEF WithoutRule
  <2>3. QED
    BY <2>1, <2>2
<1>5. group' = group \/ group' = [group EXCEPT ![GroupOf(w)] = group[GroupOf(w)] \ {RuleOf(w)}]
  BY <1>2, <1>4 DEF UnpostRule
<1>6. QED
  BY <1>1, <1>5, AlertTypesParts DEF RulesByCategory

\* The only transition at work knows which alerts have a rule.
Uninstalled(d, i) == alertRow[d][i] = "live" /\ ~ IsIn(d, i)

LEMMA UninstalledAtWork ==
  ASSUME AlertTypes, TableInv, InstalledInv, crossed = {}, NEW w \in Busy, NEW d \in Monitored, NEW i \in Indexes,
         Uninstalled(d, i)
  PROVE  crew[w].at = "destroy" /\ crew[w].of = d /\ IndexOf(w) = i
  BY Sole DEF InstalledInv, Uninstalled, On, Busy

\* It is enough to look at the transition that takes the step.
LEMMA InstalledKept ==
  ASSUME AlertTypes, AlertTypes', TableInv, NEW w \in Busy, StepFrame(w), GroupInv(w)', crossed = {},
         \A d \in Monitored, i \in Indexes :
            Uninstalled(d, i)' => crew'[w].at = "destroy" /\ crew'[w].of = d /\ IndexOf(w)' = i
  PROVE  InstalledInv'
<1>1. w \in Crew /\ \A v \in Crew \ {w} : crew'[v] = crew[v] /\ crew[v].at = "idle"
  BY Sole DEF StepFrame, Busy
<1>2. \A v \in Crew : GroupInv(v)'
  BY <1>1 DEF GroupInv
<1>3. QED
  BY <1>1, <1>2 DEF InstalledInv, Uninstalled, On

\* A step that leaves the rows and the groups alone and deletes no row.
LEMMA InstalledSame ==
  ASSUME AlertTypes, TableInv, InstalledInv, crossed = {}, NEW w \in Busy,
         UNCHANGED <<alertRow, group, title>>, NEW d \in Monitored, NEW i \in Indexes, Uninstalled(d, i)'
  PROVE  crew[w].at = "destroy"
<1>1. Uninstalled(d, i)
  BY DEF Uninstalled, IsIn, Rule
<1>2. QED
  BY <1>1, UninstalledAtWork

\* What the transition has in hand agrees with the rows and the groups after its step.
LEMMA InstalledStep ==
  ASSUME AlertTypes, TableInv, InstalledInv, NEW w \in Crew, StepOf(w)
  PROVE  InstalledInv'
<1> SUFFICES ASSUME crossed = {} PROVE InstalledInv'
  <2>1. crossed' = crossed
    BY StepOfTypes DEF StepFrame
  <2>2. QED
    BY <2>1 DEF InstalledInv
<1> DEFINE Goal == /\ GroupInv(w)'
                   /\ \A d \in Monitored, i \in Indexes :
                        Uninstalled(d, i)' => crew'[w].at = "destroy" /\ crew'[w].of = d /\ IndexOf(w)' = i
<1>1. w \in Busy /\ AlertTypes' /\ StepFrame(w)
  BY StepOfTypes
<1>2. Goal => InstalledInv'
  BY <1>1, InstalledKept
<1>3. TaskInv(w) /\ TableTypes /\ RulesByCategory /\ GroupInv(w) /\ crew \in [Crew -> Tasks] /\ crew[w].of \in Monitored
  BY <1>1, AlertTypesParts, WorkTypes DEF InstalledInv, CrewTypes
<1>4. \A d \in Monitored, i \in Indexes : crew[w].at # "destroy" => ~ Uninstalled(d, i)
  BY <1>1, UninstalledAtWork
<1>5. title' = title /\ (crew[w].at \in InHand => IndexOf(w) \in Indexes /\ GroupOf(w) \in Sections)
  BY <1>1, <1>3, WorkTypes DEF StepFrame, TaskInv
<1>6. CASE SaveDrafts(w)
  <2>1. GroupInv(w)'
    BY <1>1, <1>3, <1>6, TurnTypes, LeaveTypes DEF SaveDrafts, GroupInv, Steps, NoTask
  <2>2. ASSUME NEW d \in Monitored, NEW i \in Indexes PROVE ~ Uninstalled(d, i)'
    <3>1. alertRow' = alertRow \/ alertRow' = [alertRow EXCEPT ![crew[w].of] = [j \in Indexes |-> "draft"]]
      BY <1>6 DEF SaveDrafts, tablesOfAlerts, CreateAlerts
    <3>2. alertRow'[d][i] = "live" => alertRow[d][i] = "live"
      BY <1>3, <3>1 DEF TableTypes
    <3>3. IsIn(d, i)' <=> IsIn(d, i)
      BY <1>5, <1>6 DEF SaveDrafts, IsIn, Rule
    <3>4. QED
      BY <1>4, <1>6, <3>2, <3>3 DEF Uninstalled, SaveDrafts, On
  <2>3. QED
    BY <1>2, <2>1, <2>2
<1>7. CASE ListAlerts(w) \/ ReadRules(w) \/ FindAlerts(w) \/ NextAlert(w)
  <2>1. \A d \in Monitored, i \in Indexes : ~ Uninstalled(d, i)'
    BY <1>1, <1>5, <1>7, InstalledSame DEF ListAlerts, ReadRules, FindAlerts, NextAlert, tablesOfAlerts, On
  <2> SUFFICES GroupInv(w)'
    BY <1>2, <2>1
  <2>2. UNCHANGED <<alertRow, group>>
    BY <1>7 DEF ListAlerts, ReadRules, FindAlerts, NextAlert, tablesOfAlerts
  <2>3. CASE ListAlerts(w)
    BY <1>3, <2>3 DEF ListAlerts, GroupInv, Tasks
  <2>4. CASE ReadRules(w)
    <3>1. CASE crew[w].todo # {} /\ crew' = [crew EXCEPT ![w].at = "post", ![w].seen = group[GroupOf(w)]]
      <4>1. crew'[w].at = "post" /\ crew'[w].seen = group[GroupOf(w)] /\ crew'[w].todo = crew[w].todo
        BY <1>3, <3>1 DEF Tasks
      <4>2. GroupOf(w)' = GroupOf(w)
        BY <4>1, SameTodo
      <4>3. QED
        BY <2>2, <4>1, <4>2 DEF GroupInv
    <3>2. CASE crew' = [crew EXCEPT ![w].todo = Rest(w)]
      <4>1. crew'[w].at = "publish"
        BY <1>3, <2>4, <3>2 DEF Tasks, ReadRules, On
      <4>2. QED
        BY <4>1 DEF GroupInv
    <3>3. CASE Leave(w)
      BY <3>3, LeaveTypes DEF GroupInv, NoTask
    <3>4. QED
      BY <2>4, <3>1, <3>2, <3>3 DEF ReadRules, Abandon
  <2>5. CASE FindAlerts(w)
    <3>1. crew'[w].at = "drop" /\ crew'[w].of = crew[w].of /\ crew'[w].todo = AlertsOf(crew[w].of)
      BY <1>3, <2>5 DEF FindAlerts, AlertsToDelete, Tasks
    <3>2. QED
      BY <1>3, <2>2, <3>1, AlertsOfTypes DEF GroupInv
  <2>6. CASE NextAlert(w)
    <3>1. \A a \in crew[w].todo : alertRow[crew[w].of][a[1]] = a[2]
      BY <1>3, <2>6 DEF GroupInv, NextAlert, On
    <3>2. CASE /\ crew[w].todo # {} /\ Current(w)[2] = "live"
               /\ crew' = [crew EXCEPT ![w].at = "unpost", ![w].seen = group[GroupOf(w)]]
      <4>1. /\ crew'[w].at = "unpost" /\ crew'[w].seen = group[GroupOf(w)] /\ crew'[w].todo = crew[w].todo
            /\ crew'[w].of = crew[w].of
        BY <1>3, <3>2 DEF Tasks
      <4>2. GroupOf(w)' = GroupOf(w) /\ Current(w)' = Current(w)
        BY <4>1, SameTodo
      <4>3. QED
        BY <2>2, <3>1, <3>2, <4>1, <4>2 DEF GroupInv
    <3>3. CASE Turn(w, "destroy")
      <4>1. crew'[w].at = "destroy" /\ crew'[w].todo = crew[w].todo /\ crew'[w].of = crew[w].of
        BY <3>3, TurnTypes DEF Steps, Removing
      <4>2. QED
        BY <2>2, <3>1, <4>1 DEF GroupInv
    <3>4. CASE Turn(w, "metrics")
      <4>1. crew'[w].at = "metrics"
        BY <3>4, TurnTypes DEF Steps, Removing
      <4>2. QED
        BY <4>1 DEF GroupInv
    <3>5. QED
      BY <2>6, <3>2, <3>3, <3>4 DEF NextAlert
  <2>7. QED
    BY <1>7, <2>3, <2>4, <2>5, <2>6
<1>8. CASE PublishCommand(w) \/ RetireTables(w) \/ DropMetrics(w)
  <2>1. \A d \in Monitored, i \in Indexes : ~ Uninstalled(d, i)'
    BY <1>1, <1>5, <1>8, InstalledSame DEF PublishCommand, RetireTables, DropMetrics, tablesOfAlerts, On
  <2>2. Turn(w, "list") \/ Turn(w, "find") \/ Leave(w)
    BY <1>8 DEF PublishCommand, RetireTables, DropMetrics, Abandon
  <2>3. crew'[w].at \in {"list", "find", "idle"}
    BY <2>2, TurnTypes, LeaveTypes DEF Steps, Removing, Installing, NoTask
  <2>4. QED
    BY <1>2, <2>1, <2>3 DEF GroupInv
<1>9. CASE PostRules(w)
  <2>1. crew[w].at = "post" /\ IndexOf(w) \in Indexes /\ GroupOf(w) \in Sections /\ alertRow' = alertRow
    BY <1>5, <1>9 DEF PostRules, On, tablesOfAlerts, InHand
  <2>2. group' = group \/ group' = [group EXCEPT ![GroupOf(w)] = group[GroupOf(w)] \cup {RuleOf(w)}]
    BY <1>3, <1>9, <2>1 DEF GroupInv, PostRules, WithRule
  <2>3. \A d \in Monitored, i \in Indexes : IsIn(d, i) => IsIn(d, i)'
    BY <1>3, <1>5, <2>1, <2>2 DEF RulesByCategory, IsIn, Rule, Sections
  <2>4. \A d \in Monitored, i \in Indexes : ~ Uninstalled(d, i)'
    BY <1>4, <2>1, <2>3 DEF Uninstalled
  <2>5. CASE Leave(w)
    <3>1. GroupInv(w)'
      BY <2>5, LeaveTypes DEF GroupInv, NoTask
    <3>2. QED
      BY <1>2, <2>4, <3>1
  <2>6. CASE Turn(w, "mark") /\ group' = [group EXCEPT ![GroupOf(w)] = WithRule(crew[w].seen, RuleOf(w))]
    <3>1. crew'[w].at = "mark" /\ crew'[w].todo = crew[w].todo /\ crew'[w].of = crew[w].of
      BY <2>6, TurnTypes DEF Steps, Installing
    <3>2. GroupOf(w)' = GroupOf(w) /\ RuleOf(w)' = RuleOf(w)
      BY <1>5, <3>1, SameTodo
    <3>3. RuleOf(w) \in group'[GroupOf(w)]
      BY <1>3, <2>1, <2>6 DEF WithRule, RulesByCategory
    <3>4. GroupInv(w)'
      BY <3>1, <3>2, <3>3 DEF GroupInv
    <3>5. QED
      BY <1>2, <2>4, <3>4
  <2>7. QED
    BY <1>9, <2>5, <2>6 DEF PostRules, Abandon
<1>10. CASE MarkLive(w)
  <2>1. /\ crew[w].at = "mark" /\ IndexOf(w) \in Indexes /\ GroupOf(w) \in Sections /\ group' = group
        /\ RuleOf(w) \in group[GroupOf(w)]
    BY <1>3, <1>5, <1>10 DEF MarkLive, On, InHand, GroupInv
  <2>2. GroupInv(w)'
    <3>1. crew'[w].at = "publish"
      BY <1>3, <1>10 DEF MarkLive, Tasks
    <3>2. QED
      BY <3>1 DEF GroupInv
  <2>3. \A d \in Monitored, i \in Indexes : ~ Uninstalled(d, i)'
    <3>1. \A d \in Monitored, i \in Indexes : alertRow'[d][i] = alertRow[d][i] \/ (d = crew[w].of /\ i = IndexOf(w))
      <4> SUFFICES ASSUME NEW d \in Monitored, NEW i \in Indexes
                   PROVE  alertRow'[d][i] = alertRow[d][i] \/ (d = crew[w].of /\ i = IndexOf(w))
        OBVIOUS
      <4>1. CASE alertRow' = alertRow
        BY <4>1
      <4>2. CASE alertRow' = [alertRow EXCEPT ![crew[w].of][IndexOf(w)] = "live"]
        <5>1. alertRow \in [Monitored -> [Indexes -> {"none", "draft", "live"}]]
          BY <1>3 DEF TableTypes
        <5>2. QED
          BY <5>1, <2>1, <4>2
      <4>3. QED
        BY <1>10, <4>1, <4>2 DEF MarkLive
    <3>2. IsIn(crew[w].of, IndexOf(w))
      BY <2>1 DEF IsIn, RuleOf, GroupOf
    <3>3. \A d \in Monitored, i \in Indexes : IsIn(d, i)' <=> IsIn(d, i)
      BY <1>5, <2>1 DEF IsIn, Rule
    <3>4. QED
      BY <1>4, <2>1, <3>1, <3>2, <3>3 DEF Uninstalled
  <2>4. QED
    BY <1>2, <2>2, <2>3
<1>11. CASE UnpostRule(w)
  <2> DEFINE e == crew[w].of
  <2>1. /\ crew[w].at = "unpost" /\ IndexOf(w) \in Indexes /\ alertRow' = alertRow
        /\ RuleOf(w) = <<title[e], IndexOf(w)>> /\ Current(w) \in crew[w].todo /\ Current(w)[2] = "live"
        /\ \A a \in crew[w].todo : alertRow[e][a[1]] = a[2]
    BY <1>1, <1>3, <1>11, WorkTypes DEF UnpostRule, On, InHand, tablesOfAlerts, GroupInv, TaskInv
  <2>2. /\ crew'[w].at = "destroy" /\ crew'[w].todo = crew[w].todo /\ crew'[w].of = e /\ IndexOf(w)' = IndexOf(w)
    BY <1>11, TurnTypes, SameTodo DEF UnpostRule, Steps, Removing
  <2>3. GroupInv(w)'
    BY <2>1, <2>2 DEF GroupInv
  <2>4. ASSUME NEW d \in Monitored, NEW i \in Indexes, Uninstalled(d, i)' PROVE d = e /\ i = IndexOf(w)
    <3>1. alertRow[d][i] = "live" /\ Rule(d, i) \in group[Templates[i]] /\ Rule(d, i) \notin group'[Templates[i]]
      BY <1>4, <1>5, <2>1, <2>4 DEF Uninstalled, IsIn, Rule
    <3>2. Rule(d, i) = RuleOf(w)
      BY <1>1, <1>11, <3>1, UnpostedRule DEF Sections
    <3>3. title[d] = title[e] /\ i = IndexOf(w)
      BY <2>1, <3>2 DEF Rule
    <3>4. i \in RowsFor(d) /\ i \in RowsFor(e)
      BY <2>1, <3>1, <3>3 DEF RowsFor, IndexOf
    <3>5. QED
      BY <1>3, <3>3, <3>4 DEF TableInv
  <2>5. QED
    BY <1>2, <2>2, <2>3, <2>4
<1>12. CASE DestroyAlert(w)
  <2> DEFINE e == crew[w].of
  <2>1. /\ crew[w].at = "destroy" /\ IndexOf(w) \in Indexes /\ group' = group /\ Current(w) \in crew[w].todo
        /\ \A a \in crew[w].todo : alertRow[e][a[1]] = a[2]
    BY <1>1, <1>3, <1>12, WorkTypes DEF DestroyAlert, On, InHand, GroupInv, TaskInv
  <2>2. /\ crew'[w].at = "unmute" /\ crew'[w].todo = crew[w].todo /\ crew'[w].of = e /\ Rest(w)' = Rest(w)
    BY <1>12, TurnTypes, SameTodo DEF DestroyAlert, Steps, Removing
  <2>3. /\ alertRow'[e][IndexOf(w)] = "none"
        /\ \A d \in Monitored, i \in Indexes : (d = e /\ i = IndexOf(w)) \/ alertRow'[d][i] = alertRow[d][i]
    BY <1>3, <1>12, <2>1 DEF DestroyAlert, TableTypes
  <2>4. GroupInv(w)'
    <3>1. ASSUME NEW a \in Rest(w) PROVE alertRow'[e][a[1]] = a[2]
      <4>1. a \in crew[w].todo /\ a # Current(w) /\ a[1] \in Indexes
        BY <1>3 DEF Rest, Tasks
      <4>2. a[1] # IndexOf(w)
        BY <1>3, <2>1, <4>1 DEF TaskInv, IndexOf
      <4>3. QED
        BY <1>3, <2>1, <2>3, <4>1, <4>2
    <3>2. QED
      BY <2>2, <3>1 DEF GroupInv
  <2>5. ASSUME NEW d \in Monitored, NEW i \in Indexes PROVE ~ Uninstalled(d, i)'
    <3>1. IsIn(d, i)' <=> IsIn(d, i)
      BY <1>5, <2>1 DEF IsIn, Rule
    <3>2. QED
      BY <1>1, <2>3, <3>1, UninstalledAtWork DEF Uninstalled
  <2>6. QED
    BY <1>2, <2>4, <2>5
<1>13. CASE Unmute(w)
  <2>1. crew[w].at = "unmute" /\ UNCHANGED <<alertRow, group>>
    BY <1>13 DEF Unmute, On
  <2>2. \A d \in Monitored, i \in Indexes : ~ Uninstalled(d, i)'
    BY <1>1, <1>5, <2>1, InstalledSame
  <2>3. CASE Leave(w)
    <3>1. GroupInv(w)'
      BY <2>3, LeaveTypes DEF GroupInv, NoTask
    <3>2. QED
      BY <1>2, <2>2, <3>1
  <2>4. CASE crew' = [crew EXCEPT ![w].at = "drop", ![w].todo = Rest(w)]
    <3>1. crew'[w].at = "drop" /\ crew'[w].todo = Rest(w) /\ crew'[w].of = crew[w].of
      BY <1>3, <2>4 DEF Tasks
    <3>2. GroupInv(w)'
      BY <1>3, <2>1, <3>1 DEF GroupInv
    <3>3. QED
      BY <1>2, <2>2, <3>2
  <2>5. QED
    BY <1>13, <2>3, <2>4 DEF Unmute, Abandon
<1>14. QED
  BY <1>6, <1>7, <1>8, <1>9, <1>10, <1>11, <1>12, <1>13 DEF StepOf

\* An order and a silence leave the rows and the groups alone.
LEMMA InstalledOrder ==
  ASSUME AlertTypes, InstalledInv, NEW w \in Crew, NEW d \in Monitored, NEW step \in {"save", "retire"}, TakeOrder(w, d, step)
  PROVE  InstalledInv'
<1> SUFFICES ASSUME crossed' = {} PROVE InstalledInv'
  BY DEF InstalledInv
<1>1. /\ w \notin Busy /\ \A v \in Crew \ {w} : crew'[v] = crew[v]
      /\ crew'[w] = [at |-> step, of |-> d, new |-> dataset[d] = "none", todo |-> {}, seen |-> {}]
  BY OrderTypes
<1>2. UNCHANGED <<title, alertRow, group>> /\ crossed = {} /\ Busy = {}
  BY DEF TakeOrder, tablesOfAlerts
<1>3. \A v \in Crew : GroupInv(v)'
  BY <1>1, <1>2 DEF GroupInv, Busy
<1>4. \A e \in Monitored, i \in Indexes : ~ Uninstalled(e, i)
  BY <1>2 DEF InstalledInv, Uninstalled, On, Busy
<1>5. \A e \in Monitored, i \in Indexes : ~ Uninstalled(e, i)'
  BY <1>2, <1>4 DEF Uninstalled, IsIn, Rule
<1>6. QED
  BY <1>3, <1>5 DEF InstalledInv, Uninstalled

LEMMA InstalledMute ==
  ASSUME InstalledInv, NEW d \in Monitored, NEW i \in Indexes, MuteAlert(d, i)
  PROVE  InstalledInv'
<1>1. UNCHANGED <<title, alertRow, group, crossed, crew>>
  BY DEF MuteAlert
<1>2. \A v \in Crew : /\ Current(v)' = Current(v) /\ IndexOf(v)' = IndexOf(v) /\ GroupOf(v)' = GroupOf(v)
                       /\ Rest(v)' = Rest(v) /\ RuleOf(v)' = RuleOf(v)
  BY <1>1, SameTodo
<1>3. \A v \in Crew : GroupInv(v) => GroupInv(v)'
  BY <1>1, <1>2 DEF GroupInv
<1>4. QED
  BY <1>1, <1>2, <1>3 DEF InstalledInv, IsIn, Rule, On

-----------------------------------------------------------------------------
(* The other datasets. *)

\* Of another dataset, whose transitions do not overlap, none is busy.
LEMMA OtherClear ==
  ASSUME AlertTypes, AlertTypes', TableInv, NEW w \in Busy, StepFrame(w), NEW d \in Monitored \ crossed,
         crew[w].of # d, RemovalInv(d)
  PROVE  RemovalInv(d)'
<1>1. (\A v \in Busy : crew[v].of # d) /\ (\A v \in Busy' : crew'[v].of # d)
  BY Alone, FrameBusy
<1>2. RowsFor(d)' = RowsFor(d) /\ muted'[d] = muted[d] /\ orphaned'[d] = orphaned[d]
  BY FrameRows DEF StepFrame
<1>3. QED
  BY <1>1, <1>2 DEF RemovalInv

\* The rules of a dataset are neither posted nor read to be posted.
NoNewRules(d) ==
    \A i \in Indexes : IsIn(d, i)' \/ (\E v \in Crew : Rule(d, i) \in crew'[v].seen)
                          => IsIn(d, i) \/ \E v \in Crew : Rule(d, i) \in crew[v].seen

LEMMA OtherFollow ==
  ASSUME AlertTypes, AlertTypes', TableInv, NEW w \in Busy, StepFrame(w), NEW d \in Monitored \ crossed,
         crew[w].of # d, FollowInv(d), Homonyms(d) = {d} => NoNewRules(d)
  PROVE  FollowInv(d)'
<1>1. (\A v \in Busy : crew[v].of # d) /\ (\A v \in Busy' : crew'[v].of # d)
  BY Alone, FrameBusy
<1>2. /\ RowsFor(d)' = RowsFor(d) /\ (AlertsGone(d)' <=> AlertsGone(d)) /\ (WithRules(d)' <=> WithRules(d))
      /\ alertRow'[d] = alertRow[d] /\ orphaned'[d] = orphaned[d] /\ (d \in retired' <=> d \in retired)
      /\ title' = title
  BY FrameRows DEF StepFrame
<1>3. \A steps : ~ AtWork(d, steps) /\ ~ AtWork(d, steps)'
  BY <1>1 DEF AtWork
<1>4. Homonyms(d)' = Homonyms(d)
  BY <1>2 DEF Homonyms
<1>5. \A i \in Indexes : (RuleDue(d, i) <=> WithRules(d)) /\ (RuleDue(d, i)' <=> WithRules(d)')
  BY <1>1 DEF RuleDue
<1>6. \A i \in Indexes : Rule(d, i)' = Rule(d, i)
  BY <1>2 DEF Rule
<1>7. ASSUME Homonyms(d) = {d}, NEW i \in Indexes, IsIn(d, i)' \/ \E v \in Crew : Rule(d, i)' \in crew'[v].seen
      PROVE  RuleDue(d, i)'
  BY <1>2, <1>5, <1>6, <1>7 DEF NoNewRules, FollowInv
<1>8. QED
  BY <1>1, <1>2, <1>3, <1>4, <1>7 DEF FollowInv

\* The steps that write or read no group, read one, and write one.
LEMMA QuietRules ==
  ASSUME NEW w \in Crew, NEW d, UNCHANGED <<group, title>>, crew'[w].seen \subseteq crew[w].seen,
         \A v \in Crew \ {w} : crew'[v] = crew[v]
  PROVE  NoNewRules(d)
<1>1. \A i \in Indexes : IsIn(d, i)' => IsIn(d, i)
  BY DEF IsIn, Rule
<1>2. \A v \in Crew : crew'[v].seen \subseteq crew[v].seen
  OBVIOUS
<1>3. QED
  BY <1>1, <1>2 DEF NoNewRules

LEMMA ReadRulesOfGroup ==
  ASSUME NEW w \in Crew, NEW d, UNCHANGED <<group, title>>, crew'[w].seen = group[GroupOf(w)],
         \A rule \in group[GroupOf(w)] : Templates[rule[2]] = GroupOf(w),
         \A v \in Crew \ {w} : crew'[v] = crew[v]
  PROVE  NoNewRules(d)
<1>1. \A i \in Indexes : IsIn(d, i)' => IsIn(d, i)
  BY DEF IsIn, Rule
<1>2. \A v \in Crew \ {w} : crew'[v].seen = crew[v].seen
  OBVIOUS
<1>3. \A i \in Indexes : Rule(d, i) \in crew'[w].seen => IsIn(d, i)
  BY DEF IsIn, Rule
<1>4. QED
  BY <1>1, <1>2, <1>3 DEF NoNewRules

LEMMA WrittenRules ==
  ASSUME RulesByCategory, NEW w \in Crew, NEW d, title' = title, crew'[w].seen = {}, \A v \in Crew \ {w} : crew'[v] = crew[v],
         NEW rules, group' = [group EXCEPT ![GroupOf(w)] = rules],
         \A i \in Indexes : Rule(d, i) \in rules => Rule(d, i) \in crew[w].seen
  PROVE  NoNewRules(d)
<1>1. \A i \in Indexes : IsIn(d, i)' => IsIn(d, i) \/ Rule(d, i) \in crew[w].seen
  BY DEF IsIn, Rule, RulesByCategory, Sections
<1>2. QED
  BY <1>1 DEF NoNewRules

\* No step of a transition brings rules of another dataset, unless both have one name.
LEMMA OtherRules ==
  ASSUME AlertTypes, NEW w \in Crew, StepOf(w), NEW d \in Monitored, crew[w].of # d, Homonyms(d) = {d}
  PROVE  NoNewRules(d)
<1>1. w \in Busy /\ AlertTypes' /\ StepFrame(w)
  BY StepOfTypes
<1>2. TaskInv(w) /\ RulesByCategory /\ crew \in [Crew -> Tasks] /\ title' = title /\ crew[w].of \in Monitored
  BY <1>1, AlertTypesParts, WorkTypes DEF CrewTypes, StepFrame
<1>3. \A v \in Crew \ {w} : crew'[v] = crew[v]
  BY <1>1 DEF StepFrame
<1>4. CASE UNCHANGED group /\ crew'[w].seen \subseteq crew[w].seen
  BY <1>2, <1>3, <1>4, QuietRules
<1>5. CASE /\ UNCHANGED group /\ crew[w].todo # {}
           /\ \E step : crew' = [crew EXCEPT ![w].at = step, ![w].seen = group[GroupOf(w)]]
  <2>1. crew'[w].seen = group[GroupOf(w)]
    BY <1>2, <1>5 DEF Tasks
  <2>2. GroupOf(w) \in Sections
    BY <1>1, <1>5, WorkTypes
  <2>3. QED
    BY <1>2, <1>3, <1>5, <2>1, <2>2, ReadRulesOfGroup DEF RulesByCategory
<1>6. CASE /\ crew'[w].seen = {} /\ crew[w].todo # {}
           /\ \E rules \in SUBSET (crew[w].seen \cup {RuleOf(w)}) : group' = [group EXCEPT ![GroupOf(w)] = rules]
  <2>1. PICK rules \in SUBSET (crew[w].seen \cup {RuleOf(w)}) : group' = [group EXCEPT ![GroupOf(w)] = rules]
    BY <1>6
  <2>2. \A i \in Indexes : Rule(d, i) # RuleOf(w)
    BY <1>2 DEF Rule, RuleOf, Homonyms
  <2>3. \A i \in Indexes : Rule(d, i) \in rules => Rule(d, i) \in crew[w].seen
    BY <2>2
  <2>4. crew'[w].seen = {}
    BY <1>6
  <2>5. QED
    BY <1>2, <1>3, <2>1, <2>3, <2>4, WrittenRules
<1>7. \A step \in Steps : Turn(w, step) => crew'[w].seen = {}
  BY TurnTypes
<1>8. Leave(w) => crew'[w].seen = {}
  BY LeaveTypes DEF NoTask
<1>9. \A step : crew' = [crew EXCEPT ![w].at = step, ![w].todo = Rest(w)] => crew'[w].seen = crew[w].seen
  BY <1>2 DEF Tasks
<1>10. CASE SaveDrafts(w) \/ PublishCommand(w) \/ RetireTables(w) \/ DestroyAlert(w) \/ DropMetrics(w)
  <2>1. UNCHANGED group /\ (Leave(w) \/ \E step \in Steps : Turn(w, step))
    BY <1>10 DEF SaveDrafts, PublishCommand, RetireTables, DestroyAlert, DropMetrics, Abandon, Steps, Removing, Installing
  <2>2. QED
    BY <1>4, <1>7, <1>8, <2>1
<1>11. CASE ListAlerts(w) \/ FindAlerts(w)
  <2>1. UNCHANGED group /\ crew'[w].seen = crew[w].seen
    BY <1>2, <1>11 DEF ListAlerts, FindAlerts, Tasks
  <2>2. QED
    BY <1>4, <2>1
<1>12. CASE MarkLive(w) \/ Unmute(w)
  <2>1. UNCHANGED group /\ (Leave(w) \/ \E step : crew' = [crew EXCEPT ![w].at = step, ![w].todo = Rest(w)])
    BY <1>12 DEF MarkLive, Unmute, Abandon
  <2>2. QED
    BY <1>4, <1>8, <1>9, <2>1
<1>13. CASE ReadRules(w)
  <2>1. UNCHANGED group
    BY <1>13 DEF ReadRules
  <2>2. CASE Leave(w)
    BY <1>4, <1>8, <2>1, <2>2
  <2>3. CASE crew' = [crew EXCEPT ![w].todo = Rest(w)]
    <3>1. crew'[w].seen = crew[w].seen
      BY <1>2, <2>3 DEF Tasks
    <3>2. QED
      BY <1>4, <2>1, <3>1
  <2>4. CASE crew[w].todo # {} /\ crew' = [crew EXCEPT ![w].at = "post", ![w].seen = group[GroupOf(w)]]
    BY <1>5, <2>1, <2>4
  <2>5. QED
    BY <1>13, <2>2, <2>3, <2>4 DEF ReadRules, Abandon
<1>14. CASE NextAlert(w)
  <2>1. UNCHANGED group
    BY <1>14 DEF NextAlert
  <2>2. CASE Turn(w, "metrics") \/ Turn(w, "destroy")
    BY <1>4, <1>7, <2>1, <2>2 DEF Steps, Removing
  <2>3. CASE crew[w].todo # {} /\ crew' = [crew EXCEPT ![w].at = "unpost", ![w].seen = group[GroupOf(w)]]
    BY <1>5, <2>1, <2>3
  <2>4. QED
    BY <1>14, <2>2, <2>3 DEF NextAlert
<1>15. CASE PostRules(w) \/ UnpostRule(w)
  <2>1. crew[w].todo # {}
    BY <1>2, <1>15 DEF PostRules, UnpostRule, On, TaskInv, InHand
  <2>2. crew'[w].seen = {}
    BY <1>7, <1>8, <1>15 DEF PostRules, UnpostRule, Abandon, Steps, Removing, Installing
  <2>3. UNCHANGED group \/ \E rules \in SUBSET (crew[w].seen \cup {RuleOf(w)}) : group' = [group EXCEPT ![GroupOf(w)] = rules]
    <3>1. /\ WithRule(crew[w].seen, RuleOf(w)) \in SUBSET (crew[w].seen \cup {RuleOf(w)})
          /\ WithoutRule(crew[w].seen, RuleOf(w)) \in SUBSET (crew[w].seen \cup {RuleOf(w)})
      BY DEF WithRule, WithoutRule
    <3>2. QED
      BY <1>15, <3>1 DEF PostRules, UnpostRule
  <2>4. QED
    BY <1>4, <1>6, <2>1, <2>2, <2>3
<1>16. QED
  BY <1>10, <1>11, <1>12, <1>13, <1>14, <1>15 DEF StepOf

-----------------------------------------------------------------------------
(* The dataset of the transition. *)

\* What RemovalInv and FollowInv say when the transition is the only one that is busy.
OnlyOn(w, e) == (\A v \in Busy : v = w) /\ (crew[w].at # "idle" => crew[w].of = e)

ClearOwn(w, e) ==
    /\ \A i \in muted[e] \ orphaned[e] : i \in RowsFor(e) \/ (crew[w].at = "unmute" /\ IndexOf(w) = i)
    /\ crew[w].at \in Removing \ {"find"} => RowsFor(e) \subseteq ToRemove(w)

DueOwn(w, e, i) ==
    \/ WithRules(e)
    \/ crew[w].at = "find" /\ alertRow[e][i] = "live"
    \/ crew[w].at \in {"drop", "unpost"} /\ i \in StillToDo(crew[w].todo)
    \/ crew[w].at \in {"destroy", "unmute"} /\ i \in StillToDo(Rest(w))

FollowOwn(w, e) ==
    /\ orphaned[e] = {} /\ PublishInv(w, e)
    /\ WithRules(e) /\ crew[w].at \notin Installing => \A i \in Indexes : alertRow[e][i] = "live"
    /\ e \in retired /\ crew[w].at \notin Removing => AlertsGone(e)
    /\ Homonyms(e) = {e} => \A i \in Indexes : IsIn(e, i) \/ Rule(e, i) \in crew[w].seen => DueOwn(w, e, i)

OwnIsAll ==
    AlertTypes => \A w \in Crew, e \in Monitored : OnlyOn(w, e) =>
        (RemovalInv(e) <=> ClearOwn(w, e)) /\ (FollowInv(e) <=> FollowOwn(w, e))

\* Of a dataset whose transitions do not overlap, the one at work is all that matters.
LEMMA ClearReduces ==
  AlertTypes => \A w \in Crew, e \in Monitored : OnlyOn(w, e) => (RemovalInv(e) <=> ClearOwn(w, e))
<1> SUFFICES ASSUME NEW w \in Crew, NEW e \in Monitored, AlertTypes, OnlyOn(w, e)
             PROVE  RemovalInv(e) <=> ClearOwn(w, e)
  OBVIOUS
<1>1. Busy = IF crew[w].at = "idle" THEN {} ELSE {w}
  BY DEF OnlyOn, Busy
<1>2. CASE crew[w].at = "idle"
  BY <1>1, <1>2 DEF RemovalInv, ClearOwn, Removing
<1>3. CASE crew[w].at # "idle"
  BY <1>1, <1>3 DEF RemovalInv, ClearOwn, OnlyOn, On
<1>4. QED
  BY <1>2, <1>3

LEMMA FollowReduces ==
  AlertTypes => \A w \in Crew, e \in Monitored : OnlyOn(w, e) => (FollowInv(e) <=> FollowOwn(w, e))
<1> SUFFICES ASSUME NEW w \in Crew, NEW e \in Monitored, AlertTypes, OnlyOn(w, e)
             PROVE  FollowInv(e) <=> FollowOwn(w, e)
  OBVIOUS
<1>1. Busy = IF crew[w].at = "idle" THEN {} ELSE {w}
  BY DEF OnlyOn, Busy
<1>2. \A i \in Indexes : (\E v \in Crew : Rule(e, i) \in crew[v].seen) <=> Rule(e, i) \in crew[w].seen
  BY <1>1 DEF AlertTypes, TaskInv, Busy
<1>3. CASE crew[w].at = "idle"
  <2>1. \A steps : ~ AtWork(e, steps)
    BY <1>1, <1>3 DEF AtWork
  <2>2. PublishInv(w, e) /\ crew[w].at \notin Installing /\ crew[w].at \notin Removing
    BY <1>3 DEF PublishInv, Installing, Removing
  <2>3. \A i \in Indexes : RuleDue(e, i) <=> DueOwn(w, e, i)
    BY <1>1, <1>3 DEF RuleDue, DueOwn
  <2>4. QED
    BY <1>1, <1>2, <1>3, <2>1, <2>2, <2>3 DEF FollowInv, FollowOwn
<1>4. CASE crew[w].at # "idle"
  <2>1. crew[w].of = e
    BY <1>4 DEF OnlyOn
  <2>2. \A steps : AtWork(e, steps) <=> crew[w].at \in steps
    BY <1>1, <1>4, <2>1 DEF AtWork
  <2>3. \A i \in Indexes : RuleDue(e, i) <=> DueOwn(w, e, i)
    BY <1>1, <1>4, <2>1 DEF RuleDue, DueOwn, On
  <2>4. QED
    BY <1>1, <1>2, <1>4, <2>1, <2>2, <2>3 DEF FollowInv, FollowOwn
<1>5. QED
  BY <1>3, <1>4

LEMMA OwnReduces == OwnIsAll
  BY ClearReduces, FollowReduces DEF OwnIsAll

\* Before a step and after it.
LEMMA OwnReducesAfter ==
  ASSUME AlertTypes, AlertTypes', TableInv, NEW w \in Busy, StepFrame(w), NEW e \in Monitored \ crossed, e = crew[w].of
  PROVE  /\ (RemovalInv(e) <=> ClearOwn(w, e)) /\ (RemovalInv(e)' <=> ClearOwn(w, e)')
         /\ (FollowInv(e) <=> FollowOwn(w, e)) /\ (FollowInv(e)' <=> FollowOwn(w, e)')
<1>1. OnlyOn(w, e) /\ w \in Crew
  BY Alone DEF OnlyOn, Busy
<1>2. OnlyOn(w, e)'
  BY <1>1, FrameBusy DEF OnlyOn, StepFrame
<1>3. OwnIsAll'
  BY OwnReduces, PTL
<1>4. QED
  BY <1>1, <1>2, <1>3, OwnReduces DEF OwnIsAll

\* What is at work, of an alert whose index differs from that of the one in hand.
LEMMA RestAhead ==
  ASSUME NEW w \in Crew, TaskInv(w), Current(w) \in crew[w].todo
  PROVE  StillToDo(Rest(w)) = StillToDo(crew[w].todo) \ {IndexOf(w)}
<1>1. \A a \in crew[w].todo : a[1] = IndexOf(w) => a = Current(w)
  BY DEF TaskInv, IndexOf
<1>2. QED
  BY <1>1 DEF StillToDo, Rest, IndexOf

\* A step that is not about the rows or the silences, before the alerts are found.
LEMMA ClearPassive ==
  ASSUME NEW w \in Crew, NEW e \in Monitored, UNCHANGED <<alertRow, muted, orphaned>>, ClearOwn(w, e),
         crew[w].at # "unmute", crew'[w].at \notin Removing \ {"find"}
  PROVE  ClearOwn(w, e)'
<1>1. RowsFor(e)' = RowsFor(e)
  BY DEF RowsFor
<1>2. QED
  BY <1>1 DEF ClearOwn

\* Each step removes what it takes off the list, and no silence is left without a row.
LEMMA ClearStep ==
  ASSUME AlertTypes, NEW w \in Crew, StepOf(w), NEW e \in Monitored, e = crew[w].of, ClearOwn(w, e)
  PROVE  ClearOwn(w, e)'
<1>1. w \in Busy /\ AlertTypes' /\ StepFrame(w)
  BY StepOfTypes
<1>2. TaskInv(w) /\ TableTypes /\ crew \in [Crew -> Tasks]
  BY <1>1, AlertTypesParts, WorkTypes DEF CrewTypes
<1>3. crew[w].at \in InHand => Current(w) \in crew[w].todo /\ IndexOf(w) \in Indexes
  BY <1>1, <1>2, WorkTypes DEF TaskInv
<1>4. \A step \in Steps : Turn(w, step) =>
        /\ crew'[w].at = step /\ crew'[w].todo = crew[w].todo
        /\ IndexOf(w)' = IndexOf(w) /\ Rest(w)' = Rest(w)
  BY TurnTypes, SameTodo
<1>5. Leave(w) => crew'[w].at = "idle"
  BY LeaveTypes DEF NoTask
<1>6. CASE SaveDrafts(w)
  <2>1. crew'[w].at \in {"command", "idle"} /\ UNCHANGED <<muted, orphaned>>
    BY <1>4, <1>5, <1>6 DEF SaveDrafts, tablesOfAlerts, Steps
  <2>2. RowsFor(e) \subseteq RowsFor(e)'
    <3>1. alertRow' = alertRow \/ alertRow' = [alertRow EXCEPT ![e] = [i \in Indexes |-> "draft"]]
      BY <1>6 DEF SaveDrafts, tablesOfAlerts, CreateAlerts
    <3>2. CASE alertRow' = [alertRow EXCEPT ![e] = [i \in Indexes |-> "draft"]]
      <4>1. \A i \in Indexes : alertRow'[e][i] = "draft"
        BY <1>2, <3>2 DEF TableTypes
      <4>2. QED
        BY <4>1 DEF RowsFor
    <3>3. QED
      BY <3>1, <3>2 DEF RowsFor
  <2>3. crew[w].at = "save"
    BY <1>6 DEF SaveDrafts, On
  <2>4. QED
    BY <2>1, <2>2, <2>3 DEF ClearOwn, Removing
<1>7. CASE PublishCommand(w) \/ RetireTables(w) \/ PostRules(w) \/ DropMetrics(w)
  <2>1. UNCHANGED <<alertRow, muted, orphaned>> /\ crew[w].at # "unmute"
    BY <1>7 DEF PublishCommand, RetireTables, PostRules, DropMetrics, tablesOfAlerts, On
  <2>2. Leave(w) \/ Turn(w, "list") \/ Turn(w, "find") \/ Turn(w, "mark")
    BY <1>7 DEF PublishCommand, RetireTables, PostRules, DropMetrics, Abandon
  <2>3. crew'[w].at \in {"idle", "list", "find", "mark"}
    BY <1>4, <1>5, <2>2 DEF Steps, Installing, Removing
  <2>4. QED
    BY <2>1, <2>3, ClearPassive DEF Removing
<1>8. CASE ListAlerts(w) \/ ReadRules(w)
  <2>1. UNCHANGED <<alertRow, muted, orphaned>> /\ crew[w].at # "unmute"
    BY <1>8 DEF ListAlerts, ReadRules, tablesOfAlerts, On
  <2>2. crew'[w].at \in {"idle", "publish", "post"}
    BY <1>2, <1>5, <1>8 DEF ListAlerts, ReadRules, Abandon, Tasks, On
  <2>3. QED
    BY <2>1, <2>2, ClearPassive DEF Removing
<1>9. CASE MarkLive(w)
  <2>1. UNCHANGED <<muted, orphaned>> /\ crew[w].at = "mark" /\ crew'[w].at = "publish"
    BY <1>2, <1>9 DEF MarkLive, On, Tasks
  <2>2. RowsFor(e) \subseteq RowsFor(e)'
    <3>1. alertRow' = alertRow \/ alertRow' = [alertRow EXCEPT ![e][IndexOf(w)] = "live"]
      BY <1>9 DEF MarkLive
    <3>2. CASE alertRow' = [alertRow EXCEPT ![e][IndexOf(w)] = "live"]
      <4>1. \A i \in Indexes : alertRow'[e][i] = alertRow[e][i] \/ alertRow'[e][i] = "live"
        BY <1>2, <3>2 DEF TableTypes
      <4>2. QED
        BY <4>1 DEF RowsFor
    <3>3. QED
      BY <3>1, <3>2 DEF RowsFor
  <2>3. QED
    BY <2>1, <2>2 DEF ClearOwn, Removing
<1>10. CASE FindAlerts(w)
  <2>1. /\ UNCHANGED <<alertRow, muted, orphaned>> /\ crew[w].at = "find" /\ crew'[w].at = "drop"
        /\ crew'[w].todo = AlertsOf(e)
    BY <1>2, <1>10 DEF FindAlerts, AlertsToDelete, On, Tasks, tablesOfAlerts
  <2>2. RowsFor(e)' = RowsFor(e) /\ ToRemove(w)' = RowsFor(e)
    BY <2>1, AlertsOfTypes DEF RowsFor, ToRemove
  <2>3. QED
    BY <2>1, <2>2 DEF ClearOwn
<1>11. CASE NextAlert(w)
  <2>1. UNCHANGED <<alertRow, muted, orphaned>> /\ crew[w].at = "drop"
    BY <1>11 DEF NextAlert, On, tablesOfAlerts
  <2>2. RowsFor(e)' = RowsFor(e) /\ RowsFor(e) \subseteq StillToDo(crew[w].todo)
    BY <2>1 DEF RowsFor, ClearOwn, ToRemove, Removing
  <2>3. CASE crew[w].todo = {} /\ Turn(w, "metrics")
    <3>1. crew'[w].at = "metrics" /\ RowsFor(e) = {}
      BY <1>4, <2>2, <2>3 DEF Steps, Removing, StillToDo
    <3>2. QED
      BY <2>1, <2>2, <3>1 DEF ClearOwn
  <2>4. CASE crew[w].todo # {} /\ (Turn(w, "destroy") \/ crew' = [crew EXCEPT ![w].at = "unpost", ![w].seen = group[GroupOf(w)]])
    <3>1. crew'[w].at \in {"destroy", "unpost"} /\ crew'[w].todo = crew[w].todo
      BY <1>2, <1>4, <2>4 DEF Steps, Removing, Tasks
    <3>2. ToRemove(w)' = StillToDo(crew[w].todo)
      BY <3>1 DEF ToRemove
    <3>3. QED
      BY <2>1, <2>2, <3>1, <3>2 DEF ClearOwn
  <2>5. QED
    BY <1>11, <2>3, <2>4 DEF NextAlert
<1>12. CASE UnpostRule(w)
  <2>1. UNCHANGED <<alertRow, muted, orphaned>> /\ crew[w].at = "unpost"
    BY <1>12 DEF UnpostRule, On, tablesOfAlerts
  <2>2. RowsFor(e)' = RowsFor(e) /\ RowsFor(e) \subseteq StillToDo(crew[w].todo)
    BY <2>1 DEF RowsFor, ClearOwn, ToRemove, Removing
  <2>3. crew'[w].at = "destroy" /\ ToRemove(w)' = StillToDo(crew[w].todo)
    BY <1>4, <1>12 DEF UnpostRule, Steps, Removing, ToRemove
  <2>4. QED
    BY <2>1, <2>2, <2>3 DEF ClearOwn
<1>13. CASE DestroyAlert(w)
  <2>1. /\ UNCHANGED <<muted, orphaned>> /\ crew[w].at = "destroy" /\ IndexOf(w) \in Indexes
        /\ Current(w) \in crew[w].todo
    BY <1>3, <1>13 DEF DestroyAlert, On, InHand
  <2>2. RowsFor(e) \subseteq StillToDo(crew[w].todo)
    BY <2>1 DEF ClearOwn, ToRemove, Removing
  <2>3. RowsFor(e)' = RowsFor(e) \ {IndexOf(w)}
    BY <1>2, <1>13, <2>1 DEF DestroyAlert, TableTypes, RowsFor
  <2>4. crew'[w].at = "unmute" /\ ToRemove(w)' = StillToDo(Rest(w)) /\ IndexOf(w)' = IndexOf(w)
    BY <1>4, <1>13 DEF DestroyAlert, Steps, Removing, ToRemove
  <2>5. QED
    BY <1>2, <2>1, <2>2, <2>3, <2>4, RestAhead DEF ClearOwn
<1>14. CASE Unmute(w)
  <2>1. alertRow' = alertRow /\ crew[w].at = "unmute"
    BY <1>14 DEF Unmute, On
  <2>2. RowsFor(e)' = RowsFor(e) /\ RowsFor(e) \subseteq StillToDo(Rest(w))
    BY <2>1 DEF RowsFor, ClearOwn, ToRemove, Removing
  <2>3. CASE muted' = [muted EXCEPT ![e] = @ \ {IndexOf(w)}] /\ orphaned' = orphaned
             /\ crew' = [crew EXCEPT ![w].at = "drop", ![w].todo = Rest(w)]
    <3>1. crew'[w].at = "drop" /\ ToRemove(w)' = StillToDo(Rest(w))
      BY <1>2, <2>3 DEF Tasks, ToRemove
    <3>2. muted'[e] = muted[e] \ {IndexOf(w)}
      BY <1>2, <2>3 DEF TableTypes
    <3>3. QED
      BY <2>1, <2>2, <2>3, <3>1, <3>2 DEF ClearOwn
  <2>4. CASE orphaned' = [orphaned EXCEPT ![e] = @ \cup {IndexOf(w)}] /\ muted' = muted /\ Leave(w)
    <3>1. orphaned'[e] = orphaned[e] \cup {IndexOf(w)}
      BY <1>2, <2>4 DEF TableTypes
    <3>2. QED
      BY <1>5, <2>2, <2>4, <3>1 DEF ClearOwn, Removing
  <2>5. QED
    BY <1>14, <2>3, <2>4 DEF Unmute, Abandon
<1>15. QED
  BY <1>6, <1>7, <1>8, <1>9, <1>10, <1>11, <1>12, <1>13, <1>14 DEF StepOf

\* What a step of a transition whose dataset is not harmed starts from.
Started(w, e) ==
    /\ AlertTypes /\ TableInv /\ w \in Busy /\ e \in Monitored /\ e = crew[w].of
    /\ ClearOwn(w, e) /\ FollowOwn(w, e) /\ e \notin harmed'
    /\ title' = title

\* What is known when a step begins.
LEMMA StartedFacts ==
  ASSUME NEW w \in Crew, NEW e \in Monitored, Started(w, e)
  PROVE  /\ AlertTypes /\ TaskInv(w) /\ TableTypes /\ RulesByCategory /\ crew \in [Crew -> Tasks] /\ w \in Busy /\ e = crew[w].of
         /\ StatusOk(e) /\ Complete(e)
         /\ ~ Harm(w) /\ ~ Abandon(w)
         /\ orphaned[e] = {} /\ PublishInv(w, e)
         /\ (WithRules(e) /\ crew[w].at \notin Installing => \A i \in Indexes : alertRow[e][i] = "live")
         /\ (e \in retired /\ crew[w].at \notin Removing => AlertsGone(e))
         /\ (crew[w].at \in InHand => Current(w) \in crew[w].todo /\ IndexOf(w) \in Indexes /\ GroupOf(w) \in Sections)
<1>1. AlertTypes /\ TableInv /\ w \in Busy /\ e = crew[w].of /\ FollowOwn(w, e) /\ e \notin harmed'
  BY DEF Started
<1>2. TaskInv(w) /\ TableTypes /\ RulesByCategory /\ crew \in [Crew -> Tasks]
  BY <1>1, AlertTypesParts, WorkTypes DEF CrewTypes
<1>3. StatusOk(e) /\ Complete(e)
  BY <1>1, TableInvParts
<1>4. ~ Harm(w) /\ ~ Abandon(w)
  BY <1>1, HarmTypes DEF Abandon
<1>5. crew[w].at \in InHand => Current(w) \in crew[w].todo /\ IndexOf(w) \in Indexes /\ GroupOf(w) \in Sections
  BY <1>1, <1>2, WorkTypes DEF TaskInv
<1>6. /\ orphaned[e] = {} /\ PublishInv(w, e)
      /\ (WithRules(e) /\ crew[w].at \notin Installing => \A i \in Indexes : alertRow[e][i] = "live")
      /\ (e \in retired /\ crew[w].at \notin Removing => AlertsGone(e))
  BY <1>1 DEF FollowOwn
<1>7. QED
  BY <1>1, <1>2, <1>3, <1>4, <1>5, <1>6

\* Of which rules there may be.
RulesDue(w, e) == \A i \in Indexes : IsIn(e, i) \/ Rule(e, i) \in crew[w].seen => DueOwn(w, e, i)

LEMMA StartedRules ==
  ASSUME NEW w \in Crew, NEW e \in Monitored, Started(w, e)
  PROVE  /\ Homonyms(e)' = Homonyms(e) /\ (Homonyms(e) = {e} => RulesDue(w, e))
         /\ \A i \in Indexes : Rule(e, i)' = Rule(e, i)
         /\ (UNCHANGED group => \A i \in Indexes : IsIn(e, i)' <=> IsIn(e, i))
  BY DEF Started, FollowOwn, RulesDue, Homonyms, Rule, IsIn

\* The drafts are created with the first draft of a dataset, or not at all.
LEMMA SaveFollow ==
  ASSUME NEW w \in Crew, NEW e \in Monitored, Started(w, e), SaveDrafts(w)
  PROVE  FollowOwn(w, e)'
<1> USE StartedFacts
<1>1. crew[w].at = "save" /\ UNCHANGED <<dataset, group, retired, muted, orphaned>>
  BY DEF SaveDrafts, On, tablesOfAlerts
<1>2. \/ crew'[w].at = "command" /\ crew'[w].new = crew[w].new /\ crew'[w].seen = {}
      \/ crew'[w].at = "idle" /\ crew'[w].seen = {} /\ UNCHANGED tablesOfAlerts
  BY TurnTypes, LeaveTypes DEF SaveDrafts, Steps, NoTask
<1>3. crew[w].new <=> dataset[e] = "none"
  BY <1>1 DEF PublishInv
<1>4. \/ UNCHANGED <<alertRow, metricRow>> /\ (crew'[w].at = "idle" \/ ~ (crew[w].new /\ RowsFor(e) = {}))
      \/ crew[w].new /\ RowsFor(e)' = Indexes
  <2>1. CASE CreateAlerts(e) /\ crew[w].new
    BY <2>1 DEF CreateAlerts, TableTypes, RowsFor
  <2>2. QED
    BY <2>1, TurnTypes, LeaveTypes DEF SaveDrafts, Steps, NoTask, tablesOfAlerts
<1>5. PublishInv(w, e)'
  <2>1. crew'[w].at = "command" /\ crew'[w].new => RowsFor(e)' = Indexes
    <3>1. ASSUME crew'[w].at = "command", crew'[w].new, UNCHANGED <<alertRow, metricRow>>,
                 ~ (crew[w].new /\ RowsFor(e) = {})
          PROVE  RowsFor(e)' = Indexes
      <4>1. RowsFor(e) # {} /\ e \notin retired
        BY <1>2, <1>3, <3>1 DEF StatusOk
      <4>2. RowsFor(e) = Indexes
        BY <4>1 DEF Complete, AlertsGone
      <4>3. QED
        BY <3>1, <4>2 DEF RowsFor
    <3>2. QED
      BY <1>4, <3>1
  <2>2. QED
    BY <1>1, <1>2, <1>3, <2>1 DEF PublishInv, Installing, Removing
<1>6. dataset[e] # "none" => RowsFor(e)' = RowsFor(e) /\ UNCHANGED <<alertRow, metricRow>>
  BY <1>3, <1>4 DEF RowsFor
<1>7. WithRules(e)' => \A i \in Indexes : alertRow'[e][i] = "live"
  BY <1>1, <1>6 DEF WithRules, Installing
<1>8. e \in retired' => AlertsGone(e)'
  BY <1>1, <1>6 DEF StatusOk, Removing, AlertsGone
<1>9. Homonyms(e)' = {e} => RulesDue(w, e)'
  BY <1>1, <1>2, StartedRules DEF RulesDue, DueOwn, WithRules
<1>10. QED
  BY <1>1, <1>5, <1>7, <1>8, <1>9 DEF FollowOwn, RulesDue

\* Only a dataset that is new gets alerts when it becomes live.
LEMMA CommandFollow ==
  ASSUME NEW w \in Crew, NEW e \in Monitored, Started(w, e), PublishCommand(w)
  PROVE  FollowOwn(w, e)'
<1> USE StartedFacts
<1>1. crew[w].at = "command" /\ UNCHANGED <<alertRow, metricRow, group, retired, muted, orphaned>>
  BY DEF PublishCommand, On, tablesOfAlerts
<1>2. RowsFor(e)' = RowsFor(e) /\ (AlertsGone(e)' <=> AlertsGone(e)) /\ (crew[w].new <=> dataset[e] = "none")
  BY <1>1 DEF RowsFor, AlertsGone, PublishInv
<1>3. CASE dataset'[e] = "Live" /\ crew[w].new /\ Turn(w, "list")
  <2>1. crew'[w].at = "list"
    BY <1>3, TurnTypes DEF Steps, Installing
  <2>2. WithRules(e)' /\ e \notin retired' /\ RowsFor(e)' = Indexes
    BY <1>1, <1>2, <1>3 DEF StatusOk, WithRules, PublishInv
  <2>3. PublishInv(w, e)'
    BY <2>1, <2>2 DEF PublishInv, Installing, Removing
  <2>4. QED
    BY <1>1, <2>1, <2>2, <2>3 DEF FollowOwn, Installing, DueOwn
<1>4. CASE (dataset'[e] = dataset[e] \/ (dataset'[e] = "Live" /\ ~ crew[w].new)) /\ Leave(w)
  <2>1. crew'[w].at = "idle" /\ crew'[w].seen = {}
    BY <1>4, LeaveTypes DEF NoTask
  <2>2. WithRules(e) <=> WithRules(e)'
    BY <1>1, <1>2, <1>4 DEF StatusOk, WithRules, TableTypes
  <2>3. PublishInv(w, e)'
    BY <2>1 DEF PublishInv, Installing, Removing
  <2>4. WithRules(e)' => \A i \in Indexes : alertRow'[e][i] = "live"
    BY <1>1, <2>2 DEF Installing
  <2>5. e \in retired' => AlertsGone(e)'
    BY <1>1, <1>2 DEF Removing
  <2>6. Homonyms(e)' = {e} => RulesDue(w, e)'
    BY <1>1, <2>1, <2>2, StartedRules DEF RulesDue, DueOwn
  <2>7. QED
    BY <1>1, <2>3, <2>4, <2>5, <2>6 DEF FollowOwn, RulesDue
<1>5. dataset' = [dataset EXCEPT ![e] = "Live"] => dataset'[e] = "Live"
  BY DEF TableTypes
<1>6. QED
  BY <1>3, <1>4, <1>5 DEF PublishCommand

\* While the alerts are published, the dataset is live and has them all.
LEMMA InstallFollow ==
  ASSUME NEW w \in Crew, NEW e \in Monitored, Started(w, e), crew[w].at \in Installing,
         UNCHANGED <<dataset, retired, orphaned>>, RowsFor(e)' = RowsFor(e), crew'[w].at \in Installing \cup {"idle"},
         \A i \in Indexes : \/ alertRow'[e][i] = "live"
                            \/ crew'[w].at # "idle" /\ (crew'[w].at = "list" \/ i \in StillToDo(crew'[w].todo))
  PROVE  FollowOwn(w, e)'
<1> USE StartedFacts
<1>1. WithRules(e)' /\ RowsFor(e)' = Indexes /\ e \notin retired'
  BY DEF PublishInv, WithRules
<1>2. PublishInv(w, e)'
  BY <1>1 DEF PublishInv, Installing, Removing
<1>3. QED
  BY <1>1, <1>2 DEF FollowOwn, DueOwn, Installing

\* The steps of a publication.
LEMMA ListFollow ==
  ASSUME NEW w \in Crew, NEW e \in Monitored, Started(w, e), ListAlerts(w)
  PROVE  FollowOwn(w, e)'
<1> USE StartedFacts
<1>1. /\ crew[w].at = "list" /\ UNCHANGED <<dataset, alertRow, retired, orphaned>>
      /\ crew'[w].at = "publish" /\ crew'[w].todo = AlertsOf(e)
  BY DEF ListAlerts, On, tablesOfAlerts, Tasks
<1>2. RowsFor(e)' = RowsFor(e) /\ RowsFor(e) = Indexes
  BY <1>1 DEF RowsFor, PublishInv, Installing
<1>3. \A i \in Indexes : i \in StillToDo(crew'[w].todo)
  BY <1>1, <1>2, AlertsOfTypes
<1>4. QED
  BY <1>1, <1>2, <1>3, InstallFollow DEF Installing

LEMMA ReadFollow ==
  ASSUME NEW w \in Crew, NEW e \in Monitored, Started(w, e), ReadRules(w)
  PROVE  FollowOwn(w, e)'
<1> USE StartedFacts
<1>1. crew[w].at = "publish" /\ UNCHANGED <<dataset, alertRow, retired, orphaned>>
  BY DEF ReadRules, On, tablesOfAlerts
<1>2. RowsFor(e)' = RowsFor(e) /\ RowsFor(e) = Indexes
  BY <1>1 DEF RowsFor, PublishInv, Installing
<1>3. \A i \in Indexes : alertRow[e][i] = "live" \/ i \in StillToDo(crew[w].todo)
  BY <1>1 DEF PublishInv, Installing
<1>4. CASE crew[w].todo = {} /\ Leave(w)
  <2>1. crew'[w].at = "idle"
    BY <1>4, LeaveTypes DEF NoTask
  <2>2. \A i \in Indexes : alertRow'[e][i] = "live"
    BY <1>1, <1>3, <1>4 DEF StillToDo
  <2>3. QED
    BY <1>1, <1>2, <2>1, <2>2, InstallFollow DEF Installing
<1>5. CASE crew' = [crew EXCEPT ![w].at = "post", ![w].seen = group[GroupOf(w)]]
  <2>1. crew'[w].at = "post" /\ crew'[w].todo = crew[w].todo
    BY <1>5 DEF Tasks
  <2>2. QED
    BY <1>1, <1>2, <1>3, <2>1, InstallFollow DEF Installing
<1>6. crew[w].todo # {} => IndexOf(w) \in RowsFor(crew[w].of)
  BY <1>2, WorkTypes
<1>7. QED
  BY <1>4, <1>5, <1>6 DEF ReadRules

LEMMA PostFollow ==
  ASSUME NEW w \in Crew, NEW e \in Monitored, Started(w, e), PostRules(w)
  PROVE  FollowOwn(w, e)'
<1> USE StartedFacts
<1>1. crew[w].at = "post" /\ UNCHANGED <<dataset, alertRow, retired, orphaned>> /\ Turn(w, "mark")
  BY DEF PostRules, On, tablesOfAlerts
<1>2. crew'[w].at = "mark" /\ crew'[w].todo = crew[w].todo /\ RowsFor(e)' = RowsFor(e)
  BY <1>1, TurnTypes DEF Steps, Installing, RowsFor
<1>3. \A i \in Indexes : alertRow[e][i] = "live" \/ i \in StillToDo(crew[w].todo)
  BY <1>1 DEF PublishInv, Installing
<1>4. QED
  BY <1>1, <1>2, <1>3, InstallFollow DEF Installing

LEMMA MarkFollow ==
  ASSUME NEW w \in Crew, NEW e \in Monitored, Started(w, e), MarkLive(w)
  PROVE  FollowOwn(w, e)'
<1> USE StartedFacts
<1>1. /\ crew[w].at = "mark" /\ UNCHANGED <<dataset, retired, orphaned>>
      /\ crew'[w].at = "publish" /\ crew'[w].todo = Rest(w)
  BY DEF MarkLive, On, Tasks
<1>2. RowsFor(e) = Indexes /\ IndexOf(w) \in Indexes
  BY <1>1 DEF PublishInv, Installing, InHand
<1>3. alertRow' = [alertRow EXCEPT ![e][IndexOf(w)] = "live"]
  BY <1>2 DEF MarkLive
<1>4. \A i \in Indexes : alertRow'[e][i] = IF i = IndexOf(w) THEN "live" ELSE alertRow[e][i]
  BY <1>2, <1>3 DEF TableTypes
<1>5. RowsFor(e)' = RowsFor(e)
  BY <1>2, <1>4 DEF RowsFor
<1>6. \A i \in Indexes : alertRow[e][i] = "live" \/ i \in StillToDo(crew[w].todo)
  BY <1>1 DEF PublishInv, Installing
<1>7. StillToDo(Rest(w)) = StillToDo(crew[w].todo) \ {IndexOf(w)}
  BY <1>1, RestAhead DEF InHand
<1>8. \A i \in Indexes : alertRow'[e][i] = "live" \/ i \in StillToDo(Rest(w))
  BY <1>4, <1>6, <1>7
<1>9. QED
  BY <1>1, <1>5, <1>8, InstallFollow DEF Installing

\* The alerts of a dataset that is retired are all live, or gone already.
LEMMA RetireFollow ==
  ASSUME NEW w \in Crew, NEW e \in Monitored, Started(w, e), RetireTables(w)
  PROVE  FollowOwn(w, e)'
<1> USE StartedFacts
<1>1. /\ crew[w].at = "retire" /\ dataset[e] = "Live"
      /\ UNCHANGED <<alertRow, metricRow, muted, orphaned, group>>
  BY DEF RetireTables, On, tablesOfAlerts, PublishInv
<1>2. RowsFor(e)' = RowsFor(e) /\ (AlertsGone(e)' <=> AlertsGone(e))
  BY <1>1 DEF RowsFor, AlertsGone
<1>3. CASE dataset'[e] = "Retired" /\ e \in retired' /\ Turn(w, "find")
  <2>1. crew'[w].at = "find" /\ crew'[w].seen = {}
    BY <1>3, TurnTypes DEF Steps, Removing
  <2>2. WithRules(e) => \A i \in Indexes : alertRow[e][i] = "live"
    BY <1>1 DEF Installing
  <2>3. \A i \in Indexes : alertRow[e][i] # "draft"
    <3>1. CASE e \in retired
      BY <1>1, <3>1 DEF Removing, AlertsGone, RowsFor
    <3>2. CASE e \notin retired
      BY <1>1, <2>2, <3>2 DEF WithRules
    <3>3. QED
      BY <3>1, <3>2
  <2>4. PublishInv(w, e)'
    BY <1>1, <2>1, <2>3 DEF PublishInv, Installing, Removing
  <2>5. Homonyms(e)' = {e} => RulesDue(w, e)'
    BY <1>1, <2>1, <2>2, StartedRules DEF RulesDue, DueOwn
  <2>6. QED
    BY <1>1, <1>3, <2>1, <2>4, <2>5 DEF FollowOwn, RulesDue, Removing, WithRules
<1>4. CASE UNCHANGED <<dataset, retired>> /\ Leave(w)
  <2>1. crew'[w].at = "idle" /\ crew'[w].seen = {}
    BY <1>4, LeaveTypes DEF NoTask
  <2>2. PublishInv(w, e)'
    BY <2>1 DEF PublishInv, Installing, Removing
  <2>3. Homonyms(e)' = {e} => RulesDue(w, e)'
    BY <1>1, <1>4, <2>1, StartedRules DEF RulesDue, DueOwn, WithRules
  <2>4. QED
    BY <1>1, <1>2, <1>4, <2>2, <2>3 DEF FollowOwn, RulesDue, Installing, Removing, WithRules
<1>5. dataset' = [dataset EXCEPT ![e] = "Retired"] => dataset'[e] = "Retired"
  BY DEF TableTypes
<1>6. QED
  BY <1>3, <1>4, <1>5 DEF RetireTables

\* While the alerts are removed, those that are left have their rules.
LEMMA RemoveFollow ==
  ASSUME NEW w \in Crew, NEW e \in Monitored, Started(w, e), crew[w].at \in Removing,
         UNCHANGED <<retired, orphaned>>, crew'[w].at \in Removing \ {"find"},
         \A a \in crew'[w].todo : a[2] = "live",
         Homonyms(e) = {e} => RulesDue(w, e)'
  PROVE  FollowOwn(w, e)'
<1> USE StartedFacts
<1>1. e \in retired'
  BY DEF TaskInv
<1>2. PublishInv(w, e)'
  BY DEF PublishInv, Installing, Removing
<1>3. QED
  BY <1>1, <1>2, StartedRules DEF FollowOwn, RulesDue, WithRules

\* A rule of a dataset that is being removed is that of an alert to do.
LEMMA RemovedRules ==
  ASSUME NEW w \in Crew, NEW e \in Monitored, Started(w, e), crew[w].at \in Removing, Homonyms(e) = {e},
         NEW i \in Indexes, IsIn(e, i) \/ Rule(e, i) \in crew[w].seen
  PROVE  /\ crew[w].at = "find" => alertRow[e][i] = "live"
         /\ crew[w].at \in {"drop", "unpost"} => i \in StillToDo(crew[w].todo)
         /\ crew[w].at \in {"destroy", "unmute"} => i \in StillToDo(crew[w].todo) /\ i # IndexOf(w)
         /\ crew[w].at # "metrics"
<1> USE StartedFacts
<1>1. e \in retired /\ DueOwn(w, e, i)
  BY StartedRules DEF TaskInv, RulesDue
<1>2. crew[w].at \in {"destroy", "unmute"} => StillToDo(Rest(w)) = StillToDo(crew[w].todo) \ {IndexOf(w)}
  BY RestAhead DEF InHand
<1>3. QED
  BY <1>1, <1>2 DEF DueOwn, WithRules

\* The steps of the removal.
LEMMA FindFollow ==
  ASSUME NEW w \in Crew, NEW e \in Monitored, Started(w, e), FindAlerts(w)
  PROVE  FollowOwn(w, e)'
<1> USE StartedFacts
<1>1. /\ crew[w].at = "find" /\ crew[w].seen = {} /\ UNCHANGED <<retired, orphaned, group, alertRow>>
      /\ crew'[w].at = "drop" /\ crew'[w].todo = AlertsOf(e) /\ crew'[w].seen = {}
  BY DEF FindAlerts, AlertsToDelete, On, tablesOfAlerts, Tasks, TaskInv
<1>2. \A a \in crew'[w].todo : a[2] = "live"
  <2>1. \A a \in AlertsOf(e) : a[1] \in Indexes /\ alertRow[e][a[1]] = a[2] /\ a[2] \in {"draft", "live"}
    BY AlertsOfTypes
  <2>2. \A i \in Indexes : alertRow[e][i] # "draft"
    BY <1>1 DEF PublishInv
  <2>3. QED
    BY <1>1, <2>1, <2>2
<1>3. ASSUME Homonyms(e) = {e} PROVE RulesDue(w, e)'
  <2>1. \A i \in Indexes : IsIn(e, i) => i \in RowsFor(e)
    BY <1>1, <1>3, RemovedRules DEF Removing, RowsFor
  <2>2. QED
    BY <1>1, <2>1, StartedRules, AlertsOfTypes DEF RulesDue, DueOwn
<1>4. QED
  BY <1>1, <1>2, <1>3, RemoveFollow DEF Removing

LEMMA NextAlertFollow ==
  ASSUME NEW w \in Crew, NEW e \in Monitored, Started(w, e), NextAlert(w)
  PROVE  FollowOwn(w, e)'
<1> USE StartedFacts
<1>1. /\ crew[w].at = "drop" /\ crew[w].seen = {} /\ UNCHANGED <<retired, orphaned, group>>
      /\ \A a \in crew[w].todo : a[2] = "live"
  BY DEF NextAlert, On, tablesOfAlerts, TaskInv, PublishInv, Removing
<1>2. Homonyms(e) = {e} => \A i \in Indexes : IsIn(e, i) => i \in StillToDo(crew[w].todo)
  BY <1>1, RemovedRules DEF Removing
<1>3. CASE crew[w].todo = {} /\ Turn(w, "metrics")
  <2>1. crew'[w].at = "metrics" /\ crew'[w].todo = crew[w].todo /\ crew'[w].seen = {}
    BY <1>3, TurnTypes DEF Steps, Removing
  <2>2. Homonyms(e) = {e} => \A i \in Indexes : ~ IsIn(e, i)
    BY <1>2, <1>3 DEF StillToDo
  <2>3. Homonyms(e) = {e} => RulesDue(w, e)'
    BY <1>1, <2>1, <2>2, StartedRules DEF RulesDue
  <2>4. QED
    BY <1>1, <2>1, <2>3, RemoveFollow DEF Removing
<1>4. CASE crew[w].todo # {} /\ crew' = [crew EXCEPT ![w].at = "unpost", ![w].seen = group[GroupOf(w)]]
  <2>1. crew'[w].at = "unpost" /\ crew'[w].todo = crew[w].todo /\ crew'[w].seen = group[GroupOf(w)]
    BY <1>4 DEF Tasks
  <2>2. \A i \in Indexes : Rule(e, i) \in group[GroupOf(w)] => IsIn(e, i)
    <3>1. GroupOf(w) \in Sections
      BY <1>4, WorkTypes
    <3>2. \A rule \in group[GroupOf(w)] : Templates[rule[2]] = GroupOf(w)
      BY <3>1 DEF RulesByCategory
    <3>3. QED
      BY <3>2 DEF Rule, IsIn
  <2>3. Homonyms(e) = {e} => RulesDue(w, e)'
    BY <1>1, <1>2, <2>1, <2>2, StartedRules DEF RulesDue, DueOwn
  <2>4. QED
    BY <1>1, <2>1, <2>3, RemoveFollow DEF Removing
<1>5. CASE crew[w].todo # {} /\ group[GroupOf(w)] = {} /\ Turn(w, "destroy")
  <2>1. /\ crew'[w].at = "destroy" /\ crew'[w].todo = crew[w].todo /\ crew'[w].seen = {}
        /\ Rest(w)' = Rest(w)
    BY <1>5, TurnTypes, SameTodo DEF Steps, Removing
  <2>2. StillToDo(Rest(w)) = StillToDo(crew[w].todo) \ {IndexOf(w)}
    BY <1>5, WorkTypes, RestAhead
  <2>3. ~ IsIn(e, IndexOf(w))
    BY <1>5 DEF IsIn, GroupOf
  <2>4. Homonyms(e) = {e} => RulesDue(w, e)'
    BY <1>1, <1>2, <2>1, <2>2, <2>3, StartedRules DEF RulesDue, DueOwn
  <2>5. QED
    BY <1>1, <2>1, <2>4, RemoveFollow DEF Removing
<1>6. crew[w].todo # {} => Current(w)[2] = "live"
  BY <1>1, WorkTypes
<1>7. QED
  BY <1>3, <1>4, <1>5, <1>6 DEF NextAlert

LEMMA UnpostFollow ==
  ASSUME NEW w \in Crew, NEW e \in Monitored, Started(w, e), UnpostRule(w)
  PROVE  FollowOwn(w, e)'
<1> USE StartedFacts
<1>1. /\ crew[w].at = "unpost" /\ UNCHANGED <<retired, orphaned>>
      /\ \A a \in crew[w].todo : a[2] = "live"
      /\ GroupOf(w) \in Sections
      /\ group' = [group EXCEPT ![GroupOf(w)] = WithoutRule(crew[w].seen, RuleOf(w))]
  BY DEF UnpostRule, On, tablesOfAlerts, PublishInv, Removing, InHand
<1>2. /\ crew'[w].at = "destroy" /\ crew'[w].todo = crew[w].todo /\ crew'[w].seen = {} /\ Rest(w)' = Rest(w)
  BY TurnTypes, SameTodo DEF UnpostRule, Steps, Removing
<1>3. StillToDo(Rest(w)) = StillToDo(crew[w].todo) \ {IndexOf(w)}
  BY <1>1, RestAhead DEF InHand
<1>4. \A i \in Indexes : IsIn(e, i)' => (IsIn(e, i) \/ Rule(e, i) \in crew[w].seen) /\ i # IndexOf(w)
  <2> SUFFICES ASSUME NEW i \in Indexes, IsIn(e, i)'
               PROVE  (IsIn(e, i) \/ Rule(e, i) \in crew[w].seen) /\ i # IndexOf(w)
    OBVIOUS
  <2>1. Rule(e, i) \in group'[Templates[i]]
    BY StartedRules DEF IsIn
  <2>2. CASE Templates[i] = GroupOf(w)
    <3>1. Rule(e, i) \in crew[w].seen /\ Rule(e, i) # RuleOf(w)
      BY <1>1, <2>1, <2>2 DEF RulesByCategory, WithoutRule
    <3>2. i # IndexOf(w)
      BY <3>1 DEF RuleOf
    <3>3. QED
      BY <3>1, <3>2
  <2>3. CASE Templates[i] # GroupOf(w)
    <3>1. Rule(e, i) \in group[Templates[i]]
      BY <1>1, <2>1, <2>3 DEF RulesByCategory, Sections
    <3>2. QED
      BY <2>3, <3>1 DEF IsIn, GroupOf
  <2>4. QED
    BY <2>2, <2>3
<1>5. ASSUME Homonyms(e) = {e} PROVE RulesDue(w, e)'
  <2>1. \A i \in Indexes : IsIn(e, i) \/ Rule(e, i) \in crew[w].seen => i \in StillToDo(crew[w].todo)
    BY <1>1, <1>5, RemovedRules DEF Removing
  <2>2. QED
    BY <1>2, <1>3, <1>4, <2>1 DEF RulesDue, DueOwn
<1>6. QED
  BY <1>1, <1>2, <1>5, RemoveFollow DEF Removing

LEMMA DestroyFollow ==
  ASSUME NEW w \in Crew, NEW e \in Monitored, Started(w, e), DestroyAlert(w)
  PROVE  FollowOwn(w, e)'
<1> USE StartedFacts
<1>1. /\ crew[w].at = "destroy" /\ UNCHANGED <<retired, orphaned, group>>
      /\ \A a \in crew[w].todo : a[2] = "live"
  BY DEF DestroyAlert, On, PublishInv, Removing
<1>2. /\ crew'[w].at = "unmute" /\ crew'[w].todo = crew[w].todo /\ crew'[w].seen = {} /\ Rest(w)' = Rest(w)
  BY TurnTypes, SameTodo DEF DestroyAlert, Steps, Removing
<1>3. StillToDo(Rest(w)) = StillToDo(crew[w].todo) \ {IndexOf(w)}
  BY <1>1, RestAhead DEF InHand
<1>4. ASSUME Homonyms(e) = {e} PROVE RulesDue(w, e)'
  <2>1. \A i \in Indexes : IsIn(e, i) => i \in StillToDo(Rest(w))
    BY <1>1, <1>3, <1>4, RemovedRules DEF Removing
  <2>2. QED
    BY <1>1, <1>2, <2>1, StartedRules DEF RulesDue, DueOwn
<1>5. QED
  BY <1>1, <1>2, <1>4, RemoveFollow DEF Removing

LEMMA UnmuteFollow ==
  ASSUME NEW w \in Crew, NEW e \in Monitored, Started(w, e), Unmute(w)
  PROVE  FollowOwn(w, e)'
<1> USE StartedFacts
<1>1. /\ crew[w].at = "unmute" /\ crew[w].seen = {} /\ UNCHANGED <<retired, orphaned, group>>
      /\ \A a \in crew[w].todo : a[2] = "live"
      /\ crew' = [crew EXCEPT ![w].at = "drop", ![w].todo = Rest(w)]
  BY DEF Unmute, On, PublishInv, Removing, TaskInv
<1>2. crew'[w].at = "drop" /\ crew'[w].todo = Rest(w) /\ crew'[w].seen = {} /\ Rest(w) \subseteq crew[w].todo
  BY <1>1 DEF Tasks, Rest
<1>3. StillToDo(Rest(w)) = StillToDo(crew[w].todo) \ {IndexOf(w)}
  BY <1>1, RestAhead DEF InHand
<1>4. ASSUME Homonyms(e) = {e} PROVE RulesDue(w, e)'
  <2>1. \A i \in Indexes : IsIn(e, i) => i \in StillToDo(Rest(w))
    BY <1>1, <1>3, <1>4, RemovedRules DEF Removing
  <2>2. QED
    BY <1>1, <1>2, <2>1, StartedRules DEF RulesDue, DueOwn
<1>5. QED
  BY <1>1, <1>2, <1>4, RemoveFollow DEF Removing

LEMMA DropFollow ==
  ASSUME NEW w \in Crew, NEW e \in Monitored, Started(w, e), DropMetrics(w)
  PROVE  FollowOwn(w, e)'
<1> USE StartedFacts
<1>1. /\ crew[w].at = "metrics" /\ e \in retired /\ UNCHANGED <<retired, orphaned, group, alertRow, muted>>
      /\ metricRow'[e] = {}
  BY DEF DropMetrics, On, TaskInv, Removing, TableTypes
<1>2. crew'[w].at = "idle" /\ crew'[w].seen = {}
  BY LeaveTypes DEF DropMetrics, NoTask
<1>3. RowsFor(e) = {} /\ muted[e] = {}
  BY <1>1 DEF Started, ClearOwn, ToRemove, Removing
<1>4. AlertsGone(e)'
  BY <1>1, <1>3 DEF AlertsGone, RowsFor
<1>5. PublishInv(w, e)'
  BY <1>2 DEF PublishInv, Installing, Removing
<1>6. ASSUME Homonyms(e) = {e} PROVE \A i \in Indexes : ~ IsIn(e, i)
  BY <1>1, <1>6, RemovedRules DEF Removing
<1>7. Homonyms(e)' = {e} => RulesDue(w, e)'
  BY <1>1, <1>2, <1>6, StartedRules DEF RulesDue
<1>8. QED
  BY <1>1, <1>4, <1>5, <1>7 DEF FollowOwn, RulesDue, WithRules

\* The alerts follow the dataset in every step of a transition in which nothing fails.
LEMMA FollowStep ==
  ASSUME NEW w \in Crew, NEW e \in Monitored, Started(w, e), StepOf(w)
  PROVE  FollowOwn(w, e)'
  BY SaveFollow, CommandFollow, ListFollow, ReadFollow, PostFollow, MarkFollow, RetireFollow, FindFollow,
     NextAlertFollow, UnpostFollow, DestroyFollow, UnmuteFollow, DropFollow DEF StepOf

-----------------------------------------------------------------------------
(* Orders, and silences of users. *)

\* An order for a dataset finds no transition at work on it, or makes it crossed.
LEMMA OrderAlone ==
  ASSUME AlertTypes, NEW w \in Crew, NEW e \in Monitored, NEW step \in {"save", "retire"}, TakeOrder(w, e, step),
         NEW d \in Monitored \ crossed'
  PROVE  /\ d \notin crossed /\ (\A v \in Busy : crew[v].of # d)
         /\ Busy' \subseteq Busy \cup {w} /\ (\A v \in Busy : crew'[v] = crew[v]) /\ (d = e => Busy = {})
         /\ crew'[w] = [at |-> step, of |-> e, new |-> dataset[e] = "none", todo |-> {}, seen |-> {}]
         /\ w \notin Busy
         /\ UNCHANGED <<title, dataset, alertRow, metricRow, muted, orphaned, group, retired, harmed>>
<1>1. /\ w \notin Busy /\ \A v \in Crew \ {w} : crew'[v] = crew[v]
      /\ crew'[w] = [at |-> step, of |-> e, new |-> dataset[e] = "none", todo |-> {}, seen |-> {}]
  BY OrderTypes
<1>2. crossed' = IF Busy = {} THEN crossed ELSE crossed \cup {e} \cup { crew[v].of : v \in Busy }
  BY DEF TakeOrder
<1>3. d \notin crossed /\ (\A v \in Busy : crew[v].of # d) /\ (d = e => Busy = {})
  BY <1>2
<1>4. Busy' \subseteq Busy \cup {w} /\ \A v \in Busy : crew'[v] = crew[v]
  BY <1>1 DEF Busy
<1>5. UNCHANGED <<title, dataset, alertRow, metricRow, muted, orphaned, group, retired, harmed>>
  BY DEF TakeOrder, tablesOfAlerts
<1>6. QED
  BY <1>1, <1>3, <1>4, <1>5

\* What is asked of a dataset stays so when an order is taken or a silence is made.
LEMMA OrderClear ==
  ASSUME AlertTypes, NEW w \in Crew, NEW e \in Monitored, NEW step \in {"save", "retire"}, TakeOrder(w, e, step),
         NEW d \in Monitored \ crossed', RemovalInv(d)
  PROVE  RemovalInv(d)'
<1>0. /\ d \notin crossed /\ (\A v \in Busy : crew[v].of # d)
      /\ Busy' \subseteq Busy \cup {w} /\ (\A v \in Busy : crew'[v] = crew[v]) /\ (d = e => Busy = {})
      /\ crew'[w] = [at |-> step, of |-> e, new |-> dataset[e] = "none", todo |-> {}, seen |-> {}]
      /\ w \notin Busy
      /\ UNCHANGED <<title, dataset, alertRow, metricRow, muted, orphaned, group, retired, harmed>>
  BY OrderAlone
<1>1. RowsFor(d)' = RowsFor(d) /\ UNCHANGED <<muted, orphaned>>
  BY <1>0 DEF RowsFor
<1>2. \A v \in Busy' : crew'[v].of = d => crew'[v].at \notin Removing
  BY <1>0 DEF Removing
<1>3. \A i \in muted[d] \ orphaned[d] : i \in RowsFor(d)
  BY <1>0 DEF RemovalInv
<1>4. QED
  BY <1>1, <1>2, <1>3 DEF RemovalInv

LEMMA OrderFollow ==
  ASSUME AlertTypes, NEW w \in Crew, NEW e \in Monitored, NEW step \in {"save", "retire"}, TakeOrder(w, e, step),
         step = "retire" => dataset[e] = "Live",
         NEW d \in Monitored \ crossed', FollowInv(d)
  PROVE  FollowInv(d)'
<1>0. /\ d \notin crossed /\ (\A v \in Busy : crew[v].of # d)
      /\ Busy' \subseteq Busy \cup {w} /\ (\A v \in Busy : crew'[v] = crew[v]) /\ (d = e => Busy = {})
      /\ crew'[w] = [at |-> step, of |-> e, new |-> dataset[e] = "none", todo |-> {}, seen |-> {}]
      /\ w \notin Busy
      /\ UNCHANGED <<title, dataset, alertRow, metricRow, muted, orphaned, group, retired, harmed>>
  BY OrderAlone
<1>1. /\ RowsFor(d)' = RowsFor(d) /\ (AlertsGone(d)' <=> AlertsGone(d)) /\ (WithRules(d)' <=> WithRules(d))
      /\ Homonyms(d)' = Homonyms(d) /\ alertRow' = alertRow /\ orphaned' = orphaned /\ retired' = retired
      /\ dataset' = dataset
      /\ \A i \in Indexes : Rule(d, i)' = Rule(d, i) /\ (IsIn(d, i)' <=> IsIn(d, i))
  BY <1>0 DEF RowsFor, AlertsGone, WithRules, Homonyms, Rule, IsIn
<1>2. \A v \in Busy' : crew'[v].of = d => v = w /\ d = e
  BY <1>0
<1>3. PublishInv(w, e)'
  <2>1. crew'[w].at \in {"save", "retire"} /\ (crew'[w].at = "retire" => dataset[e] = "Live")
    BY <1>0
  <2>2. crew'[w].new <=> dataset[e] = "none"
    <3>1. crew'[w].new = (dataset[e] = "none")
      BY <1>0
    <3>2. QED
      BY <3>1
  <2>3. QED
    BY <1>1, <2>1, <2>2 DEF PublishInv, Installing, Removing
<1>4. ~ AtWork(d, Installing) /\ ~ AtWork(d, Removing)
  BY <1>0 DEF AtWork
<1>5. ASSUME Homonyms(d) = {d}, NEW i \in Indexes, IsIn(d, i)' \/ \E v \in Crew : Rule(d, i)' \in crew'[v].seen
      PROVE  RuleDue(d, i)'
  <2>1. IsIn(d, i) \/ \E v \in Crew : Rule(d, i) \in crew[v].seen
    <3>1. \A v \in Crew \ {w} : crew'[v] = crew[v]
      BY OrderTypes
    <3>2. crew'[w].seen = {}
      BY <1>0
    <3>3. QED
      BY <1>1, <1>5, <3>1, <3>2
  <2>2. RuleDue(d, i)
    BY <1>5, <2>1 DEF FollowInv
  <2>3. WithRules(d)
    BY <1>0, <2>2 DEF RuleDue
  <2>4. QED
    BY <1>1, <2>3 DEF RuleDue
<1>6. QED
  BY <1>1, <1>2, <1>3, <1>4, <1>5 DEF FollowInv

LEMMA MuteKeeps ==
  ASSUME AlertTypes, NEW e \in Monitored, NEW i \in Indexes, MuteAlert(e, i), NEW d \in Monitored
  PROVE  /\ RemovalInv(d) => RemovalInv(d)'
         /\ FollowInv(d) => FollowInv(d)'
<1>1. /\ UNCHANGED <<title, dataset, alertRow, metricRow, group, crew, retired, harmed, crossed, orphaned>>
      /\ Busy = {} /\ Busy' = {} /\ i \in RowsFor(e)
  BY DEF MuteAlert, Busy, RowsFor
<1>2. /\ RowsFor(d)' = RowsFor(d) /\ (WithRules(d)' <=> WithRules(d)) /\ Homonyms(d)' = Homonyms(d)
      /\ \A j \in Indexes : Rule(d, j)' = Rule(d, j) /\ (IsIn(d, j)' <=> IsIn(d, j))
  BY <1>1 DEF RowsFor, WithRules, Homonyms, Rule, IsIn
<1>3. muted'[d] = IF d = e THEN muted[d] \cup {i} ELSE muted[d]
  BY MuteTypes
<1>4. RemovalInv(d) => RemovalInv(d)'
  BY <1>1, <1>2, <1>3 DEF RemovalInv
<1>5. ASSUME FollowInv(d) PROVE FollowInv(d)'
  <2>1. \A steps : ~ AtWork(d, steps) /\ ~ AtWork(d, steps)'
    BY <1>1 DEF AtWork
  <2>2. \A j \in Indexes : (RuleDue(d, j) <=> WithRules(d)) /\ (RuleDue(d, j)' <=> WithRules(d)')
    BY <1>1 DEF RuleDue
  <2>3. AlertsGone(d) => AlertsGone(d)'
    BY <1>1, <1>2, <1>3 DEF AlertsGone
  <2>4. QED
    BY <1>1, <1>2, <1>5, <2>1, <2>2, <2>3 DEF FollowInv
<1>6. QED
  BY <1>4, <1>5

-----------------------------------------------------------------------------

\* The inductive invariant at first, and after every step.
LEMMA AlertInitial == DatasetAlertsInit => DatasetAlertInv
<1> SUFFICES ASSUME DatasetAlertsInit PROVE DatasetAlertInv
  OBVIOUS
<1>1. AlertTypes
  BY AlertTypesInitial
<1>2. Busy = {} /\ (\A w \in Crew : crew[w] = NoTask)
  BY DEF DatasetAlertsInit, Busy, NoTask
<1>3. \A d \in Monitored : RowsFor(d) = {} /\ AlertsGone(d) /\ ~ WithRules(d)
  BY DEF DatasetAlertsInit, RowsFor, AlertsGone, WithRules
<1>4. \A d \in Monitored, i \in Indexes : ~ IsIn(d, i) /\ alertRow[d][i] = "none"
  BY DEF DatasetAlertsInit, IsIn, Sections
<1>5. TableInv
  BY <1>2, <1>3 DEF TableInv, AlertsComplete, DatasetAlertsInit
<1>6. InstalledInv
  BY <1>2, <1>4 DEF InstalledInv, GroupInv, NoTask
<1>7. ASSUME NEW d \in Monitored PROVE RemovalInv(d) /\ FollowInv(d)
  <2>1. RemovalInv(d)
    BY <1>2 DEF RemovalInv, DatasetAlertsInit
  <2>2. \A v \in Crew : crew[v].seen = {}
    BY <1>2 DEF NoTask
  <2>3. FollowInv(d)
    BY <1>2, <1>3, <1>4, <2>2 DEF FollowInv, DatasetAlertsInit, AtWork
  <2>4. QED
    BY <2>1, <2>3
<1>8. QED
  BY <1>1, <1>5, <1>6, <1>7 DEF DatasetAlertInv

LEMMA AlertStepOf ==
  ASSUME DatasetAlertInv, NEW w \in Crew, StepOf(w)
  PROVE  DatasetAlertInv'
<1>1. AlertTypes /\ TableInv /\ InstalledInv
  BY DEF DatasetAlertInv
<1>2. w \in Busy /\ AlertTypes' /\ StepFrame(w) /\ TableInv' /\ InstalledInv'
  BY <1>1, StepOfTypes, TableStepInv, InstalledStep
<1>3. ASSUME NEW d \in Monitored \ crossed' PROVE RemovalInv(d)' /\ (d \notin harmed' => FollowInv(d)')
  <2>1. d \in Monitored \ crossed /\ title' = title /\ RemovalInv(d) /\ (d \notin harmed' => FollowInv(d))
    BY <1>2, <1>3 DEF StepFrame, DatasetAlertInv
  <2>2. CASE crew[w].of # d
    BY <1>1, <1>2, <2>1, <2>2, OtherClear, OtherFollow, OtherRules
  <2>3. CASE crew[w].of = d
    <3>1. /\ (RemovalInv(d) <=> ClearOwn(w, d)) /\ (RemovalInv(d)' <=> ClearOwn(w, d)')
          /\ (FollowInv(d) <=> FollowOwn(w, d)) /\ (FollowInv(d)' <=> FollowOwn(w, d)')
      BY <1>1, <1>2, <2>1, <2>3, OwnReducesAfter
    <3>2. ClearOwn(w, d)'
      BY <1>1, <2>1, <2>3, <3>1, ClearStep
    <3>3. ASSUME d \notin harmed' PROVE FollowOwn(w, d)'
      <4>1. Started(w, d)
        BY <1>1, <1>2, <2>1, <2>3, <3>1, <3>3 DEF Started
      <4>2. QED
        BY <4>1, FollowStep
    <3>4. QED
      BY <3>1, <3>2, <3>3
  <2>4. QED
    BY <2>2, <2>3
<1>4. QED
  BY <1>2, <1>3 DEF DatasetAlertInv

LEMMA AlertOrder ==
  ASSUME DatasetAlertInv, NEW w \in Crew, NEW e \in Monitored, NEW step \in {"save", "retire"}, TakeOrder(w, e, step),
         step = "retire" => dataset[e] = "Live"
  PROVE  DatasetAlertInv'
<1>1. AlertTypes /\ TableInv /\ InstalledInv
  BY DEF DatasetAlertInv
<1>2. AlertTypes' /\ TableInv' /\ InstalledInv'
  BY <1>1, OrderTypes, TableOrder, InstalledOrder
<1>3. ASSUME NEW d \in Monitored \ crossed' PROVE RemovalInv(d)' /\ (d \notin harmed' => FollowInv(d)')
  <2>1. d \in Monitored \ crossed /\ harmed' = harmed
    BY <1>1, OrderAlone
  <2>2. RemovalInv(d) /\ (d \notin harmed => FollowInv(d))
    BY <2>1 DEF DatasetAlertInv
  <2>3. QED
    BY <1>1, <2>1, <2>2, OrderClear, OrderFollow
<1>4. QED
  BY <1>2, <1>3 DEF DatasetAlertInv

LEMMA AlertMute ==
  ASSUME DatasetAlertInv, NEW e \in Monitored, NEW i \in Indexes, MuteAlert(e, i)
  PROVE  DatasetAlertInv'
<1>1. AlertTypes /\ TableInv /\ InstalledInv
  BY DEF DatasetAlertInv
<1>2. AlertTypes' /\ TableInv' /\ InstalledInv'
  BY <1>1, MuteTypes, TableMute, InstalledMute
<1>3. crossed' = crossed /\ harmed' = harmed
  BY DEF MuteAlert
<1>4. QED
  BY <1>1, <1>2, <1>3, MuteKeeps DEF DatasetAlertInv

LEMMA AlertStill == DatasetAlertInv /\ UNCHANGED alertVars => DatasetAlertInv'
<1> SUFFICES ASSUME DatasetAlertInv, UNCHANGED alertVars PROVE DatasetAlertInv'
  OBVIOUS
<1>1. UNCHANGED <<title, dataset, alertRow, metricRow, muted, group, crew, retired, harmed, crossed, orphaned>>
  BY DEF alertVars
<1>2. \A v \in Crew : /\ Current(v)' = Current(v) /\ IndexOf(v)' = IndexOf(v) /\ GroupOf(v)' = GroupOf(v)
                       /\ Rest(v)' = Rest(v) /\ RuleOf(v)' = RuleOf(v) /\ ToRemove(v)' = ToRemove(v)
  BY <1>1, SameTodo DEF ToRemove
<1>3. \A d : /\ RowsFor(d)' = RowsFor(d) /\ (AlertsGone(d)' <=> AlertsGone(d)) /\ Homonyms(d)' = Homonyms(d)
             /\ (WithRules(d)' <=> WithRules(d))
             /\ \A i : Rule(d, i)' = Rule(d, i) /\ (IsIn(d, i)' <=> IsIn(d, i))
             /\ \A steps : AtWork(d, steps)' <=> AtWork(d, steps)
  BY <1>1 DEF RowsFor, AlertsGone, Homonyms, WithRules, Rule, IsIn, AtWork, Busy
<1>4. Busy' = Busy
  BY <1>1 DEF Busy
<1>5. AlertTypes'
  <2>1. \A v \in Crew : TaskInv(v) => TaskInv(v)'
    BY <1>1, <1>2 DEF TaskInv
  <2>2. DatasetAlertsTypeOK => DatasetAlertsTypeOK'
    BY <1>1 DEF DatasetAlertsTypeOK
  <2>3. QED
    BY <1>1, <2>1, <2>2 DEF DatasetAlertInv, AlertTypes
<1>6. TableInv'
  BY <1>1, <1>3, <1>4 DEF DatasetAlertInv, TableInv, AlertsComplete
<1>7. InstalledInv'
  <2>1. \A v \in Crew : GroupInv(v) => GroupInv(v)'
    BY <1>1, <1>2 DEF GroupInv
  <2>2. QED
    BY <1>1, <1>2, <1>3, <2>1 DEF DatasetAlertInv, InstalledInv, On
<1>8. \A d \in Monitored : RemovalInv(d) => RemovalInv(d)'
  <2> SUFFICES ASSUME NEW d \in Monitored, RemovalInv(d) PROVE RemovalInv(d)'
    OBVIOUS
  <2>1. \A i \in muted[d] \ orphaned[d] :
            i \in RowsFor(d)' \/ \E w \in Busy' : On(w, "unmute")' /\ crew'[w].of = d /\ IndexOf(w)' = i
    BY <1>1, <1>2, <1>3, <1>4 DEF RemovalInv, On, Busy
  <2>2. \A w \in Busy' : crew'[w].of = d /\ crew'[w].at \in Removing \ {"find"} => RowsFor(d)' \subseteq ToRemove(w)'
    BY <1>1, <1>2, <1>3, <1>4 DEF RemovalInv, Busy
  <2>3. QED
    BY <1>1, <2>1, <2>2 DEF RemovalInv
<1>9. \A d \in Monitored : FollowInv(d) => FollowInv(d)'
  <2>1. \A v \in Crew, d \in Monitored : PublishInv(v, d) => PublishInv(v, d)'
    BY <1>1, <1>3 DEF PublishInv
  <2>2. \A d \in Monitored, i \in Indexes : RuleDue(d, i) => RuleDue(d, i)'
    <3>1. \A v \in Busy : v \in Crew /\ crew'[v] = crew[v] /\ Rest(v)' = Rest(v)
      BY <1>1, <1>2 DEF Busy
    <3>2. QED
      BY <1>1, <1>3, <1>4, <3>1 DEF RuleDue, On
  <2>3. QED
    BY <1>1, <1>3, <1>4, <2>1, <2>2 DEF FollowInv, Busy
<1>10. QED
  BY <1>1, <1>5, <1>6, <1>7, <1>8, <1>9 DEF DatasetAlertInv

LEMMA AlertStep == DatasetAlertInv /\ [DatasetAlertsNext]_alertVars => DatasetAlertInv'
<1> SUFFICES ASSUME DatasetAlertInv, [DatasetAlertsNext]_alertVars PROVE DatasetAlertInv'
  OBVIOUS
<1>1. CASE UNCHANGED alertVars
  BY <1>1, AlertStill
<1>2. CASE \E w \in Crew : StepOf(w)
  BY <1>2, AlertStepOf
<1>3. CASE \E w \in Crew : \E d \in Monitored : PublishMonitored(w, d)
  BY <1>3, AlertOrder DEF PublishMonitored
<1>4. CASE \E w \in Crew : \E d \in Monitored : RetireMonitored(w, d)
  BY <1>4, AlertOrder DEF RetireMonitored
<1>5. CASE \E d \in Monitored, i \in Indexes : MuteAlert(d, i)
  BY <1>5, AlertMute
<1>6. QED
  BY <1>1, <1>2, <1>3, <1>4, <1>5 DEF DatasetAlertsNext, StepOf

LEMMA AlertInvariant == DatasetAlertsSpec => []DatasetAlertInv
  BY AlertInitial, AlertStep, PTL DEF DatasetAlertsSpec

\* What is asked of the alerts when no transition of the dataset is at work.
LEMMA AlertInvAgrees == DatasetAlertInv => AlertsAgree
<1> SUFFICES ASSUME DatasetAlertInv PROVE AlertsAgree
  OBVIOUS
<1>1. AlertsComplete
  BY DEF DatasetAlertInv, TableInv
<1>2. \A d \in Monitored : AtEase(d) => d \notin crossed /\ \A w \in Busy : crew[w].of # d
  BY DEF AtEase, Busy
<1>3. LiveAlertsInstalled
  BY DEF DatasetAlertInv, InstalledInv, LiveAlertsInstalled, AtEase
<1>4. AlertsFollowDataset
  <2> SUFFICES ASSUME NEW d \in Monitored, AtEase(d), d \notin harmed
               PROVE  IF WithRules(d) THEN \A i \in Indexes : alertRow[d][i] = "live"
                      ELSE /\ Homonyms(d) = {d} => \A i \in Indexes : ~ IsIn(d, i)
                           /\ d \in retired => AlertsGone(d)
    BY DEF AlertsFollowDataset, WithRules
  <2>1. FollowInv(d) /\ \A steps : ~ AtWork(d, steps)
    BY <1>2 DEF DatasetAlertInv, AtWork
  <2>2. \A i \in Indexes : RuleDue(d, i) => WithRules(d)
    BY <1>2 DEF RuleDue
  <2>3. QED
    BY <2>1, <2>2 DEF FollowInv
<1>5. QED
  BY <1>1, <1>3, <1>4 DEF AlertsAgree

\* The alerts of datasets, their metrics and the rules in Grafana agree with the status of the
\* datasets, whatever fails or overlaps as far as AlertsAgree allows for it.
THEOREM AlertsAgreement == DatasetAlertsSpec => []AlertsAgree
  BY AlertInvariant, AlertInvAgrees, PTL

\* The tables, the groups and the transitions have the form that the steps rely on.
THEOREM AlertTypesKept == DatasetAlertsSpec => []DatasetAlertsTypeOK
<1>1. DatasetAlertInv => DatasetAlertsTypeOK
  BY DEF DatasetAlertInv, AlertTypes
<1>2. QED
  BY <1>1, AlertInvariant, PTL

\* The only rules that a step takes from Grafana.
LEMMA RulesKept ==
  ASSUME DatasetAlertInv, [DatasetAlertsNext]_alertVars, crossed = {}, NEW c \in Sections, NEW rule \in group[c] \ group'[c]
  PROVE  \E w \in Crew : On(w, "unpost") /\ title[crew[w].of] = rule[1]
<1>1. AlertTypes /\ TableInv /\ InstalledInv /\ group' # group
  BY DEF DatasetAlertInv
<1>2. PICK w \in Crew : PostRules(w) \/ UnpostRule(w)
  BY <1>1 DEF DatasetAlertsNext, alertVars, PublishMonitored, RetireMonitored, TakeOrder, SaveDrafts, PublishCommand,
      ListAlerts, ReadRules, MarkLive, RetireTables, FindAlerts, NextAlert, DestroyAlert, Unmute, DropMetrics, MuteAlert
<1>3. w \in Busy
  BY <1>2 DEF PostRules, UnpostRule, On, Busy
<1>4. CASE PostRules(w)
  <2>1. crew[w].seen = group[GroupOf(w)]
    BY <1>1, <1>4 DEF PostRules, On, InstalledInv, GroupInv
  <2>2. group' = [group EXCEPT ![GroupOf(w)] = group[GroupOf(w)] \cup {RuleOf(w)}]
    BY <1>1, <1>4, <2>1 DEF PostRules, WithRule
  <2>3. QED
    BY <1>1, <2>2, AlertTypesParts DEF RulesByCategory
<1>5. CASE UnpostRule(w)
  <2>1. rule = RuleOf(w)
    BY <1>1, <1>3, <1>5, UnpostedRule
  <2>2. QED
    BY <1>5, <2>1 DEF RuleOf, Rule, UnpostRule
<1>6. QED
  BY <1>2, <1>4, <1>5

\* What a retirement that succeeds leaves of its dataset.
LEMMA RetirementCleared ==
  ASSUME DatasetAlertInv, [DatasetAlertsNext]_alertVars, NEW w \in Crew, NEW d \in Monitored \ crossed,
         On(w, "metrics"), crew[w].of = d, crew'[w].at = "idle"
  PROVE  RowsFor(d)' = {} /\ metricRow'[d] = {} /\ muted'[d] \subseteq orphaned[d]
<1>1. AlertTypes /\ TableInv /\ w \in Busy /\ crew[w].at = "metrics" /\ crew'[w] # crew[w] /\ RemovalInv(d)
  BY DEF DatasetAlertInv, On, Busy
<1>2. DropMetrics(w)
  <2>1. PICK v \in Crew : StepOf(v) \/ \E e \in Monitored : PublishMonitored(v, e) \/ RetireMonitored(v, e)
    BY <1>1 DEF DatasetAlertsNext, alertVars, MuteAlert, StepOf
  <2>2. v = w
    <3>1. CASE StepOf(v)
      BY <1>1, <3>1, StepOfTypes DEF StepFrame
    <3>2. CASE \E e \in Monitored : PublishMonitored(v, e) \/ RetireMonitored(v, e)
      BY <1>1, <3>2, OrderTypes DEF PublishMonitored, RetireMonitored
    <3>3. QED
      BY <2>1, <3>1, <3>2
  <2>3. StepOf(w)
    BY <1>1, <2>1, <2>2, OrderTypes DEF PublishMonitored, RetireMonitored
  <2>4. QED
    BY <1>1, <2>3 DEF StepOf, SaveDrafts, PublishCommand, ListAlerts, ReadRules, PostRules, MarkLive, RetireTables,
        FindAlerts, NextAlert, UnpostRule, DestroyAlert, Unmute, On
<1>3. RowsFor(d) = {}
  BY <1>1 DEF RemovalInv, Removing, ToRemove
<1>4. muted[d] \subseteq orphaned[d]
  <2>1. \A v \in Busy : v = w
    BY <1>1, Alone
  <2>2. QED
    BY <1>1, <1>3, <2>1 DEF RemovalInv, On
<1>5. RowsFor(d)' = RowsFor(d) /\ muted' = muted /\ metricRow'[d] = {}
  BY <1>1, <1>2, AlertTypesParts DEF DropMetrics, RowsFor, TableTypes
<1>6. QED
  BY <1>3, <1>4, <1>5

\* A transition takes no rule of another dataset from Grafana, and a retirement that succeeds
\* leaves nothing of its dataset but silences that an earlier one could not delete.
THEOREM AlertsRemovedSoundly == DatasetAlertsSpec => AlertsRemoved
<1>1. DatasetAlertInv /\ [DatasetAlertsNext]_alertVars => RulesOfOthersKept
  BY RulesKept DEF RulesOfOthersKept
<1>2. DatasetAlertInv /\ [DatasetAlertsNext]_alertVars => RetirementClears
  BY RetirementCleared DEF RetirementClears
<1>3. QED
  BY <1>1, <1>2, AlertInvariant, PTL DEF DatasetAlertsSpec, AlertsRemoved

==============================================================================
