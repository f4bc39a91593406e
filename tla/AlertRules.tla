------------------------------ MODULE AlertRules ------------------------------
(***************************************************************************)
(* Alert rules.  The API service keeps them in the table alerts and        *)
(* installs the published ones in Grafana, where the rules of a category   *)
(* are one group in a folder of its own.  Grafana knows groups only: to    *)
(* add or to remove a rule, a handler reads the group, changes its copy    *)
(* and posts the whole group.  Between any two calls of a handler the      *)
(* handlers of other requests run.                                         *)
(*                                                                         *)
(* The content of a rule is left out; an update keeps name and category.   *)
(***************************************************************************)
EXTENDS Naturals, FiniteSets

CONSTANTS
    Alerts,     \* alert ids; one that is deleted is not used again
    Name,       \* the name of each alert, which is that of its rule
    Category,   \* the category of each name
    System,     \* the alerts that the system rules ingestor creates
    Requests,   \* slots for API requests in progress at the same time
    Scenarios   \* the sets of failures to be considered

AllFaults == {"refuse",   \* a call of Grafana fails
              "no_reply", \* a call of Grafana takes effect, and the handler sees an error
              "crash",    \* the API service restarts and its handlers are lost
              "aliases",  \* the ingestor cannot delete its metric aliases
              "created"}  \* the ingestor does not see the reply to the creation of a rule

GrafanaFaults == {"refuse", "no_reply"}

ASSUME SystemAssumption == System \subseteq Alerts /\ Alerts # {}
ASSUME ScenariosAssumption == \A S \in Scenarios : S \subseteq AllFaults

Names       == {Name[a] : a \in Alerts}
SystemNames == {Name[a] : a \in System}
Categories  == {Category[n] : n \in Names}

\* In Grafana the rules of the system are told by their label alertSource, here by name.
ASSUME NamesAssumption == \A a \in Alerts \ System : Name[a] \notin SystemNames

NoGroups    == [c \in Categories |-> {}]
AnyAlert    == CHOOSE a \in Alerts : TRUE
Home(a)     == Category[Name[a]]

Kinds == {"publish", "update", "retire", "delete", "delete_system"}

VARIABLES
    faults,   \* the failures that may happen, which never changes
    status,   \* the table alerts
    rules,    \* Grafana: the names in the group of each category, {} if there is no group
    folder,   \* Grafana: the categories that have a folder
    pc,       \* the call that the handler of a request makes next
    op,       \* the operation of the request
    al,       \* the alert it is about
    cat,      \* the category of the group that the handler changes
    seen,     \* the groups that the handler has read
    left,     \* the categories that it has not yet cleared of system rules
    answer    \* the answer of the last request of the slot

grafana == <<rules, folder>>
request == <<op, al>>
vars    == <<faults, status, grafana, pc, request, cat, seen, left, answer>>

Pcs == {"idle", "drop_read", "drop_post", "drop_group", "drop_folder", "drop_status",
        "update_write", "rule_read", "rule_folder", "rule_create", "rule_post",
        "rule_status", "system_read", "system_next", "system_folder"}

TypeOK ==
    /\ faults \in Scenarios
    /\ status \in [Alerts -> {"none", "draft", "live", "retired", "gone"}]
    /\ rules \in [Categories -> SUBSET Names]
    /\ folder \subseteq Categories
    /\ pc \in [Requests -> Pcs]
    /\ op \in [Requests -> Kinds \cup {"none"}]
    /\ al \in [Requests -> Alerts]
    /\ cat \in [Requests -> Categories]
    /\ seen \in [Requests -> [Categories -> SUBSET Names]]
    /\ left \in [Requests -> SUBSET Categories]
    /\ answer \in [Requests -> {"none", "ok", "error"}]
    /\ \A c \in Categories : \A n \in rules[c] : c = Category[n] /\ c \in folder

Init ==
    /\ faults \in Scenarios
    /\ status = [a \in Alerts |-> "none"]
    /\ rules = NoGroups
    /\ folder = {}
    /\ pc = [r \in Requests |-> "idle"]
    /\ op = [r \in Requests |-> "none"]
    /\ al = [r \in Requests |-> AnyAlert]
    /\ cat = [r \in Requests |-> Home(AnyAlert)]
    /\ seen = [r \in Requests |-> NoGroups]
    /\ left = [r \in Requests |-> {}]
    /\ answer = [r \in Requests |-> "none"]

-----------------------------------------------------------------------------
(* Handlers. *)

At(r, step)   == pc[r] = step
Goto(r, next) == pc' = [pc EXCEPT ![r] = next] /\ UNCHANGED <<request, cat, left, answer>>

Done(r, result) ==
    /\ pc' = [pc EXCEPT ![r] = "idle"]
    /\ op' = [op EXCEPT ![r] = "none"]
    /\ al' = [al EXCEPT ![r] = AnyAlert]
    /\ cat' = [cat EXCEPT ![r] = Home(AnyAlert)]
    /\ seen' = [seen EXCEPT ![r] = NoGroups]
    /\ left' = [left EXCEPT ![r] = {}]
    /\ answer' = [answer EXCEPT ![r] = result]

\* Clients send a request about an alert when no other about its category is in progress,
\* and one about the system rules when none is at all.
MayStart(a) ==
    \A q \in Requests :
        At(q, "idle") \/ (op[q] # "delete_system" /\ Home(al[q]) # Home(a))

MayStartSystem == \A q \in Requests : At(q, "idle")

Begin(r, kind, a, next) ==
    /\ At(r, "idle")
    /\ pc' = [pc EXCEPT ![r] = next]
    /\ op' = [op EXCEPT ![r] = kind]
    /\ al' = [al EXCEPT ![r] = a]
    /\ cat' = [cat EXCEPT ![r] = Home(a)]
    /\ answer' = [answer EXCEPT ![r] = "none"]
    /\ UNCHANGED <<status, grafana, seen, left>>

\* UPDATE alerts ... WHERE id = a: a row that is gone is not written.
SetStatus(a, s) == status' = IF status[a] = "gone" THEN status ELSE [status EXCEPT ![a] = s]

InTable(a) == status[a] \notin {"none", "gone"}

\* POST of the group of category c, made from what the handler has read: Grafana replaces
\* the group.
Post(c, group) ==
    /\ c \in folder
    /\ rules' = [rules EXCEPT ![c] = group]
    /\ UNCHANGED folder

Refused(c) == (c \notin folder \/ "refuse" \in faults) /\ UNCHANGED grafana

-----------------------------------------------------------------------------
(* The first read of a handler: a request about an alert that is not in    *)
(* the table changes nothing.                                              *)

\* The column name is unique.
CreateAlert(a) ==
    /\ status[a] = "none"
    /\ \A b \in Alerts : InTable(b) => Name[b] # Name[a]
    /\ status' = [status EXCEPT ![a] = "draft"]
    /\ UNCHANGED <<grafana, pc, request, cat, seen, left, answer>>

Publish(r, a) ==
    /\ InTable(a)
    /\ Begin(r, "publish", a, IF status[a] = "live" THEN "drop_read" ELSE "rule_read")

Update(r, a) ==
    /\ InTable(a)
    /\ Begin(r, "update", a, IF status[a] = "live" THEN "drop_read" ELSE "update_write")

\* hardDelete is "delete".
Delete(r, a, kind) ==
    /\ kind \in {"retire", "delete"} /\ InTable(a)
    /\ Begin(r, kind, a, IF status[a] = "live" THEN "drop_read" ELSE "drop_status")

-----------------------------------------------------------------------------
(* deleteAlertRule: what goes wrong with Grafana is logged, and the row is *)
(* written all the same.                                                   *)

DropRead(r) ==
    /\ At(r, "drop_read")
    /\ LET group == rules[cat[r]] IN
         \/ /\ group # {}
            /\ seen' = [seen EXCEPT ![r] = rules]
            /\ Goto(r, IF Cardinality(group) > 1 THEN "drop_post" ELSE "drop_group")
         \/ /\ group = {} \/ "refuse" \in faults
            /\ Goto(r, "drop_status") /\ UNCHANGED seen
    /\ UNCHANGED <<status, grafana>>

\* Mutant: the group is posted as it was read.
DropPost_Unfiltered(r) ==
    /\ At(r, "drop_post")
    /\ LET group == seen[r][cat[r]] IN
         \/ Post(cat[r], group)
         \/ Refused(cat[r])
    /\ Goto(r, "drop_status")
    /\ UNCHANGED <<status, seen>>

DropPost(r) ==
    /\ At(r, "drop_post")
    /\ LET group == seen[r][cat[r]] \ {Name[al[r]]} IN
         \/ Post(cat[r], group)
         \/ Refused(cat[r])
    /\ Goto(r, "drop_status")
    /\ UNCHANGED <<status, seen>>

\* The only rule of the group: the group is deleted, and the folder after it.
DropGroup(r) ==
    /\ At(r, "drop_group")
    /\ \/ /\ rules' = [rules EXCEPT ![cat[r]] = {}]
          /\ \/ Goto(r, "drop_folder")
             \/ "no_reply" \in faults /\ Goto(r, "drop_status")
       \/ "refuse" \in faults /\ Goto(r, "drop_status") /\ UNCHANGED rules
    /\ UNCHANGED <<status, folder, seen>>

\* Grafana does not delete a folder that has rules.
DeleteFolder(c) ==
    \/ rules[c] = {} /\ folder' = folder \ {c}
    \/ (rules[c] # {} \/ c \notin folder \/ "refuse" \in faults) /\ UNCHANGED folder

DropFolder(r) ==
    /\ At(r, "drop_folder")
    /\ DeleteFolder(cat[r])
    /\ Goto(r, "drop_status")
    /\ UNCHANGED <<status, rules, seen>>

\* Then a live alert that is published is published anew, one that is updated is written.
\* Before it is, its silence is deleted in Grafana, and an error there ends the update.
DropStatus(r) ==
    /\ At(r, "drop_status")
    /\ SetStatus(al[r], IF op[r] = "delete" THEN "gone" ELSE "retired")
    /\ CASE op[r] = "publish" -> Goto(r, "rule_read") /\ UNCHANGED seen
         [] op[r] = "update"  -> \/ Goto(r, "update_write") /\ UNCHANGED seen
                                 \/ GrafanaFaults \cap faults # {} /\ Done(r, "error")
         [] OTHER             -> Done(r, "ok")
    /\ UNCHANGED grafana

UpdateWrite(r) ==
    /\ At(r, "update_write")
    /\ SetStatus(al[r], "draft")
    /\ Done(r, "ok")
    /\ UNCHANGED grafana

-----------------------------------------------------------------------------
(* publishAlert *)

\* checkIfRuleExists: a rule of that name in the group is an error.
RuleRead(r) ==
    /\ At(r, "rule_read")
    /\ LET group == rules[cat[r]] IN
         \/ /\ Name[al[r]] \notin group
            /\ seen' = [seen EXCEPT ![r] = rules]
            /\ Goto(r, IF group = {} THEN "rule_folder" ELSE "rule_post")
         \/ /\ Name[al[r]] \in group \/ "refuse" \in faults
            /\ Done(r, "error")
    /\ UNCHANGED <<status, grafana>>

\* createFolderIfNotExists
RuleFolder(r) ==
    /\ At(r, "rule_folder")
    /\ \/ Goto(r, IF cat[r] \in folder THEN "rule_post" ELSE "rule_create") /\ UNCHANGED seen
       \/ "refuse" \in faults /\ Done(r, "error")
    /\ UNCHANGED <<status, grafana>>

RuleCreate(r) ==
    /\ At(r, "rule_create")
    /\ \/ /\ cat[r] \notin folder
          /\ folder' = folder \cup {cat[r]}
          /\ \/ Goto(r, "rule_post") /\ UNCHANGED seen
             \/ "no_reply" \in faults /\ Done(r, "error")
       \/ /\ cat[r] \in folder \/ "refuse" \in faults
          /\ UNCHANGED folder
          /\ Done(r, "error")
    /\ UNCHANGED <<status, rules>>

\* Mutant: the group is posted with the new rule alone.
RulePost_Alone(r) ==
    /\ At(r, "rule_post")
    /\ LET group == {Name[al[r]]} IN
         \/ /\ Post(cat[r], group)
            /\ \/ Goto(r, "rule_status") /\ UNCHANGED seen
               \/ "no_reply" \in faults /\ Done(r, "error")
         \/ Refused(cat[r]) /\ Done(r, "error")
    /\ UNCHANGED status

RulePost(r) ==
    /\ At(r, "rule_post")
    /\ LET group == seen[r][cat[r]] \cup {Name[al[r]]} IN
         \/ /\ Post(cat[r], group)
            /\ \/ Goto(r, "rule_status") /\ UNCHANGED seen
               \/ "no_reply" \in faults /\ Done(r, "error")
         \/ Refused(cat[r]) /\ Done(r, "error")
    /\ UNCHANGED status

RuleStatus(r) ==
    /\ At(r, "rule_status")
    /\ SetStatus(al[r], "live")
    /\ Done(r, "ok")
    /\ UNCHANGED grafana

-----------------------------------------------------------------------------
(* deleteSystemAlertsHandler *)

DeleteSystem(r) == Begin(r, "delete_system", AnyAlert, "system_read")

SystemRead(r) ==
    /\ At(r, "system_read")
    /\ \/ /\ seen' = [seen EXCEPT ![r] = rules]
          /\ left' = [left EXCEPT ![r] = {c \in Categories : rules[c] # {}}]
          /\ pc' = [pc EXCEPT ![r] = "system_next"]
          /\ UNCHANGED <<request, cat, answer>>
       \/ "refuse" \in faults /\ Done(r, "error")
    /\ UNCHANGED <<status, grafana>>

\* What goes wrong with a group is logged, and the next one is cleared.
SystemClear(r, c) ==
    /\ At(r, "system_next") /\ c \in left[r]
    /\ left' = [left EXCEPT ![r] = @ \ {c}]
    /\ cat' = [cat EXCEPT ![r] = c]
    /\ LET keep == seen[r][c] \ SystemNames IN
         \/ Refused(c) /\ UNCHANGED pc
         \/ keep # {} /\ Post(c, keep) /\ UNCHANGED pc
         \/ /\ keep = {}
            /\ rules' = [rules EXCEPT ![c] = {}]
            /\ \/ pc' = [pc EXCEPT ![r] = "system_folder"]
               \/ "no_reply" \in faults /\ UNCHANGED pc
            /\ UNCHANGED folder
    /\ UNCHANGED <<status, request, seen, answer>>

SystemFolder(r) ==
    /\ At(r, "system_folder")
    /\ DeleteFolder(cat[r])
    /\ Goto(r, "system_next")
    /\ UNCHANGED <<status, rules, seen>>

SystemDestroy(r) ==
    /\ At(r, "system_next") /\ left[r] = {}
    /\ status' = [a \in Alerts |-> IF a \in System /\ InTable(a) THEN "gone" ELSE status[a]]
    /\ Done(r, "ok")
    /\ UNCHANGED grafana

-----------------------------------------------------------------------------

NextStep(r) ==
    \/ DropRead(r) \/ DropPost(r) \/ DropGroup(r) \/ DropFolder(r) \/ DropStatus(r)
    \/ UpdateWrite(r)
    \/ RuleRead(r) \/ RuleFolder(r) \/ RuleCreate(r) \/ RulePost(r) \/ RuleStatus(r)
    \/ SystemRead(r) \/ SystemFolder(r) \/ SystemDestroy(r)
    \/ \E c \in Categories : SystemClear(r, c)

Client(r, a) ==
    /\ MayStart(a)
    /\ \/ Publish(r, a) \/ Update(r, a)
       \/ \E kind \in {"retire", "delete"} : Delete(r, a, kind)

Crash ==
    /\ "crash" \in faults
    /\ \E r \in Requests : ~At(r, "idle")
    /\ pc' = [r \in Requests |-> "idle"]
    /\ op' = [r \in Requests |-> "none"]
    /\ al' = [r \in Requests |-> AnyAlert]
    /\ cat' = [r \in Requests |-> Home(AnyAlert)]
    /\ seen' = [r \in Requests |-> NoGroups]
    /\ left' = [r \in Requests |-> {}]
    /\ answer' = [r \in Requests |-> IF At(r, "idle") THEN answer[r] ELSE "error"]
    /\ UNCHANGED <<status, grafana>>

-----------------------------------------------------------------------------
(* Properties. *)

Quiet        == \A r \in Requests : At(r, "idle")
Untouched(a) == \A r \in Requests : At(r, "idle") \/ (op[r] # "delete_system" /\ al[r] # a)
Installed(a) == Name[a] \in rules[Home(a)]

\* As long as no call fails, table and Grafana agree between requests: the rules of Grafana
\* are those of the alerts that are live, each in its category's group, and no empty folder
\* stays behind (publishAlertHandler, updateAlertHandler, deleteAlertHandler,
\* deleteSystemAlertsHandler).
TablesAgree ==
    Quiet /\ faults = {} =>
        \A c \in Categories :
            /\ rules[c] = {Name[a] : a \in {b \in Alerts : status[b] = "live" /\ Home(b) = c}}
            /\ c \in folder <=> rules[c] # {}

\* Unless the service restarts, an alert that is live and not being changed is evaluated by
\* Grafana, whatever happens to the calls of the requests about the others of its group
\* (publishAlert, deleteAlertRule).
LiveHasRule ==
    "crash" \notin faults =>
        \A a \in Alerts : status[a] = "live" /\ Untouched(a) => Installed(a)

\* What the table says of an alert is so in Grafana: entirely as long as no call fails, and
\* for the live ones as long as the service does not restart.
RulesAgree == TablesAgree /\ LiveHasRule

\* Unless the service restarts, a rule leaves Grafana only by a request about its alert, or
\* as a rule of the system: removing the only rule of a group is removing the group, and
\* posting a group replaces all of it (deleteAlert, addGrafanaRule).
OnlyOwnRules ==
    \A a \in Alerts :
        "crash" \notin faults /\ Installed(a) /\ ~Installed(a)' =>
            \E r \in Requests :
                IF op[r] = "delete_system" THEN Name[a] \in SystemNames
                                           ELSE Name[al[r]] = Name[a]

\* A publication that is answered with success has installed the rule, even after a
\* restart has left table and Grafana in disagreement (publishAlertHandler).
PublishTruthful ==
    \A r \in Requests :
        op[r] = "publish" /\ answer'[r] = "ok" /\ op'[r] = "none" =>
            Installed(al[r]) /\ status'[al[r]] = "live"

\* A request about an alert removes the rules of no other, and installs its own.
RequestsAboutOwnRules == [][OnlyOwnRules /\ PublishTruthful]_vars

\* When the system rules have been deleted, they are deleted from Grafana too (the comment
\* on cleanExistingSystemAlerts in the ingestor).
SystemRulesDeleted ==
    [][\A r \in Requests :
          op[r] = "delete_system" /\ answer'[r] = "ok" /\ op'[r] = "none" =>
              \A c \in Categories : rules'[c] \cap SystemNames = {}]_vars

=============================================================================
