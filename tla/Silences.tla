------------------------------ MODULE Silences ------------------------------
(***************************************************************************)
(* Silences of alerts.  A silence is made in Grafana, which gives it its   *)
(* id, and then stored under that id.  A new silence of an alert replaces  *)
(* its row, and nobody waits for the old row to be deleted; the old        *)
(* silence stays in Grafana until it ends.  An alert that is changed, or   *)
(* whose dataset is retired, loses its silence.                            *)
(*                                                                         *)
(* The interval of a silence is left out: none ends by itself.             *)
(***************************************************************************)
EXTENDS Naturals, FiniteSets

CONSTANTS
    SilenceIds,   \* ids that Grafana gives
    Muted,        \* alerts
    Sessions,     \* requests in progress at the same time
    MaxSilencing  \* how many requests there are

NoAlert == "none"
NoId    == "none"

\* The ids of alerts are not the word that marks the absence of one.
ASSUME MutedAssumption == NoAlert \notin Muted

VARIABLES
    silenceRows,  \* table silences: the alert of each id
    inGrafana,    \* the alert of each silence that Grafana has made
    active,       \* the silences of Grafana that have not been deleted
    work,         \* what each request is doing
    destroying,   \* the rows that are being deleted without being waited for
    replaced,     \* the silences that a newer one has taken the place of
    broken,       \* the alerts of which a call failed
    hurried,      \* those whose requests overlapped
    silencings

silenceVars == <<silenceRows, inGrafana, active, work, destroying, replaced, broken, hurried, silencings>>

NoWork == [step |-> "idle", kind |-> "none", alert |-> NoAlert, id |-> NoId]

RowsOf(a)    == { i \in SilenceIds : silenceRows[i] = a }
Working      == { s \in Sessions : work[s].step # "idle" }
Unwritten(i) == [silenceRows EXCEPT ![i] = NoAlert]

SilenceTypeOK ==
    /\ silenceRows \in [SilenceIds -> Muted \cup {NoAlert}]
    /\ inGrafana \in [SilenceIds -> Muted \cup {NoAlert}]
    /\ active \cup replaced \subseteq { i \in SilenceIds : inGrafana[i] # NoAlert }
    /\ \A s \in Sessions :
        /\ work[s].step \in {"idle", "post", "insert", "repost", "rewrite", "disable", "destroy"}
        /\ s \in Working => work[s].alert \in Muted
    /\ destroying \subseteq SilenceIds
    /\ broken \cup hurried \subseteq Muted
    /\ \A i \in SilenceIds : silenceRows[i] # NoAlert => silenceRows[i] = inGrafana[i]

SilenceInit ==
    /\ silenceRows = [i \in SilenceIds |-> NoAlert]
    /\ inGrafana = [i \in SilenceIds |-> NoAlert]
    /\ active = {} /\ destroying = {} /\ replaced = {}
    /\ broken = {} /\ hurried = {}
    /\ work = [s \in Sessions |-> NoWork]
    /\ silencings = 0

-----------------------------------------------------------------------------
(* The handlers.  An await ends a step; the request may end with an error. *)

End(s) == work' = [work EXCEPT ![s] = NoWork]

Then(s, step) == work' = [work EXCEPT ![s].step = step]

\* The handler ends with an error, and the alert may be left half done.
Break(s) == End(s) /\ broken' = broken \cup {work[s].alert}

\* A request on alert a begins. It overlaps with another one on a, or with the deletion of
\* a row of a.
Enter(s, kind, a, id, step) ==
    /\ s \notin Working /\ silencings < MaxSilencing
    /\ silencings' = silencings + 1
    /\ work' = [work EXCEPT ![s] = [step |-> step, kind |-> kind, alert |-> a, id |-> id]]
    /\ hurried' = IF (\E t \in Working : work[t].alert = a) \/ destroying \cap RowsOf(a) # {}
                  THEN hurried \cup {a} ELSE hurried
    /\ UNCHANGED <<silenceRows, inGrafana, active, broken>>

\* The row that a new silence of the alert replaces: findOne finds one of them.
OldRows(a) == IF RowsOf(a) = {} THEN {} ELSE {CHOOSE i \in RowsOf(a) : TRUE}

CreateSilence(s, a) ==
    /\ Enter(s, "create", a, NoId, "post")
    /\ destroying' = destroying \cup OldRows(a)
    /\ replaced' = replaced \cup OldRows(a)

\* By the id of a row, which is looked up first.
UpdateSilence(s, i) ==
    /\ silenceRows[i] # NoAlert
    /\ Enter(s, "update", silenceRows[i], i, "repost")
    /\ UNCHANGED <<destroying, replaced>>

DeleteSilence(s, i) ==
    /\ silenceRows[i] # NoAlert
    /\ Enter(s, "delete", silenceRows[i], i, "disable")
    /\ UNCHANGED <<destroying, replaced>>

\* Mutant: only the row is deleted.
RetireAlertSilence_RowOnly(s, a) ==
    /\ \E i \in OldRows(a) : Enter(s, "retire", a, i, "destroy")
    /\ UNCHANGED <<destroying, replaced>>

\* Of an alert that is changed, and of the alerts of a dataset that is retired.
RetireAlertSilence(s, a) ==
    /\ \E i \in OldRows(a) : Enter(s, "retire", a, i, "disable")
    /\ UNCHANGED <<destroying, replaced>>

\* Grafana makes a silence under an id that it has not used.
Make(i, a) ==
    /\ inGrafana[i] = NoAlert
    /\ inGrafana' = [inGrafana EXCEPT ![i] = a]

PostSilence(s) ==
    /\ work[s].step = "post"
    /\ \/ \E i \in SilenceIds :
            /\ Make(i, work[s].alert)
            /\ active' = active \cup {i}
            /\ \/ work' = [work EXCEPT ![s].step = "insert", ![s].id = i] /\ UNCHANGED broken
               \/ Break(s)                                       \* the reply was lost
       \/ Break(s) /\ UNCHANGED <<inGrafana, active>>
    /\ UNCHANGED <<silenceRows, destroying, replaced, hurried, silencings>>

InsertSilence(s) ==
    /\ work[s].step = "insert"
    /\ \/ /\ silenceRows' = [silenceRows EXCEPT ![work[s].id] = work[s].alert]
          /\ End(s) /\ UNCHANGED broken
       \/ Break(s) /\ UNCHANGED silenceRows
    /\ UNCHANGED <<inGrafana, active, destroying, replaced, hurried, silencings>>

\* Grafana changes the silence of that id, or makes a new one and ends the old one: the
\* handler does not look at the id of the answer.
RepostSilence(s) ==
    /\ work[s].step = "repost"
    /\ \/ /\ \/ work[s].id \in active /\ UNCHANGED <<inGrafana, active, replaced>>
             \/ \E i \in SilenceIds :
                    /\ Make(i, work[s].alert)
                    /\ active' = (active \ {work[s].id}) \cup {i}
                    /\ replaced' = replaced \cup {i}
          /\ (Then(s, "rewrite") /\ UNCHANGED broken) \/ Break(s)
       \/ Break(s) /\ UNCHANGED <<inGrafana, active, replaced>>
    /\ UNCHANGED <<silenceRows, destroying, hurried, silencings>>

\* The interval is written, in a row that is still there.
RewriteSilence(s) ==
    /\ work[s].step = "rewrite"
    /\ End(s)
    /\ UNCHANGED <<silenceRows, inGrafana, active, destroying, replaced, broken, hurried, silencings>>

\* Mutant: the row is deleted before Grafana is asked.
DisableSilence_RowFirst(s) ==
    /\ work[s].step = "disable"
    /\ IF silenceRows[work[s].id] # NoAlert
       THEN silenceRows' = Unwritten(work[s].id) /\ UNCHANGED <<active, work>>
       ELSE active' = active \ {work[s].id} /\ End(s) /\ UNCHANGED silenceRows
    /\ UNCHANGED <<inGrafana, destroying, replaced, broken, hurried, silencings>>

DisableSilence(s) ==
    /\ work[s].step = "disable"
    /\ \/ active' = active \ {work[s].id} /\ Then(s, "destroy") /\ UNCHANGED broken
       \/ Break(s) /\ active' \in {active, active \ {work[s].id}}
    /\ UNCHANGED <<silenceRows, inGrafana, destroying, replaced, hurried, silencings>>

\* By its id, or all rows of the alert.
DestroySilence(s) ==
    /\ work[s].step = "destroy"
    /\ \/ /\ silenceRows' = IF work[s].kind = "retire"
                THEN [i \in SilenceIds |-> IF silenceRows[i] = work[s].alert THEN NoAlert ELSE silenceRows[i]]
                ELSE Unwritten(work[s].id)
          /\ End(s) /\ UNCHANGED broken
       \/ Break(s) /\ UNCHANGED silenceRows
    /\ UNCHANGED <<inGrafana, active, destroying, replaced, hurried, silencings>>

\* The deletion of an old row takes place, or fails.
DestroyOld(i) ==
    /\ i \in destroying
    /\ destroying' = destroying \ {i}
    /\ \/ silenceRows' = Unwritten(i) /\ UNCHANGED broken
       \/ broken' = broken \cup ({silenceRows[i]} \ {NoAlert}) /\ UNCHANGED silenceRows
    /\ UNCHANGED <<inGrafana, active, work, replaced, hurried, silencings>>

SilenceNext ==
    \/ \E s \in Sessions :
        \/ \E a \in Muted : CreateSilence(s, a) \/ RetireAlertSilence(s, a)
        \/ \E i \in SilenceIds : UpdateSilence(s, i) \/ DeleteSilence(s, i)
        \/ PostSilence(s) \/ InsertSilence(s) \/ RepostSilence(s) \/ RewriteSilence(s)
        \/ DisableSilence(s) \/ DestroySilence(s)
    \/ \E i \in SilenceIds : DestroyOld(i)

SilenceSpec == SilenceInit /\ [][SilenceNext]_silenceVars

-----------------------------------------------------------------------------
(* Properties *)

AtRest(a) == /\ a \notin broken \cup hurried
             /\ \A s \in Working : work[s].alert # a
             /\ destroying \cap RowsOf(a) = {}

\* Between its requests an alert has one row at the most, unless one of them failed, or began
\* before the row that an earlier one replaced had been deleted.
OneSilencePerAlert == \A a \in Muted : AtRest(a) => Cardinality(RowsOf(a)) <= 1

\* Between its requests, an alert is muted in Grafana by a silence that no row is about only
\* if it was replaced: by a new silence of the alert, or by Grafana when it was changed.
ActiveAccounted ==
    \A i \in active : AtRest(inGrafana[i]) => silenceRows[i] # NoAlert \/ i \in replaced

\* Table and Grafana agree on the silences of an alert between its requests, but for those
\* that were replaced.
SilencesAccounted == OneSilencePerAlert /\ ActiveAccounted

\* A request loses the only row of an alert, if it does not overlap with another, only when
\* the silence of that row no longer mutes the alert or has been replaced: whatever calls fail,
\* the silence can be deleted again.
RowOutlivesSilence ==
    [][\A i \in SilenceIds : LET a == silenceRows[i] IN
        a \notin hurried \cup {NoAlert} /\ RowsOf(a) = {i} /\ silenceRows'[i] = NoAlert =>
            i \notin active \/ i \in replaced]_silenceVars
=============================================================================
