--------------------------- MODULE ServicesProofs ----------------------------
(***************************************************************************)
(* The services that share no state with others: silences, updates of      *)
(* drafts, queries and health, for all alerts, sessions, users, requests,  *)
(* queries, checks, failures and bounds; and the types of all the services *)
(* that run in MCServices.                                                 *)
(***************************************************************************)
EXTENDS MCServices, MonitoringProofs, SchemaProofs, DatasetAlertsProofs, FiniteSetTheorems, TLAPS

-----------------------------------------------------------------------------
(* Silences. *)

\* An alert whose requests have neither overlapped nor failed.
Calm(a) == a \notin hurried \cup broken

\* What a request has in hand from call to call. One that deletes a silence, and with which
\* no other overlaps, deletes the silence of a row that stays until then.
WorkInv(s) ==
    LET w == work[s] IN
    /\ w.alert \in Muted
    /\ w.kind \in {"create", "update", "delete", "retire"}
    /\ w.step \in {"post", "insert"} <=> w.kind = "create"
    /\ w.step \in {"repost", "rewrite"} <=> w.kind = "update"
    /\ w.step # "post" => w.id \in SilenceIds /\ inGrafana[w.id] = w.alert
    /\ w.step = "destroy" => w.id \notin active
    /\ w.kind \in {"delete", "retire"} /\ w.alert \notin hurried =>
           silenceRows[w.id] = w.alert /\ w.id \notin destroying

\* Of a calm alert one row at the most is there to stay, and none while a new silence is made.
RowsInv(a) ==
    /\ \A i, j \in RowsOf(a) \ destroying : i = j
    /\ \A s \in Working : work[s].alert = a /\ work[s].kind = "create" => RowsOf(a) \subseteq destroying

\* A silence of a calm alert has a row, has been replaced, or is about to get its row.
KnownTo(i) ==
    \/ silenceRows[i] # NoAlert \/ i \in replaced
    \/ \E s \in Working : work[s].step = "insert" /\ work[s].id = i

WorkRecord == [step : {"idle", "post", "insert", "repost", "rewrite", "disable", "destroy"},
               kind : {"none", "create", "update", "delete", "retire"},
               alert : Muted \cup {NoAlert}, id : SilenceIds \cup {NoId}]

SilenceInv ==
    /\ SilenceTypeOK /\ work \in [Sessions -> WorkRecord]
    /\ destroying \subseteq replaced
    /\ \A s \in Working : WorkInv(s)
    /\ \A s, t \in Working : work[s].alert = work[t].alert /\ work[s].alert \notin hurried => s = t
    /\ \A a \in Muted : Calm(a) => RowsInv(a)
    /\ \A i \in active : Calm(inGrafana[i]) => KnownTo(i)

\* The rows that a new silence replaces are rows of the alert, and one if there is any.
LEMMA OldRowsFacts ==
  ASSUME NEW a
  PROVE  OldRows(a) \subseteq RowsOf(a) /\ (RowsOf(a) # {} => \E i \in RowsOf(a) : OldRows(a) = {i})
  BY DEF OldRows

LEMMA SilenceInitial == SilenceInit => SilenceInv
<1> SUFFICES ASSUME SilenceInit PROVE SilenceInv
  OBVIOUS
<1>1. Working = {} /\ work \in [Sessions -> WorkRecord] /\ \A a \in Muted : RowsOf(a) = {}
  BY MutedAssumption DEF SilenceInit, Working, NoWork, WorkRecord, RowsOf
<1>2. SilenceTypeOK
  BY <1>1 DEF SilenceInit, SilenceTypeOK, NoWork
<1>3. QED
  BY <1>1, <1>2 DEF SilenceInit, SilenceInv, RowsInv

\* A request begins.
LEMMA EnterEffect ==
  ASSUME SilenceInv, NEW s \in Sessions, NEW a \in Muted, NEW kind \in {"create", "update", "delete", "retire"},
         NEW id \in SilenceIds \cup {NoId}, NEW step \in {"post", "repost", "disable"},
         Enter(s, kind, a, id, step)
  PROVE  /\ work' \in [Sessions -> WorkRecord]
         /\ work'[s].step = step /\ work'[s].kind = kind /\ work'[s].alert = a /\ work'[s].id = id
         /\ s \notin Working /\ Working' = Working \cup {s} /\ \A t \in Sessions \ {s} : work'[t] = work[t]
         /\ hurried' \in {hurried, hurried \cup {a}}
         /\ a \notin hurried' => destroying \cap RowsOf(a) = {} /\ \A t \in Working : work[t].alert # a
         /\ UNCHANGED <<silenceRows, inGrafana, active, broken>>
<1> DEFINE x == [step |-> step, kind |-> kind, alert |-> a, id |-> id]
<1>1. x \in WorkRecord
  BY DEF WorkRecord
<1>2. work \in [Sessions -> WorkRecord] /\ work' = [work EXCEPT ![s] = x]
  BY DEF SilenceInv, Enter
<1>3. work' \in [Sessions -> WorkRecord] /\ work'[s] = x /\ \A t \in Sessions \ {s} : work'[t] = work[t]
  BY <1>1, <1>2
<1>4. Working' = Working \cup {s}
  BY <1>3 DEF Working
<1>5. QED
  BY <1>3, <1>4 DEF Enter

\* A request goes on to its next call, or ends.
LEMMA GoOnEffect ==
  ASSUME SilenceInv, NEW s \in Working
  PROVE  /\ s \in Sessions /\ work[s] \in WorkRecord /\ work[s].alert \in Muted /\ WorkInv(s)
         /\ End(s) =>
              /\ work' \in [Sessions -> WorkRecord]
              /\ Working' = Working \ {s} /\ \A t \in Sessions \ {s} : work'[t] = work[t]
         /\ \A step \in {"rewrite", "destroy"} : Then(s, step) =>
              /\ work' \in [Sessions -> WorkRecord] /\ work'[s] = [work[s] EXCEPT !.step = step]
              /\ work'[s].step = step /\ work'[s].kind = work[s].kind /\ work'[s].alert = work[s].alert
              /\ work'[s].id = work[s].id
              /\ Working' = Working /\ \A t \in Sessions \ {s} : work'[t] = work[t]
<1>1. s \in Sessions /\ work \in [Sessions -> WorkRecord] /\ work[s] \in WorkRecord
  BY DEF SilenceInv, Working
<1>2. WorkInv(s) /\ work[s].alert \in Muted
  BY DEF SilenceInv, WorkInv
<1>3. NoWork \in WorkRecord
  BY DEF NoWork, WorkRecord
<1>4. ASSUME End(s) PROVE /\ work' \in [Sessions -> WorkRecord]
              /\ Working' = Working \ {s} /\ \A t \in Sessions \ {s} : work'[t] = work[t]
  <2>1. work' \in [Sessions -> WorkRecord] /\ work'[s] = NoWork /\ \A t \in Sessions \ {s} : work'[t] = work[t]
    BY <1>1, <1>3, <1>4 DEF End
  <2>2. QED
    BY <2>1 DEF Working, NoWork
<1>5. ASSUME NEW step \in {"rewrite", "destroy"}, Then(s, step)
      PROVE  /\ work' \in [Sessions -> WorkRecord] /\ work'[s] = [work[s] EXCEPT !.step = step]
             /\ work'[s].step = step /\ work'[s].kind = work[s].kind /\ work'[s].alert = work[s].alert
             /\ work'[s].id = work[s].id
             /\ Working' = Working /\ \A t \in Sessions \ {s} : work'[t] = work[t]
  <2>1. [work[s] EXCEPT !.step = step] \in WorkRecord
    BY <1>1 DEF WorkRecord
  <2>2. /\ work' \in [Sessions -> WorkRecord] /\ work'[s] = [work[s] EXCEPT !.step = step]
        /\ \A t \in Sessions \ {s} : work'[t] = work[t]
    BY <1>1, <1>5, <2>1 DEF Then
  <2>3. work'[s].step = step /\ work'[s].kind = work[s].kind /\ work'[s].alert = work[s].alert /\ work'[s].id = work[s].id
    BY <1>1, <2>2 DEF WorkRecord
  <2>4. Working' = Working
    BY <2>2, <2>3 DEF Working
  <2>5. QED
    BY <2>2, <2>3, <2>4
<1>6. QED
  BY <1>1, <1>2, <1>4, <1>5

LEMMA CreateSilenceStep ==
  ASSUME SilenceInv, NEW s \in Sessions, NEW a \in Muted, CreateSilence(s, a)
  PROVE  SilenceInv'
<1>1. Enter(s, "create", a, NoId, "post") /\ destroying' = destroying \cup OldRows(a) /\ replaced' = replaced \cup OldRows(a)
  BY DEF CreateSilence
<1>2. /\ work' \in [Sessions -> WorkRecord]
      /\ work'[s].step = "post" /\ work'[s].kind = "create" /\ work'[s].alert = a
      /\ s \notin Working /\ Working' = Working \cup {s} /\ \A t \in Working : t # s /\ work'[t] = work[t]
      /\ hurried' \in {hurried, hurried \cup {a}}
      /\ a \notin hurried' => destroying \cap RowsOf(a) = {} /\ \A t \in Working : work[t].alert # a
      /\ UNCHANGED <<silenceRows, inGrafana, active, broken>>
  BY <1>1, EnterEffect DEF Working
<1>3. OldRows(a) \subseteq RowsOf(a) /\ RowsOf(a) \subseteq SilenceIds /\ \A i \in RowsOf(a) : silenceRows[i] = a
  BY OldRowsFacts DEF RowsOf
<1>4. SilenceTypeOK'
  <2>1. \A t \in Sessions : work'[t].step \in {"idle", "post", "insert", "repost", "rewrite", "disable", "destroy"}
    BY <1>2 DEF WorkRecord
  <2>2. \A i \in RowsOf(a) : inGrafana[i] # NoAlert
    BY <1>3, MutedAssumption DEF SilenceInv, SilenceTypeOK
  <2>3. \A t \in Working' : work'[t].alert \in Muted
    BY <1>2 DEF SilenceInv, WorkInv
  <2>4. QED
    BY <1>1, <1>2, <1>3, <2>1, <2>2, <2>3 DEF SilenceInv, SilenceTypeOK
<1>5. destroying' \subseteq replaced'
  BY <1>1 DEF SilenceInv
<1>6. \A t \in Working' : WorkInv(t)'
  <2>1. WorkInv(s)'
    BY <1>2 DEF WorkInv
  <2>2. ASSUME NEW t \in Working PROVE WorkInv(t)'
    <3>1. WorkInv(t) /\ work'[t] = work[t]
      BY <1>2, <2>2 DEF SilenceInv
    <3>2. work[t].kind \in {"delete", "retire"} /\ work[t].alert \notin hurried' =>
             silenceRows[work[t].id] = work[t].alert /\ work[t].id \notin destroying'
      BY <1>1, <1>2, <1>3, <3>1 DEF WorkInv
    <3>3. QED
      BY <1>2, <3>1, <3>2 DEF WorkInv
  <2>3. QED
    BY <1>2, <2>1, <2>2
<1>7. \A t, u \in Working' : work'[t].alert = work'[u].alert /\ work'[t].alert \notin hurried' => t = u
  BY <1>2 DEF SilenceInv
<1>8. ASSUME NEW b \in Muted, Calm(b)' PROVE RowsInv(b)'
  <2>1. Calm(b) /\ RowsInv(b) /\ RowsOf(b)' = RowsOf(b)
    BY <1>2, <1>8 DEF Calm, RowsOf, SilenceInv
  <2>2. CASE b = a
    <3>1. \A i, j \in RowsOf(a) : i = j
      BY <1>2, <1>8, <2>1, <2>2 DEF Calm, RowsInv
    <3>2. RowsOf(a) \subseteq destroying'
      BY <1>1, <3>1, OldRowsFacts
    <3>3. QED
      BY <2>1, <2>2, <3>2 DEF RowsInv
  <2>3. CASE b # a
    <3>1. \A t \in Working' : work'[t].alert = b => t \in Working /\ work'[t] = work[t]
      BY <1>2, <2>3
    <3>2. destroying \subseteq destroying'
      BY <1>1
    <3>3. QED
      BY <2>1, <3>1, <3>2 DEF RowsInv
  <2>4. QED
    BY <2>2, <2>3
<1>9. ASSUME NEW i \in active', Calm(inGrafana[i])' PROVE KnownTo(i)'
  <2>1. i \in active /\ Calm(inGrafana[i]) /\ KnownTo(i)
    BY <1>2, <1>9 DEF Calm, SilenceInv
  <2>2. QED
    BY <1>1, <1>2, <2>1 DEF KnownTo
<1>10. QED
  BY <1>2, <1>4, <1>5, <1>6, <1>7, <1>8, <1>9 DEF SilenceInv

\* A request about a row that is there.
LEMMA OnRowStep ==
  ASSUME SilenceInv, NEW s \in Sessions, NEW i \in SilenceIds, NEW a \in Muted, silenceRows[i] = a,
         \/ Enter(s, "update", a, i, "repost") \/ Enter(s, "delete", a, i, "disable") \/ Enter(s, "retire", a, i, "disable"),
         UNCHANGED <<destroying, replaced>>
  PROVE  SilenceInv'
<1>2. /\ work' \in [Sessions -> WorkRecord]
      /\ \/ work'[s].step = "repost" /\ work'[s].kind = "update"
         \/ work'[s].step = "disable" /\ work'[s].kind \in {"delete", "retire"}
      /\ work'[s].alert = a /\ work'[s].id = i
      /\ s \notin Working /\ Working' = Working \cup {s} /\ \A t \in Working : t # s /\ work'[t] = work[t]
      /\ hurried' \in {hurried, hurried \cup {a}}
      /\ a \notin hurried' => destroying \cap RowsOf(a) = {} /\ \A t \in Working : work[t].alert # a
      /\ UNCHANGED <<silenceRows, inGrafana, active, broken>>
  <2>1. CASE Enter(s, "update", a, i, "repost")
    BY <2>1, EnterEffect DEF Working
  <2>2. CASE Enter(s, "delete", a, i, "disable")
    BY <2>2, EnterEffect DEF Working
  <2>3. CASE Enter(s, "retire", a, i, "disable")
    BY <2>3, EnterEffect DEF Working
  <2>4. QED
    BY <2>1, <2>2, <2>3
<1>3. i \in RowsOf(a) /\ inGrafana[i] = a
  BY MutedAssumption DEF RowsOf, SilenceInv, SilenceTypeOK
<1>4. SilenceTypeOK'
  <2>1. \A t \in Sessions : work'[t].step \in {"idle", "post", "insert", "repost", "rewrite", "disable", "destroy"}
    BY <1>2 DEF WorkRecord
  <2>2. \A t \in Working' : work'[t].alert \in Muted
    BY <1>2 DEF SilenceInv, WorkInv
  <2>3. QED
    BY <1>2, <2>1, <2>2 DEF SilenceInv, SilenceTypeOK
<1>6. \A t \in Working' : WorkInv(t)'
  <2>1. WorkInv(s)'
    BY <1>2, <1>3 DEF WorkInv
  <2>2. ASSUME NEW t \in Working PROVE WorkInv(t)'
    BY <1>2, <2>2 DEF SilenceInv, WorkInv
  <2>3. QED
    BY <1>2, <2>1, <2>2
<1>7. \A t, u \in Working' : work'[t].alert = work'[u].alert /\ work'[t].alert \notin hurried' => t = u
  BY <1>2 DEF SilenceInv
<1>8. ASSUME NEW b \in Muted, Calm(b)' PROVE RowsInv(b)'
  <2>1. Calm(b) /\ RowsInv(b) /\ RowsOf(b)' = RowsOf(b)
    BY <1>2, <1>8 DEF Calm, RowsOf, SilenceInv
  <2>2. \A t \in Working' : work'[t].kind = "create" => t \in Working /\ work'[t] = work[t]
    BY <1>2
  <2>3. QED
    BY <2>1, <2>2 DEF RowsInv
<1>9. ASSUME NEW j \in active', Calm(inGrafana[j])' PROVE KnownTo(j)'
  <2>1. j \in active /\ Calm(inGrafana[j]) /\ KnownTo(j)
    BY <1>2, <1>9 DEF Calm, SilenceInv
  <2>2. QED
    BY <1>2, <2>1 DEF KnownTo
<1>10. QED
  BY <1>2, <1>4, <1>6, <1>7, <1>8, <1>9 DEF SilenceInv

\* A call about silences in Grafana leaves the table and the other requests alone.
LEMMA GrafanaStep ==
  ASSUME SilenceInv, NEW s \in Working,
         UNCHANGED <<silenceRows, destroying, hurried>>,
         broken' \in {broken, broken \cup {work[s].alert}}, replaced \subseteq replaced', replaced' \subseteq SilenceIds,
         inGrafana' \in [SilenceIds -> Muted \cup {NoAlert}],
         \A i \in SilenceIds : inGrafana[i] # NoAlert => inGrafana'[i] = inGrafana[i],
         active' \cup replaced' \subseteq {i \in SilenceIds : inGrafana'[i] # NoAlert},
         \A i \in active' : i \in active \/ inGrafana[i] = NoAlert,
         work' \in [Sessions -> WorkRecord], \A t \in Sessions \ {s} : work'[t] = work[t],
         \/ Working' = Working \ {s}
         \/ /\ Working' = Working /\ work'[s].alert = work[s].alert /\ work'[s].kind = work[s].kind
            /\ WorkInv(s)',
         \A i \in active' : Calm(inGrafana[i])' => KnownTo(i)'
  PROVE  SilenceInv'
<1>1. /\ s \in Sessions /\ Working \subseteq Sessions /\ Working' \subseteq Working
      /\ \A t \in Working' : work'[t].alert = work[t].alert /\ work'[t].kind = work[t].kind
  BY DEF Working
<1>2. SilenceTypeOK'
  <2>1. \A t \in Sessions : work'[t].step \in {"idle", "post", "insert", "repost", "rewrite", "disable", "destroy"}
    BY DEF WorkRecord
  <2>2. \A t \in Working' : work'[t].alert \in Muted
    BY <1>1 DEF SilenceInv, WorkInv
  <2>3. broken' \subseteq Muted
    BY DEF SilenceInv, SilenceTypeOK, WorkInv
  <2>4. \A i \in SilenceIds : silenceRows'[i] # NoAlert => silenceRows'[i] = inGrafana'[i]
    BY DEF SilenceInv, SilenceTypeOK
  <2>5. QED
    BY <2>1, <2>2, <2>3, <2>4 DEF SilenceInv, SilenceTypeOK
<1>3. \A t \in Working' : WorkInv(t)'
  <2>1. ASSUME NEW t \in Working' \ {s} PROVE WorkInv(t)'
    <3>1. WorkInv(t) /\ work'[t] = work[t]
      BY <1>1 DEF SilenceInv
    <3>2. work[t].step # "post" => inGrafana'[work[t].id] = work[t].alert
      BY <3>1, MutedAssumption DEF WorkInv
    <3>3. work[t].step = "destroy" => work[t].id \notin active'
      BY <3>1, MutedAssumption DEF WorkInv
    <3>4. QED
      BY <3>1, <3>2, <3>3 DEF WorkInv
  <2>2. QED
    BY <2>1
<1>4. destroying' \subseteq replaced'
  BY DEF SilenceInv
<1>5. \A t, u \in Working' : work'[t].alert = work'[u].alert /\ work'[t].alert \notin hurried' => t = u
  BY <1>1 DEF SilenceInv
<1>6. ASSUME NEW b \in Muted, Calm(b)' PROVE RowsInv(b)'
  <2>1. Calm(b) /\ RowsOf(b)' = RowsOf(b) /\ RowsInv(b)
    BY <1>6 DEF Calm, RowsOf, SilenceInv
  <2>2. QED
    BY <1>1, <2>1 DEF RowsInv
<1>7. QED
  BY <1>2, <1>3, <1>4, <1>5, <1>6 DEF SilenceInv

\* What silences are known to while a request that is not storing one goes on.
LEMMA KnownStays ==
  ASSUME SilenceInv, NEW s \in Working, UNCHANGED <<silenceRows, hurried>>,
         broken \subseteq broken', replaced \subseteq replaced',
         \A t \in Sessions \ {s} : work'[t] = work[t],
         Working \ {s} \subseteq Working',
         NEW i \in active, inGrafana'[i] = inGrafana[i], Calm(inGrafana[i])',
         work[s].step = "insert" => work[s].alert \in broken'
  PROVE  KnownTo(i)'
<1>1. KnownTo(i) /\ Calm(inGrafana[i]) /\ Working \subseteq Sessions
  BY DEF SilenceInv, Calm, Working
<1>2. CASE silenceRows[i] # NoAlert \/ i \in replaced
  BY <1>2 DEF KnownTo
<1>3. ASSUME NEW t \in Working, work[t].step = "insert", work[t].id = i PROVE KnownTo(i)'
  <2>1. t # s
    BY <1>3 DEF SilenceInv, WorkInv, Calm
  <2>2. QED
    BY <1>1, <1>3, <2>1 DEF KnownTo
<1>4. QED
  BY <1>1, <1>2, <1>3 DEF KnownTo

\* Grafana makes a silence.
LEMMA MakeEffect ==
  ASSUME SilenceInv, NEW i \in SilenceIds, NEW a \in Muted, Make(i, a)
  PROVE  /\ inGrafana[i] = NoAlert /\ i \notin active /\ inGrafana'[i] = a
         /\ inGrafana' \in [SilenceIds -> Muted \cup {NoAlert}]
         /\ \A j \in SilenceIds : inGrafana[j] # NoAlert => inGrafana'[j] = inGrafana[j]
         /\ active \cup replaced \cup {i} \subseteq {j \in SilenceIds : inGrafana'[j] # NoAlert}
         /\ \A j \in active : inGrafana'[j] = inGrafana[j]
  BY MutedAssumption DEF SilenceInv, SilenceTypeOK, Make

LEMMA PostStep ==
  ASSUME SilenceInv, NEW s \in Sessions, PostSilence(s)
  PROVE  SilenceInv'
<1>1. s \in Working /\ WorkInv(s) /\ work[s].kind = "create" /\ work[s].alert \in Muted /\ work[s].step = "post"
  BY DEF Working, PostSilence, SilenceInv, WorkInv
<1>2. UNCHANGED <<silenceRows, destroying, replaced, hurried>>
  BY DEF PostSilence
<1>3. active \cup replaced \subseteq {j \in SilenceIds : inGrafana[j] # NoAlert} /\ inGrafana \in [SilenceIds -> Muted \cup {NoAlert}]
  BY DEF SilenceInv, SilenceTypeOK
<1>4. CASE Break(s) /\ UNCHANGED <<inGrafana, active>>
  <2>1. End(s) /\ broken' = broken \cup {work[s].alert}
    BY <1>4 DEF Break
  <2>2. /\ work' \in [Sessions -> WorkRecord] /\ Working' = Working \ {s}
        /\ \A t \in Sessions \ {s} : work'[t] = work[t]
    BY <1>1, <2>1, GoOnEffect
  <2>3. \A i \in active' : Calm(inGrafana[i])' => KnownTo(i)'
    BY <1>1, <1>2, <1>4, <2>1, <2>2, KnownStays
  <2>4. QED
    BY <1>1, <1>2, <1>3, <1>4, <2>1, <2>2, <2>3, GrafanaStep
<1>5. ASSUME NEW i \in SilenceIds, Make(i, work[s].alert), active' = active \cup {i}, Break(s) PROVE SilenceInv'
  <2>1. End(s) /\ broken' = broken \cup {work[s].alert}
    BY <1>5 DEF Break
  <2>2. /\ work' \in [Sessions -> WorkRecord] /\ Working' = Working \ {s}
        /\ \A t \in Sessions \ {s} : work'[t] = work[t]
    BY <1>1, <2>1, GoOnEffect
  <2>3. ASSUME NEW j \in active', Calm(inGrafana[j])' PROVE KnownTo(j)'
    <3>1. j # i
      BY <1>1, <1>5, <2>1, <2>3, MakeEffect DEF Calm
    <3>2. QED
      BY <1>1, <1>2, <1>5, <2>1, <2>2, <2>3, <3>1, MakeEffect, KnownStays
  <2>4. QED
    BY <1>1, <1>2, <1>3, <1>5, <2>1, <2>2, <2>3, MakeEffect, GrafanaStep
<1>6. ASSUME NEW i \in SilenceIds, Make(i, work[s].alert), active' = active \cup {i},
             work' = [work EXCEPT ![s].step = "insert", ![s].id = i], UNCHANGED broken
      PROVE  SilenceInv'
  <2> DEFINE x == [work[s] EXCEPT !.step = "insert", !.id = i]
  <2>1. work[s] \in WorkRecord /\ work \in [Sessions -> WorkRecord]
    BY DEF SilenceInv
  <2>2. x \in WorkRecord /\ x.step = "insert" /\ x.id = i /\ x.kind = work[s].kind /\ x.alert = work[s].alert
    BY <2>1 DEF WorkRecord
  <2>3. work' \in [Sessions -> WorkRecord] /\ work'[s] = x /\ \A t \in Sessions \ {s} : work'[t] = work[t]
    BY <1>6, <2>1, <2>2
  <2>4. Working' = Working
    BY <1>1, <2>2, <2>3 DEF Working
  <2>5. WorkInv(s)'
    BY <1>1, <1>6, <2>2, <2>3, MakeEffect DEF WorkInv
  <2>6. ASSUME NEW j \in active', Calm(inGrafana[j])' PROVE KnownTo(j)'
    <3>1. CASE j = i
      BY <1>1, <2>2, <2>3, <2>4, <3>1 DEF KnownTo
    <3>2. CASE j # i
      BY <1>1, <1>2, <1>6, <2>3, <2>4, <2>6, <3>2, MakeEffect, KnownStays
    <3>3. QED
      BY <3>1, <3>2
  <2>7. QED
    BY <1>1, <1>2, <1>3, <1>6, <2>2, <2>3, <2>4, <2>5, <2>6, MakeEffect, GrafanaStep
<1>7. QED
  BY <1>4, <1>5, <1>6 DEF PostSilence

LEMMA RepostStep ==
  ASSUME SilenceInv, NEW s \in Sessions, RepostSilence(s)
  PROVE  SilenceInv'
<1>1. s \in Working /\ WorkInv(s) /\ work[s].kind = "update" /\ work[s].alert \in Muted /\ work[s].step = "repost"
  BY DEF Working, RepostSilence, SilenceInv, WorkInv
<1>2. UNCHANGED <<silenceRows, destroying, hurried>>
  BY DEF RepostSilence
<1>3. active \cup replaced \subseteq {j \in SilenceIds : inGrafana[j] # NoAlert} /\ inGrafana \in [SilenceIds -> Muted \cup {NoAlert}]
  BY DEF SilenceInv, SilenceTypeOK
<1>4. /\ broken' \in {broken, broken \cup {work[s].alert}}
      /\ work' \in [Sessions -> WorkRecord] /\ \A t \in Sessions \ {s} : work'[t] = work[t]
      /\ Working \ {s} \subseteq Working'
      /\ \/ Working' = Working \ {s}
         \/ /\ Working' = Working /\ work'[s].alert = work[s].alert /\ work'[s].kind = work[s].kind
            /\ work'[s].step = "rewrite" /\ work'[s].id = work[s].id
  <2>1. CASE Then(s, "rewrite") /\ UNCHANGED broken
    BY <1>1, <2>1, GoOnEffect
  <2>2. CASE Break(s)
    BY <1>1, <2>2, GoOnEffect DEF Break
  <2>3. QED
    BY <2>1, <2>2 DEF RepostSilence
<1>5. CASE UNCHANGED <<inGrafana, active, replaced>>
  <2>1. Working' = Working => WorkInv(s)'
    BY <1>1, <1>2, <1>4, <1>5 DEF WorkInv
  <2>2. \A i \in active' : Calm(inGrafana[i])' => KnownTo(i)'
    BY <1>1, <1>2, <1>4, <1>5, KnownStays
  <2>3. QED
    BY <1>1, <1>2, <1>3, <1>4, <1>5, <2>1, <2>2, GrafanaStep
<1>6. ASSUME NEW i \in SilenceIds, Make(i, work[s].alert), active' = (active \ {work[s].id}) \cup {i},
             replaced' = replaced \cup {i}
      PROVE  SilenceInv'
  <2>1. Working' = Working => WorkInv(s)'
    BY <1>1, <1>2, <1>4, <1>6, MakeEffect, MutedAssumption DEF WorkInv
  <2>2. ASSUME NEW j \in active', Calm(inGrafana[j])' PROVE KnownTo(j)'
    <3>1. CASE j = i
      BY <1>6, <3>1 DEF KnownTo
    <3>2. CASE j # i
      BY <1>1, <1>2, <1>4, <1>6, <2>2, <3>2, MakeEffect, KnownStays
    <3>3. QED
      BY <3>1, <3>2
  <2>3. QED
    BY <1>1, <1>2, <1>3, <1>4, <1>6, <2>1, <2>2, MakeEffect, GrafanaStep
<1>7. QED
  BY <1>5, <1>6 DEF RepostSilence

LEMMA RewriteStep ==
  ASSUME SilenceInv, NEW s \in Sessions, RewriteSilence(s)
  PROVE  SilenceInv'
<1>1. s \in Working /\ WorkInv(s) /\ work[s].step = "rewrite" /\ End(s)
  BY DEF Working, RewriteSilence, SilenceInv
<1>2. UNCHANGED <<silenceRows, inGrafana, active, destroying, replaced, broken, hurried>>
  BY DEF RewriteSilence
<1>3. active \cup replaced \subseteq {j \in SilenceIds : inGrafana[j] # NoAlert} /\ inGrafana \in [SilenceIds -> Muted \cup {NoAlert}]
  BY DEF SilenceInv, SilenceTypeOK
<1>4. /\ work' \in [Sessions -> WorkRecord] /\ Working' = Working \ {s}
      /\ \A t \in Sessions \ {s} : work'[t] = work[t]
  BY <1>1, GoOnEffect
<1>5. \A i \in active' : Calm(inGrafana[i])' => KnownTo(i)'
  BY <1>1, <1>2, <1>4, KnownStays
<1>6. QED
  BY <1>1, <1>2, <1>3, <1>4, <1>5, GrafanaStep

LEMMA DisableStep ==
  ASSUME SilenceInv, NEW s \in Sessions, DisableSilence(s)
  PROVE  SilenceInv'
<1>1. /\ s \in Working /\ WorkInv(s) /\ work[s].kind \in {"delete", "retire"} /\ work[s].alert \in Muted
      /\ work[s].step = "disable"
  BY DEF Working, DisableSilence, SilenceInv, WorkInv
<1>2. UNCHANGED <<silenceRows, inGrafana, destroying, replaced, hurried>> /\ active' \subseteq active
  BY DEF DisableSilence
<1>3. active \cup replaced \subseteq {j \in SilenceIds : inGrafana[j] # NoAlert} /\ inGrafana \in [SilenceIds -> Muted \cup {NoAlert}]
  BY DEF SilenceInv, SilenceTypeOK
<1>4. CASE active' = active \ {work[s].id} /\ Then(s, "destroy") /\ UNCHANGED broken
  <2>1. /\ work' \in [Sessions -> WorkRecord] /\ Working' = Working
        /\ \A t \in Sessions \ {s} : work'[t] = work[t]
        /\ work'[s].alert = work[s].alert /\ work'[s].kind = work[s].kind
        /\ work'[s].step = "destroy" /\ work'[s].id = work[s].id
    BY <1>1, <1>4, GoOnEffect
  <2>2. WorkInv(s)'
    BY <1>1, <1>2, <1>4, <2>1 DEF WorkInv
  <2>3. \A i \in active' : Calm(inGrafana[i])' => KnownTo(i)'
    BY <1>1, <1>2, <1>4, <2>1, KnownStays
  <2>4. QED
    BY <1>1, <1>2, <1>3, <1>4, <2>1, <2>2, <2>3, GrafanaStep
<1>5. CASE Break(s)
  <2>1. End(s) /\ broken' = broken \cup {work[s].alert}
    BY <1>5 DEF Break
  <2>2. /\ work' \in [Sessions -> WorkRecord] /\ Working' = Working \ {s}
        /\ \A t \in Sessions \ {s} : work'[t] = work[t]
    BY <1>1, <2>1, GoOnEffect
  <2>3. \A i \in active' : Calm(inGrafana[i])' => KnownTo(i)'
    BY <1>1, <1>2, <2>1, <2>2, KnownStays
  <2>4. QED
    BY <1>1, <1>2, <1>3, <2>1, <2>2, <2>3, GrafanaStep
<1>6. QED
  BY <1>4, <1>5 DEF DisableSilence

\* The new row is that of a silence of the same alert, and the only one that stays.
LEMMA InsertStep ==
  ASSUME SilenceInv, NEW s \in Sessions, InsertSilence(s)
  PROVE  SilenceInv'
<1>1. /\ s \in Working /\ WorkInv(s) /\ work[s].kind = "create" /\ work[s].alert \in Muted
      /\ work[s].step = "insert" /\ work[s].id \in SilenceIds /\ inGrafana[work[s].id] = work[s].alert
  BY DEF Working, InsertSilence, SilenceInv, WorkInv
<1>2. UNCHANGED <<inGrafana, active, destroying, replaced, hurried>>
  BY DEF InsertSilence
<1>3. active \cup replaced \subseteq {j \in SilenceIds : inGrafana[j] # NoAlert} /\ inGrafana \in [SilenceIds -> Muted \cup {NoAlert}]
      /\ silenceRows \in [SilenceIds -> Muted \cup {NoAlert}] /\ Working \subseteq Sessions
  BY DEF SilenceInv, SilenceTypeOK, Working
<1>4. CASE Break(s) /\ UNCHANGED silenceRows
  <2>1. End(s) /\ broken' = broken \cup {work[s].alert}
    BY <1>4 DEF Break
  <2>2. /\ work' \in [Sessions -> WorkRecord] /\ Working' = Working \ {s}
        /\ \A t \in Sessions \ {s} : work'[t] = work[t]
    BY <1>1, <2>1, GoOnEffect
  <2>3. \A i \in active' : Calm(inGrafana[i])' => KnownTo(i)'
    BY <1>1, <1>2, <1>4, <2>1, <2>2, KnownStays
  <2>4. QED
    BY <1>1, <1>2, <1>3, <1>4, <2>1, <2>2, <2>3, GrafanaStep
<1>5. CASE silenceRows' = [silenceRows EXCEPT ![work[s].id] = work[s].alert] /\ End(s) /\ UNCHANGED broken
  <2> DEFINE k == work[s].id
             a == work[s].alert
  <2>1. /\ work' \in [Sessions -> WorkRecord] /\ Working' = Working \ {s}
        /\ \A t \in Sessions \ {s} : work'[t] = work[t]
    BY <1>1, <1>5, GoOnEffect
  <2>2. /\ silenceRows' \in [SilenceIds -> Muted \cup {NoAlert}]
        /\ silenceRows'[k] = a /\ \A i \in SilenceIds \ {k} : silenceRows'[i] = silenceRows[i]
        /\ silenceRows[k] \in {a, NoAlert}
    BY <1>1, <1>3, <1>5 DEF SilenceInv, SilenceTypeOK
  <2>3. SilenceTypeOK'
    <3>1. \A t \in Sessions : work'[t].step \in {"idle", "post", "insert", "repost", "rewrite", "disable", "destroy"}
      BY <2>1 DEF WorkRecord
    <3>2. \A t \in Working' : work'[t].alert \in Muted
      BY <1>3, <2>1 DEF SilenceInv, WorkInv
    <3>3. \A i \in SilenceIds : silenceRows'[i] # NoAlert => silenceRows'[i] = inGrafana'[i]
      BY <1>1, <1>2, <2>2 DEF SilenceInv, SilenceTypeOK
    <3>4. QED
      BY <1>2, <1>5, <2>2, <3>1, <3>2, <3>3 DEF SilenceInv, SilenceTypeOK
  <2>4. ASSUME NEW t \in Working' PROVE WorkInv(t)'
    <3>1. WorkInv(t) /\ work'[t] = work[t]
      BY <1>3, <2>1, <2>4 DEF SilenceInv
    <3>2. work[t].kind \in {"delete", "retire"} /\ work[t].alert \notin hurried =>
             silenceRows'[work[t].id] = work[t].alert
      BY <1>1, <2>2, <3>1 DEF WorkInv
    <3>3. QED
      BY <1>2, <3>1, <3>2 DEF WorkInv
  <2>5. \A t, u \in Working' : work'[t].alert = work'[u].alert /\ work'[t].alert \notin hurried' => t = u
    BY <1>2, <1>3, <2>1 DEF SilenceInv
  <2>6. ASSUME NEW b \in Muted, Calm(b)' PROVE RowsInv(b)'
    <3>1. Calm(b) /\ RowsInv(b)
      BY <1>2, <1>5, <2>6 DEF Calm, SilenceInv
    <3>2. CASE b # a
      <4>1. RowsOf(b)' = RowsOf(b)
        BY <2>2, <2>6, <3>2, MutedAssumption DEF RowsOf
      <4>2. QED
        BY <1>2, <1>3, <2>1, <3>1, <4>1 DEF RowsInv
    <3>3. CASE b = a
      <4>1. RowsOf(b) \subseteq destroying
        BY <1>1, <3>1, <3>3 DEF RowsInv
      <4>2. RowsOf(b)' \subseteq RowsOf(b) \cup {k}
        BY <2>2 DEF RowsOf
      <4>3. \A t \in Working' : work'[t].alert # b
        BY <1>1, <1>3, <2>1, <3>1, <3>3 DEF SilenceInv, Calm
      <4>4. QED
        BY <1>2, <3>3, <4>1, <4>2, <4>3 DEF RowsInv
    <3>4. QED
      BY <3>2, <3>3
  <2>7. ASSUME NEW i \in active', Calm(inGrafana[i])' PROVE KnownTo(i)'
    <3>1. i \in active /\ i \in SilenceIds /\ KnownTo(i)
      BY <1>2, <1>3, <1>5, <2>7 DEF Calm, SilenceInv
    <3>2. CASE i = k
      BY <1>1, <2>2, <3>2, MutedAssumption DEF KnownTo
    <3>3. CASE i # k
      BY <1>2, <1>3, <2>1, <2>2, <3>1, <3>3 DEF KnownTo
    <3>4. QED
      BY <3>2, <3>3
  <2>8. QED
    BY <1>2, <2>1, <2>3, <2>4, <2>5, <2>6, <2>7 DEF SilenceInv
<1>6. QED
  BY <1>4, <1>5 DEF InsertSilence

\* Rows that are deleted: nothing else of the table changes.
Fewer(deleted) ==
    \A i \in SilenceIds : silenceRows'[i] = IF i \in deleted THEN NoAlert ELSE silenceRows[i]

\* Rows that were replaced may be deleted, and those of silences that mute no more, unless
\* another request has them in hand.
LEMMA FewerStep ==
  ASSUME SilenceInv, NEW deleted \in SUBSET SilenceIds, Fewer(deleted),
         silenceRows' \in [SilenceIds -> Muted \cup {NoAlert}],
         UNCHANGED <<inGrafana, active, replaced, hurried>>,
         broken \subseteq broken', broken' \subseteq Muted, destroying' \subseteq destroying,
         \A i \in destroying \ destroying' : silenceRows'[i] = NoAlert \/ silenceRows[i] \in broken',
         work' \in [Sessions -> WorkRecord], Working' \subseteq Working, \A t \in Working' : work'[t] = work[t],
         \A t \in Working \ Working' : work[t].step # "insert",
         \A t \in Working' : work[t].kind \in {"delete", "retire"} /\ work[t].alert \notin hurried =>
              work[t].id \notin deleted,
         \A i \in deleted : i \in replaced \/ i \notin active \/ ~ Calm(inGrafana[i])
  PROVE  SilenceInv'
<1>1. Working \subseteq Sessions
  BY DEF Working
<1>2. SilenceTypeOK'
  <2>1. \A t \in Sessions : work'[t].step \in {"idle", "post", "insert", "repost", "rewrite", "disable", "destroy"}
    BY DEF WorkRecord
  <2>2. \A t \in Working' : work'[t].alert \in Muted
    BY DEF SilenceInv, WorkInv
  <2>3. \A i \in SilenceIds : silenceRows'[i] # NoAlert => silenceRows'[i] = inGrafana'[i]
    BY DEF SilenceInv, SilenceTypeOK, Fewer
  <2>4. QED
    BY <2>1, <2>2, <2>3 DEF SilenceInv, SilenceTypeOK
<1>3. ASSUME NEW t \in Working' PROVE WorkInv(t)'
  <2>1. WorkInv(t) /\ work'[t] = work[t]
    BY <1>3 DEF SilenceInv
  <2>2. work[t].kind \in {"delete", "retire"} /\ work[t].alert \notin hurried =>
           silenceRows'[work[t].id] = work[t].alert /\ work[t].id \notin destroying'
    BY <1>3, <2>1 DEF WorkInv, Fewer
  <2>3. QED
    BY <2>1, <2>2 DEF WorkInv
<1>4. destroying' \subseteq replaced'
  BY DEF SilenceInv
<1>5. \A t, u \in Working' : work'[t].alert = work'[u].alert /\ work'[t].alert \notin hurried' => t = u
  BY DEF SilenceInv
<1>6. ASSUME NEW b \in Muted, Calm(b)' PROVE RowsInv(b)'
  <2>1. Calm(b) /\ RowsInv(b) /\ b \notin broken'
    BY <1>6 DEF Calm, SilenceInv
  <2>2. RowsOf(b)' \subseteq RowsOf(b)
    BY <1>6, MutedAssumption DEF RowsOf, Fewer
  <2>3. RowsOf(b)' \cap destroying \subseteq destroying'
    BY <1>6, <2>1, <2>2, MutedAssumption DEF RowsOf
  <2>4. QED
    BY <2>1, <2>2, <2>3 DEF RowsInv
<1>7. ASSUME NEW i \in active', Calm(inGrafana[i])' PROVE KnownTo(i)'
  <2>1. i \in active /\ i \in SilenceIds /\ KnownTo(i) /\ Calm(inGrafana[i])
    BY <1>7 DEF Calm, SilenceInv, SilenceTypeOK
  <2>2. silenceRows[i] # NoAlert => silenceRows'[i] # NoAlert \/ i \in replaced
    BY <2>1 DEF Fewer
  <2>3. QED
    BY <1>1, <2>1, <2>2 DEF KnownTo
<1>8. QED
  BY <1>2, <1>3, <1>4, <1>5, <1>6, <1>7 DEF SilenceInv

\* The rows that a request deletes: those of its alert, if it is a retirement.
RowsDestroyed(s) == IF work[s].kind = "retire" THEN RowsOf(work[s].alert) ELSE {work[s].id}

\* Alone with its alert, a request deletes the row of its own silence, or rows replaced.
LEMMA DestroyedRows ==
  ASSUME SilenceInv, NEW s \in Working, work[s].step = "destroy", Calm(work[s].alert), NEW i \in RowsDestroyed(s)
  PROVE  i \in replaced \/ i \notin active
<1>1. WorkInv(s) /\ work[s].alert \in Muted /\ RowsInv(work[s].alert)
  BY DEF SilenceInv, WorkInv
<1>2. work[s].kind \in {"delete", "retire"}
  BY <1>1 DEF WorkInv
<1>3. work[s].id \notin active /\ work[s].id \in RowsOf(work[s].alert) \ destroying
  BY <1>1, <1>2 DEF WorkInv, RowsOf, Calm
<1>4. i = work[s].id \/ i \in destroying
  BY <1>1, <1>3 DEF RowsInv, RowsDestroyed
<1>5. QED
  BY <1>3, <1>4 DEF SilenceInv

LEMMA DestroyStep ==
  ASSUME SilenceInv, NEW s \in Sessions, DestroySilence(s)
  PROVE  SilenceInv'
<1>1. /\ s \in Working /\ WorkInv(s) /\ work[s].kind \in {"delete", "retire"} /\ work[s].alert \in Muted
      /\ work[s].step = "destroy" /\ work[s].id \in SilenceIds /\ inGrafana[work[s].id] = work[s].alert
  BY DEF Working, DestroySilence, SilenceInv, WorkInv
<1>2. UNCHANGED <<inGrafana, active, destroying, replaced, hurried>> /\ End(s)
  BY DEF DestroySilence, Break
<1>3. /\ silenceRows \in [SilenceIds -> Muted \cup {NoAlert}] /\ broken \subseteq Muted
      /\ \A i \in SilenceIds : silenceRows[i] # NoAlert => silenceRows[i] = inGrafana[i]
  BY DEF SilenceInv, SilenceTypeOK
<1>4. /\ work' \in [Sessions -> WorkRecord] /\ Working' = Working \ {s}
      /\ \A t \in Working' : t \in Sessions \ {s} /\ work'[t] = work[t]
  BY <1>1, <1>2, GoOnEffect DEF Working
<1>5. CASE Break(s) /\ UNCHANGED silenceRows
  <2>1. Fewer({}) /\ broken' = broken \cup {work[s].alert}
    BY <1>5 DEF Fewer, Break
  <2>2. QED
    BY <1>1, <1>2, <1>3, <1>4, <1>5, <2>1, FewerStep
<1>6. ASSUME UNCHANGED broken,
             silenceRows' = IF work[s].kind = "retire"
                THEN [i \in SilenceIds |-> IF silenceRows[i] = work[s].alert THEN NoAlert ELSE silenceRows[i]]
                ELSE Unwritten(work[s].id)
      PROVE SilenceInv'
  <2>1. RowsDestroyed(s) \in SUBSET SilenceIds
    BY <1>1 DEF RowsDestroyed, RowsOf
  <2>2. Fewer(RowsDestroyed(s)) /\ silenceRows' \in [SilenceIds -> Muted \cup {NoAlert}]
    BY <1>1, <1>3, <1>6 DEF Fewer, RowsDestroyed, RowsOf, Unwritten
  <2>3. ASSUME NEW t \in Working', work[t].kind \in {"delete", "retire"}, work[t].alert \notin hurried
        PROVE  work[t].id \notin RowsDestroyed(s)
    <3>1. t \in Working /\ t # s /\ WorkInv(t)
      BY <1>4, <2>3 DEF SilenceInv
    <3>2. silenceRows[work[t].id] = work[t].alert /\ inGrafana[work[t].id] = work[t].alert
      BY <2>3, <3>1 DEF WorkInv
    <3>3. work[t].alert # work[s].alert
      BY <1>1, <2>3, <3>1 DEF SilenceInv
    <3>4. QED
      BY <1>1, <3>2, <3>3 DEF RowsDestroyed, RowsOf
  <2>4. ASSUME NEW i \in RowsDestroyed(s) PROVE i \in replaced \/ i \notin active \/ ~ Calm(inGrafana[i])
    <3>1. inGrafana[i] = work[s].alert
      BY <1>1, <1>3, MutedAssumption DEF RowsDestroyed, RowsOf
    <3>2. QED
      BY <1>1, <3>1, DestroyedRows
  <2>5. QED
    BY <1>1, <1>2, <1>3, <1>4, <1>6, <2>1, <2>2, <2>3, <2>4, FewerStep
<1>7. QED
  BY <1>5, <1>6 DEF DestroySilence

LEMMA DestroyOldStep ==
  ASSUME SilenceInv, NEW i \in SilenceIds, DestroyOld(i)
  PROVE  SilenceInv'
<1>1. /\ i \in destroying /\ i \in replaced /\ destroying' = destroying \ {i}
      /\ UNCHANGED <<inGrafana, active, work, replaced, hurried>>
  BY DEF DestroyOld, SilenceInv
<1>2. /\ silenceRows \in [SilenceIds -> Muted \cup {NoAlert}] /\ broken \subseteq Muted
      /\ work \in [Sessions -> WorkRecord] /\ Working' = Working
  BY <1>1 DEF SilenceInv, SilenceTypeOK, Working
<1>3. CASE silenceRows' = Unwritten(i) /\ UNCHANGED broken
  <2>1. Fewer({i}) /\ silenceRows' \in [SilenceIds -> Muted \cup {NoAlert}] /\ silenceRows'[i] = NoAlert
    BY <1>2, <1>3 DEF Fewer, Unwritten
  <2>2. \A t \in Working : work[t].kind \in {"delete", "retire"} /\ work[t].alert \notin hurried => work[t].id # i
    BY <1>1 DEF SilenceInv, WorkInv
  <2>3. QED
    BY <1>1, <1>2, <1>3, <2>1, <2>2, FewerStep
<1>4. CASE broken' = broken \cup ({silenceRows[i]} \ {NoAlert}) /\ UNCHANGED silenceRows
  <2>1. Fewer({}) /\ broken' \subseteq Muted /\ broken \subseteq broken'
    BY <1>2, <1>4 DEF Fewer
  <2>2. \A j \in destroying \ destroying' : silenceRows'[j] = NoAlert \/ silenceRows[j] \in broken'
    BY <1>1, <1>4
  <2>3. QED
    BY <1>1, <1>2, <1>4, <2>1, <2>2, FewerStep
<1>5. QED
  BY <1>3, <1>4 DEF DestroyOld

LEMMA SilenceStep == SilenceInv /\ [SilenceNext]_silenceVars => SilenceInv'
<1> SUFFICES ASSUME SilenceInv, [SilenceNext]_silenceVars PROVE SilenceInv'
  OBVIOUS
<1>1. ASSUME NEW s \in Sessions, NEW a \in Muted, RetireAlertSilence(s, a) PROVE SilenceInv'
  <2>1. PICK i \in OldRows(a) : Enter(s, "retire", a, i, "disable")
    BY <1>1 DEF RetireAlertSilence
  <2>2. i \in SilenceIds /\ silenceRows[i] = a
    BY <2>1, OldRowsFacts DEF RowsOf
  <2>3. QED
    BY <1>1, <2>1, <2>2, OnRowStep DEF RetireAlertSilence
<1>2. ASSUME NEW s \in Sessions, NEW i \in SilenceIds, UpdateSilence(s, i) \/ DeleteSilence(s, i) PROVE SilenceInv'
  <2>1. silenceRows[i] \in Muted
    BY <1>2 DEF UpdateSilence, DeleteSilence, SilenceInv, SilenceTypeOK
  <2>2. QED
    BY <1>2, <2>1, OnRowStep DEF UpdateSilence, DeleteSilence
<1>3. CASE UNCHANGED silenceVars
  BY <1>3 DEF silenceVars, SilenceInv, SilenceTypeOK, Working, WorkInv, Calm, RowsInv, RowsOf, KnownTo
<1>4. QED
  BY <1>1, <1>2, <1>3, CreateSilenceStep, PostStep, InsertStep, RepostStep, RewriteStep, DisableStep,
     DestroyStep, DestroyOldStep DEF SilenceNext

LEMMA SilenceInvariant == SilenceSpec => []SilenceInv
  BY SilenceInitial, SilenceStep, PTL DEF SilenceSpec

\* An alert has one row at the most between its requests, and the silences that mute it are
\* in the table or have been replaced, unless its requests overlapped or failed.
THEOREM SilencesAreAccounted == SilenceSpec => []SilencesAccounted
<1>1. SilenceInv => SilencesAccounted
  <2> SUFFICES ASSUME SilenceInv PROVE SilencesAccounted
    OBVIOUS
  <2>1. ASSUME NEW a \in Muted, AtRest(a) PROVE Cardinality(RowsOf(a)) <= 1
    <3>1. RowsInv(a) /\ RowsOf(a) \cap destroying = {}
      BY <2>1 DEF AtRest, SilenceInv, Calm
    <3>2. \A i, j \in RowsOf(a) : i = j
      BY <3>1 DEF RowsInv
    <3>3. CASE RowsOf(a) = {}
      BY <3>3, FS_EmptySet
    <3>4. ASSUME NEW i \in RowsOf(a) PROVE Cardinality(RowsOf(a)) <= 1
      <4>1. RowsOf(a) = {i}
        BY <3>2, <3>4
      <4>2. QED
        BY <4>1, FS_Singleton
    <3>5. QED
      BY <3>3, <3>4
  <2>2. ASSUME NEW i \in active, AtRest(inGrafana[i]) PROVE silenceRows[i] # NoAlert \/ i \in replaced
    <3>1. KnownTo(i)
      BY <2>2 DEF AtRest, Calm, SilenceInv
    <3>2. \A s \in Working : work[s].step = "insert" /\ work[s].id = i => work[s].alert = inGrafana[i]
      BY DEF SilenceInv, WorkInv
    <3>3. QED
      BY <2>2, <3>1, <3>2 DEF KnownTo, AtRest
  <2>3. QED
    BY <2>1, <2>2 DEF SilencesAccounted, OneSilencePerAlert, ActiveAccounted
<1>2. QED
  BY <1>1, SilenceInvariant, PTL

\* The only row of an alert is deleted, by a request that is alone with the alert, only when
\* its silence mutes the alert no more or has been replaced.
THEOREM RowsOutliveSilences == SilenceSpec => RowOutlivesSilence
<1>1. ASSUME SilenceInv, [SilenceNext]_silenceVars, NEW i \in SilenceIds, silenceRows[i] \notin hurried \cup {NoAlert},
             RowsOf(silenceRows[i]) = {i}, silenceRows'[i] = NoAlert
      PROVE  i \notin active \/ i \in replaced
  <2>1. ASSUME NEW s \in Sessions, DestroySilence(s) PROVE i \notin active \/ i \in replaced
    <3>0. s \in Working /\ work[s].step = "destroy"
      BY <2>1 DEF DestroySilence, Working
    <3>0a. WorkInv(s)
      BY <1>1, <3>0 DEF SilenceInv
    <3>0b. work[s].kind \in {"delete", "retire"}
      BY <3>0, <3>0a DEF WorkInv
    <3>1. WorkInv(s) /\ work[s].kind \in {"delete", "retire"} /\ work[s].step = "destroy"
      BY <3>0, <3>0a, <3>0b
    <3>2. work[s].id \in SilenceIds /\ work[s].id \notin active /\ inGrafana[work[s].id] = work[s].alert
      BY <3>1 DEF WorkInv
    <3>3. CASE i # work[s].id
      <4>1. silenceRows[i] = work[s].alert
        BY <1>1, <2>1, <3>3 DEF DestroySilence, Unwritten, SilenceInv, SilenceTypeOK
      <4>2. silenceRows[work[s].id] = work[s].alert
        BY <1>1, <3>1, <4>1 DEF WorkInv
      <4>3. work[s].id \in RowsOf(silenceRows[i])
        BY <3>2, <4>1, <4>2 DEF RowsOf
      <4>4. QED
        BY <1>1, <3>3, <4>3
    <3>4. QED
      BY <3>2, <3>3
  <2>2. ASSUME NEW j \in SilenceIds, DestroyOld(j) PROVE i \notin active \/ i \in replaced
    <3>1. j = i
      BY <1>1, <2>2 DEF DestroyOld, Unwritten, SilenceInv, SilenceTypeOK
    <3>2. QED
      BY <1>1, <2>2, <3>1 DEF DestroyOld, SilenceInv
  <2>3. ASSUME NEW s \in Sessions, InsertSilence(s) PROVE FALSE
    BY <1>1, <2>3, MutedAssumption DEF InsertSilence, SilenceInv, SilenceTypeOK, Working, WorkInv
  <2>4. ~ (silenceRows' = silenceRows)
    BY <1>1
  <2>5. QED
    BY <1>1, <2>1, <2>2, <2>3, <2>4 DEF SilenceNext, silenceVars, CreateSilence, RetireAlertSilence, UpdateSilence,
       DeleteSilence, Enter, PostSilence, RepostSilence, RewriteSilence, DisableSilence
<1>2. SilenceInv /\ [SilenceNext]_silenceVars =>
        [\A i \in SilenceIds : LET a == silenceRows[i] IN
           a \notin hurried \cup {NoAlert} /\ RowsOf(a) = {i} /\ silenceRows'[i] = NoAlert =>
              i \notin active \/ i \in replaced]_silenceVars
  BY <1>1
<1>3. QED
  BY <1>2, SilenceInvariant, PTL DEF SilenceSpec, RowOutlivesSilence

-----------------------------------------------------------------------------
(* Updates. *)

AllColumns == {"data_schema", "transformations_config", "denorm_config", "keys_config", "version_key"}

\* A column of the row after patch p has been written to it.
Patched(p, row, c) == IF c \in DOMAIN p THEN p[c] ELSE row[c]

\* Written to the row, p leaves no use of a field that it removes.
Clean(p, row) ==
    LET removed == row["data_schema"] \ Patched(p, row, "data_schema") IN
    /\ Patched(p, row, "transformations_config") \cap removed = {}
    /\ \A d \in Patched(p, row, "denorm_config") : d.field \notin removed
    /\ \A k \in Keys : Patched(p, row, "keys_config")[k] \notin removed

\* A user's version has the key that he sends; an update under way was made after all the
\* versions up to the one that it has read, and fits the row as long as that is the one it
\* has read.
UpdateInv(u) ==
    LET x == updates[u] IN
    /\ x.at \in {"away", "editing", "writing"}
    /\ x.at # "away" => x.seen \in 1 .. Len(times) /\ x.key = times[x.seen]
    /\ x.at = "writing" =>
         /\ x.read \in x.seen .. Len(times) /\ times[x.read] = x.key
         /\ x.made \in 0 .. now /\ \A v \in 1 .. x.read : times[v] <= x.made
         /\ "version_key" \in DOMAIN x.patch /\ x.patch["version_key"] = x.made
         /\ "data_schema" \in DOMAIN x.patch => x.patch["data_schema"] \subseteq FieldPaths
         /\ x.read = Len(times) => Clean(x.patch, draft)

\* Times go on, except where an update was made out of an old version.
TimesInv ==
    /\ now \in Nat /\ times \in Seq(0 .. now) /\ Len(times) >= 1
    /\ stale \subseteq 2 .. Len(times)
    /\ \A w \in 1 .. Len(times) : \A v \in 1 .. w : times[v] <= times[w] \/ stale \cap (v + 1 .. w) # {}

EditInv ==
    /\ DOMAIN draft = AllColumns /\ draft.data_schema \subseteq FieldPaths
    /\ draft["version_key"] = times[Len(times)]
    /\ TimesInv
    /\ DOMAIN updates = Users /\ \A u \in Users : UpdateInv(u)

LEMMA EditInitial == EditInit => EditInv
<1> SUFFICES ASSUME EditInit PROVE EditInv
  OBVIOUS
<1>1. Len(times) = 1 /\ times[1] = 0 /\ now = 0 /\ times \in Seq(0 .. now)
  BY DEF EditInit
<1>2. TimesInv
  BY <1>1 DEF TimesInv, EditInit
<1>3. \A u \in Users : updates[u].at = "away" /\ DOMAIN updates = Users
  BY DEF EditInit, Unstarted
<1>4. DOMAIN draft = AllColumns /\ draft.data_schema \subseteq FieldPaths /\ draft.version_key = 0
  BY DEF EditInit, AllColumns
<1>5. QED
  BY <1>1, <1>2, <1>3, <1>4 DEF EditInv, UpdateInv, EditInit

\* An update fits the row that it was merged with.
LEMMA MergedClean ==
  ASSUME NEW q \in UpdateRequests, DOMAIN draft = AllColumns, draft.data_schema \subseteq FieldPaths
  PROVE  LET m == MergeDraftDataset(draft, q) IN
         /\ "version_key" \in DOMAIN m /\ m["version_key"] = now
         /\ "data_schema" \in DOMAIN m => m["data_schema"] \subseteq FieldPaths
         /\ Clean(m, draft)
<1> DEFINE m == MergeDraftDataset(draft, q)
           removed == draft["data_schema"] \ Patched(m, draft, "data_schema")
<1>1. /\ "version_key" \in DOMAIN m /\ m["version_key"] = now
      /\ "data_schema" \in DOMAIN m <=> q.schema # NoSchema
      /\ "data_schema" \in DOMAIN m => m["data_schema"] = q.schema
  BY DEF MergeDraftDataset, Columns, VersionKey
<1>2. removed = FieldsRemoved(draft, q) /\ NoKey \notin removed
  BY <1>1, FieldPathsAssumption DEF Patched, FieldsRemoved
<1>3. Patched(m, draft, "transformations_config") \cap removed = {}
  BY <1>2 DEF MergeDraftDataset, Columns, Patched, MergeTransformations
<1>4. \A d \in Patched(m, draft, "denorm_config") : d.field \notin removed
  BY <1>2 DEF MergeDraftDataset, Columns, Patched, MergeDenorm
<1>5. \A k \in Keys : MergeKeys(draft, q)[k] \notin removed
  BY <1>2 DEF MergeKeys
<1>6. Patched(m, draft, "keys_config") = MergeKeys(draft, q) \/ removed = {}
  BY <1>2 DEF MergeDraftDataset, Columns, Patched
<1>7. \A k \in Keys : Patched(m, draft, "keys_config")[k] \notin removed
  BY <1>5, <1>6
<1>8. Clean(m, draft)
  BY <1>3, <1>4, <1>7 DEF Clean
<1>9. q.schema \subseteq FieldPaths
  BY UpdateRequestsAssumption DEF UpdateRequestsAssumption
<1>10. QED
  BY <1>1, <1>8, <1>9

\* Versions that no late update has come between are of times that go on.
LEMMA TimesGoOn ==
  ASSUME TimesInv, NEW k \in 1 .. Len(times), NEW n \in k .. Len(times), times[n] = times[k],
         stale \cap (k + 1 .. n) = {}
  PROVE  \A v \in k .. n : times[v] = times[k]
<1> SUFFICES ASSUME NEW v \in k .. n PROVE times[v] = times[k]
  OBVIOUS
<1>1. stale \cap (k + 1 .. v) = {} /\ stale \cap (v + 1 .. n) = {}
  OBVIOUS
<1>2. v \in 1 .. Len(times) /\ n \in 1 .. Len(times) /\ k \in 1 .. v /\ v \in 1 .. n
  BY DEF TimesInv
<1>3. times[k] <= times[v] /\ times[v] <= times[n]
  BY <1>1, <1>2 DEF TimesInv
<1>4. times[k] \in Nat /\ times[v] \in Nat
  BY <1>2 DEF TimesInv
<1>5. QED
  BY <1>3, <1>4

\* What an update does to the draft and to its history.
LEMMA WriteEffect ==
  ASSUME EditInv, NEW u \in Users, WriteUpdate(u)
  PROVE  LET x == updates[u]
             n == Len(times)
         IN /\ x.read \in 1 .. n /\ x.made \in 0 .. now /\ x.at = "writing"
            /\ Len(times') = n + 1 /\ times'[n + 1] = x.made
            /\ \A v \in 1 .. n : times'[v] = times[v]
            /\ times' \in Seq(0 .. now) /\ now' = now
            /\ stale' = IF x.read < n THEN stale \cup {n + 1} ELSE stale
            /\ DOMAIN draft' = AllColumns /\ draft'["version_key"] = x.made
            /\ \A c \in AllColumns : draft'[c] = Patched(x.patch, draft, c)
            /\ updates'[u].at = "away" /\ DOMAIN updates' = Users
            /\ \A v \in Users \ {u} : updates'[v] = updates[v]
<1> DEFINE x == updates[u]
<1>1. /\ x.at = "writing" /\ x.read \in x.seen .. Len(times) /\ x.seen \in 1 .. Len(times)
      /\ x.made \in 0 .. now /\ "version_key" \in DOMAIN x.patch /\ x.patch["version_key"] = x.made
  BY DEF EditInv, UpdateInv, WriteUpdate
<1>2. times \in Seq(0 .. now) /\ Len(times) \in Nat
  BY DEF EditInv, TimesInv
<1>3. /\ DOMAIN draft' = AllColumns /\ draft'["version_key"] = x.made
      /\ \A c \in AllColumns : draft'[c] = Patched(x.patch, draft, c)
  BY <1>1 DEF WriteUpdate, EditInv, AllColumns, Patched
<1>4. updates'[u].at = "away" /\ DOMAIN updates' = Users /\ \A v \in Users \ {u} : updates'[v] = updates[v]
  BY DEF WriteUpdate, EditInv, Unstarted
<1>5. QED
  BY <1>1, <1>2, <1>3, <1>4 DEF WriteUpdate

LEMMA TimesStep ==
  ASSUME EditInv, NEW u \in Users, WriteUpdate(u)
  PROVE  TimesInv'
<1> DEFINE n == Len(times)
<1>1. n \in Nat /\ n >= 1 /\ stale \subseteq 2 .. n /\ now \in Nat
  BY DEF EditInv, TimesInv
<1>0. (\A v \in 1 .. n : times'[v] = times[v]) /\ stale \subseteq stale'
  BY WriteEffect
<1>2. now' \in Nat /\ times' \in Seq(0 .. now') /\ Len(times') = n + 1 /\ Len(times') >= 1
      /\ stale' \subseteq 2 .. Len(times')
  <2>1. /\ now' = now /\ times' \in Seq(0 .. now) /\ Len(times') = n + 1
        /\ stale' = IF updates[u].read < n THEN stale \cup {n + 1} ELSE stale
    BY WriteEffect
  <2>2. stale' \subseteq stale \cup {n + 1} /\ stale \subseteq 2 .. n + 1 /\ n + 1 \in 2 .. n + 1
    BY <1>1, <2>1
  <2>3. stale' \subseteq 2 .. Len(times')
    BY <2>1, <2>2
  <2>4. QED
    BY <1>1, <2>1, <2>3
<1>3. ASSUME NEW w \in 1 .. n + 1, NEW v \in 1 .. w
      PROVE  times'[v] <= times'[w] \/ stale' \cap (v + 1 .. w) # {}
  <2>1. CASE w \in 1 .. n
    <3>1. times[v] <= times[w] \/ stale \cap (v + 1 .. w) # {}
      BY <2>1 DEF EditInv, TimesInv
    <3>2. v \in 1 .. n
      BY <1>1, <2>1
    <3>3. times'[v] = times[v] /\ times'[w] = times[w] /\ stale \subseteq stale'
      BY <1>0, <2>1, <3>2
    <3>4. QED
      BY <3>1, <3>3
  <2>2. CASE w = n + 1 /\ v = n + 1
    BY <1>1, <2>2, WriteEffect
  <2>3. CASE w = n + 1 /\ v \in 1 .. n /\ updates[u].read < n
    <3>1. n + 1 \in stale' /\ n + 1 \in v + 1 .. w
      BY <1>1, <2>3, WriteEffect
    <3>2. QED
      BY <3>1
  <2>4. CASE w = n + 1 /\ v \in 1 .. n /\ ~ (updates[u].read < n)
    <3>0. updates[u].read \in 1 .. n /\ updates[u].at = "writing" /\ UpdateInv(u)
      BY WriteEffect DEF EditInv
    <3>1. times[v] <= updates[u].made
      BY <1>1, <2>4, <3>0 DEF UpdateInv
    <3>2. QED
      BY <1>1, <2>4, <3>1, WriteEffect
  <2>5. QED
    BY <1>1, <2>1, <2>2, <2>3, <2>4
<1>4. QED
  BY <1>1, <1>2, <1>3, WriteEffect DEF TimesInv

LEMMA EditStep == EditInv /\ [EditNext]_editVars => EditInv'
<1> SUFFICES ASSUME EditInv, [EditNext]_editVars PROVE EditInv'
  OBVIOUS
<1>0. /\ Len(times) \in Nat /\ Len(times) >= 1 /\ now \in Nat /\ times \in Seq(0 .. now)
      /\ DOMAIN updates = Users
  BY DEF EditInv, TimesInv
<1>1. ASSUME NEW u \in Users, FetchDraft(u) PROVE EditInv'
  <2>1. updates'[u].at = "editing" /\ updates'[u].seen = Len(times) /\ updates'[u].key = draft.version_key
    BY <1>0, <1>1 DEF FetchDraft, Unstarted
  <2>2. DOMAIN updates' = Users /\ \A v \in Users \ {u} : updates'[v] = updates[v]
    BY <1>0, <1>1 DEF FetchDraft
  <2>3. UNCHANGED <<draft, now, times, stale>>
    BY <1>1 DEF FetchDraft
  <2>4. UpdateInv(u)'
    BY <1>0, <2>1, <2>3 DEF UpdateInv, EditInv
  <2>5. \A v \in Users \ {u} : UpdateInv(v)'
    BY <2>2, <2>3 DEF EditInv, UpdateInv, Clean, Patched
  <2>6. QED
    BY <2>2, <2>3, <2>4, <2>5 DEF EditInv, TimesInv
<1>2. ASSUME NEW u \in Users, NEW q \in UpdateRequests, StartUpdate(u, q) PROVE EditInv'
  <2> DEFINE x == updates[u]
  <2>1. /\ x.at = "editing" /\ x.seen \in 1 .. Len(times) /\ x.key = times[x.seen]
        /\ x.key = times[Len(times)]
    BY <1>2 DEF StartUpdate, EditInv, UpdateInv
  <2>2. /\ updates'[u].at = "writing" /\ updates'[u].seen = x.seen /\ updates'[u].key = x.key
        /\ updates'[u].read = Len(times) /\ updates'[u].made = now
        /\ updates'[u].patch = MergeDraftDataset(draft, q)
    BY <1>0, <1>2 DEF StartUpdate
  <2>3. DOMAIN updates' = Users /\ \A v \in Users \ {u} : updates'[v] = updates[v]
    BY <1>0, <1>2 DEF StartUpdate
  <2>4. UNCHANGED <<draft, now, times, stale>>
    BY <1>2 DEF StartUpdate
  <2>5. \A v \in 1 .. Len(times) : times[v] <= now
    BY <1>0
  <2>6. UpdateInv(u)'
    BY <1>0, <2>1, <2>2, <2>4, <2>5, MergedClean DEF UpdateInv, EditInv
  <2>7. \A v \in Users \ {u} : UpdateInv(v)'
    BY <2>3, <2>4 DEF EditInv, UpdateInv, Clean, Patched
  <2>8. QED
    BY <2>3, <2>4, <2>6, <2>7 DEF EditInv, TimesInv
<1>3. ASSUME NEW u \in Users, WriteUpdate(u) PROVE EditInv'
  <2> DEFINE n == Len(times)
  <2>1. TimesInv'
    BY <1>3, TimesStep
  <2>2. DOMAIN updates' = Users /\ DOMAIN draft' = AllColumns
    BY <1>3, WriteEffect
  <2>3. draft'["version_key"] = times'[Len(times')]
    BY <1>0, <1>3, WriteEffect
  <2>4. draft'.data_schema \subseteq FieldPaths
    BY <1>3, WriteEffect DEF EditInv, UpdateInv, Patched, AllColumns
  <2>5. UpdateInv(u)'
    BY <1>3, WriteEffect DEF UpdateInv
  <2>6. ASSUME NEW v \in Users \ {u} PROVE UpdateInv(v)'
    <3>1. updates'[v] = updates[v] /\ UpdateInv(v) /\ Len(times') = n + 1 /\ now' = now
      BY <1>3, WriteEffect DEF EditInv
    <3>2. \A i \in 1 .. n : times'[i] = times[i]
      BY <1>3, WriteEffect
    <3>3. updates[v].at # "away" =>
             /\ updates[v].seen \in 1 .. n + 1 /\ updates[v].key = times'[updates[v].seen]
      BY <1>0, <3>1, <3>2 DEF UpdateInv
    <3>4. updates[v].at = "writing" =>
             /\ updates[v].read \in updates[v].seen .. n + 1 /\ updates[v].read # n + 1
             /\ times'[updates[v].read] = updates[v].key
             /\ \A k \in 1 .. updates[v].read : times'[k] <= updates[v].made
      <4> SUFFICES ASSUME updates[v].at = "writing"
                   PROVE  /\ updates[v].read \in updates[v].seen .. n + 1 /\ updates[v].read # n + 1
                          /\ times'[updates[v].read] = updates[v].key
                          /\ \A k \in 1 .. updates[v].read : times'[k] <= updates[v].made
        OBVIOUS
      <4>1. /\ updates[v].seen \in 1 .. n /\ updates[v].read \in updates[v].seen .. n
            /\ times[updates[v].read] = updates[v].key
            /\ \A k \in 1 .. updates[v].read : times[k] <= updates[v].made
        BY <3>1 DEF UpdateInv
      <4>2. updates[v].read \in 1 .. n /\ \A k \in 1 .. updates[v].read : k \in 1 .. n
        BY <1>0, <4>1
      <4>3. QED
        BY <1>0, <3>2, <4>1, <4>2
    <3>5. QED
      BY <3>1, <3>3, <3>4 DEF UpdateInv
  <2>7. QED
    BY <2>1, <2>2, <2>3, <2>4, <2>5, <2>6 DEF EditInv
<1>4. ASSUME NEW u \in Users, FailUpdate(u) PROVE EditInv'
  <2>1. /\ updates'[u].at = "editing" /\ updates'[u].seen = updates[u].seen
        /\ updates'[u].key = updates[u].key /\ updates[u].at = "writing"
    BY <1>0, <1>4 DEF FailUpdate
  <2>2. DOMAIN updates' = Users /\ \A v \in Users \ {u} : updates'[v] = updates[v]
    BY <1>0, <1>4 DEF FailUpdate
  <2>3. UNCHANGED <<draft, now, times, stale>>
    BY <1>4 DEF FailUpdate
  <2>4. UpdateInv(u)'
    BY <2>1, <2>3 DEF UpdateInv, EditInv
  <2>5. \A v \in Users \ {u} : UpdateInv(v)'
    BY <2>2, <2>3 DEF EditInv, UpdateInv, Clean, Patched
  <2>6. QED
    BY <2>2, <2>3, <2>4, <2>5 DEF EditInv, TimesInv
<1>5. CASE Tick
  <2>1. now' = now + 1 /\ UNCHANGED <<draft, times, stale, updates>>
    BY <1>5 DEF Tick
  <2>2. times \in Seq(0 .. now + 1)
    BY <1>0
  <2>3. TimesInv'
    BY <1>0, <2>1, <2>2 DEF EditInv, TimesInv
  <2>4. \A u \in Users : UpdateInv(u)'
    BY <1>0, <2>1 DEF EditInv, UpdateInv, Clean, Patched
  <2>5. QED
    BY <2>1, <2>3, <2>4 DEF EditInv
<1>6. CASE UNCHANGED editVars
  BY <1>6 DEF editVars, EditInv, TimesInv, UpdateInv, Clean, Patched
<1>7. QED
  BY <1>1, <1>2, <1>3, <1>4, <1>5, <1>6 DEF EditNext

LEMMA EditsSound == EditInv /\ [EditNext]_editVars => LossNeedsOverlap /\ RemovedFieldsUnused
<1> SUFFICES ASSUME EditInv, [EditNext]_editVars, NEW u \in Users, Writing(u)
             PROVE  /\ \A v \in updates[u].seen + 1 .. Len(times) :
                         \/ v > updates[u].read \/ times[v] = times[updates[u].seen]
                         \/ stale \cap (updates[u].seen + 1 .. updates[u].read) # {}
                    /\ updates[u].read = Len(times) =>
                         LET removed == draft.data_schema \ draft'.data_schema IN
                         /\ draft'.transformations_config \cap removed = {}
                         /\ \A d \in draft'.denorm_config : d.field \notin removed
                         /\ \A k \in Keys : draft'.keys_config[k] \notin removed
  BY DEF LossNeedsOverlap, RemovedFieldsUnused
<1>1. WriteUpdate(u)
  <2>1. /\ updates[u].at = "writing" /\ updates'[u].at # "writing"
        /\ Len(times') > Len(times) /\ Len(times) \in Nat /\ DOMAIN updates = Users
    BY DEF Writing, EditInv, TimesInv
  <2>2. ~ (times' = times)
    BY <2>1
  <2>3. PICK v \in Users : WriteUpdate(v)
    BY <2>2 DEF EditNext, editVars, FetchDraft, StartUpdate, FailUpdate, Tick
  <2>4. v = u
    BY <2>1, <2>3, WriteEffect
  <2>5. QED
    BY <2>3, <2>4
<1>2. /\ updates[u].at = "writing" /\ updates[u].seen \in 1 .. Len(times)
      /\ updates[u].read \in updates[u].seen .. Len(times)
      /\ times[updates[u].read] = times[updates[u].seen]
  BY <1>1, WriteEffect DEF EditInv, UpdateInv
<1>3. ASSUME NEW v \in updates[u].seen + 1 .. Len(times)
      PROVE  \/ v > updates[u].read \/ times[v] = times[updates[u].seen]
             \/ stale \cap (updates[u].seen + 1 .. updates[u].read) # {}
  <2>1. CASE stale \cap (updates[u].seen + 1 .. updates[u].read) = {} /\ ~ (v > updates[u].read)
    <3>1. Len(times) \in Nat /\ TimesInv
      BY DEF EditInv, TimesInv
    <3>2. v \in updates[u].seen .. updates[u].read
      BY <1>2, <2>1, <3>1
    <3>3. QED
      BY <1>2, <2>1, <3>1, <3>2, TimesGoOn
  <2>2. QED
    BY <2>1
<1>4. ASSUME updates[u].read = Len(times)
      PROVE  LET removed == draft.data_schema \ draft'.data_schema IN
             /\ draft'.transformations_config \cap removed = {}
             /\ \A d \in draft'.denorm_config : d.field \notin removed
             /\ \A k \in Keys : draft'.keys_config[k] \notin removed
  <2>1. Clean(updates[u].patch, draft)
    BY <1>2, <1>4 DEF EditInv, UpdateInv
  <2>2. \A c \in AllColumns : draft'[c] = Patched(updates[u].patch, draft, c)
    BY <1>1, WriteEffect
  <2>3. QED
    BY <2>1, <2>2 DEF Clean, AllColumns
<1>5. QED
  BY <1>3, <1>4

\* An update overwrites what its user has not seen only if updates overlapped or were made
\* in one millisecond, and leaves no use of a field that it removes unless it was overtaken.
THEOREM UpdatesAreSound == EditSpec => UpdatesSound
<1>1. EditSpec => []EditInv
  BY EditInitial, EditStep, PTL DEF EditSpec
<1>2. EditInv /\ [EditNext]_editVars => [LossNeedsOverlap /\ RemovedFieldsUnused]_editVars
  BY EditsSound
<1>3. QED
  BY <1>1, <1>2, PTL DEF EditSpec, UpdatesSound

-----------------------------------------------------------------------------
(* Queries.  What Druid executes was mapped, looked up and limited for the *)
(* request that sent it.  QueryInv says for every await what its request   *)
(* has established so far; a request is undisturbed by the others because  *)
(* it reads nothing that they write, and by moves because what it has seen *)
(* (`met`) only grows.                                                     *)

Same(p, q) ==
    /\ p.entry = q.entry /\ p.tables = q.tables /\ p.ctes = q.ctes /\ p.params = q.params
    /\ p.byAlias = q.byAlias /\ p.comma = q.comma /\ p.marked = q.marked /\ p.broken = q.broken
    /\ p.ruled = q.ruled /\ p.dated = q.dated /\ p.from = q.from /\ p.to = q.to

RowsOK(q) ==
    IF IsObject(q) THEN ~ Limitless(q) => q.limit[1] <= MaxResultRowLimit /\ q.threshold <= MaxResultThreshold
    ELSE q.marked \/ q.broken \/ (IF q.comma THEN Last(q.limit) ELSE q.limit[1]) <= MaxResultRowLimit

LEMMA CappedLimit ==
    ASSUME NEW s \in Seq(Nat), NEW i \in DOMAIN s
    PROVE  Capped(s, i) \in Seq(Nat) /\ Len(Capped(s, i)) = Len(s) /\ Capped(s, i)[i] <= MaxResultRowLimit
  BY RulesAssumption DEF Capped, GetLimit

\* A query that has been limited is the same otherwise.
LEMMA Limited ==
    ASSUME NEW q, IsQuery(q)
    PROVE  IsQuery(SetQueryLimits(q)) /\ Same(SetQueryLimits(q), q) /\ RowsOK(SetQueryLimits(q))
<1> USE RulesAssumption
<1> DEFINE p == SetQueryLimits(q)
<1>1. CASE IsObject(q) /\ Limitless(q)
  <2>1. p = [q EXCEPT !.threshold = MaxResultRowLimit]
    BY <1>1 DEF SetQueryLimits, LimitObject
  <2> QED BY <2>1, <1>1 DEF IsQuery, QueryFields, Same, RowsOK, IsObject, Limitless
<1>2. CASE IsObject(q) /\ ~ Limitless(q)
  <2> DEFINE l == Capped(q.limit, 1)
             h == IF q.threshold = 0 THEN MaxResultThreshold ELSE GetLimit(q.threshold, MaxResultThreshold)
  <2>1. p = [q EXCEPT !.threshold = h, !.limit = l]
    BY <1>2 DEF SetQueryLimits, LimitObject
  <2>2. l \in Seq(Nat) /\ Len(l) = Len(q.limit) /\ l[1] <= MaxResultRowLimit
    <3>1. q.limit \in Seq(Nat) /\ 1 \in DOMAIN q.limit
      BY <1>2 DEF IsQuery, Limitless
    <3> QED BY <3>1, CappedLimit
  <2>3. h \in Nat /\ h <= MaxResultThreshold
    BY DEF IsQuery, GetLimit
  <2> HIDE DEF l, h, p
  <2>4. p.limit = l /\ p.threshold = h /\ Same(p, q) /\ DOMAIN p = QueryFields
    BY <2>1 DEF IsQuery, QueryFields, Same
  <2>5. IsQuery(p)
    BY <2>2, <2>3, <2>4 DEF IsQuery, Same
  <2>6. RowsOK(p)
    BY <2>2, <2>3, <2>4, <1>2 DEF RowsOK, IsObject, Same
  <2> QED BY <2>4, <2>5, <2>6 DEF p
<1>3. CASE ~ IsObject(q) /\ ~ q.broken /\ q.marked
  <2>1. p = q
    BY <1>3 DEF SetQueryLimits, ParseSqlQuery
  <2> QED BY <2>1, <1>3 DEF Same, RowsOK
<1>4. CASE ~ IsObject(q) /\ q.limit = << >> /\ (q.broken \/ ~ q.marked)
  <2>1. p = [q EXCEPT !.limit = <<MaxResultRowLimit>>]
    BY <1>4 DEF SetQueryLimits, ParseSqlQuery
  <2>2. <<MaxResultRowLimit>> \in Seq(Nat) /\ Last(<<MaxResultRowLimit>>) = MaxResultRowLimit
    BY DEF Last
  <2> QED BY <2>1, <2>2, <1>4 DEF IsQuery, QueryFields, Same, RowsOK, IsObject
<1>5. CASE ~ IsObject(q) /\ q.limit # << >> /\ q.broken
  <2>1. p = [q EXCEPT !.limit = q.limit]
    BY <1>5 DEF SetQueryLimits
  <2> QED BY <2>1, <1>5 DEF IsQuery, QueryFields, Same, RowsOK, IsObject
<1>6. CASE ~ IsObject(q) /\ q.limit # << >> /\ ~ q.broken /\ ~ q.marked
  <2> DEFINE i == LimitIndex(q)
             l == Capped(q.limit, i)
  <2>1. p = [q EXCEPT !.limit = l]
    BY <1>6 DEF SetQueryLimits, ParseSqlQuery
  <2>2. q.limit \in Seq(Nat) /\ i \in DOMAIN q.limit
    BY <1>6 DEF IsQuery, LimitIndex
  <2>3. l \in Seq(Nat) /\ Len(l) = Len(q.limit) /\ l[i] <= MaxResultRowLimit
    BY <2>2, CappedLimit
  <2>4. i = IF q.comma THEN Len(q.limit) ELSE 1
    BY <1>6 DEF IsQuery, LimitIndex
  <2> HIDE DEF i, l, p
  <2>5. p.limit = l /\ Same(p, q) /\ DOMAIN p = QueryFields /\ p.threshold = q.threshold
    BY <2>1 DEF IsQuery, QueryFields, Same
  <2>6. IsQuery(p)
    BY <2>3, <2>5 DEF IsQuery, Same
  <2>7. RowsOK(p)
    BY <2>3, <2>4, <2>5, <1>6 DEF RowsOK, Last, IsObject, Same
  <2> QED BY <2>5, <2>6, <2>7 DEF p
<1> QED BY <1>1, <1>2, <1>3, <1>4, <1>5, <1>6

-----------------------------------------------------------------------------
(* The forms of the variables *)

Row == [ref : Sources, status : {"Live", "Retired"}]

Forms ==
    /\ rows \in [Aliases -> Row]
    /\ loaded \in [Sources -> {"no", "part", "full"}]
    /\ listed \subseteq Sources
    /\ at \in [Clients -> Pending \cup {"new", "ok", "refused", "failed"}]
    /\ asking = [c \in Clients |-> asking[c]]
    /\ source = [c \in Clients |-> source[c]]
    /\ met = [c \in Clients |-> met[c]]
    /\ toLoad \in [Clients -> SUBSET Sources]
    /\ ran \subseteq Clients
    /\ \A c \in Clients : c \in ran => at[c] \in {"ok", "failed"}

\* The entry of a query and the await its request is at.
Stage(c) ==
    /\ at[c] # "new" => IsQuery(asking[c])
    /\ at[c] = "resolve" => asking[c].entry = "native"
    /\ at[c] \in {"validate", "reference"} => asking[c].entry \in {"template", "json"}
    /\ at[c] = "map" => asking[c].entry = "sql"
    /\ c \in ran => at[c] # "new"

Mapped(c) == at[c] \in {"load", "list", "execute"} \/ c \in ran

\* What a source was looked up from.
Meant(q, t, s, row) ==
    /\ row.ref = s
    /\ q.params[t] = IF q.byAlias THEN row.alias ELSE row.ref
    /\ q.entry = "sql" => row.status = "Live"

Mapping(c) ==
    Mapped(c) =>
        /\ DOMAIN source[c] = asking[c].tables \ asking[c].ctes
        /\ Range(source[c]) \subseteq Sources
        /\ \A t \in DOMAIN source[c] : \E row \in met[c].rows : Meant(asking[c], t, source[c][t], row)

\* A request has seen whatever is true now.
Followed(c) ==
    at[c] \in Pending =>
        Truth.rows \subseteq met[c].rows /\ Truth.full \subseteq met[c].full /\ Truth.listed \subseteq met[c].listed

Loading(c) ==
    /\ toLoad[c] # {} => at[c] = "load"
    /\ at[c] = "load" => Range(source[c]) \ toLoad[c] \subseteq met[c].full
    /\ at[c] \in {"list", "execute"} \/ c \in ran => Range(source[c]) \subseteq met[c].full
    /\ at[c] = "execute" \/ c \in ran => Range(source[c]) \subseteq met[c].listed

RangeOK(q) == IsObject(q) /\ q.ruled => q.dated /\ q.from - q.to \in -MaxDateRange .. MaxDateRange

\* SQL is limited when it has been rewritten, everything else when it has been validated.
Validated(c) ==
    \/ at[c] \in {"reference", "load", "list"} /\ asking[c].entry # "sql"
    \/ at[c] = "execute" \/ c \in ran

Within(c) == Validated(c) => RowsOK(asking[c]) /\ RangeOK(asking[c])

QueryInv ==
    /\ Forms
    /\ \A c \in Clients : Stage(c) /\ Mapping(c) /\ Followed(c) /\ Loading(c) /\ Within(c)

LEMMA QueryInvInit == DataQueryInit => QueryInv
<1> SUFFICES ASSUME DataQueryInit PROVE QueryInv
  OBVIOUS
<1>1. Forms
  BY DEF DataQueryInit, Forms, Row, Pending
<1>2. ASSUME NEW c \in Clients PROVE Stage(c) /\ Mapping(c) /\ Followed(c) /\ Loading(c) /\ Within(c)
  BY DEF DataQueryInit, Stage, Mapping, Mapped, Followed, Pending, Loading, Within, Validated
<1> QED BY <1>1, <1>2 DEF QueryInv

\* A request that is where it was, and has seen more, has lost nothing.
LEMMA OthersKeep ==
    ASSUME QueryInv, NEW c \in Clients,
           at'[c] = at[c], asking'[c] = asking[c], source'[c] = source[c], toLoad'[c] = toLoad[c],
           c \in ran' <=> c \in ran,
           met'[c] = met[c], Truth' = Truth
    PROVE  (Stage(c) /\ Mapping(c) /\ Followed(c) /\ Loading(c) /\ Within(c))'
  BY DEF QueryInv, Stage, Mapping, Mapped, Meant, Followed, Loading, Within, Validated, RowsOK, RangeOK, IsObject,
         IsQuery, QueryFields

\* A request that ends without an execution.
LEMMA EndKeeps ==
    ASSUME QueryInv, NEW c \in Clients, c \notin ran', at'[c] \in {"ok", "refused", "failed"}, toLoad'[c] = {},
           IsQuery(asking'[c])
    PROVE  (Stage(c) /\ Mapping(c) /\ Followed(c) /\ Loading(c) /\ Within(c))'
  BY DEF QueryInv, Stage, Mapping, Mapped, Followed, Pending, Loading, Within, Validated

QueryFrame(c) ==
    /\ UNCHANGED <<rows, loaded, listed>>
    /\ \A d \in Clients \ {c} :
        /\ at'[d] = at[d] /\ asking'[d] = asking[d] /\ source'[d] = source[d]
        /\ toLoad'[d] = toLoad[d] /\ met'[d] = met[d]
        /\ d \in ran' <=> d \in ran

LEMMA StepKeeps ==
    ASSUME QueryInv, NEW c \in Clients, QueryFrame(c), Forms',
           (Stage(c) /\ Mapping(c) /\ Followed(c) /\ Loading(c) /\ Within(c))'
    PROVE  QueryInv'
<1>1. Truth' = Truth
  BY DEF QueryFrame, Truth
<1>2. ASSUME NEW d \in Clients, d # c PROVE (Stage(d) /\ Mapping(d) /\ Followed(d) /\ Loading(d) /\ Within(d))'
  BY <1>1, <1>2, OthersKeep DEF QueryFrame
<1> QED BY <1>2 DEF QueryInv

LEMMA SendQueryKeeps == ASSUME QueryInv, NEW c \in Clients, SendQuery(c) PROVE QueryInv'
<1>1. PICK q \in Queries :
          /\ at[c] = "new"
          /\ asking' = [asking EXCEPT ![c] = q]
          /\ at' = [at EXCEPT ![c] = CASE q.entry = "native" -> "resolve"
                                       [] q.entry = "sql"    -> "map"
                                       [] OTHER              -> "validate"]
          /\ met' = [met EXCEPT ![c] = Truth]
          /\ UNCHANGED <<source, toLoad, ran>> /\ UNCHANGED <<rows, loaded, listed>>
  BY DEF SendQuery, Advance, Unmoved
<1>2. IsQuery(q)
  BY QueriesAssumption
<1>3. QueryFrame(c)
  BY <1>1 DEF QueryFrame, QueryInv, Forms
<1>4. /\ at'[c] \in {"resolve", "map", "validate"}
      /\ at'[c] = "resolve" <=> q.entry = "native"
      /\ at'[c] = "map" <=> q.entry = "sql"
      /\ asking'[c] = q /\ met'[c] = Truth /\ toLoad'[c] = {} /\ c \notin ran' /\ Truth' = Truth
  BY <1>1 DEF QueryInv, Forms, Loading, Truth
<1>5. Forms'
  BY <1>1, <1>4 DEF QueryInv, Forms, Pending
<1>6. (Stage(c) /\ Mapping(c) /\ Followed(c) /\ Loading(c) /\ Within(c))'
  BY <1>2, <1>4 DEF Stage, Mapping, Mapped, Followed, Loading, Within, Validated, IsQuery
<1> QED BY <1>3, <1>5, <1>6, StepKeeps

\* The facts about the query when it has been validated.
LEMMA ValidIsInRange ==
    ASSUME NEW q, IsQuery(q), ValidateQueryRules(q) = "valid"
    PROVE  RangeOK(q)
  BY RulesAssumption DEF ValidateQueryRules, RangeOK, IsValidDateRange, IsQuery

LEMMA EndStepKeeps ==
    ASSUME QueryInv, NEW c \in Clients, NEW q, IsQuery(q), NEW end \in {"ok", "refused", "failed"},
           c \notin ran, at' = [at EXCEPT ![c] = end], toLoad' = [toLoad EXCEPT ![c] = {}],
           asking' = [asking EXCEPT ![c] = q],
           UNCHANGED <<source, met, ran, rows, loaded, listed>>
    PROVE  QueryInv'
<1>1. QueryFrame(c) /\ Forms'
  BY DEF QueryFrame, QueryInv, Forms
<1>2. at'[c] = end /\ toLoad'[c] = {} /\ asking'[c] = q
  BY DEF QueryInv, Forms
<1> QED BY <1>1, <1>2, EndKeeps, StepKeeps

\* A request that learns the datasources of its tables.
LEMMA LookKeeps ==
    ASSUME QueryInv, NEW c \in Clients, NEW q, IsQuery(q), NEW map,
           at[c] \in Pending, c \notin ran,
           asking' = [asking EXCEPT ![c] = q],
           Look(c, map), UNCHANGED <<met, ran, rows, loaded, listed>>,
           DOMAIN map = q.tables \ q.ctes, Range(map) \subseteq Sources,
           \A t \in DOMAIN map : \E row \in Truth.rows : Meant(q, t, map[t], row),
           q.entry # "sql" => RowsOK(q) /\ RangeOK(q)
    PROVE  QueryInv'
<1>1. /\ at' = [at EXCEPT ![c] = "load"] /\ source' = [source EXCEPT ![c] = map]
      /\ toLoad' = [toLoad EXCEPT ![c] = Range(map)]
  BY DEF Look, Advance
<1>2. QueryFrame(c) /\ Forms'
  BY <1>1 DEF QueryFrame, QueryInv, Forms, Pending
<1>3. /\ at'[c] = "load" /\ source'[c] = map /\ toLoad'[c] = Range(map) /\ asking'[c] = q /\ met'[c] = met[c]
      /\ Truth' = Truth /\ c \notin ran'
  BY <1>1 DEF QueryInv, Forms, Truth
<1>4. Stage(c)' /\ Loading(c)' /\ Within(c)'
  BY <1>3 DEF Stage, Loading, Within, Validated, Range
<1>5. Mapping(c)' /\ Followed(c)'
  BY <1>3 DEF QueryInv, Followed, Mapping, Mapped, Meant
<1> QED BY <1>2, <1>4, <1>5, StepKeeps

LEMMA OneTable ==
    ASSUME NEW q, IsQuery(q), q.entry # "sql"
    PROVE  q.tables = {TableOf(q)} /\ q.tables \ q.ctes = {TableOf(q)} /\ q.byAlias
  BY DEF IsQuery, TableOf

\* The alias of a table gives it the datasource of its row.
LEMMA AliasMeans ==
    ASSUME QueryInv, NEW q, IsQuery(q), q.entry # "sql", KeyOf(q) \in Aliases,
           NEW map, map = OnlySource(q, rows[KeyOf(q)].ref)
    PROVE  /\ DOMAIN map = q.tables \ q.ctes /\ Range(map) \subseteq Sources
           /\ \A t \in DOMAIN map : \E row \in Truth.rows : Meant(q, t, map[t], row)
<1> DEFINE row == [alias |-> KeyOf(q), ref |-> rows[KeyOf(q)].ref, status |-> rows[KeyOf(q)].status]
<1>1. DOMAIN map = {TableOf(q)} /\ Range(map) = {rows[KeyOf(q)].ref} /\ map[TableOf(q)] = rows[KeyOf(q)].ref
  BY DEF OnlySource, Range
<1>2. rows[KeyOf(q)].ref \in Sources
  BY DEF QueryInv, Forms, Row
<1>3. row \in Truth.rows
  BY DEF Truth
<1>4. Meant(q, TableOf(q), map[TableOf(q)], row)
  BY <1>1, OneTable DEF Meant, KeyOf
<1> QED BY <1>1, <1>2, <1>3, <1>4, OneTable

LEMMA ResolveNativeKeeps == ASSUME QueryInv, NEW c \in Clients, ResolveNative(c) PROVE QueryInv'
<1> DEFINE q == SetQueryLimits(asking[c])
           map == OnlySource(asking[c], rows[KeyOf(asking[c])].ref)
<1>1. /\ at[c] = "resolve" /\ at[c] \in Pending /\ c \notin ran
      /\ IsQuery(asking[c]) /\ asking[c].entry = "native"
      /\ asking = [asking EXCEPT ![c] = asking[c]]
  BY DEF ResolveNative, QueryInv, Forms, Stage, Pending
<1>2. UNCHANGED <<met, ran, rows, loaded, listed>>
  BY DEF ResolveNative, Unmoved
<1>3. IsQuery(q) /\ Same(q, asking[c]) /\ RowsOK(q)
  BY <1>1, Limited
<1>4. CASE KeyOf(asking[c]) \notin Aliases
  <2>1. ReplyQuery(c, "refused") /\ UNCHANGED asking
    BY <1>4 DEF ResolveNative
  <2> QED BY <2>1, <1>1, <1>2, EndStepKeeps DEF ReplyQuery, Advance
<1>5. CASE KeyOf(asking[c]) \in Aliases /\ ValidateQueryRules(asking[c]) # "valid"
  <2>1. asking' = [asking EXCEPT ![c] = q] /\ \E end \in {"refused", "ok"} : ReplyQuery(c, end)
    BY <1>5 DEF ResolveNative, ValidateQuery, ValidateQueryRules
  <2> QED BY <2>1, <1>1, <1>2, <1>3, EndStepKeeps DEF ReplyQuery, Advance
<1>6. CASE KeyOf(asking[c]) \in Aliases /\ ValidateQueryRules(asking[c]) = "valid"
  <2>1. asking' = [asking EXCEPT ![c] = q] /\ Look(c, map)
    BY <1>6 DEF ResolveNative, ValidateQuery
  <2>2. RangeOK(asking[c])
    BY <1>1, <1>6, ValidIsInRange
  <2>3. RangeOK(q) /\ q.entry = "native"
    BY <2>2, <1>1, <1>3 DEF RangeOK, IsObject, Same
  <2>4. map = OnlySource(q, rows[KeyOf(q)].ref) /\ KeyOf(q) \in Aliases
    BY <1>3, <1>6 DEF OnlySource, TableOf, KeyOf, Same
  <2> HIDE DEF q, map
  <2>5. /\ DOMAIN map = q.tables \ q.ctes /\ Range(map) \subseteq Sources
        /\ \A t \in DOMAIN map : \E row \in Truth.rows : Meant(q, t, map[t], row)
    BY <1>3, <2>3, <2>4, AliasMeans
  <2> QED BY <1>1, <1>2, <1>3, <2>1, <2>3, <2>5, LookKeeps
<1> QED BY <1>4, <1>5, <1>6

LEMMA ValidateTemplateKeeps == ASSUME QueryInv, NEW c \in Clients, ValidateTemplate(c) PROVE QueryInv'
<1> DEFINE q == SetQueryLimits(asking[c])
<1>1. /\ at[c] = "validate" /\ at[c] \in Pending /\ c \notin ran
      /\ IsQuery(asking[c]) /\ asking[c].entry \in {"template", "json"}
  BY DEF ValidateTemplate, QueryInv, Forms, Stage, Pending
<1>2. UNCHANGED <<met, ran, rows, loaded, listed>> /\ asking' = [asking EXCEPT ![c] = q]
  BY DEF ValidateTemplate, ValidateQuery, Unmoved
<1>3. IsQuery(q) /\ Same(q, asking[c]) /\ RowsOK(q)
  BY <1>1, Limited
<1>4. CASE ValidateQueryRules(asking[c]) # "valid"
  <2>1. UNCHANGED source /\ \E end \in {"refused", "ok"} : ReplyQuery(c, end)
    BY <1>4 DEF ValidateTemplate, ValidateQuery, ValidateQueryRules, ReplyQuery
  <2> QED BY <2>1, <1>1, <1>2, <1>3, EndStepKeeps DEF ReplyQuery, Advance
<1>5. CASE ValidateQueryRules(asking[c]) = "valid"
  <2>1. at' = [at EXCEPT ![c] = "reference"] /\ UNCHANGED <<source, toLoad>>
    BY <1>5 DEF ValidateTemplate, ValidateQuery, Advance
  <2>2. RangeOK(q) /\ q.entry \in {"template", "json"}
    BY <1>1, <1>3, <1>5, ValidIsInRange DEF RangeOK, IsObject, Same
  <2> HIDE DEF q
  <2>3. QueryFrame(c) /\ Forms'
    BY <1>1, <1>2, <2>1 DEF QueryFrame, QueryInv, Forms, Pending
  <2>4. /\ at'[c] = "reference" /\ asking'[c] = q /\ c \notin ran' /\ Truth' = Truth
        /\ met'[c] = met[c] /\ toLoad'[c] = toLoad[c]
    BY <1>1, <1>2, <2>1 DEF QueryInv, Forms, Truth
  <2>5. (Stage(c) /\ Mapping(c) /\ Followed(c) /\ Loading(c) /\ Within(c))'
    BY <1>1, <1>3, <2>2, <2>4 DEF QueryInv, Stage, Mapping, Mapped, Followed, Loading, Within, Validated
  <2> QED BY <2>3, <2>5, StepKeeps
<1> QED BY <1>4, <1>5

LEMMA ResolveTemplateKeeps == ASSUME QueryInv, NEW c \in Clients, ResolveTemplate(c) PROVE QueryInv'
<1> DEFINE q == asking[c]
           map == OnlySource(q, rows[KeyOf(q)].ref)
<1>1. /\ at[c] = "reference" /\ at[c] \in Pending /\ c \notin ran /\ IsQuery(q) /\ q.entry # "sql"
      /\ RowsOK(q) /\ RangeOK(q)
  BY DEF ResolveTemplate, QueryInv, Forms, Stage, Pending, Within, Validated
<1>2. UNCHANGED <<met, ran, rows, loaded, listed>> /\ asking' = [asking EXCEPT ![c] = q]
  BY DEF ResolveTemplate, Unmoved, QueryInv, Forms
<1>3. CASE KeyOf(q) \notin Aliases
  <2>1. ReplyQuery(c, "refused")
    BY <1>3 DEF ResolveTemplate, ReferenceOf
  <2> QED BY <2>1, <1>1, <1>2, EndStepKeeps DEF ReplyQuery, Advance
<1>4. CASE KeyOf(q) \in Aliases
  <2>1. Look(c, map)
    BY <1>4 DEF ResolveTemplate, ReferenceOf
  <2> HIDE DEF q
  <2>2. /\ DOMAIN map = q.tables \ q.ctes /\ Range(map) \subseteq Sources
        /\ \A t \in DOMAIN map : \E row \in Truth.rows : Meant(q, t, map[t], row)
    BY <1>1, <1>4, AliasMeans
  <2> HIDE DEF map
  <2> QED BY <1>1, <1>2, <2>1, <2>2, LookKeeps
<1> QED BY <1>3, <1>4

LEMMA BuildSqlQueryKeeps == ASSUME QueryInv, NEW c \in Clients, BuildSqlQuery(c) PROVE QueryInv'
<1> DEFINE q == asking[c]
           tables == q.tables \ q.ctes
           map == [t \in tables |-> CHOOSE s \in LiveRef(q.params[t], q.byAlias) : TRUE]
<1>1. at[c] = "map" /\ at[c] \in Pending /\ c \notin ran /\ IsQuery(q) /\ q.entry = "sql"
  BY DEF BuildSqlQuery, QueryInv, Forms, Stage, Pending
<1>2. UNCHANGED <<met, ran, rows, loaded, listed>> /\ asking' = [asking EXCEPT ![c] = q]
  BY DEF BuildSqlQuery, Unmoved, QueryInv, Forms
<1>3. CASE ReplyQuery(c, "refused")
  BY <1>1, <1>2, <1>3, EndStepKeeps DEF ReplyQuery, Advance
<1>4. CASE Look(c, map) /\ \A t \in tables : LiveRef(q.params[t], q.byAlias) # {}
  <2>1. ASSUME NEW t \in tables
        PROVE  map[t] \in Sources /\ \E row \in Truth.rows : Meant(q, t, map[t], row)
    <3>1. map[t] \in LiveRef(q.params[t], q.byAlias)
      BY <1>4, <2>1
    <3>2. PICK a \in Aliases : /\ rows[a].status = "Live" /\ map[t] = rows[a].ref
                               /\ q.params[t] = IF q.byAlias THEN a ELSE rows[a].ref
      BY <3>1 DEF LiveRef
    <3>3. [alias |-> a, ref |-> rows[a].ref, status |-> rows[a].status] \in Truth.rows
      BY DEF Truth
    <3>4. rows[a].ref \in Sources
      BY DEF QueryInv, Forms, Row
    <3> QED BY <3>2, <3>3, <3>4 DEF Meant
  <2>2. DOMAIN map = tables /\ Range(map) \subseteq Sources
    BY <2>1 DEF Range
  <2> HIDE DEF q, map
  <2> QED BY <1>1, <1>2, <1>4, <2>1, <2>2, LookKeeps
<1> QED BY <1>3, <1>4 DEF BuildSqlQuery, CollectTableEntries

LEMMA CheckSupervisorAvailabilityKeeps ==
    ASSUME QueryInv, NEW c \in Clients, CheckSupervisorAvailability(c) PROVE QueryInv'
<1>1. /\ at[c] = "load" /\ at[c] \in Pending /\ c \notin ran /\ IsQuery(asking[c])
      /\ Mapping(c) /\ Followed(c) /\ Loading(c) /\ Within(c) /\ Stage(c)
  BY DEF CheckSupervisorAvailability, QueryInv, Forms, Stage, Pending
<1>2. UNCHANGED <<asking, met, ran, rows, loaded, listed>>
  BY DEF CheckSupervisorAvailability, Unmoved
<1>3. Truth' = Truth
  BY <1>2 DEF Truth
<1>4. CASE ReplyQuery(c, "refused")
  <2>1. asking' = [asking EXCEPT ![c] = asking[c]]
    BY <1>2 DEF QueryInv, Forms
  <2> QED BY <1>1, <1>2, <1>4, <2>1, EndStepKeeps DEF ReplyQuery, Advance
<1>5. ASSUME NEW s \in toLoad[c], loaded[s] = "full", toLoad' = [toLoad EXCEPT ![c] = toLoad[c] \ {s}],
             UNCHANGED <<at, source>>
      PROVE  QueryInv'
  <2>1. QueryFrame(c) /\ Forms'
    BY <1>2, <1>5 DEF QueryFrame, QueryInv, Forms
  <2>2. s \in met[c].full
    BY <1>1, <1>5 DEF Followed, Truth, QueryInv, Forms
  <2>3. /\ at'[c] = at[c] /\ asking'[c] = asking[c] /\ source'[c] = source[c] /\ met'[c] = met[c]
        /\ toLoad'[c] = toLoad[c] \ {s} /\ c \notin ran'
    BY <1>1, <1>2, <1>5 DEF QueryInv, Forms
  <2>4. Stage(c)' /\ Within(c)'
    BY <1>1, <2>3 DEF Stage, Within, Validated, RowsOK, RangeOK, IsObject
  <2>5. Mapping(c)' /\ Followed(c)'
    BY <1>1, <1>3, <2>3 DEF Mapping, Mapped, Meant, Followed
  <2>6. Loading(c)'
    BY <1>1, <2>2, <2>3 DEF Loading
  <2> QED BY <2>1, <2>4, <2>5, <2>6, StepKeeps
<1>6. ASSUME toLoad[c] = {}, Advance(c, "list"), UNCHANGED <<source, toLoad>>
      PROVE  QueryInv'
  <2>1. at' = [at EXCEPT ![c] = "list"]
    BY <1>6 DEF Advance
  <2>2. QueryFrame(c) /\ Forms'
    BY <1>1, <1>2, <1>6, <2>1 DEF QueryFrame, QueryInv, Forms, Pending
  <2>3. /\ at'[c] = "list" /\ asking'[c] = asking[c] /\ source'[c] = source[c] /\ met'[c] = met[c]
        /\ toLoad'[c] = {} /\ c \notin ran'
    BY <1>1, <1>2, <1>6, <2>1 DEF QueryInv, Forms
  <2>4. Stage(c)' /\ Within(c)'
    BY <1>1, <2>3 DEF Stage, Within, Validated, RowsOK, RangeOK, IsObject
  <2>5. Mapping(c)' /\ Followed(c)'
    BY <1>1, <1>3, <2>3 DEF Mapping, Mapped, Meant, Followed, Pending
  <2>6. Loading(c)'
    BY <1>1, <1>6, <2>3 DEF Loading
  <2> QED BY <2>2, <2>4, <2>5, <2>6, StepKeeps
<1> QED BY <1>4, <1>5, <1>6 DEF CheckSupervisorAvailability, StillToLoad

LEMMA CheckListedKeeps == ASSUME QueryInv, NEW c \in Clients, CheckListed(c) PROVE QueryInv'
<1> DEFINE q == IF asking[c].entry = "sql" THEN SetQueryLimits(asking[c]) ELSE asking[c]
<1>1. /\ at[c] = "list" /\ at[c] \in Pending /\ c \notin ran /\ IsQuery(asking[c])
      /\ Mapping(c) /\ Followed(c) /\ Loading(c) /\ Within(c) /\ Stage(c)
  BY DEF CheckListed, QueryInv, Forms, Stage, Pending
<1>2. UNCHANGED <<met, ran, rows, loaded, listed>>
  BY DEF CheckListed, Unmoved
<1>3. Truth' = Truth
  BY <1>2 DEF Truth
<1>4. CASE ReplyQuery(c, "refused") /\ UNCHANGED asking
  <2>1. asking' = [asking EXCEPT ![c] = asking[c]]
    BY <1>4 DEF QueryInv, Forms
  <2> QED BY <1>1, <1>2, <1>4, <2>1, EndStepKeeps DEF ReplyQuery, Advance
<1>5. ASSUME Range(source[c]) \subseteq listed, Advance(c, "execute"), UNCHANGED <<source, toLoad>>,
             asking' = IF asking[c].entry = "sql" THEN [asking EXCEPT ![c] = SetQueryLimits(@)] ELSE asking
      PROVE  QueryInv'
  <2>1. at' = [at EXCEPT ![c] = "execute"] /\ asking' = [asking EXCEPT ![c] = q]
    BY <1>5 DEF Advance, QueryInv, Forms
  <2>2. IsQuery(q) /\ Same(q, asking[c]) /\ RowsOK(q) /\ RangeOK(q)
    <3>1. CASE asking[c].entry = "sql"
      <4>1. IsQuery(q) /\ Same(q, asking[c]) /\ RowsOK(q)
        BY <1>1, <3>1, Limited
      <4> QED BY <4>1, <3>1 DEF RangeOK, IsObject, Same
    <3>2. CASE asking[c].entry # "sql"
      BY <1>1, <3>2 DEF Within, Validated, Same
    <3> QED BY <3>1, <3>2
  <2> HIDE DEF q
  <2>3. QueryFrame(c) /\ Forms'
    BY <1>1, <1>2, <1>5, <2>1 DEF QueryFrame, QueryInv, Forms, Pending
  <2>4. /\ at'[c] = "execute" /\ asking'[c] = q /\ source'[c] = source[c] /\ met'[c] = met[c]
        /\ toLoad'[c] = {} /\ c \notin ran'
    BY <1>1, <1>2, <1>5, <2>1 DEF QueryInv, Forms, Loading
  <2>5. Stage(c)' /\ Within(c)'
    BY <2>2, <2>4 DEF Stage, Within
  <2>6. Mapping(c)' /\ Followed(c)'
    BY <1>1, <1>3, <2>2, <2>4 DEF Mapping, Mapped, Meant, Followed, Pending, Same
  <2>7. Loading(c)'
    BY <1>1, <1>5, <2>4 DEF Loading, Followed, Truth
  <2> QED BY <2>3, <2>5, <2>6, <2>7, StepKeeps
<1> QED BY <1>4, <1>5 DEF CheckListed

LEMMA ExecuteQueryKeeps == ASSUME QueryInv, NEW c \in Clients, ExecuteQuery(c) PROVE QueryInv'
<1>1. PICK outcome \in {"ok", "failed"} :
          at' = [at EXCEPT ![c] = outcome] /\ toLoad' = [toLoad EXCEPT ![c] = {}] /\ UNCHANGED source
  BY DEF ExecuteQuery, ReplyQuery, Advance
<1>2. /\ at[c] = "execute" /\ ran' = ran \cup {c} /\ UNCHANGED <<asking, met, rows, loaded, listed>>
  BY DEF ExecuteQuery, Unmoved
<1>3. IsQuery(asking[c]) /\ Mapping(c) /\ Loading(c) /\ Within(c)
  BY <1>2 DEF QueryInv, Stage
<1>4. QueryFrame(c) /\ Forms'
  BY <1>1, <1>2 DEF QueryFrame, QueryInv, Forms, Pending
<1>5. /\ at'[c] = outcome /\ asking'[c] = asking[c] /\ source'[c] = source[c] /\ met'[c] = met[c]
      /\ toLoad'[c] = {} /\ c \in ran'
  BY <1>1, <1>2 DEF QueryInv, Forms
<1>6. Stage(c)' /\ Followed(c)'
  BY <1>3, <1>5 DEF Stage, Followed, Pending
<1>7. Mapping(c)'
  BY <1>2, <1>3, <1>5 DEF Mapping, Mapped, Meant
<1>8. Loading(c)'
  BY <1>2, <1>3, <1>5 DEF Loading
<1>9. Within(c)'
  BY <1>2, <1>3, <1>5 DEF Within, Validated, RowsOK, RangeOK, IsObject
<1> QED BY <1>4, <1>6, <1>7, <1>8, <1>9, StepKeeps

LEMMA FailQueryKeeps == ASSUME QueryInv, NEW c \in Clients, FailQuery(c) PROVE QueryInv'
<1>1. c \notin ran /\ IsQuery(asking[c])
  BY DEF FailQuery, QueryInv, Forms, Stage, Pending
<1>2. UNCHANGED <<met, ran, rows, loaded, listed>> /\ asking' = [asking EXCEPT ![c] = asking[c]]
  BY DEF FailQuery, Unmoved, QueryInv, Forms
<1> QED BY <1>1, <1>2, EndStepKeeps DEF FailQuery, ReplyQuery, Advance

\* What has been seen only grows.
LEMMA MoveKeeps == ASSUME QueryInv, Move PROVE QueryInv'
<1>1. UNCHANGED <<asking, at, source, toLoad, ran>>
  BY DEF Move
<1>2. Truth' = [rows |-> Truth'.rows, full |-> Truth'.full, listed |-> Truth'.listed]
  BY DEF Truth
<1>3. ASSUME NEW c \in Clients
      PROVE  /\ met[c].rows \subseteq met'[c].rows /\ met[c].full \subseteq met'[c].full
             /\ met[c].listed \subseteq met'[c].listed
             /\ at[c] \in Pending => /\ Truth'.rows \subseteq met'[c].rows /\ Truth'.full \subseteq met'[c].full
                                     /\ Truth'.listed \subseteq met'[c].listed
  BY DEF Move
<1>4. Forms'
  <2>1. rows' \in [Aliases -> Row] /\ loaded' \in [Sources -> {"no", "part", "full"}] /\ listed' \subseteq Sources
    <3>1. rows \in [Aliases -> Row] /\ loaded \in [Sources -> {"no", "part", "full"}] /\ listed \subseteq Sources
      BY DEF QueryInv, Forms
    <3>2. CASE UNCHANGED <<loaded, listed>> /\ \E a \in Aliases, s \in Sources, state \in {"Live", "Retired"} :
                    rows' = [rows EXCEPT ![a] = [ref |-> s, status |-> state]]
      BY <3>1, <3>2 DEF Row
    <3>3. CASE UNCHANGED <<rows, listed>> /\ \E s \in Sources, much \in {"no", "part", "full"} :
                    loaded' = [loaded EXCEPT ![s] = much]
      BY <3>1, <3>3
    <3>4. CASE UNCHANGED <<rows, loaded>> /\ \E s \in Sources : listed' = SymDiff(listed, {s})
      BY <3>1, <3>4 DEF SymDiff
    <3> QED BY <3>2, <3>3, <3>4 DEF Move
  <2>2. met' = [c \in Clients |-> met'[c]]
    BY DEF Move
  <2> QED BY <1>1, <2>1, <2>2 DEF QueryInv, Forms
<1>5. ASSUME NEW c \in Clients PROVE (Stage(c) /\ Mapping(c) /\ Followed(c) /\ Loading(c) /\ Within(c))'
  <2>1. Stage(c) /\ Mapping(c) /\ Loading(c) /\ Within(c)
    BY DEF QueryInv
  <2>2. Stage(c)' /\ Within(c)'
    BY <1>1, <2>1 DEF Stage, Within, Validated
  <2>3. Mapping(c)'
    BY <1>1, <1>3, <2>1 DEF Mapping, Mapped
  <2>4. Followed(c)'
    BY <1>1, <1>3 DEF Followed
  <2>5. Loading(c)'
    BY <1>1, <1>3, <2>1 DEF Loading
  <2> QED BY <2>2, <2>3, <2>4, <2>5
<1> QED BY <1>4, <1>5 DEF QueryInv

LEMMA QueryInvNext == QueryInv /\ [DataQueryNext]_dataQueryVars => QueryInv'
<1> SUFFICES ASSUME QueryInv, [DataQueryNext]_dataQueryVars PROVE QueryInv'
  OBVIOUS
<1>1. ASSUME NEW c \in Clients,
             \/ SendQuery(c) \/ ResolveNative(c) \/ ValidateTemplate(c) \/ ResolveTemplate(c)
             \/ BuildSqlQuery(c) \/ CheckSupervisorAvailability(c) \/ CheckListed(c)
             \/ ExecuteQuery(c) \/ FailQuery(c)
      PROVE  QueryInv'
  BY <1>1, SendQueryKeeps, ResolveNativeKeeps, ValidateTemplateKeeps, ResolveTemplateKeeps, BuildSqlQueryKeeps,
     CheckSupervisorAvailabilityKeeps, CheckListedKeeps, ExecuteQueryKeeps, FailQueryKeeps
<1>2. CASE Move
  BY <1>2, MoveKeeps
<1>3. CASE UNCHANGED dataQueryVars
  <2>1. UNCHANGED <<rows, loaded, listed, asking, at, source, toLoad, met, ran>>
    BY <1>3 DEF dataQueryVars
  <2>2. Truth' = Truth /\ Forms'
    BY <2>1 DEF Truth, QueryInv, Forms
  <2>3. ASSUME NEW c \in Clients PROVE (Stage(c) /\ Mapping(c) /\ Followed(c) /\ Loading(c) /\ Within(c))'
    BY <2>1, <2>2, OthersKeep
  <2> QED BY <2>2, <2>3 DEF QueryInv
<1> QED BY <1>1, <1>2, <1>3 DEF DataQueryNext

LEMMA QueryInvAlways == DataQuerySpec => []QueryInv
<1> QED BY QueryInvInit, QueryInvNext, PTL DEF DataQuerySpec

\* A query that was executed read the datasource of the alias that its own request named, as it
\* was at some time while the request was waiting, whatever the requests around it left in the
\* variables of the validator's module (QueryValidator.ts).
THEOREM QueriesReadOwnSource == DataQuerySpec => []OwnSource
<1>1. QueryInv => OwnSource
  BY DEF QueryInv, Forms, OwnSource, Mapping, Mapped, Meant
<1> QED BY <1>1, QueryInvAlways, PTL

\* Every datasource of a query that was executed was wholly loaded, and listed by Druid, at some
\* time while the request was waiting, and every table of it had one.
THEOREM QueriesReadLoadedSources == DataQuerySpec => []OnLoadedSources
<1>1. QueryInv => OnLoadedSources
  BY DEF QueryInv, Forms, OnLoadedSources, Mapping, Mapped, Loading
<1> QED BY <1>1, QueryInvAlways, PTL

\* No query is executed that asks for more rows or more days than the rules allow, however it
\* came in and whatever it said of them.
THEOREM QueriesWithinLimits == DataQuerySpec => []WithinLimits
<1>1. ASSUME QueryInv, NEW c \in ran PROVE RowsOK(asking[c]) /\ RangeOK(asking[c])
  BY <1>1 DEF QueryInv, Within, Validated, Forms
<1>2. QueryInv => WithinLimits
  BY <1>1 DEF WithinLimits, RowsLimited, RangeLimited, RowsOK, RangeOK
<1> QED BY <1>2, QueryInvAlways, PTL

-----------------------------------------------------------------------------
(* Health.  Whatever a check has read of an item that has not changed since *)
(* is right, and it has read, or will read, all that it was asked for.      *)

InfraItems      == {"postgres", "druid", "flink", "kafka", "redis"}
ProcessingItems == {"flink", "events", "speed"} \cup Rates
Probes == ({"infra"} \X InfraItems) \cup ({"processing"} \X ProcessingItems)
Values == ProbeReadings \cup EventReadings \cup SpeedReadings \cup RateReadings

Has(seq, x)    == \E k \in DOMAIN seq : seq[k] = x
HasRead(c, x)  == \E k \in DOMAIN got[c] : got[c][k][1] = x

\* A check reads what was asked of it, all of it.
WillBeRead(c, x) == Has(toRead[c], x) \/ HasRead(c, x)

\* What was read of an item is right unless the item changed since the check began, or another
\* check closed the connection to Kafka.
Truthful(c, entry) ==
    LET item == entry[1][2] IN
    /\ entry[2] \in Readings(item)
    /\ item \notin changed[c] => entry[2] = reading[item] \/ (item = "kafka" /\ c \in shaken /\ entry[2] = "bad")

CheckInv(c) ==
    /\ toRead[c] \in Seq(Probes) /\ got[c] \in Seq(Probes \X Values)
    /\ \A k \in DOMAIN got[c] : Truthful(c, got[c][k])
    /\ Idle(c) => toRead[c] = << >> /\ got[c] = << >>
    /\ c \in admin => toRead[c] # << >> /\ Head(toRead[c])[2] = "kafka"
    /\ "infra" \in wants[c] => \A item \in InfraItems \ {"redis"} : WillBeRead(c, <<"infra", item>>)
    /\ "processing" \in wants[c] => \A item \in ProcessingItems : WillBeRead(c, <<"processing", item>>)

HealthTypes ==
    /\ reading \in [Items -> Values] /\ \A item \in Items : reading[item] \in Readings(item)
    /\ toRead \in [Checks -> Seq(Probes)] /\ got \in [Checks -> Seq(Probes \X Values)]
    /\ changed \in [Checks -> SUBSET Items]
    /\ wants \in [Checks -> SUBSET {"infra", "processing", "query"}]
    /\ shaken \subseteq Checks /\ admin \subseteq Checks

HealthInv ==
    /\ HealthTypes
    /\ \A c \in Checks : CheckInv(c)
    /\ HealthTruthful

\* What is known of the readings of all probes.
LEMMA ProbesAreReadable ==
  /\ \A x \in Probes : x[2] \in Items /\ x = <<x[1], x[2]>>
  /\ InfraItems \subseteq Items /\ ProcessingItems \subseteq Items
  /\ \A item \in Items : Readings(item) \subseteq Values
  /\ \A item \in InfraItems : Readings(item) = ProbeReadings
  BY DEF Probes, InfraItems, ProcessingItems, Items, Rates, Readings, Values

\* What is left of a plan after its first probe.
LEMMA HasTail ==
  ASSUME NEW S, NEW seq \in Seq(S), seq # << >>
  PROVE  \A x : Has(seq, x) => x = Head(seq) \/ Has(Tail(seq), x)
<1> SUFFICES ASSUME NEW x, NEW k \in DOMAIN seq, seq[k] = x PROVE x = Head(seq) \/ Has(Tail(seq), x)
  BY DEF Has
<1>1. CASE k = 1
  BY <1>1
<1>2. CASE k # 1
  <2>1. k - 1 \in DOMAIN Tail(seq) /\ Tail(seq)[k - 1] = seq[k]
    BY <1>2
  <2>2. QED
    BY <2>1 DEF Has
<1>3. QED
  BY <1>1, <1>2

\* A plan has what its parts have.
LEMMA HasConcat ==
  ASSUME NEW S, NEW s \in Seq(S), NEW t \in Seq(S), NEW x, Has(s, x) \/ Has(t, x)
  PROVE  Has(s \o t, x)
<1>1. CASE Has(s, x)
  <2>1. PICK k \in DOMAIN s : s[k] = x
    BY <1>1 DEF Has
  <2>2. k \in DOMAIN (s \o t) /\ (s \o t)[k] = x
    BY <2>1
  <2>3. QED
    BY <2>2 DEF Has
<1>2. CASE Has(t, x)
  <2>1. PICK k \in DOMAIN t : t[k] = x
    BY <1>2 DEF Has
  <2>2. Len(s) + k \in DOMAIN (s \o t) /\ (s \o t)[Len(s) + k] = x
    BY <2>1
  <2>3. QED
    BY <2>2 DEF Has
<1>3. QED
  BY <1>1, <1>2

\* The plans name everything that their category is about.
LEMMA InfraPlanned ==
  ASSUME NEW isMaster \in BOOLEAN
  PROVE  /\ InfraPlan(isMaster) \in Seq(Probes)
         /\ \A item \in InfraItems \ {"redis"} : Has(InfraPlan(isMaster), <<"infra", item>>)
<1> DEFINE first == [k \in 1 .. Len(Infra) |-> <<"infra", Infra[k]>>]
           last  == IF isMaster THEN << <<"infra", "redis">> >> ELSE << >>
<1>1. Len(Infra) = 4 /\ Infra[1] = "postgres" /\ Infra[2] = "druid" /\ Infra[3] = "flink" /\ Infra[4] = "kafka"
  BY DEF Infra
<1>2. first \in Seq(Probes)
  <2>1. \A k \in 1 .. 4 : <<"infra", Infra[k]>> \in Probes
    BY <1>1 DEF Probes, InfraItems
  <2>2. first \in [1 .. 4 -> Probes]
    BY <1>1, <2>1
  <2>3. QED
    BY <2>2
<1>3. last \in Seq(Probes)
  BY DEF Probes, InfraItems
<1>4. ASSUME NEW item \in InfraItems \ {"redis"} PROVE Has(first, <<"infra", item>>)
  <2>1. DOMAIN first = 1 .. 4 /\ \A k \in 1 .. 4 : first[k] = <<"infra", Infra[k]>>
    BY <1>1
  <2>2. \E k \in 1 .. 4 : Infra[k] = item
    BY <1>1 DEF InfraItems
  <2>3. QED
    BY <2>1, <2>2 DEF Has
<1>5. InfraPlan(isMaster) = first \o last
  BY DEF InfraPlan
<1>6. QED
  <2> HIDE DEF first, last
  <2> QED BY <1>2, <1>3, <1>4, <1>5, HasConcat

LEMMA ProcessingPlanned ==
  /\ ProcessingPlan \in Seq(Probes)
  /\ \A item \in ProcessingItems : Has(ProcessingPlan, <<"processing", item>>)
<1> DEFINE order == <<"flink", "events", "speed", "validation", "dedup", "denorm", "transform">>
<1>1. /\ Len(order) = 7 /\ order[1] = "flink" /\ order[2] = "events" /\ order[3] = "speed"
      /\ order[4] = "validation" /\ order[5] = "dedup" /\ order[6] = "denorm" /\ order[7] = "transform"
  OBVIOUS
<1>2. ProcessingPlan = [k \in 1 .. 7 |-> <<"processing", order[k]>>]
  BY <1>1 DEF ProcessingPlan
<1> HIDE DEF order
<1>3. \A k \in 1 .. 7 : <<"processing", order[k]>> \in Probes
  BY <1>1 DEF Probes, ProcessingItems, Rates
<1>4. ProcessingPlan \in [1 .. 7 -> Probes]
  BY <1>2, <1>3
<1>5. \A item \in ProcessingItems : \E k \in 1 .. 7 : order[k] = item
  BY <1>1 DEF ProcessingItems, Rates
<1>6. \A item \in ProcessingItems : Has(ProcessingPlan, <<"processing", item>>)
  BY <1>2, <1>5 DEF Has
<1>7. ProcessingPlan \in Seq(Probes)
  <2>1. \A n \in Nat : \A plan \in [1 .. n -> Probes] : plan \in Seq(Probes)
    OBVIOUS
  <2>2. QED
    BY <1>4, <2>1
<1>8. QED
  BY <1>6, <1>7

\* The steps of the invariant.
LEMMA HealthInitial == HealthInit => HealthInv
<1> SUFFICES ASSUME HealthInit PROVE HealthInv
  OBVIOUS
<1>1. HealthTypes
  <2>1. \A item \in Items : reading[item] \in Readings(item)
    BY DEF HealthInit, Items, Rates, Readings, Best, EventReadings, SpeedReadings, RateReadings, ProbeReadings
  <2>2. reading = [item \in Items |-> reading[item]]
    BY DEF HealthInit
  <2>3. reading \in [Items -> Values]
    BY <2>1, <2>2, ProbesAreReadable
  <2>4. QED
    BY <2>1, <2>3 DEF HealthTypes, HealthInit
<1>2. \A c \in Checks : CheckInv(c)
  BY DEF HealthInit, CheckInv, Idle
<1>3. HealthTruthful
  BY DEF HealthInit, HealthTruthful, LastingFailureReported, NoFalseAlarm, Answered, NoReport
<1>4. QED
  BY <1>1, <1>2, <1>3 DEF HealthInv

\* What is asked of the last answer depends on nothing else.
LEMMA TruthfulStays == HealthTruthful /\ report' = report => HealthTruthful'
  BY DEF HealthTruthful, LastingFailureReported, NoFalseAlarm, Answered, Steady

\* The other checks go on as they were.
LEMMA OtherChecks ==
  ASSUME HealthInv, NEW c \in Checks, CheckInv(c)', reading' = reading,
         \A d \in Checks \ {c} : /\ toRead'[d] = toRead[d] /\ got'[d] = got[d] /\ changed'[d] = changed[d]
                                 /\ wants'[d] = wants[d] /\ (d \in admin' <=> d \in admin)
                                 /\ (d \in shaken => d \in shaken')
  PROVE  \A d \in Checks : CheckInv(d)'
<1> SUFFICES ASSUME NEW d \in Checks, d # c PROVE CheckInv(d)'
  OBVIOUS
<1>1. CheckInv(d)
  BY DEF HealthInv
<1>2. \A entry : Truthful(d, entry) => Truthful(d, entry)'
  BY DEF Truthful
<1>3. \A x : WillBeRead(d, x) => WillBeRead(d, x)'
  BY DEF WillBeRead, HasRead, Has
<1>4. QED
  BY <1>1, <1>2, <1>3 DEF CheckInv, Idle

LEMMA ChangeStep ==
  ASSUME HealthInv, NEW item \in Items, Change(item)
  PROVE  HealthInv'
<1>1. PICK value \in Readings(item) : reading' = [reading EXCEPT ![item] = value]
  BY DEF Change
<1>2. HealthTypes /\ (\A c \in Checks : CheckInv(c)) /\ HealthTruthful
  BY DEF HealthInv
<1>3. \A c \in Checks : changed'[c] = IF Idle(c) THEN {} ELSE changed[c] \cup {item}
  BY DEF Change
<1>4. HealthTypes'
  <2>1. reading' \in [Items -> Values] /\ \A i \in Items : reading'[i] \in Readings(i)
    BY <1>1, <1>2, ProbesAreReadable DEF HealthTypes
  <2>2. changed' \in [Checks -> SUBSET Items]
    BY <1>2 DEF HealthTypes, Change
  <2>3. QED
    BY <1>2, <2>1, <2>2 DEF HealthTypes, Change
<1>5. ASSUME NEW c \in Checks PROVE CheckInv(c)'
  <2>1. CheckInv(c) /\ UNCHANGED <<toRead, got, wants, admin, shaken>>
    BY <1>2 DEF Change
  <2>2. ASSUME NEW k \in DOMAIN got[c] PROVE Truthful(c, got[c][k])'
    <3>1. ~ Idle(c) /\ Truthful(c, got[c][k])
      BY <2>1 DEF CheckInv
    <3>2. changed'[c] = changed[c] \cup {item}
      BY <1>3, <3>1
    <3>3. got'[c][k] = got[c][k]
      BY <2>1
    <3>4. \A i : i # item => reading'[i] = reading[i]
      BY <1>1, <1>2 DEF HealthTypes
    <3>5. QED
      BY <2>1, <3>1, <3>2, <3>3, <3>4 DEF Truthful
  <2>3. \A x : WillBeRead(c, x) => WillBeRead(c, x)'
    BY <2>1 DEF WillBeRead, HasRead, Has
  <2>4. QED
    BY <2>1, <2>2, <2>3 DEF CheckInv, Idle
<1>6. HealthTruthful'
  BY <1>2, TruthfulStays DEF Change
<1>7. QED
  BY <1>4, <1>5, <1>6 DEF HealthInv

LEMMA StartStep ==
  ASSUME HealthInv, NEW c \in Checks, NEW categories \in SUBSET {"infra", "processing", "query"},
         NEW isMaster \in BOOLEAN, Start(c, categories, isMaster)
  PROVE  HealthInv'
<1> DEFINE infra      == IF "infra" \in categories THEN InfraPlan(isMaster) ELSE << >>
           processing == IF "processing" \in categories THEN ProcessingPlan ELSE << >>
<1>1. HealthTypes /\ CheckInv(c) /\ Idle(c)
  BY DEF HealthInv, Start
<1>2. infra \in Seq(Probes) /\ processing \in Seq(Probes)
  BY InfraPlanned, ProcessingPlanned
<1>3. /\ toRead' = [toRead EXCEPT ![c] = infra \o processing]
      /\ got' = [got EXCEPT ![c] = << >>] /\ changed' = [changed EXCEPT ![c] = {}]
      /\ wants' = [wants EXCEPT ![c] = categories] /\ shaken' = shaken \ {c}
      /\ UNCHANGED <<reading, admin>>
  BY DEF Start
<1>4. c \notin admin
  BY <1>1 DEF CheckInv
<1>5. "infra" \in categories => \A item \in InfraItems \ {"redis"} : Has(infra \o processing, <<"infra", item>>)
  <2> SUFFICES ASSUME "infra" \in categories, NEW item \in InfraItems \ {"redis"}
               PROVE  Has(infra \o processing, <<"infra", item>>)
    OBVIOUS
  <2>1. Has(infra, <<"infra", item>>)
    BY InfraPlanned
  <2> HIDE DEF infra, processing
  <2>2. QED
    BY <1>2, <2>1, HasConcat
<1>6. "processing" \in categories => \A item \in ProcessingItems : Has(infra \o processing, <<"processing", item>>)
  <2> SUFFICES ASSUME "processing" \in categories, NEW item \in ProcessingItems
               PROVE  Has(infra \o processing, <<"processing", item>>)
    OBVIOUS
  <2>1. Has(processing, <<"processing", item>>)
    BY ProcessingPlanned
  <2> HIDE DEF infra, processing
  <2>2. QED
    BY <1>2, <2>1, HasConcat
<1> HIDE DEF infra, processing
<1>7. infra \o processing \in Seq(Probes)
  BY <1>2
<1>8. /\ toRead'[c] = infra \o processing /\ got'[c] = << >>
      /\ wants'[c] = categories /\ c \notin admin'
  BY <1>1, <1>3, <1>4 DEF HealthTypes
<1>9. HealthTypes'
  BY <1>1, <1>3, <1>7 DEF HealthTypes
<1>10. CheckInv(c)'
  <2>1. /\ toRead'[c] \in Seq(Probes) /\ got'[c] \in Seq(Probes \X Values)
        /\ \A k \in DOMAIN got'[c] : Truthful(c, got[c][k])'
    BY <1>7, <1>8
  <2>2. (Idle(c) => toRead[c] = << >> /\ got[c] = << >>)'
    <3>1. categories = {} => infra \o processing = << >>
      BY DEF infra, processing
    <3>2. QED
      BY <1>8, <3>1 DEF Idle
  <2>3. /\ ("infra" \in wants[c] => \A item \in InfraItems \ {"redis"} : WillBeRead(c, <<"infra", item>>))'
        /\ ("processing" \in wants[c] => \A item \in ProcessingItems : WillBeRead(c, <<"processing", item>>))'
    BY <1>5, <1>6, <1>8 DEF WillBeRead
  <2>4. QED
    BY <1>8, <2>1, <2>2, <2>3 DEF CheckInv
<1>11. \A d \in Checks : CheckInv(d)'
  BY <1>1, <1>3, <1>10, OtherChecks DEF HealthTypes
<1>12. HealthTruthful'
  BY DEF Start, HealthTruthful, LastingFailureReported, NoFalseAlarm, Answered, NoReport
<1>13. QED
  BY <1>9, <1>11, <1>12 DEF HealthInv

\* A value that is right is added to what a check has read.
LEMMA NoteStep ==
  ASSUME HealthInv, NEW c \in Checks, toRead[c] # << >>, NEW value \in Readings(Head(toRead[c])[2]),
         Head(toRead[c])[2] \notin changed[c] =>
            value = reading[Head(toRead[c])[2]] \/ (Head(toRead[c])[2] = "kafka" /\ c \in shaken /\ value = "bad"),
         Note(c, value), UNCHANGED <<reading, changed, wants, report>>,
         shaken \subseteq shaken', shaken' \subseteq Checks, admin' = admin \ {c}
  PROVE  HealthInv'
<1> PICK entry : entry = <<Head(toRead[c]), value>>
  OBVIOUS
<1>1. HealthTypes /\ CheckInv(c) /\ HealthTruthful
  BY DEF HealthInv
<1>2. toRead[c] \in Seq(Probes) /\ got[c] \in Seq(Probes \X Values)
  BY <1>1 DEF CheckInv
<1>3. Head(toRead[c]) \in Probes /\ Tail(toRead[c]) \in Seq(Probes)
  BY <1>2
<1>4. entry \in Probes \X Values
  BY <1>3, ProbesAreReadable
<1>5. entry[1] = Head(toRead[c]) /\ entry[2] = value
  OBVIOUS
<1>6. Truthful(c, entry) /\ Truthful(c, entry)'
  BY <1>5 DEF Truthful
<1>7. /\ got' = [got EXCEPT ![c] = Append(got[c], entry)]
      /\ toRead' = [toRead EXCEPT ![c] = Tail(toRead[c])]
  BY DEF Note
<1>8. Append(got[c], entry) \in Seq(Probes \X Values)
  BY <1>2, <1>4
<1>9. toRead'[c] = Tail(toRead[c]) /\ got'[c] = Append(got[c], entry)
  BY <1>1, <1>7 DEF HealthTypes
<1>10. HealthTypes'
  BY <1>1, <1>3, <1>7, <1>8 DEF HealthTypes
<1>11. ASSUME NEW k \in DOMAIN got'[c] PROVE Truthful(c, got[c][k])'
  <2>1. CASE k \in DOMAIN got[c]
    <3>1. got'[c][k] = got[c][k]
      BY <1>2, <1>9, <2>1
    <3>2. Truthful(c, got[c][k])
      BY <1>1, <2>1 DEF CheckInv
    <3>3. QED
      BY <3>1, <3>2 DEF Truthful
  <2>2. CASE k \notin DOMAIN got[c]
    <3>1. got'[c][k] = entry
      BY <1>2, <1>9, <2>2
    <3>2. QED
      BY <1>6, <3>1 DEF Truthful
  <2>3. QED
    BY <2>1, <2>2
<1>12. ASSUME NEW x, WillBeRead(c, x) PROVE WillBeRead(c, x)'
  <2>1. CASE Has(Tail(toRead[c]), x)
    BY <1>9, <2>1 DEF WillBeRead
  <2>2. CASE x = Head(toRead[c])
    <3>1. Len(got[c]) + 1 \in DOMAIN got'[c] /\ got'[c][Len(got[c]) + 1] = entry
      BY <1>2, <1>9
    <3>2. QED
      BY <1>5, <2>2, <3>1 DEF WillBeRead, HasRead
  <2>3. CASE HasRead(c, x)
    <3>1. PICK k \in DOMAIN got[c] : got[c][k][1] = x
      BY <2>3 DEF HasRead
    <3>2. k \in DOMAIN got'[c] /\ got'[c][k] = got[c][k]
      BY <1>2, <1>9
    <3>3. QED
      BY <3>1, <3>2 DEF WillBeRead, HasRead
  <2>4. QED
    BY <1>2, <1>12, <2>1, <2>2, <2>3, HasTail DEF WillBeRead
<1>13. CheckInv(c)'
  <2>1. ~ Idle(c) /\ ~ Idle(c)'
    BY <1>1 DEF CheckInv, Idle
  <2>2. c \notin admin'
    OBVIOUS
  <2>3. /\ ("infra" \in wants[c] => \A item \in InfraItems \ {"redis"} : WillBeRead(c, <<"infra", item>>))'
        /\ ("processing" \in wants[c] => \A item \in ProcessingItems : WillBeRead(c, <<"processing", item>>))'
    BY <1>1, <1>12 DEF CheckInv
  <2>4. QED
    BY <1>3, <1>8, <1>9, <1>11, <2>1, <2>2, <2>3 DEF CheckInv
<1>14. \A d \in Checks : CheckInv(d)'
  BY <1>1, <1>7, <1>13, OtherChecks DEF HealthTypes
<1>15. HealthTruthful'
  BY <1>1, TruthfulStays
<1>16. QED
  BY <1>10, <1>14, <1>15 DEF HealthInv

LEMMA ReadStep ==
  ASSUME HealthInv, NEW c \in Checks, Read(c)
  PROVE  HealthInv'
<1>1. HealthTypes /\ CheckInv(c) /\ toRead[c] # << >> /\ Head(toRead[c])[2] # "kafka"
  BY DEF HealthInv, Read
<1>2. c \notin admin
  BY <1>1 DEF CheckInv
<1>3. Head(toRead[c]) \in Probes
  BY <1>1 DEF CheckInv
<1>4. reading[Head(toRead[c])[2]] \in Readings(Head(toRead[c])[2])
  BY <1>1, <1>3, ProbesAreReadable DEF HealthTypes
<1>5. admin' = admin \ {c} /\ shaken \subseteq shaken' /\ shaken' \subseteq Checks
  BY <1>1, <1>2 DEF Read, HealthTypes
<1>6. QED
  BY <1>1, <1>4, <1>5, NoteStep DEF Read

LEMMA DisconnectStep ==
  ASSUME HealthInv, NEW c \in Checks, Disconnect(c)
  PROVE  HealthInv'
<1>1. HealthTypes /\ CheckInv(c) /\ c \in admin
  BY DEF HealthInv, Disconnect
<1>2. toRead[c] # << >> /\ Head(toRead[c])[2] = "kafka"
  BY <1>1 DEF CheckInv
<1>3. PICK value \in {reading["kafka"]} \cup (IF c \in shaken THEN {"bad"} ELSE {}) : Note(c, value)
  BY DEF Disconnect
<1>4. Readings("kafka") = {"good", "bad"} /\ reading["kafka"] \in Readings("kafka")
  BY <1>1 DEF HealthTypes, Items, Readings, Rates, ProbeReadings
<1>5. value \in Readings("kafka") /\ (value = reading["kafka"] \/ (c \in shaken /\ value = "bad"))
  BY <1>3, <1>4
<1>6. admin' = admin \ {c} /\ shaken \subseteq shaken' /\ shaken' \subseteq Checks
  BY <1>1 DEF Disconnect, HealthTypes
<1>7. QED
  BY <1>2, <1>3, <1>5, <1>6, NoteStep DEF Disconnect

LEMMA ConnectStep ==
  ASSUME HealthInv, NEW c \in Checks, Connect(c)
  PROVE  HealthInv'
<1>1. HealthTypes /\ CheckInv(c) /\ HealthTruthful
  BY DEF HealthInv
<1>2. HealthTypes'
  BY <1>1 DEF HealthTypes, Connect
<1>3. CheckInv(c)'
  BY <1>1 DEF Connect, CheckInv, Truthful, WillBeRead, HasRead, Idle
<1>4. \A d \in Checks : CheckInv(d)'
  BY <1>3, OtherChecks DEF Connect
<1>5. HealthTruthful'
  BY <1>1, TruthfulStays DEF Connect
<1>6. QED
  BY <1>2, <1>4, <1>5 DEF HealthInv

\* What a check goes by is what it read, and what it read is right.
LEMMA SeenTrue ==
  ASSUME HealthInv, NEW c \in Checks, NEW category, NEW item, HasRead(c, <<category, item>>)
  PROVE  /\ Seen(c, category, item) \in Readings(item)
         /\ item \notin changed[c] =>
               \/ Seen(c, category, item) = reading[item]
               \/ item = "kafka" /\ c \in shaken /\ Seen(c, category, item) = "bad"
<1> DEFINE k == CHOOSE j \in DOMAIN got[c] : got[c][j][1] = <<category, item>>
<1>1. k \in DOMAIN got[c] /\ got[c][k][1] = <<category, item>>
  BY DEF HasRead
<1>2. Truthful(c, got[c][k])
  BY <1>1 DEF HealthInv, CheckInv
<1>3. Seen(c, category, item) = got[c][k][2]
  BY DEF Seen
<1> HIDE DEF k
<1>4. got[c][k][1][2] = item
  BY <1>1
<1>5. QED
  BY <1>2, <1>3, <1>4 DEF Truthful

\* A component of the infrastructure is there because a probe of it was read.
LEMMA InfraSeen ==
  ASSUME HealthInv, NEW c \in Checks, NEW item \in DOMAIN InfraComponents(c)
  PROVE  /\ item \in InfraItems /\ HasRead(c, <<"infra", item>>)
         /\ InfraComponents(c)[item] = Healthy(Seen(c, "infra", item) = "good")
<1>1. got[c] \in Seq(Probes \X Values)
  BY DEF HealthInv, CheckInv
<1>2. PICK k \in DOMAIN got[c] : got[c][k][1][1] = "infra" /\ got[c][k][1][2] = item
  BY DEF InfraComponents
<1>3. got[c][k][1] \in Probes
  BY <1>1, <1>2
<1>4. got[c][k][1] = <<"infra", item>> /\ item \in InfraItems
  BY <1>2, <1>3 DEF Probes
<1>5. HasRead(c, <<"infra", item>>)
  BY <1>4 DEF HasRead
<1>6. QED
  BY <1>4, <1>5 DEF InfraComponents

\* A check of the processing with nothing left to read has read each of its items.
LEMMA ProcessingSeen ==
  ASSUME HealthInv, NEW c \in Checks, "processing" \in wants[c], toRead[c] = << >>,
         NEW item \in ProcessingItems
  PROVE  /\ Seen(c, "processing", item) \in Readings(item)
         /\ item \notin changed[c] => Seen(c, "processing", item) = reading[item]
<1>1. WillBeRead(c, <<"processing", item>>)
  BY DEF HealthInv, CheckInv
<1>2. HasRead(c, <<"processing", item>>)
  BY <1>1 DEF WillBeRead, Has
<1>3. item # "kafka"
  BY DEF ProcessingItems, Rates
<1>4. QED
  BY <1>2, <1>3, SeenTrue

LEMMA ReplyStep ==
  ASSUME HealthInv, NEW c \in Checks, Reply(c)
  PROVE  HealthInv'
<1> DEFINE none == [k \in {} |-> "Healthy"]
           i    == IF "infra" \in wants[c] THEN InfraComponents(c) ELSE none
           p    == IF "processing" \in wants[c] THEN ProcessingComponents(c) ELSE none
           saw(item) == Seen(c, "processing", item)
<1>1. HealthTypes /\ CheckInv(c) /\ toRead[c] = << >>
  BY DEF HealthInv, Reply
<1>2. HealthTypes'
  BY <1>1 DEF HealthTypes, Reply
<1>3. CheckInv(c)'
  <2>1. /\ toRead'[c] = << >> /\ got'[c] = << >> /\ wants'[c] = {}
        /\ (c \in admin' => c \in admin)
    BY <1>1 DEF HealthTypes, Reply
  <2>2. QED
    BY <1>1, <2>1 DEF CheckInv, Idle
<1>4. \A d \in Checks : CheckInv(d)'
  BY <1>1, <1>3, OtherChecks DEF Reply, HealthTypes
<1>5. HealthTruthful'
  <2>1. CASE "query" \in wants[c]
    <3>1. report' = [status |-> "error"]
      BY <2>1 DEF Reply
    <3>2. ~ Answered'
      BY <3>1 DEF Answered
    <3>3. QED
      BY <3>2 DEF HealthTruthful, LastingFailureReported, NoFalseAlarm
  <2>2. CASE "query" \notin wants[c]
    <3>1. /\ report'.status = Healthy(AllHealthy(i) /\ AllHealthy(p))
          /\ report'.components = DOMAIN i \cup DOMAIN p
          /\ report'.steady = [item \in Items \ changed[c] |-> reading[item]]
          /\ report'.shaken = (c \in shaken)
      BY <2>2 DEF Reply
    <3>2. /\ \A item \in DOMAIN i : "infra" \in wants[c] /\ item \in DOMAIN InfraComponents(c)
                                      /\ i[item] = InfraComponents(c)[item]
          /\ DOMAIN p # {} => "processing" \in wants[c] /\ p = ProcessingComponents(c)
      OBVIOUS
    <3>3. ASSUME "processing" \in wants[c]
          PROVE  /\ p = ProcessingComponents(c)
                 /\ DOMAIN p = {"pipeline", "events", "speed", "validation", "dedup", "denorm", "transform"}
                 /\ p["pipeline"] = Healthy(saw("flink") = "good")
                 /\ p["events"] = Healthy(saw("events") # "bad")
                 /\ p["speed"] = Healthy(saw("speed") = "good")
                 /\ p["validation"] = Healthy(RateOk(saw("validation"), saw("events")))
                 /\ p["dedup"] = Healthy(RateOk(saw("dedup"), saw("events")))
                 /\ p["denorm"] = Healthy(RateOk(saw("transform"), saw("events")))
                 /\ p["transform"] = Healthy(saw("transform") # "bad")
      BY <3>3 DEF ProcessingComponents
    <3>4. \A ok : Healthy(ok) = "Healthy" <=> ok
      BY DEF Healthy
    <3>5. \A item : \A values : Steady(item, values)' <=>
                item \in Items \ changed[c] /\ reading[item] \in values
      BY <3>1 DEF Steady
    <3>6. ASSUME "processing" \in wants[c], NEW item \in ProcessingItems
          PROVE  saw(item) \in Readings(item) /\ (item \notin changed[c] => saw(item) = reading[item])
      BY <1>1, <3>6, ProcessingSeen
    <3>7. ASSUME NEW item \in DOMAIN i
          PROVE  /\ item \in InfraItems /\ i[item] = Healthy(Seen(c, "infra", item) = "good")
                 /\ Seen(c, "infra", item) \in Readings(item)
                 /\ item \notin changed[c] =>
                      \/ Seen(c, "infra", item) = reading[item]
                      \/ c \in shaken /\ Seen(c, "infra", item) = "bad"
      BY <3>2, InfraSeen, SeenTrue
    <3> HIDE DEF none, i, p, saw
    <3>8. LastingFailureReported'
      <4> SUFFICES ASSUME AllHealthy(i), AllHealthy(p) PROVE LastingFailureReported'
        BY <3>1, <3>4 DEF LastingFailureReported
      <4>1. \A item \in DOMAIN i : item \notin changed[c] => reading[item] = "good"
        BY <3>4, <3>7 DEF AllHealthy
      <4>2. ASSUME "processing" \in wants[c]
            PROVE  /\ saw("flink") = "good" /\ saw("events") # "bad" /\ saw("speed") = "good"
                   /\ \A item \in Rates \ {"denorm"} : RateOk(saw(item), saw("events"))
        <5>1. /\ DOMAIN p = {"pipeline", "events", "speed", "validation", "dedup", "denorm", "transform"}
              /\ \A item \in DOMAIN p : p[item] = "Healthy"
          BY <3>3, <4>2 DEF AllHealthy
        <5>2. /\ p["pipeline"] = "Healthy" /\ p["events"] = "Healthy" /\ p["speed"] = "Healthy"
              /\ p["validation"] = "Healthy" /\ p["dedup"] = "Healthy" /\ p["denorm"] = "Healthy"
          BY <5>1
        <5>3. saw("flink") = "good" /\ saw("events") # "bad" /\ saw("speed") = "good"
          BY <3>3, <3>4, <4>2, <5>2
        <5>4. /\ RateOk(saw("validation"), saw("events")) /\ RateOk(saw("dedup"), saw("events"))
              /\ RateOk(saw("transform"), saw("events"))
          BY <3>3, <3>4, <4>2, <5>2
        <5>5. QED
          BY <5>3, <5>4 DEF Rates
      <4>3. ASSUME "processing" \in wants[c]
            PROVE  /\ ~ Steady("flink", {"bad"})'
                   /\ ~ Steady("events", {"bad", "slow"})' /\ ~ Steady("speed", {"bad", "slow"})'
        <5>1. saw("events") \in Readings("events") /\ Readings("events") = {"some", "zero", "bad"}
          <6>1. "events" \in ProcessingItems /\ Readings("events") = {"some", "zero", "bad"}
            BY DEF Readings, EventReadings, ProcessingItems, Rates
          <6>2. QED
            BY <3>6, <4>3, <6>1
        <5>2. \A item \in {"flink", "events", "speed"} : item \notin changed[c] => saw(item) = reading[item]
          BY <3>6, <4>3 DEF ProcessingItems
        <5>3. QED
          BY <3>5, <4>2, <4>3, <5>1, <5>2
      <4>4. ASSUME "processing" \in wants[c], NEW item \in Rates \ {"denorm"}
            PROVE  /\ ~ Steady(item, {"bad", "many"})' /\ ~ Steady(item, {"bad", "slow"})'
                   /\ ~ (Steady(item, {"few"})' /\ Steady("events", {"zero", "bad"})')
        <5>1. item \notin changed[c] => saw(item) = reading[item]
          BY <3>6, <4>4 DEF ProcessingItems
        <5>2. "events" \notin changed[c] => saw("events") = reading["events"]
          BY <3>6, <4>4 DEF ProcessingItems
        <5>3. saw(item) = "none" \/ (saw(item) = "few" /\ saw("events") = "some")
          BY <4>2, <4>4 DEF RateOk
        <5>4. QED
          BY <3>5, <5>1, <5>2, <5>3
      <4>5. ASSUME NEW item \in (report'.components \cap Items) \ {"denorm"}
            PROVE  ~ Steady(item, {"bad", "slow"})'
        <5>1. CASE item \in DOMAIN i
          BY <3>5, <4>1, <5>1
        <5>2. CASE item \notin DOMAIN i
          <6>1. item \in DOMAIN p /\ "processing" \in wants[c]
            BY <3>1, <3>2, <4>5, <5>2
          <6>2. item \in {"events", "speed"} \cup (Rates \ {"denorm"})
            BY <3>3, <4>5, <6>1 DEF Items, Rates
          <6>3. QED
            BY <4>3, <4>4, <6>1, <6>2
        <5>3. QED
          BY <5>1, <5>2
      <4>6. ASSUME "pipeline" \in report'.components PROVE "processing" \in wants[c]
        <5>1. "pipeline" \notin DOMAIN i
          BY <3>7 DEF InfraItems
        <5>2. QED
          BY <3>1, <3>2, <4>6, <5>1
      <4>7. QED
        BY <4>3, <4>4, <4>5, <4>6 DEF LastingFailureReported
    <3>9. NoFalseAlarm'
      <4> SUFFICES ASSUME c \notin shaken,
                          \A item \in Items : Steady(item, {"good", "some", "zero", "none"})'
                   PROVE  AllHealthy(i) /\ AllHealthy(p)
        BY <3>1, <3>4 DEF NoFalseAlarm
      <4>1. \A item \in Items : item \notin changed[c] /\ reading[item] \in {"good", "some", "zero", "none"}
        BY <3>5
      <4>2. AllHealthy(i)
        <5> SUFFICES ASSUME NEW item \in DOMAIN i PROVE i[item] = "Healthy"
          BY DEF AllHealthy
        <5>1. item \in InfraItems /\ item \in Items /\ Readings(item) = {"good", "bad"}
          BY <3>7, ProbesAreReadable DEF ProbeReadings
        <5>2. Seen(c, "infra", item) = reading[item] /\ Seen(c, "infra", item) \in {"good", "bad"}
          BY <3>7, <4>1, <5>1
        <5>3. Seen(c, "infra", item) = "good"
          BY <4>1, <5>1, <5>2
        <5>4. QED
          BY <3>4, <3>7, <5>3
      <4>3. ASSUME "processing" \in wants[c] PROVE AllHealthy(p)
        <5>1. \A item \in ProcessingItems : saw(item) = reading[item] /\ saw(item) \in Readings(item)
          BY <3>6, <4>1, <4>3, ProbesAreReadable
        <5>2. saw("flink") = "good"
          <6>1. "flink" \in ProcessingItems /\ "flink" \in Items /\ Readings("flink") = {"good", "bad"}
            BY DEF ProcessingItems, Items, Readings, Rates, ProbeReadings
          <6>2. QED
            BY <4>1, <5>1, <6>1
        <5>3. saw("events") # "bad"
          <6>1. "events" \in ProcessingItems /\ "events" \in Items
            BY DEF ProcessingItems, Items
          <6>2. QED
            BY <4>1, <5>1, <6>1
        <5>4. saw("speed") = "good"
          <6>1. "speed" \in ProcessingItems /\ "speed" \in Items /\ Readings("speed") = {"good", "slow", "bad"}
            BY DEF ProcessingItems, Items, Readings, Rates, SpeedReadings
          <6>2. QED
            BY <4>1, <5>1, <6>1
        <5>5. ASSUME NEW item \in Rates PROVE saw(item) = "none"
          <6>1. item \in ProcessingItems /\ item \in Items /\ Readings(item) = {"none", "few", "many", "bad"}
            BY DEF ProcessingItems, Items, Readings, Rates, RateReadings
          <6>2. QED
            BY <4>1, <5>1, <6>1
        <5>6. \A item \in {"validation", "dedup", "transform"} : saw(item) = "none" /\ RateOk(saw(item), saw("events"))
          BY <5>5 DEF Rates, RateOk
        <5>7. QED
          BY <3>3, <3>4, <4>3, <5>2, <5>3, <5>4, <5>6 DEF AllHealthy
      <4>4. ASSUME "processing" \notin wants[c] PROVE AllHealthy(p)
        BY <3>2, <4>4 DEF AllHealthy
      <4>5. QED
        BY <4>2, <4>3, <4>4
    <3>10. QED
      BY <3>8, <3>9 DEF HealthTruthful
  <2>3. QED
    BY <2>1, <2>2
<1>6. QED
  BY <1>2, <1>4, <1>5 DEF HealthInv

LEMMA HealthInvariant == HealthSpec => []HealthInv
<1>1. HealthInv /\ [HealthNext]_healthVars => HealthInv'
  <2> SUFFICES ASSUME HealthInv, [HealthNext]_healthVars PROVE HealthInv'
    OBVIOUS
  <2>1. CASE UNCHANGED healthVars
    <3>1. UNCHANGED <<reading, toRead, got, changed, wants, admin, shaken, report>>
      BY <2>1 DEF healthVars
    <3>2. HealthTypes'
      BY <3>1 DEF HealthInv, HealthTypes
    <3>3. ASSUME NEW c \in Checks PROVE CheckInv(c)'
      <4>1. CheckInv(c)
        BY DEF HealthInv
      <4>2. \A entry : Truthful(c, entry) => Truthful(c, entry)'
        BY <3>1 DEF Truthful
      <4>3. \A x : WillBeRead(c, x) => WillBeRead(c, x)'
        BY <3>1 DEF WillBeRead, HasRead
      <4>4. QED
        BY <3>1, <4>1, <4>2, <4>3 DEF CheckInv, Idle
    <3>4. HealthTruthful'
      BY <3>1, TruthfulStays DEF HealthInv
    <3>5. QED
      BY <3>2, <3>3, <3>4 DEF HealthInv
  <2>2. ASSUME NEW item \in Items, Change(item) PROVE HealthInv'
    BY <2>2, ChangeStep
  <2>3. ASSUME NEW c \in Checks, NEW asked \in Asked, Start(c, asked[1], asked[2]) PROVE HealthInv'
    <3>1. asked[1] \in SUBSET {"infra", "processing", "query"} /\ asked[2] \in BOOLEAN
      BY AskedAssumption
    <3>2. QED
      BY <2>3, <3>1, StartStep
  <2>4. ASSUME NEW c \in Checks, Read(c) \/ Connect(c) \/ Disconnect(c) \/ Reply(c) PROVE HealthInv'
    BY <2>4, ReadStep, ConnectStep, DisconnectStep, ReplyStep
  <2>5. QED
    BY <2>1, <2>2, <2>3, <2>4 DEF HealthNext
<1>2. QED
  BY <1>1, HealthInitial, PTL DEF HealthSpec

\* A report on a dataset is right about all that did not change while its values were read one
\* after the other: what was bad all the while makes it unhealthy, and nothing else does but a
\* connection to Kafka that another check closed (DatasetHealthService.ts).
THEOREM HealthReportsTruthful == HealthSpec => []HealthTruthful
  BY HealthInvariant, PTL DEF HealthInv

-----------------------------------------------------------------------------
(* The types of silences and queries. *)

LEMMA SilenceTypesKept == SilenceSpec => []SilenceTypeOK
  BY SilenceInvariant, PTL DEF SilenceInv

\* The datasources that a request has found, and those that it has yet to ask for.
SourcesFound == \A c \in Clients : Range(source[c]) \subseteq Sources /\ toLoad[c] \subseteq Range(source[c])

\* A step finds datasources or leaves those that were found.
LEMMA FindsOrKeeps ==
  ASSUME QueryInv, [DataQueryNext]_dataQueryVars
  PROVE  \/ UNCHANGED source /\ \A c \in Clients : toLoad'[c] \subseteq toLoad[c]
         \/ \E c \in Clients : \E map : Look(c, map)
<1> DEFINE Keeps == UNCHANGED source /\ \A c \in Clients : toLoad'[c] \subseteq toLoad[c]
           Goal == Keeps \/ \E c \in Clients : \E map : Look(c, map)
<1>0. toLoad \in [Clients -> SUBSET Sources]
  BY DEF QueryInv, Forms
<1>1. ASSUME NEW c \in Clients, NEW outcome, ReplyQuery(c, outcome) PROVE Keeps
  BY <1>0, <1>1 DEF ReplyQuery
<1>2. ASSUME NEW c \in Clients, ResolveNative(c) PROVE Goal
  BY <1>1, <1>2 DEF ResolveNative, ValidateQuery
<1>3. ASSUME NEW c \in Clients, ValidateTemplate(c) PROVE Goal
  BY <1>1, <1>3 DEF ValidateTemplate, ValidateQuery
<1>4. ASSUME NEW c \in Clients, ResolveTemplate(c) \/ BuildSqlQuery(c) PROVE Goal
  BY <1>1, <1>4 DEF ResolveTemplate, BuildSqlQuery
<1>5. ASSUME NEW c \in Clients, CheckSupervisorAvailability(c) PROVE Goal
  BY <1>0, <1>1, <1>5 DEF CheckSupervisorAvailability, StillToLoad
<1>6. ASSUME NEW c \in Clients, CheckListed(c) \/ ExecuteQuery(c) \/ FailQuery(c) \/ SendQuery(c) PROVE Goal
  BY <1>1, <1>6 DEF CheckListed, ExecuteQuery, FailQuery, SendQuery
<1>7. CASE Move \/ UNCHANGED dataQueryVars
  BY <1>7 DEF Move, dataQueryVars
<1>8. QED
  BY <1>2, <1>3, <1>4, <1>5, <1>6, <1>7 DEF DataQueryNext

LEMMA SourcesFoundStep ==
  ASSUME QueryInv, QueryInv', SourcesFound, [DataQueryNext]_dataQueryVars
  PROVE  SourcesFound'
<1>1. CASE UNCHANGED source /\ \A c \in Clients : toLoad'[c] \subseteq toLoad[c]
  BY <1>1 DEF SourcesFound
<1>2. ASSUME NEW c \in Clients, NEW map, Look(c, map) PROVE SourcesFound'
  <2>1. /\ at'[c] = "load" /\ source'[c] = map /\ toLoad'[c] = Range(map)
        /\ \A d \in Clients \ {c} : source'[d] = source[d] /\ toLoad'[d] = toLoad[d]
    BY <1>2 DEF Look, Advance, QueryInv, Forms
  <2>2. Range(source[c])' \subseteq Sources
    BY <2>1 DEF QueryInv, Mapping, Mapped
  <2>3. QED
    BY <2>1, <2>2 DEF SourcesFound, Range
<1>3. QED
  BY <1>1, <1>2, FindsOrKeeps

LEMMA QueryTypesKept == DataQuerySpec => []DataQueryTypeOK
<1>1. DataQueryInit => SourcesFound
  BY DEF DataQueryInit, SourcesFound, Range
<1>2. QueryInv /\ SourcesFound => DataQueryTypeOK
  BY DEF QueryInv, Forms, Row, Loading, SourcesFound, DataQueryTypeOK
<1>3. QED
  BY <1>1, <1>2, SourcesFoundStep, QueryInvAlways, PTL DEF DataQuerySpec

-----------------------------------------------------------------------------
(* The types of health checks. *)

HealthBounds ==
    /\ report.status \in {"none", "Healthy", "UnHealthy", "error"}
    /\ changes \in 0 .. MaxChanges /\ checked \in 0 .. MaxChecks

LEMMA HealthBoundsStep == HealthBounds /\ [HealthNext]_healthVars => HealthBounds'
<1> SUFFICES ASSUME HealthBounds, [HealthNext]_healthVars PROVE HealthBounds'
  OBVIOUS
<1>1. CASE UNCHANGED healthVars
  BY <1>1 DEF healthVars, HealthBounds
<1>2. ASSUME NEW item \in Items, Change(item) PROVE HealthBounds'
  BY <1>2, CheckBoundsAssumption DEF Change, HealthBounds
<1>3. ASSUME NEW c \in Checks, NEW asked \in Asked, Start(c, asked[1], asked[2]) PROVE HealthBounds'
  BY <1>3, CheckBoundsAssumption DEF Start, NoReport, HealthBounds
<1>4. ASSUME NEW c \in Checks, Read(c) \/ Connect(c) \/ Disconnect(c) PROVE HealthBounds'
  BY <1>4 DEF Read, Connect, Disconnect, HealthBounds
<1>5. ASSUME NEW c \in Checks, Reply(c) PROVE HealthBounds'
  <2>1. UNCHANGED <<changes, checked>> /\ report'.status \in {"Healthy", "UnHealthy", "error"}
    BY <1>5 DEF Reply, Healthy
  <2>2. QED
    BY <2>1 DEF HealthBounds
<1>6. QED
  BY <1>1, <1>2, <1>3, <1>4, <1>5 DEF HealthNext

LEMMA HealthTypesKept == HealthSpec => []HealthTypeOK
<1>1. HealthInit => HealthBounds
  BY CheckBoundsAssumption DEF HealthInit, NoReport, HealthBounds
<1>2. ASSUME HealthInv, HealthBounds PROVE HealthTypeOK
  <2>1. Probes \subseteq {"infra", "processing"} \X Items
    BY DEF Probes, InfraItems, ProcessingItems, Items, Rates
  <2>2. \A c \in Checks : toRead[c] \in Seq({"infra", "processing"} \X Items)
    BY <1>2, <2>1 DEF HealthInv, HealthTypes
  <2>3. QED
    BY <1>2, <2>2 DEF HealthInv, HealthTypes, CheckInv, HealthBounds, HealthTypeOK
<1>3. QED
  BY <1>1, <1>2, HealthBoundsStep, HealthInvariant, PTL DEF HealthSpec

-----------------------------------------------------------------------------
(* The types of updates. *)

\* What a column of the draft may hold, in the row and in an update of it.
Fits(c, value) ==
    /\ c \in {"data_schema", "transformations_config"} => value \subseteq FieldPaths
    /\ c = "denorm_config" => value \subseteq DenormFields /\ \A d, e \in value : d.out = e.out => d = e
    /\ c = "keys_config" => value \in [Keys -> FieldPaths \cup {NoKey}]
    /\ c = "version_key" => value \in 0 .. MaxNow

EditColumns ==
    /\ \A c \in AllColumns : Fits(c, draft[c])
    /\ \A u \in Users : updates[u].at = "writing" =>
          \A c \in DOMAIN updates[u].patch : c \in AllColumns /\ Fits(c, updates[u].patch[c])

EditBounds ==
    /\ now \in 0 .. MaxNow /\ Len(times) <= MaxWrites + 1
    /\ \A u \in Users : updates[u].at = "away" => updates[u].seen = 0

EditTypes == EditInv /\ EditColumns /\ EditBounds

\* An update that is merged with a draft holds what the draft may.
LEMMA MergedFits ==
  ASSUME EditTypes, NEW q \in UpdateRequests, NEW c \in DOMAIN MergeDraftDataset(draft, q)
  PROVE  c \in AllColumns /\ Fits(c, MergeDraftDataset(draft, q)[c])
<1> DEFINE m == MergeDraftDataset(draft, q)
<1>1. c \in Columns(draft, q) /\ c \in AllColumns /\ DOMAIN draft = AllColumns
  BY DEF MergeDraftDataset, Columns, AllColumns, EditTypes, EditInv
<1>2. /\ q.schema \subseteq FieldPaths /\ q.upsert \subseteq FieldPaths /\ q.remove \subseteq FieldPaths
      /\ q.denorm \subseteq DenormFields /\ \A d, e \in q.denorm : d.out = e.out => d = e
      /\ q.keys = NoConfig \/ q.keys \in [Keys -> FieldPaths]
  BY UpdateRequestsAssumption DEF UpdateRequestsAssumption
<1>3. /\ draft["transformations_config"] \subseteq FieldPaths
      /\ draft["denorm_config"] \subseteq DenormFields
      /\ \A d, e \in draft["denorm_config"] : d.out = e.out => d = e
      /\ draft["keys_config"] \in [Keys -> FieldPaths \cup {NoKey}]
  BY DEF EditTypes, EditColumns, Fits, AllColumns
<1>4. CASE c = "version_key"
  BY <1>1, <1>4 DEF MergeDraftDataset, VersionKey, Fits, EditTypes, EditBounds
<1>5. CASE c = "data_schema"
  BY <1>1, <1>2, <1>5 DEF MergeDraftDataset, Fits
<1>6. CASE c = "transformations_config"
  BY <1>1, <1>2, <1>3, <1>6 DEF MergeDraftDataset, MergeTransformations, Fits
<1>7. CASE c = "denorm_config"
  <2>1. MergeDenorm(draft, q) \subseteq DenormFields
        /\ \A d, e \in MergeDenorm(draft, q) : d.out = e.out => d = e
    BY <1>2, <1>3 DEF MergeDenorm
  <2>2. m[c] = MergeDenorm(draft, q)
    BY <1>1, <1>7 DEF MergeDraftDataset
  <2>3. QED
    BY <1>1, <1>7, <2>1, <2>2 DEF Fits
<1>8. CASE c = "keys_config"
  <2>1. MergeKeys(draft, q) \in [Keys -> FieldPaths \cup {NoKey}]
    BY <1>2, <1>3 DEF MergeKeys
  <2>2. m[c] = MergeKeys(draft, q)
    BY <1>1, <1>8 DEF MergeDraftDataset
  <2>3. QED
    BY <1>1, <1>8, <2>1, <2>2 DEF Fits
<1>9. QED
  BY <1>1, <1>4, <1>5, <1>6, <1>7, <1>8 DEF AllColumns

LEMMA EditColumnsStep ==
  ASSUME EditTypes, [EditNext]_editVars
  PROVE  EditColumns'
<1>0. DOMAIN updates = Users /\ DOMAIN draft = AllColumns
  BY DEF EditTypes, EditInv
<1>1. CASE UNCHANGED editVars \/ Tick
  BY <1>1 DEF editVars, Tick, EditTypes, EditColumns
<1>2. ASSUME NEW u \in Users, FetchDraft(u) \/ FailUpdate(u) PROVE EditColumns'
  <2>1. draft' = draft /\ updates'[u].at = "editing" /\ \A v \in Users \ {u} : updates'[v] = updates[v]
    <3>1. CASE FetchDraft(u)
      BY <1>0, <3>1 DEF FetchDraft, Unstarted
    <3>2. CASE FailUpdate(u)
      BY <1>0, <3>2 DEF FailUpdate
    <3>3. QED
      BY <1>2, <3>1, <3>2
  <2>2. QED
    BY <2>1 DEF EditTypes, EditColumns
<1>3. ASSUME NEW u \in Users, NEW q \in UpdateRequests, StartUpdate(u, q) PROVE EditColumns'
  <2>1. /\ draft' = draft /\ updates'[u].patch = MergeDraftDataset(draft, q)
        /\ \A v \in Users \ {u} : updates'[v] = updates[v]
    BY <1>0, <1>3 DEF StartUpdate
  <2>2. QED
    BY <2>1, MergedFits DEF EditTypes, EditColumns
<1>4. ASSUME NEW u \in Users, WriteUpdate(u) PROVE EditColumns'
  <2>1. /\ \A c \in AllColumns : draft'[c] = Patched(updates[u].patch, draft, c)
        /\ updates[u].at = "writing" /\ updates'[u].at = "away"
        /\ \A v \in Users \ {u} : updates'[v] = updates[v]
    BY <1>4, WriteEffect DEF EditTypes
  <2>2. QED
    BY <2>1 DEF EditTypes, EditColumns, Patched
<1>5. QED
  BY <1>1, <1>2, <1>3, <1>4 DEF EditNext

LEMMA EditBoundsStep ==
  ASSUME EditTypes, [EditNext]_editVars
  PROVE  EditBounds'
<1>0. /\ DOMAIN updates = Users /\ now \in Nat /\ times \in Seq(0 .. now) /\ MaxNow \in Nat /\ MaxWrites \in Nat
      /\ \A u \in Users : updates[u].at \in {"away", "editing", "writing"}
  BY TimeBoundsAssumption DEF EditTypes, EditInv, TimesInv, UpdateInv
<1>1. CASE UNCHANGED editVars
  BY <1>1 DEF editVars, EditTypes, EditBounds
<1>2. CASE Tick
  BY <1>0, <1>2 DEF Tick, EditTypes, EditBounds
<1>3. ASSUME NEW u \in Users, FetchDraft(u) \/ FailUpdate(u) \/ \E q \in UpdateRequests : StartUpdate(u, q)
      PROVE  EditBounds'
  <2>1. UNCHANGED <<now, times>> /\ updates'[u].at # "away" /\ \A v \in Users \ {u} : updates'[v] = updates[v]
    <3>1. CASE FetchDraft(u)
      BY <1>0, <3>1 DEF FetchDraft, Unstarted
    <3>2. CASE FailUpdate(u)
      BY <1>0, <3>2 DEF FailUpdate
    <3>3. ASSUME NEW q \in UpdateRequests, StartUpdate(u, q)
          PROVE  UNCHANGED <<now, times>> /\ updates'[u].at # "away" /\ \A v \in Users \ {u} : updates'[v] = updates[v]
      BY <1>0, <3>3 DEF StartUpdate
    <3>4. QED
      BY <1>3, <3>1, <3>2, <3>3
  <2>2. QED
    BY <2>1 DEF EditTypes, EditBounds
<1>4. ASSUME NEW u \in Users, WriteUpdate(u) PROVE EditBounds'
  <2>1. /\ now' = now /\ Len(times') = Len(times) + 1 /\ \A v \in Users \ {u} : updates'[v] = updates[v]
    BY <1>4, WriteEffect DEF EditTypes
  <2>2. updates'[u].seen = 0 /\ Len(times) <= MaxWrites
    BY <1>0, <1>4 DEF WriteUpdate, Unstarted
  <2>3. QED
    BY <1>0, <2>1, <2>2 DEF EditTypes, EditBounds
<1>5. QED
  BY <1>1, <1>2, <1>3, <1>4 DEF EditNext

LEMMA EditTypesKept == EditSpec => []EditTypeOK
<1>1. ASSUME EditInit PROVE EditTypes
  <2>1. PICK f \in FieldPaths : draft = [data_schema |-> FieldPaths, transformations_config |-> {f},
                                   denorm_config |-> {}, keys_config |-> [k \in Keys |-> f], version_key |-> 0]
    BY <1>1 DEF EditInit
  <2>2. \A c \in AllColumns : Fits(c, draft[c])
    BY <2>1, TimeBoundsAssumption DEF AllColumns, Fits
  <2>3. \A u \in Users : updates[u].at = "away" /\ updates[u].seen = 0
    BY <1>1 DEF EditInit, Unstarted
  <2>4. now = 0 /\ Len(times) = 1
    BY <1>1 DEF EditInit
  <2>5. QED
    BY <1>1, <2>2, <2>3, <2>4, EditInitial, TimeBoundsAssumption DEF EditTypes, EditColumns, EditBounds
<1>2. EditTypes /\ [EditNext]_editVars => EditTypes'
  BY EditStep, EditColumnsStep, EditBoundsStep DEF EditTypes
<1>3. ASSUME EditTypes PROVE EditTypeOK
  <2>1. \A c \in AllColumns : Fits(c, draft[c])
    BY <1>3 DEF EditTypes, EditColumns
  <2>2. /\ draft.data_schema \subseteq FieldPaths /\ draft.transformations_config \subseteq FieldPaths
        /\ draft.denorm_config \subseteq DenormFields
        /\ draft.keys_config \in [Keys -> FieldPaths \cup {NoKey}]
        /\ draft.version_key \in 0 .. MaxNow
        /\ \A d, e \in draft.denorm_config : d.out = e.out => d = e
    BY <2>1 DEF Fits, AllColumns
  <2>3. Len(times) \in Nat /\ Len(times) >= 1 /\ stale \subseteq 2 .. Len(times)
    BY <1>3 DEF EditTypes, EditInv, TimesInv
  <2>4. \A u \in Users : updates[u].at \in {"away", "editing", "writing"} /\ updates[u].seen <= Len(times)
    BY <1>3, <2>3 DEF EditTypes, EditInv, UpdateInv, EditBounds
  <2>5. QED
    BY <1>3, <2>2, <2>3, <2>4, TimeBoundsAssumption DEF EditTypes, EditBounds, EditTypeOK
<1>4. QED
  BY <1>1, <1>2, <1>3, PTL DEF EditSpec

-----------------------------------------------------------------------------
(* All the services: the one that runs does so as on its own, and keeps the *)
(* form of its state.                                                       *)

\* The service p is the one that runs.
Runs(p) == part = p

\* The part that runs, and every service, begins in a state of its own.
LEMMA PartsBegin ==
  ASSUME ServicesInit
  PROVE  /\ \/ Runs("rules") \/ Runs("health") \/ Runs("query") \/ Runs("channels") \/ Runs("silences")
            \/ Runs("tables") \/ Runs("edits") \/ Runs("schema") \/ Runs("alerts")
         /\ JobInit /\ HealthInit /\ DataQueryInit /\ ChannelInit /\ SilenceInit /\ TableInit /\ EditInit
         /\ SchemaInit /\ DatasetAlertsInit
  BY DEF ServicesInit, Parts, Runs

\* A step of the services is one of the service that runs, or it changes nothing of that one.
LEMMA PartsStep ==
  ASSUME [ServicesNext]_serviceVars
  PROVE  /\ \A p \in Parts : Runs(p) => Runs(p)'
         /\ Runs("rules") => [JobNext]_allVars
         /\ Runs("health") => [HealthNext]_healthVars
         /\ Runs("query") => [DataQueryNext]_dataQueryVars
         /\ Runs("channels") => [ChannelNext]_channelVars
         /\ Runs("silences") => [SilenceNext]_silenceVars
         /\ Runs("tables") => [TableNext]_tableVars
         /\ Runs("edits") => [EditNext]_editVars
         /\ Runs("schema") => [SchemaNext]_schemaVars
         /\ Runs("alerts") => [DatasetAlertsNext]_alertVars
<1>1. CASE ServicesNext
  BY <1>1 DEF ServicesNext, Still, Runs
<1>2. CASE UNCHANGED serviceVars
  BY <1>2 DEF serviceVars, Runs
<1>3. QED
  BY <1>1, <1>2

\* In every behaviour of the services, the state of the service that runs has the form that its
\* operations rely on: of the job of the system rules, the health checks, the queries, the
\* notification channels, the silences, the tables, the updates of drafts, the generation of
\* schemas and the alerts of datasets.
THEOREM ServicesTypes == ServicesSpec => []ServicesTypeOK
<1>1. ServicesSpec /\ Runs("rules") => []ServicesTypeOK
  <2>1. ServicesInit => JobInit
    BY PartsBegin
  <2>2. Runs("rules") /\ [ServicesNext]_serviceVars => [JobNext]_allVars /\ Runs("rules")'
    BY PartsStep DEF Parts
  <2>3. Runs("rules") /\ TypeOK /\ JobTypeOK => ServicesTypeOK
    BY DEF ServicesTypeOK, Runs
  <2>4. QED
    BY <2>1, <2>2, <2>3, RulesTypesKept, PTL DEF ServicesSpec, JobSpec
<1>2. ServicesSpec /\ Runs("health") => []ServicesTypeOK
  <2>1. ServicesInit => HealthInit
    BY PartsBegin
  <2>2. Runs("health") /\ [ServicesNext]_serviceVars => [HealthNext]_healthVars /\ Runs("health")'
    BY PartsStep DEF Parts
  <2>3. Runs("health") /\ HealthTypeOK => ServicesTypeOK
    BY DEF ServicesTypeOK, Runs
  <2>4. QED
    BY <2>1, <2>2, <2>3, HealthTypesKept, PTL DEF ServicesSpec, HealthSpec
<1>3. ServicesSpec /\ Runs("query") => []ServicesTypeOK
  <2>1. ServicesInit => DataQueryInit
    BY PartsBegin
  <2>2. Runs("query") /\ [ServicesNext]_serviceVars => [DataQueryNext]_dataQueryVars /\ Runs("query")'
    BY PartsStep DEF Parts
  <2>3. Runs("query") /\ DataQueryTypeOK => ServicesTypeOK
    BY DEF ServicesTypeOK, Runs
  <2>4. QED
    BY <2>1, <2>2, <2>3, QueryTypesKept, PTL DEF ServicesSpec, DataQuerySpec
<1>4. ServicesSpec /\ Runs("channels") => []ServicesTypeOK
  <2>1. ServicesInit => ChannelInit
    BY PartsBegin
  <2>2. Runs("channels") /\ [ServicesNext]_serviceVars => [ChannelNext]_channelVars /\ Runs("channels")'
    BY PartsStep DEF Parts
  <2>3. Runs("channels") /\ ChannelTypeOK => ServicesTypeOK
    BY DEF ServicesTypeOK, Runs
  <2>4. QED
    BY <2>1, <2>2, <2>3, ChannelTypesKept, PTL DEF ServicesSpec, ChannelSpec
<1>5. ServicesSpec /\ Runs("silences") => []ServicesTypeOK
  <2>1. ServicesInit => SilenceInit
    BY PartsBegin
  <2>2. Runs("silences") /\ [ServicesNext]_serviceVars => [SilenceNext]_silenceVars /\ Runs("silences")'
    BY PartsStep DEF Parts
  <2>3. Runs("silences") /\ SilenceTypeOK => ServicesTypeOK
    BY DEF ServicesTypeOK, Runs
  <2>4. QED
    BY <2>1, <2>2, <2>3, SilenceTypesKept, PTL DEF ServicesSpec, SilenceSpec
<1>6. ServicesSpec /\ Runs("tables") => []ServicesTypeOK
  <2>1. ServicesInit => TableInit
    BY PartsBegin
  <2>2. Runs("tables") /\ [ServicesNext]_serviceVars => [TableNext]_tableVars /\ Runs("tables")'
    BY PartsStep DEF Parts
  <2>3. Runs("tables") /\ TableTypeOK => ServicesTypeOK
    BY DEF ServicesTypeOK, Runs
  <2>4. QED
    BY <2>1, <2>2, <2>3, TableTypesKept, PTL DEF ServicesSpec, TableSpec
<1>7. ServicesSpec /\ Runs("edits") => []ServicesTypeOK
  <2>1. ServicesInit => EditInit
    BY PartsBegin
  <2>2. Runs("edits") /\ [ServicesNext]_serviceVars => [EditNext]_editVars /\ Runs("edits")'
    BY PartsStep DEF Parts
  <2>3. Runs("edits") /\ EditTypeOK => ServicesTypeOK
    BY DEF ServicesTypeOK, Runs
  <2>4. QED
    BY <2>1, <2>2, <2>3, EditTypesKept, PTL DEF ServicesSpec, EditSpec
<1>8. ServicesSpec /\ Runs("schema") => []ServicesTypeOK
  <2>1. ServicesInit => SchemaInit
    BY PartsBegin
  <2>2. Runs("schema") /\ [ServicesNext]_serviceVars => [SchemaNext]_schemaVars /\ Runs("schema")'
    BY PartsStep DEF Parts
  <2>3. Runs("schema") /\ SchemaTypeOK => ServicesTypeOK
    BY DEF ServicesTypeOK, Runs
  <2>4. QED
    BY <2>1, <2>2, <2>3, SchemaTypesKept, PTL DEF ServicesSpec, SchemaSpec
<1>9. ServicesSpec /\ Runs("alerts") => []ServicesTypeOK
  <2>1. ServicesInit => DatasetAlertsInit
    BY PartsBegin
  <2>2. Runs("alerts") /\ [ServicesNext]_serviceVars => [DatasetAlertsNext]_alertVars /\ Runs("alerts")'
    BY PartsStep DEF Parts
  <2>3. Runs("alerts") /\ DatasetAlertsTypeOK => ServicesTypeOK
    BY DEF ServicesTypeOK, Runs
  <2>4. QED
    BY <2>1, <2>2, <2>3, AlertTypesKept, PTL DEF ServicesSpec, DatasetAlertsSpec
<1>10. ServicesInit =>
         \/ Runs("rules") \/ Runs("health") \/ Runs("query") \/ Runs("channels") \/ Runs("silences")
         \/ Runs("tables") \/ Runs("edits") \/ Runs("schema") \/ Runs("alerts")
  BY PartsBegin
<1>11. QED
  BY <1>1, <1>2, <1>3, <1>4, <1>5, <1>6, <1>7, <1>8, <1>9, <1>10, PTL DEF ServicesSpec

=============================================================================
