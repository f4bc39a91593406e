--------------------------- MODULE MonitoringProofs ---------------------------
(***************************************************************************)
(* Notification channels and alert rules against Grafana, for all alerts,  *)
(* channels, categories, requests, failures and bounds.                    *)
(***************************************************************************)
EXTENDS NotificationChannels, SystemRulesIngestor, FiniteSetTheorems, TLAPS

-----------------------------------------------------------------------------
(* The handlers of channels, by what they have read so far. *)

ChannelKinds == {"publish", "update", "retire"}
ChannelRow   == [status : {"none", "draft", "live", "retired"}, name : ChannelNames]

IdleHandler == [step : {"idle"}, kind : {"none"} \cup ChannelKinds, answer : {"none", "ok", "error"}]
ReadHandler == [kind : ChannelKinds, of : Channels, row : ChannelRow, name : ChannelNames,
                answer : {"none"}, step : {"get", "write"}]
PostHandler == [kind : ChannelKinds, of : Channels, row : ChannelRow, name : ChannelNames,
                answer : {"none"}, step : {"post", "write"}, config : SUBSET (ChannelNames \cup Foreign)]

ChannelBusy(h) == handling[h].step # "idle"

\* What a handler relies on from await to await.
HandlerInv(h) ==
    /\ handling[h].step \in {"idle", "get", "post", "write"}
    /\ ChannelBusy(h) => handling[h].of \in Stored
    /\ ChannelBusy(h) /\ handling[h].kind # "update" => handling[h].name = handling[h].row.name
    /\ handling[h].step = "post" => handling[h] \in PostHandler
    /\ handling[h].step = "write" => handling[h].kind # "publish"

HandlersInv ==
    /\ ChannelTypeOK
    /\ handling \in [Handlers -> IdleHandler \cup ReadHandler \cup PostHandler]
    /\ \A h \in Handlers : HandlerInv(h)
    /\ unsettled \subseteq ChannelNames

\* A handler at work has read a row of the table.
LEMMA WorkingType ==
  ASSUME HandlersInv, NEW h \in Handlers, ChannelBusy(h)
  PROVE  /\ handling[h] \in ReadHandler \cup PostHandler
         /\ handling[h].kind \in ChannelKinds /\ handling[h].answer = "none"
         /\ handling[h].of \in Channels /\ handling[h].of \in Stored
         /\ handling[h].name \in ChannelNames /\ handling[h].row.name \in ChannelNames
<1>1. handling[h] \in ReadHandler \cup PostHandler
  BY DEF HandlersInv, ChannelBusy, IdleHandler
<1>2. handling[h].of \in Stored
  BY DEF HandlersInv, ChannelTypeOK, ChannelBusy
<1>3. CASE handling[h] \in ReadHandler
  BY <1>1, <1>2, <1>3 DEF ReadHandler, ChannelRow
<1>4. CASE handling[h] \in PostHandler
  BY <1>1, <1>2, <1>4 DEF PostHandler, ChannelRow
<1>5. QED
  BY <1>1, <1>3, <1>4

\* What a handler of a channel becomes when it is answered.
LEMMA AnsweredType ==
  ASSUME HandlersInv, NEW h \in Handlers, NEW answr \in {"ok", "error"}, AnswerChannel(h, answr)
  PROVE  /\ handling' \in [Handlers -> IdleHandler \cup ReadHandler \cup PostHandler]
         /\ handling'[h].step = "idle" /\ handling'[h].answer = answr
         /\ \A k \in Handlers \ {h} : handling'[k] = handling[k]
<1>1. handling[h].kind \in {"none"} \cup ChannelKinds
  <2>1. CASE ChannelBusy(h)
    BY <2>1, WorkingType
  <2>2. CASE ~ ChannelBusy(h)
    <3>1. handling[h] \in IdleHandler
      BY <2>2 DEF HandlersInv, ChannelBusy, ReadHandler, PostHandler
    <3>2. QED
      BY <3>1 DEF IdleHandler
  <2>3. QED
    BY <2>1, <2>2
<1>2. PICK x : x = [NoJob EXCEPT !.kind = handling[h].kind, !.answer = answr]
  OBVIOUS
<1>3. x \in IdleHandler /\ x.step = "idle" /\ x.answer = answr
  BY <1>1, <1>2 DEF NoJob, IdleHandler
<1>4. handling' = [handling EXCEPT ![h] = x]
  BY <1>2 DEF AnswerChannel
<1>5. QED
  BY <1>3, <1>4 DEF HandlersInv

\* A step after which rows and handlers have their forms keeps what handlers rely on.
LEMMA HandlersKept ==
  ASSUME HandlersInv,
         handling' \in [Handlers -> IdleHandler \cup ReadHandler \cup PostHandler],
         \A h \in Handlers : handling'[h] = handling[h] \/ handling'[h].step = "idle" \/ HandlerInv(h)',
         channel' \in [Channels -> ChannelRow],
         \A c \in Stored : channel'[c].status # "none",
         \A c, d \in Stored' : channel'[c].name = channel'[d].name => c = d,
         receivers' \subseteq ChannelNames \cup Foreign, late' \subseteq Stored', unsettled' \subseteq ChannelNames
  PROVE  HandlersInv'
<1>1. \A c \in Channels : c \in Stored => c \in Stored'
  BY DEF Stored
<1>2. ASSUME NEW h \in Handlers PROVE HandlerInv(h)'
  <2>1. CASE handling'[h].step = "idle"
    BY <2>1 DEF HandlerInv, ChannelBusy
  <2>2. CASE handling'[h] = handling[h] /\ ChannelBusy(h)
    BY <1>1, <2>2, WorkingType DEF HandlersInv, HandlerInv, ChannelBusy
  <2>3. QED
    BY <2>1, <2>2 DEF ChannelBusy
<1>3. ChannelTypeOK'
  BY <1>2 DEF ChannelTypeOK, ChannelRow, HandlerInv, ChannelBusy
<1>4. QED
  BY <1>2, <1>3 DEF HandlersInv

LEMMA HandlersInit == ChannelInit => HandlersInv
  BY DEF ChannelInit, HandlersInv, HandlerInv, ChannelTypeOK, ChannelBusy, NoJob, IdleHandler, Stored, ChannelRow

\* What of the state the rows of a type-correct state are.
LEMMA ChannelRows ==
  ASSUME HandlersInv
  PROVE  /\ channel \in [Channels -> ChannelRow] /\ late \subseteq Stored /\ Stored \subseteq Channels
         /\ \A c, d \in Stored : channel[c].name = channel[d].name => c = d
         /\ \A c \in Stored : channel[c].status # "none"
         /\ receivers \subseteq ChannelNames \cup Foreign /\ unsettled \subseteq ChannelNames
  BY DEF HandlersInv, ChannelTypeOK, ChannelRow, Stored

LEMMA CreateHandlers ==
  ASSUME HandlersInv, NEW c \in Channels, CreateChannel(c)
  PROVE  HandlersInv'
<1>1. /\ channel[c].status = "none" /\ NameFree(c, channel[c].name)
      /\ channel' = [channel EXCEPT ![c] = [channel[c] EXCEPT !.status = "draft"]]
      /\ UNCHANGED <<receivers, handling, late, unsettled>>
  BY DEF CreateChannel
<1>2. PICK x \in ChannelRow : x = [channel[c] EXCEPT !.status = "draft"]
  BY ChannelRows DEF ChannelRow
<1>3. x.status = "draft" /\ x.name = channel[c].name
  BY <1>2, ChannelRows DEF ChannelRow
<1>4. channel' = [channel EXCEPT ![c] = x]
  BY <1>1, <1>2
<1>5. channel' \in [Channels -> ChannelRow] /\ Stored' = Stored \cup {c}
  BY <1>3, <1>4, ChannelRows DEF Stored
<1>6. \A d, e \in Stored' : channel'[d].name = channel'[e].name => d = e
  BY <1>1, <1>3, <1>4, <1>5, ChannelRows DEF NameFree
<1>7. QED
  BY <1>1, <1>3, <1>4, <1>5, <1>6, ChannelRows, HandlersKept DEF HandlersInv

LEMMA BeginHandlers ==
  ASSUME HandlersInv, NEW h \in Handlers, NEW kind \in ChannelKinds, NEW c \in Channels,
         BeginChannel(h, kind, c)
  PROVE  HandlersInv'
<1>1. /\ c \in Stored /\ UNCHANGED <<channel, receivers, late>>
  BY DEF BeginChannel
<1>2. PICK name \in ChannelNames :
        /\ kind # "update" => name = channel[c].name
        /\ unsettled' = CASE ~ Undisturbed  -> ChannelNames
                       [] Undisturbed /\ c \in late -> unsettled \cup {channel[c].name, name}
                       [] OTHER     -> unsettled
        /\ handling' = [handling EXCEPT ![h] =
            IF kind = "publish" /\ channel[c].status = "live"
            THEN [NoJob EXCEPT !.kind = kind, !.answer = "error"]
            ELSE [kind |-> kind, of |-> c, row |-> channel[c], name |-> name, answer |-> "none",
                  step |-> IF CallsGrafana(kind, channel[c].status) THEN "get" ELSE "write"]]
  BY DEF BeginChannel
<1>3. channel[c].name \in ChannelNames /\ channel[c] \in ChannelRow
  BY <1>1, ChannelRows DEF ChannelRow
<1>4. unsettled' \subseteq ChannelNames
  BY <1>2, <1>3, ChannelRows
<1>5. PICK x : handling' = [handling EXCEPT ![h] = x]
                /\ \/ x = [NoJob EXCEPT !.kind = kind, !.answer = "error"]
                   \/ x = [kind |-> kind, of |-> c, row |-> channel[c], name |-> name, answer |-> "none",
                           step |-> IF CallsGrafana(kind, channel[c].status) THEN "get" ELSE "write"]
  BY <1>2
<1>6. \/ x \in IdleHandler /\ x.step = "idle"
      \/ /\ x \in ReadHandler /\ x.of = c /\ x.kind = kind /\ x.name = name /\ x.row.name = channel[c].name
         /\ x.step = "write" => kind # "publish"
  <2>1. CASE x = [NoJob EXCEPT !.kind = kind, !.answer = "error"]
    BY <2>1 DEF NoJob, IdleHandler
  <2>2. CASE x = [kind |-> kind, of |-> c, row |-> channel[c], name |-> name, answer |-> "none",
                  step |-> IF CallsGrafana(kind, channel[c].status) THEN "get" ELSE "write"]
    BY <1>3, <2>2 DEF ReadHandler, CallsGrafana
  <2>3. QED
    BY <1>5, <2>1, <2>2
<1>7. handling'[h] = x /\ \A k \in Handlers \ {h} : handling'[k] = handling[k]
  BY <1>5 DEF HandlersInv
<1>8. handling' \in [Handlers -> IdleHandler \cup ReadHandler \cup PostHandler]
  BY <1>5, <1>6 DEF HandlersInv
<1>9. Stored' = Stored
  BY <1>1 DEF Stored
<1>10. handling'[h].step = "idle" \/ HandlerInv(h)'
  <2>1. kind # "update" => name = channel[c].name
    BY <1>2
  <2>2. CASE x \in ReadHandler /\ x.of = c /\ x.kind = kind /\ x.name = name /\ x.row.name = channel[c].name
             /\ (x.step = "write" => kind # "publish")
    <3>1. x.step \in {"get", "write"}
      BY <2>2 DEF ReadHandler
    <3>2. QED
      BY <1>1, <1>7, <1>9, <2>1, <2>2, <3>1 DEF HandlerInv, ChannelBusy
  <2>3. QED
    BY <1>6, <1>7, <2>2
<1>11. QED
  BY <1>1, <1>4, <1>7, <1>8, <1>9, <1>10, ChannelRows, HandlersKept

LEMMA GetHandlers ==
  ASSUME HandlersInv, NEW h \in Handlers, GetAlertManagerConfig(h)
  PROVE  HandlersInv'
<1>1. handling[h].step = "get" /\ ChannelBusy(h) /\ UNCHANGED <<channel, receivers, late, unsettled>>
  BY DEF GetAlertManagerConfig, ChannelBusy
<1>2. Stored' = Stored
  BY <1>1 DEF Stored
<1>3. CASE AnswerChannel(h, "error")
  BY <1>1, <1>2, <1>3, ChannelRows, AnsweredType, HandlersKept
<1>4. CASE ~ AnswerChannel(h, "error")
  <2>1. PICK x : /\ x = [kind |-> handling[h].kind, of |-> handling[h].of, row |-> handling[h].row,
                         name |-> handling[h].name, answer |-> "none", step |-> "post", config |-> receivers]
                 /\ handling' = [handling EXCEPT ![h] = x]
    BY <1>4 DEF GetAlertManagerConfig
  <2>2. x \in PostHandler
    <3>1. handling[h].row \in ChannelRow
      BY <1>1, WorkingType DEF ReadHandler, PostHandler
    <3>2. QED
      BY <1>1, <2>1, <3>1, WorkingType, ChannelRows DEF PostHandler
  <2>3. handling' \in [Handlers -> IdleHandler \cup ReadHandler \cup PostHandler]
        /\ handling'[h] = x /\ \A k \in Handlers \ {h} : handling'[k] = handling[k]
    BY <2>1, <2>2 DEF HandlersInv
  <2>4. HandlerInv(h)
    BY DEF HandlersInv
  <2>5. x.step = "post" /\ x.kind = handling[h].kind /\ x.name = handling[h].name
        /\ x.row = handling[h].row /\ x.of = handling[h].of
    BY <2>1
  <2>6. HandlerInv(h)'
    BY <1>1, <1>2, <2>2, <2>3, <2>4, <2>5 DEF HandlerInv, ChannelBusy
  <2>7. QED
    BY <1>1, <1>2, <2>3, <2>6, ChannelRows, HandlersKept
<1>5. QED
  BY <1>3, <1>4

\* The step "write" leaves everything but the step of a handler as it is.
LEMMA StepType ==
  ASSUME HandlersInv, NEW h \in Handlers, handling[h] \in PostHandler, Step(h, "write")
  PROVE  /\ handling' \in [Handlers -> IdleHandler \cup ReadHandler \cup PostHandler]
         /\ handling'[h].step = "write" /\ handling'[h].kind = handling[h].kind
         /\ handling'[h].of = handling[h].of /\ handling'[h].name = handling[h].name
         /\ handling'[h].row = handling[h].row
         /\ \A k \in Handlers \ {h} : handling'[k] = handling[k]
<1>1. PICK x : x = [handling[h] EXCEPT !.step = "write"]
  OBVIOUS
<1>2. /\ x \in PostHandler /\ x.step = "write" /\ x.kind = handling[h].kind
      /\ x.of = handling[h].of /\ x.name = handling[h].name /\ x.row = handling[h].row
  BY <1>1 DEF PostHandler
<1>3. handling' = [handling EXCEPT ![h] = x]
  BY <1>1 DEF Step
<1>4. QED
  BY <1>2, <1>3 DEF HandlersInv

LEMMA UpdateHandlers ==
  ASSUME HandlersInv, NEW h \in Handlers, UpdateAlertManagerConfig(h)
  PROVE  HandlersInv'
<1>1. /\ handling[h].step = "post" /\ ChannelBusy(h) /\ UNCHANGED channel /\ HandlerInv(h)
      /\ handling[h] \in PostHandler
  BY DEF UpdateAlertManagerConfig, ChannelBusy, HandlersInv, HandlerInv
<1>2. Stored' = Stored
  BY <1>1 DEF Stored
<1>3. NewConfig(h) \subseteq ChannelNames \cup Foreign
  <2>1. handling[h].config \subseteq ChannelNames \cup Foreign
    BY <1>1 DEF PostHandler
  <2>2. QED
    BY <1>1, <2>1, WorkingType DEF NewConfig
<1>4. /\ receivers' \subseteq ChannelNames \cup Foreign /\ late' \subseteq Stored' /\ unsettled' \subseteq ChannelNames
  BY <1>1, <1>2, <1>3, WorkingType, ChannelRows DEF UpdateAlertManagerConfig
<1>5. CASE AnswerChannel(h, "ok") \/ AnswerChannel(h, "error")
  BY <1>1, <1>2, <1>4, <1>5, ChannelRows, AnsweredType, HandlersKept
<1>6. CASE Step(h, "write") /\ handling[h].kind # "publish"
  <2>1. HandlerInv(h)'
    BY <1>1, <1>2, <1>6, StepType DEF HandlerInv, ChannelBusy
  <2>2. QED
    BY <1>1, <1>2, <1>4, <1>6, <2>1, ChannelRows, StepType, HandlersKept
<1>7. QED
  BY <1>5, <1>6 DEF UpdateAlertManagerConfig

LEMMA WriteHandlers ==
  ASSUME HandlersInv, NEW h \in Handlers, WriteRow(h)
  PROVE  HandlersInv'
<1>1. handling[h].step = "write" /\ ChannelBusy(h) /\ UNCHANGED <<receivers, late>>
  BY DEF WriteRow, ChannelBusy
<1>2. PICK c \in Stored, n \in ChannelNames : c = handling[h].of /\ n = handling[h].name
  BY <1>1, WorkingType
<1>3. CASE AnswerChannel(h, "error") /\ UNCHANGED channel
  <2>1. unsettled' \subseteq ChannelNames
    BY <1>1, WorkingType, ChannelRows DEF WriteRow
  <2>2. Stored' = Stored
    BY <1>3 DEF Stored
  <2>3. QED
    BY <1>1, <1>3, <2>1, <2>2, ChannelRows, AnsweredType, HandlersKept
<1>4. CASE ~ (AnswerChannel(h, "error") /\ UNCHANGED channel)
  <2>1. /\ NameFree(c, n) /\ AnswerChannel(h, "ok") /\ unsettled' = unsettled
        /\ channel' = [channel EXCEPT ![c] = IF handling[h].kind = "update"
                          THEN [status |-> "draft", name |-> n] ELSE [channel[c] EXCEPT !.status = "retired"]]
    BY <1>2, <1>4 DEF WriteRow
  <2>2. PICK x : x = IF handling[h].kind = "update" THEN [status |-> "draft", name |-> n]
                     ELSE [channel[c] EXCEPT !.status = "retired"]
    OBVIOUS
  <2>3. channel[c] \in ChannelRow /\ c \in Channels
    BY ChannelRows
  <2>4. x \in ChannelRow /\ x.status # "none" /\ (x.name = n \/ x.name = channel[c].name)
    BY <2>2, <2>3 DEF ChannelRow
  <2>5. channel' = [channel EXCEPT ![c] = x]
    BY <2>1, <2>2
  <2>6. channel' \in [Channels -> ChannelRow] /\ Stored' = Stored
    BY <2>3, <2>4, <2>5, ChannelRows DEF Stored
  <2>7. \A d, e \in Stored : channel'[d].name = channel'[e].name => d = e
    BY <2>1, <2>3, <2>4, <2>5, ChannelRows DEF NameFree
  <2>8. \A d \in Stored : channel'[d].status # "none"
    BY <2>6 DEF Stored
  <2>9. QED
    BY <1>1, <2>1, <2>6, <2>7, <2>8, ChannelRows, AnsweredType, HandlersKept
<1>5. QED
  BY <1>3, <1>4

LEMMA LateHandlers ==
  ASSUME HandlersInv, NEW c \in Channels, WriteLate(c)
  PROVE  HandlersInv'
<1>1. c \in late /\ late' = late \ {c} /\ UNCHANGED <<receivers, handling>> /\ c \in Stored
  BY ChannelRows DEF WriteLate
<1>2. channel[c] \in ChannelRow /\ channel[c].name \in ChannelNames
  BY ChannelRows DEF ChannelRow
<1>3. PICK x : x = [channel[c] EXCEPT !.status = "live"]
  OBVIOUS
<1>4. x \in ChannelRow /\ x.status = "live" /\ x.name = channel[c].name
  BY <1>2, <1>3 DEF ChannelRow
<1>5. /\ channel' = [channel EXCEPT ![c] = x] \/ channel' = channel
      /\ unsettled' \subseteq ChannelNames
  BY <1>2, <1>3, ChannelRows DEF WriteLate
<1>6. channel' \in [Channels -> ChannelRow] /\ Stored' = Stored
  BY <1>1, <1>4, <1>5, ChannelRows DEF Stored
<1>7. \A d, e \in Stored : channel'[d].name = channel'[e].name => d = e
  BY <1>4, <1>5, ChannelRows
<1>8. QED
  BY <1>1, <1>5, <1>6, <1>7, ChannelRows, HandlersKept DEF Stored, HandlersInv

LEMMA RestartHandlers ==
  ASSUME HandlersInv, RestartApi
  PROVE  HandlersInv'
<1>1. /\ handling' = [h \in Handlers |-> NoJob] /\ late' = {} /\ UNCHANGED <<channel, receivers>>
      /\ unsettled' = unsettled \cup { channel[c].name : c \in late }
                        \cup UNION { {handling[h].row.name, handling[h].name} :
                                     h \in { k \in Handlers : handling[k].step # "idle" } }
  BY DEF RestartApi
<1>2. \A c \in late : channel[c].name \in ChannelNames
  BY ChannelRows DEF ChannelRow
<1>3. unsettled' \subseteq ChannelNames
  BY <1>1, <1>2, WorkingType, ChannelRows DEF ChannelBusy
<1>4. handling' \in [Handlers -> IdleHandler] /\ \A h \in Handlers : handling'[h].step = "idle"
  BY <1>1 DEF NoJob, IdleHandler
<1>5. Stored' = Stored
  BY <1>1 DEF Stored
<1>6. QED
  BY <1>1, <1>3, <1>4, <1>5, ChannelRows, HandlersKept

LEMMA HandlersStep == HandlersInv /\ [ChannelNext]_channelVars => HandlersInv'
<1> SUFFICES ASSUME HandlersInv, [ChannelNext]_channelVars PROVE HandlersInv'
  OBVIOUS
<1>1. CASE UNCHANGED channelVars
  BY <1>1 DEF channelVars, HandlersInv, HandlerInv, ChannelTypeOK, ChannelBusy, Stored
<1>2. QED
  BY <1>1, CreateHandlers, LateHandlers, BeginHandlers, GetHandlers, UpdateHandlers, WriteHandlers,
     RestartHandlers DEF ChannelNext, ChannelKinds

LEMMA HandlersInvariant == ChannelSpec => []HandlersInv
  BY HandlersInit, HandlersStep, PTL DEF ChannelSpec

-----------------------------------------------------------------------------
(* Channels against Grafana. *)

\* No receiver of others has the name of a channel.  Without it, retiring a draft that was
\* given the name of another's receiver would remove that receiver.
OwnNames == ChannelNames \cap Foreign = {}

ForeignInv ==
    /\ ForeignKept
    /\ \A h \in Handlers : handling[h].step = "post" => Foreign \subseteq handling[h].config

LEMMA ForeignStep == OwnNames /\ HandlersInv /\ ForeignInv /\ [ChannelNext]_channelVars => ForeignInv'
<1> SUFFICES ASSUME OwnNames, HandlersInv, ForeignInv, [ChannelNext]_channelVars PROVE ForeignInv'
  OBVIOUS
<1>1. CASE receivers' = receivers /\ \A h \in Handlers : handling'[h] = handling[h] \/ handling'[h].step # "post"
  BY <1>1 DEF ForeignInv, ForeignKept
<1>2. ASSUME NEW h \in Handlers, GetAlertManagerConfig(h) PROVE ForeignInv'
  <2>1. CASE AnswerChannel(h, "error")
    BY <1>2, <2>1, <1>1, AnsweredType DEF GetAlertManagerConfig
  <2>2. CASE ~ AnswerChannel(h, "error")
    <3>1. PICK x : x.config = receivers /\ handling' = [handling EXCEPT ![h] = x]
      BY <1>2, <2>2 DEF GetAlertManagerConfig
    <3>2. receivers' = receivers
      BY <1>2 DEF GetAlertManagerConfig
    <3>3. handling'[h] = x /\ \A k \in Handlers \ {h} : handling'[k] = handling[k]
      BY <3>1 DEF HandlersInv
    <3>4. QED
      BY <3>1, <3>2, <3>3 DEF ForeignInv, ForeignKept
  <2>3. QED
    BY <2>1, <2>2
<1>3. ASSUME NEW h \in Handlers, UpdateAlertManagerConfig(h) PROVE ForeignInv'
  <2>1. handling[h].step = "post" /\ ChannelBusy(h) /\ handling[h] \in PostHandler
    BY <1>3 DEF UpdateAlertManagerConfig, ChannelBusy, HandlersInv, HandlerInv
  <2>2. Foreign \subseteq NewConfig(h)
    BY <2>1, WorkingType DEF NewConfig, ForeignInv, OwnNames
  <2>3. Foreign \subseteq receivers'
    BY <1>3, <2>2 DEF UpdateAlertManagerConfig, ForeignInv, ForeignKept
  <2>4. \A k \in Handlers : handling'[k] = handling[k] \/ handling'[k].step # "post"
    <3>1. CASE AnswerChannel(h, "ok") \/ AnswerChannel(h, "error")
      BY <3>1, AnsweredType
    <3>2. CASE Step(h, "write")
      BY <2>1, <3>2, StepType
    <3>3. QED
      BY <1>3, <3>1, <3>2 DEF UpdateAlertManagerConfig
  <2>5. QED
    BY <2>3, <2>4 DEF ForeignInv, ForeignKept
<1>4. ASSUME NEW h \in Handlers, WriteRow(h) PROVE ForeignInv'
  BY <1>1, <1>4, AnsweredType DEF WriteRow
<1>5. ASSUME NEW h \in Handlers, NEW kind, NEW c, BeginChannel(h, kind, c) PROVE ForeignInv'
  <2>1. PICK x : x.step # "post" /\ handling' = [handling EXCEPT ![h] = x] /\ receivers' = receivers
    BY <1>5 DEF BeginChannel, NoJob
  <2>2. QED
    BY <1>1, <2>1 DEF HandlersInv
<1>6. CASE RestartApi
  BY <1>1, <1>6 DEF RestartApi, NoJob
<1>7. ASSUME NEW c \in Channels, CreateChannel(c) \/ WriteLate(c) PROVE ForeignInv'
  BY <1>1, <1>7 DEF CreateChannel, WriteLate
<1>8. QED
  BY <1>1, <1>2, <1>3, <1>4, <1>5, <1>6, <1>7 DEF ChannelNext, channelVars

Shaken == unsettled = ChannelNames

\* A handler at its last step has removed the receiver of a channel that was live.
RemovesRule(c) == \E h \in Handlers : handling[h].step = "write" /\ handling[h].of = c

\* What Grafana should notify.
Notified(c) == c \in late \/ (channel[c].status = "live" /\ ~ RemovesRule(c))

Corresponds(n) == n \in receivers <=> \E c \in Stored : channel[c].name = n /\ Notified(c)

\* A handler that is alone has the name that its channel still has, and the configuration
\* that Grafana still has.
UpToDate(h) ==
    /\ handling[h].row.name = channel[handling[h].of].name
    /\ handling[h].of \in late => handling[h].row.name \in unsettled /\ handling[h].name \in unsettled
    /\ handling[h].step = "post" => handling[h].config = receivers
    /\ handling[h].step = "write" /\ handling[h].kind = "retire" => handling[h].row.name \notin receivers

Orderly ==
    /\ \A h, k \in Handlers : ChannelBusy(h) /\ ChannelBusy(k) => h = k
    /\ \A h \in Handlers : ChannelBusy(h) => UpToDate(h)
    /\ \A n \in ChannelNames \ unsettled : Corresponds(n)

LEMMA ShakenStays ==
  ASSUME HandlersInv, HandlersInv', ChannelNext, Shaken
  PROVE  Shaken'
<1>1. unsettled' \subseteq ChannelNames /\ unsettled \subseteq ChannelNames
  BY DEF HandlersInv
<1>2. unsettled \subseteq unsettled'
  BY <1>1 DEF ChannelNext, CreateChannel, WriteLate, BeginChannel, GetAlertManagerConfig,
     UpdateAlertManagerConfig, WriteRow, RestartApi
<1>3. QED
  BY <1>1, <1>2 DEF Shaken

LEMMA CreateOrderly ==
  ASSUME HandlersInv, Orderly, NEW c \in Channels, CreateChannel(c)
  PROVE  Orderly'
<1>1. /\ c \notin Stored /\ c \notin late /\ UNCHANGED <<receivers, handling, late, unsettled>>
      /\ channel' = [channel EXCEPT ![c] = [channel[c] EXCEPT !.status = "draft"]]
  BY ChannelRows DEF CreateChannel, Stored
<1>2. channel[c] \in ChannelRow
  BY ChannelRows
<1>3. PICK x : x = [channel[c] EXCEPT !.status = "draft"]
  OBVIOUS
<1>4. x.status = "draft"
  BY <1>2, <1>3 DEF ChannelRow
<1>5. channel'[c] = x /\ \A d \in Channels \ {c} : channel'[d] = channel[d]
  BY <1>1, <1>3, ChannelRows
<1>6. Stored' = Stored \cup {c}
  BY <1>4, <1>5 DEF Stored
<1>7. \A d : RemovesRule(d)' <=> RemovesRule(d)
  BY <1>1 DEF RemovesRule
<1>8. \A n \in ChannelNames \ unsettled : Corresponds(n)'
  BY <1>1, <1>4, <1>5, <1>6, <1>7, ChannelRows DEF Orderly, Corresponds, Notified
<1>9. ASSUME NEW h \in Handlers, ChannelBusy(h) PROVE UpToDate(h)'
  BY <1>1, <1>5, <1>9, WorkingType, ChannelRows DEF Orderly, UpToDate
<1>10. QED
  BY <1>1, <1>8, <1>9 DEF Orderly, ChannelBusy

LEMMA BeginOrderly ==
  ASSUME HandlersInv, Orderly, NEW h \in Handlers, NEW kind \in ChannelKinds, NEW c \in Channels,
         BeginChannel(h, kind, c)
  PROVE  (Shaken \/ Orderly)'
<1>1. /\ c \in Stored /\ UNCHANGED <<channel, receivers, late>>
  BY DEF BeginChannel
<1>2. PICK name \in ChannelNames :
        /\ unsettled' = CASE ~ Undisturbed  -> ChannelNames
                       [] Undisturbed /\ c \in late -> unsettled \cup {channel[c].name, name}
                       [] OTHER     -> unsettled
        /\ handling' = [handling EXCEPT ![h] =
            IF kind = "publish" /\ channel[c].status = "live"
            THEN [NoJob EXCEPT !.kind = kind, !.answer = "error"]
            ELSE [kind |-> kind, of |-> c, row |-> channel[c], name |-> name, answer |-> "none",
                  step |-> IF CallsGrafana(kind, channel[c].status) THEN "get" ELSE "write"]]
  BY DEF BeginChannel
<1>3. CASE ~ Undisturbed
  BY <1>2, <1>3 DEF Shaken
<1>4. CASE Undisturbed
  <2>1. unsettled \subseteq unsettled' /\ (c \in late => {channel[c].name, name} \subseteq unsettled')
    BY <1>2, <1>4
  <2>2. PICK x : handling' = [handling EXCEPT ![h] = x]
                  /\ \/ x = [NoJob EXCEPT !.kind = kind, !.answer = "error"]
                     \/ x = [kind |-> kind, of |-> c, row |-> channel[c], name |-> name, answer |-> "none",
                             step |-> IF CallsGrafana(kind, channel[c].status) THEN "get" ELSE "write"]
    BY <1>2
  <2>3. x.step # "idle" => /\ x.of = c /\ x.kind = kind /\ x.name = name /\ x.row.name = channel[c].name
                           /\ x.step \in {"get", "write"}
                           /\ x.step = "write" => kind = "update" /\ channel[c].status # "live"
    <3>1. CASE x = [NoJob EXCEPT !.kind = kind, !.answer = "error"]
      BY <3>1 DEF NoJob
    <3>2. CASE x = [kind |-> kind, of |-> c, row |-> channel[c], name |-> name, answer |-> "none",
                    step |-> IF CallsGrafana(kind, channel[c].status) THEN "get" ELSE "write"]
      BY <3>2 DEF CallsGrafana
    <3>3. QED
      BY <2>2, <3>1, <3>2
  <2>4. handling'[h] = x /\ \A k \in Handlers \ {h} : handling'[k] = handling[k]
    BY <2>2 DEF HandlersInv
  <2>5. \A k \in Handlers \ {h} : handling'[k].step = "idle"
    BY <1>4, <2>4 DEF Undisturbed
  <2>6. \A k \in Handlers : ChannelBusy(k)' => k = h /\ x.step # "idle"
    BY <2>4, <2>5 DEF ChannelBusy
  <2>7. x.step # "idle" => UpToDate(h)'
    BY <1>1, <2>1, <2>3, <2>4 DEF UpToDate
  <2>8. \A d : ~ RemovesRule(d) /\ (RemovesRule(d)' => d = c /\ channel[c].status # "live")
    BY <1>4, <2>3, <2>4, <2>5 DEF RemovesRule, Undisturbed
  <2>9. \A n \in ChannelNames \ unsettled' : Corresponds(n)'
    <3>1. \A d : Notified(d)' <=> Notified(d)
      BY <1>1, <2>8 DEF Notified
    <3>2. Stored' = Stored
      BY <1>1 DEF Stored
    <3>3. QED
      BY <1>1, <2>1, <3>1, <3>2 DEF Orderly, Corresponds
  <2>10. QED
    BY <2>6, <2>7, <2>9 DEF Orderly
<1>5. QED
  BY <1>3, <1>4

LEMMA GetOrderly ==
  ASSUME HandlersInv, Orderly, NEW h \in Handlers, GetAlertManagerConfig(h)
  PROVE  Orderly'
<1>1. handling[h].step = "get" /\ ChannelBusy(h) /\ UNCHANGED <<channel, receivers, late, unsettled>>
  BY DEF GetAlertManagerConfig, ChannelBusy
<1>2. /\ \A k \in Handlers \ {h} : handling'[k] = handling[k]
      /\ \/ handling'[h].step = "idle"
         \/ /\ handling'[h].step = "post" /\ handling'[h].config = receivers
            /\ handling'[h].of = handling[h].of /\ handling'[h].name = handling[h].name
            /\ handling'[h].row = handling[h].row
  <2>1. CASE AnswerChannel(h, "error")
    BY <2>1, AnsweredType
  <2>2. CASE ~ AnswerChannel(h, "error")
    <3>1. PICK x : /\ x = [kind |-> handling[h].kind, of |-> handling[h].of, row |-> handling[h].row,
                           name |-> handling[h].name, answer |-> "none", step |-> "post", config |-> receivers]
                   /\ handling' = [handling EXCEPT ![h] = x]
      BY <2>2 DEF GetAlertManagerConfig
    <3>2. handling'[h] = x /\ \A k \in Handlers \ {h} : handling'[k] = handling[k]
      BY <3>1 DEF HandlersInv
    <3>3. QED
      BY <3>1, <3>2
  <2>3. QED
    BY <2>1, <2>2
<1>3. \A d : RemovesRule(d)' <=> RemovesRule(d)
  BY <1>1, <1>2 DEF RemovesRule
<1>4. \A n \in ChannelNames \ unsettled : Corresponds(n)'
  BY <1>1, <1>3 DEF Orderly, Corresponds, Notified, Stored
<1>5. \A k \in Handlers : ChannelBusy(k)' => k = h
  BY <1>1, <1>2 DEF Orderly, ChannelBusy
<1>6. ChannelBusy(h)' => UpToDate(h)'
  BY <1>1, <1>2 DEF Orderly, UpToDate, ChannelBusy
<1>7. QED
  BY <1>1, <1>4, <1>5, <1>6 DEF Orderly

\* A channel that Grafana should notify as before.
LEMMA CorrespondsKept ==
  ASSUME NEW q, Corresponds(q), q \in receivers' <=> q \in receivers, Stored' = Stored,
         \A d \in Stored : channel[d].name = q /\ Notified(d) <=> channel'[d].name = q /\ Notified(d)'
  PROVE  Corresponds(q)'
  BY DEF Corresponds

LEMMA UpdateOrderly ==
  ASSUME HandlersInv, Orderly, NEW h \in Handlers, UpdateAlertManagerConfig(h)
  PROVE  Orderly'
<1>1. /\ handling[h].step = "post" /\ ChannelBusy(h) /\ UNCHANGED channel /\ UpToDate(h)
      /\ handling[h] \in PostHandler
  BY DEF UpdateAlertManagerConfig, ChannelBusy, HandlersInv, HandlerInv, Orderly
<1>2. PICK c \in Stored, n \in ChannelNames :
        c = handling[h].of /\ n = handling[h].row.name
  BY <1>1, WorkingType
<1>3. channel[c].name = n /\ (c \in late => n \in unsettled) /\ Stored' = Stored
  BY <1>1, <1>2 DEF UpToDate, Stored
<1>4. \A d \in Stored \ {c} : channel[d].name # n
  BY <1>3, ChannelRows
<1>5. /\ unsettled \subseteq unsettled' /\ late' \subseteq late \cup {c}
      /\ \A k \in Handlers \ {h} : handling'[k] = handling[k] /\ ~ ChannelBusy(k)
      /\ \A q : q # n => (q \in receivers' <=> q \in receivers)
  <2>1. \A q : q # n => (q \in NewConfig(h) <=> q \in receivers)
    BY <1>1, <1>2 DEF NewConfig, UpToDate
  <2>2. \A k \in Handlers \ {h} : ~ ChannelBusy(k)
    BY <1>1 DEF Orderly
  <2>3. \A k \in Handlers \ {h} : handling'[k] = handling[k]
    BY <1>1, AnsweredType, StepType DEF UpdateAlertManagerConfig
  <2>4. QED
    BY <1>2, <2>1, <2>2, <2>3 DEF UpdateAlertManagerConfig
<1>6. \/ /\ n \in receivers' /\ late' = late \cup {c} /\ handling'[h].step = "idle"
      \/ /\ handling[h].kind # "publish" /\ n \notin receivers' /\ late' = late
         /\ handling'[h].step = "write" /\ handling'[h].row = handling[h].row
         /\ handling'[h].of = c /\ handling'[h].name = handling[h].name
      \/ n \in unsettled' /\ late' = late /\ handling'[h].step = "idle"
      \/ receivers' = receivers /\ late' = late /\ handling'[h].step = "idle"
  <2>1. CASE AnswerChannel(h, "ok") /\ late' = late \cup {c} /\ receivers' = NewConfig(h) /\ handling[h].kind = "publish"
    BY <1>2, <2>1, AnsweredType DEF NewConfig
  <2>2. CASE Step(h, "write") /\ late' = late /\ receivers' = NewConfig(h) /\ handling[h].kind # "publish"
    BY <1>1, <1>2, <2>2, StepType DEF NewConfig
  <2>3. CASE AnswerChannel(h, "error") /\ late' = late /\ (n \in unsettled' \/ receivers' = receivers)
    BY <2>3, AnsweredType
  <2>4. QED
    BY <1>2, <2>1, <2>2, <2>3 DEF UpdateAlertManagerConfig
<1>7. \A d \in Stored \ {c} : Notified(d)' <=> Notified(d)
  <2>1. \A d \in Stored \ {c} : ~ RemovesRule(d) /\ ~ RemovesRule(d)'
    BY <1>1, <1>5, <1>6 DEF RemovesRule, ChannelBusy
  <2>2. QED
    BY <1>1, <1>5, <1>6, <2>1 DEF Notified
<1>8. ASSUME NEW q \in ChannelNames \ unsettled' PROVE Corresponds(q)'
  <2>1. Corresponds(q)
    BY <1>5, <1>8 DEF Orderly
  <2>2. CASE q # n
    BY <1>1, <1>3, <1>5, <1>7, <2>1, <2>2, CorrespondsKept
  <2>3. CASE q = n
    <3>1. CASE n \in receivers' /\ late' = late \cup {c}
      BY <1>1, <1>3, <2>3, <3>1 DEF Corresponds, Notified
    <3>2. CASE n \notin receivers' /\ late' = late /\ handling'[h].step = "write" /\ handling'[h].of = c
      BY <1>1, <1>3, <1>4, <1>5, <1>8, <2>3, <3>2 DEF Corresponds, Notified, RemovesRule
    <3>3. CASE receivers' = receivers /\ late' = late /\ handling'[h].step = "idle"
      <4>1. \A d : ~ RemovesRule(d) /\ ~ RemovesRule(d)'
        BY <1>1, <1>5, <3>3 DEF RemovesRule, ChannelBusy
      <4>2. \A d : Notified(d)' <=> Notified(d)
        BY <1>1, <3>3, <4>1 DEF Notified
      <4>3. QED
        BY <1>1, <1>3, <2>1, <3>3, <4>2, CorrespondsKept
    <3>4. QED
      BY <1>6, <1>8, <2>3, <3>1, <3>2, <3>3
  <2>4. QED
    BY <2>2, <2>3
<1>9. \A k \in Handlers : ChannelBusy(k)' => k = h
  BY <1>5 DEF ChannelBusy
<1>10. ChannelBusy(h)' => UpToDate(h)'
  BY <1>1, <1>2, <1>5, <1>6 DEF UpToDate, ChannelBusy
<1>11. QED
  BY <1>8, <1>9, <1>10 DEF Orderly

LEMMA WriteOrderly ==
  ASSUME HandlersInv, Orderly, NEW h \in Handlers, WriteRow(h)
  PROVE  Orderly' /\ (handling'[h].answer = "ok" =>
             channel'[handling[h].of].name = handling[h].name)
<1>1. /\ handling[h].step = "write" /\ ChannelBusy(h) /\ UNCHANGED <<receivers, late>> /\ UpToDate(h) /\ HandlerInv(h)
  BY DEF WriteRow, ChannelBusy, HandlersInv, Orderly
<1>2. PICK c \in Stored, n \in ChannelNames, m \in ChannelNames :
        c = handling[h].of /\ n = handling[h].row.name /\ m = handling[h].name
  BY <1>1, WorkingType
<1>3. /\ channel[c].name = n /\ (c \in late => n \in unsettled /\ m \in unsettled)
      /\ handling[h].kind # "update" => m = n
      /\ channel[c] \in ChannelRow /\ c \in Channels
  BY <1>1, <1>2, ChannelRows DEF UpToDate, HandlerInv
<1>4. /\ \A k \in Handlers \ {h} : handling'[k] = handling[k] /\ ~ ChannelBusy(k)
      /\ handling'[h].step = "idle" /\ handling'[h].answer \in {"ok", "error"}
  BY <1>1, AnsweredType DEF Orderly, WriteRow
<1>5. RemovesRule(c) /\ \A d : (d # c => ~ RemovesRule(d)) /\ ~ RemovesRule(d)'
  BY <1>1, <1>2, <1>4 DEF RemovesRule, ChannelBusy
<1>6. \A k \in Handlers : ~ ChannelBusy(k)'
  BY <1>4 DEF ChannelBusy
<1>7. CASE AnswerChannel(h, "error") /\ UNCHANGED channel
  <2>1. unsettled \cup {n, m} \subseteq unsettled' /\ Stored' = Stored
    BY <1>2, <1>7, AnsweredType DEF WriteRow, Stored
  <2>2. ASSUME NEW q \in ChannelNames \ unsettled' PROVE Corresponds(q)'
    <3>1. \A d \in Stored : channel[d].name = q => d # c
      BY <1>3, <2>1, <2>2
    <3>2. \A d \in Stored \ {c} : Notified(d)' <=> Notified(d)
      BY <1>1, <1>5, <1>7 DEF Notified
    <3>3. QED
      BY <1>1, <1>7, <2>1, <2>2, <3>1, <3>2, CorrespondsKept DEF Orderly
  <2>3. handling'[h].answer = "error"
    BY <1>7, AnsweredType
  <2>4. QED
    BY <1>6, <2>2, <2>3 DEF Orderly
<1>8. CASE ~ (AnswerChannel(h, "error") /\ UNCHANGED channel)
  <2>1. /\ NameFree(c, m) /\ unsettled' = unsettled
        /\ channel' = [channel EXCEPT ![c] = IF handling[h].kind = "update"
                          THEN [status |-> "draft", name |-> m] ELSE [channel[c] EXCEPT !.status = "retired"]]
    BY <1>2, <1>8 DEF WriteRow
  <2>2. PICK x : x = IF handling[h].kind = "update" THEN [status |-> "draft", name |-> m]
                     ELSE [channel[c] EXCEPT !.status = "retired"]
    OBVIOUS
  <2>3. x.status \in {"draft", "retired"} /\ x.name = m
    BY <1>3, <2>2 DEF ChannelRow
  <2>4. channel'[c] = x /\ \A d \in Channels \ {c} : channel'[d] = channel[d]
    BY <1>3, <2>1, <2>2, ChannelRows
  <2>5. Stored' = Stored
    BY <1>3, <2>3, <2>4 DEF Stored
  <2>6. ASSUME NEW q \in ChannelNames \ unsettled PROVE Corresponds(q)'
    <3>1. ~ (channel[c].name = q /\ Notified(c)) /\ ~ (channel'[c].name = q /\ Notified(c)')
      BY <1>1, <1>3, <1>5, <2>3, <2>4, <2>6 DEF Notified
    <3>2. \A d \in Stored \ {c} : channel'[d] = channel[d] /\ (Notified(d)' <=> Notified(d))
      BY <1>1, <1>5, <2>4, ChannelRows DEF Notified
    <3>3. QED
      BY <1>1, <2>5, <2>6, <3>1, <3>2, CorrespondsKept DEF Orderly
  <2>7. QED
    BY <1>2, <1>6, <2>1, <2>3, <2>4, <2>6 DEF Orderly
<1>9. QED
  BY <1>7, <1>8

LEMMA LateOrderly ==
  ASSUME HandlersInv, Orderly, NEW c \in Channels, WriteLate(c)
  PROVE  Orderly'
<1>1. c \in late /\ late' = late \ {c} /\ UNCHANGED <<receivers, handling>> /\ c \in Stored
  BY ChannelRows DEF WriteLate
<1>2. PICK n : n = channel[c].name
  OBVIOUS
<1>3. \A d \in Channels : channel'[d].name = channel[d].name /\ (d # c => channel'[d] = channel[d])
  <2>1. CASE channel' = channel
    BY <2>1
  <2>2. CASE channel' = [channel EXCEPT ![c] = [channel[c] EXCEPT !.status = "live"]]
    <3>1. [channel[c] EXCEPT !.status = "live"].name = channel[c].name
      BY ChannelRows DEF ChannelRow
    <3>2. QED
      BY <2>2, <3>1, ChannelRows
  <2>3. QED
    BY <2>1, <2>2 DEF WriteLate
<1>4. \A d : RemovesRule(d)' <=> RemovesRule(d)
  BY <1>1 DEF RemovesRule
<1>5. unsettled \subseteq unsettled'
      /\ (channel'[c].status = "live" \/ n \in unsettled')
  <2>1. [channel[c] EXCEPT !.status = "live"].status = "live"
    BY ChannelRows DEF ChannelRow
  <2>2. QED
    BY <1>2, <2>1, ChannelRows DEF WriteLate
<1>6. RemovesRule(c) => n \in unsettled
  <2>1. ASSUME NEW h \in Handlers, handling[h].step = "write", handling[h].of = c
        PROVE  n \in unsettled
    BY <1>1, <1>2, <2>1 DEF Orderly, UpToDate, ChannelBusy
  <2>2. QED
    BY <2>1 DEF RemovesRule
<1>7. Stored' = Stored
  <2>1. channel'[c].status # "none"
    <3>1. [channel[c] EXCEPT !.status = "live"].status = "live" /\ channel[c].status # "none"
      BY <1>1, ChannelRows DEF ChannelRow
    <3>2. QED
      BY <3>1, ChannelRows DEF WriteLate
  <2>2. QED
    BY <1>1, <1>3, <2>1 DEF Stored
<1>8. ASSUME NEW q \in ChannelNames \ unsettled' PROVE Corresponds(q)'
  <2>1. \A d \in Stored \ {c} : Notified(d)' <=> Notified(d)
    BY <1>1, <1>3, <1>4, ChannelRows DEF Notified
  <2>2. q = n => Notified(c) /\ Notified(c)'
    BY <1>1, <1>4, <1>5, <1>6, <1>8 DEF Notified
  <2>3. QED
    BY <1>1, <1>2, <1>3, <1>5, <1>7, <1>8, <2>1, <2>2, ChannelRows, CorrespondsKept DEF Orderly
<1>9. ASSUME NEW k \in Handlers, ChannelBusy(k) PROVE UpToDate(k)'
  <2>1. handling[k].of \in Channels
    BY <1>9, WorkingType
  <2>2. QED
    BY <1>1, <1>3, <1>5, <1>9, <2>1 DEF Orderly, UpToDate
<1>10. QED
  BY <1>1, <1>8, <1>9 DEF Orderly, ChannelBusy

LEMMA RestartOrderly ==
  ASSUME HandlersInv, Orderly, RestartApi
  PROVE  Orderly'
<1>1. /\ handling' = [h \in Handlers |-> NoJob] /\ late' = {} /\ UNCHANGED <<channel, receivers>>
      /\ unsettled' = unsettled \cup { channel[c].name : c \in late }
                        \cup UNION { {handling[h].row.name, handling[h].name} :
                                     h \in { k \in Handlers : handling[k].step # "idle" } }
  BY DEF RestartApi
<1>2. \A h \in Handlers : ~ ChannelBusy(h)'
  BY <1>1 DEF ChannelBusy, NoJob
<1>3. \A d : ~ RemovesRule(d)'
  BY <1>1 DEF RemovesRule, NoJob
<1>4. \A h \in Handlers : ChannelBusy(h) => handling[h].row.name \in unsettled'
  BY <1>1 DEF ChannelBusy
<1>5. \A d \in Stored : d \in late \/ RemovesRule(d) => channel[d].name \in unsettled'
  BY <1>1, <1>4 DEF RemovesRule, Orderly, UpToDate, ChannelBusy
<1>6. Stored' = Stored
  BY <1>1 DEF Stored
<1>7. ASSUME NEW q \in ChannelNames \ unsettled' PROVE Corresponds(q)'
  <2>1. \A d \in Stored : channel[d].name = q => (Notified(d)' <=> Notified(d))
    BY <1>1, <1>3, <1>5, <1>7 DEF Notified
  <2>2. QED
    BY <1>1, <1>6, <1>7, <2>1, CorrespondsKept DEF Orderly
<1>8. QED
  BY <1>2, <1>7 DEF Orderly

LEMMA OrderlyStep == HandlersInv /\ HandlersInv' /\ (Shaken \/ Orderly) /\ [ChannelNext]_channelVars => (Shaken \/ Orderly)'
<1> SUFFICES ASSUME HandlersInv, HandlersInv', Shaken \/ Orderly, [ChannelNext]_channelVars
             PROVE  (Shaken \/ Orderly)'
  OBVIOUS
<1>1. CASE UNCHANGED channelVars
  BY <1>1 DEF channelVars, Shaken, Orderly, UpToDate, Corresponds, Notified, RemovesRule, ChannelBusy, Stored
<1>2. CASE ChannelNext /\ Shaken
  BY <1>2, ShakenStays
<1>3. CASE ChannelNext /\ Orderly
  BY <1>3, CreateOrderly, BeginOrderly, GetOrderly, UpdateOrderly, WriteOrderly, LateOrderly, RestartOrderly
     DEF ChannelNext, ChannelKinds
<1>4. QED
  BY <1>1, <1>2, <1>3

LEMMA OrderlyInit == OwnNames /\ ChannelInit => ForeignInv /\ Orderly
  BY DEF OwnNames, ChannelInit, ForeignInv, ForeignKept, Orderly, Corresponds, ChannelBusy, NoJob, Stored

LEMMA OrderlyInvariant ==
  ASSUME OwnNames
  PROVE  ChannelSpec => [](HandlersInv /\ ForeignInv /\ (Shaken \/ Orderly))
<1>1. ChannelInit => ForeignInv /\ Orderly
  BY OrderlyInit
<1>2. HandlersInv /\ ForeignInv /\ [ChannelNext]_channelVars => ForeignInv'
  BY ForeignStep
<1>3. QED
  BY <1>1, <1>2, OrderlyStep, HandlersInvariant, PTL DEF ChannelSpec

\* Between requests, a channel is live if and only if Grafana notifies it under its name,
\* unless its requests overlapped with others, failed after Grafana had taken the configuration
\* or overtook the row of a publication; and no receiver of others is ever lost.
THEOREM ChannelsNotified ==
  ASSUME OwnNames
  PROVE  ChannelSpec => []GrafanaAgrees
<1>1. ASSUME HandlersInv, ForeignInv, Shaken \/ Orderly PROVE GrafanaAgrees
  <2>1. ASSUME Undisturbed, late = {}, NEW c \in Stored, channel[c].name \notin unsettled
        PROVE  channel[c].status = "live" <=> channel[c].name \in receivers
    <3>1. channel[c].name \in ChannelNames
      BY ChannelRows, <1>1 DEF ChannelRow
    <3>2. Corresponds(channel[c].name)
      BY <1>1, <2>1, <3>1 DEF Shaken, Orderly
    <3>3. \A d : Notified(d) <=> channel[d].status = "live"
      BY <2>1 DEF Notified, RemovesRule, Undisturbed
    <3>4. \A d \in Stored : channel[d].name = channel[c].name => d = c
      BY <1>1, ChannelRows
    <3>5. QED
      BY <3>2, <3>3, <3>4 DEF Corresponds
  <2>2. QED
    BY <1>1, <2>1 DEF GrafanaAgrees, ChannelsAgree, ForeignInv
<1>2. QED
  BY <1>1, OrderlyInvariant, PTL

\* A retirement that is answered with success leaves no receiver of the channel in Grafana,
\* whatever went wrong before, if no other request was in progress.
THEOREM RetirementsCleanUp ==
  ASSUME OwnNames
  PROVE  ChannelSpec => RetirementCleansUp
<1> DEFINE Clean == \A h \in Handlers :
        handling[h].step = "write" /\ handling[h].kind = "retire" /\ handling'[h].answer = "ok" /\ unsettled # ChannelNames =>
            channel'[handling[h].of].status = "retired" /\ channel'[handling[h].of].name \notin receivers'
<1>1. ASSUME HandlersInv, Shaken \/ Orderly, [ChannelNext]_channelVars PROVE Clean
  <2> SUFFICES ASSUME NEW h \in Handlers, handling[h].step = "write", handling[h].kind = "retire",
                      handling'[h].answer = "ok", Orderly
               PROVE  /\ channel'[handling[h].of].status = "retired"
                      /\ channel'[handling[h].of].name \notin receivers'
    BY <1>1 DEF Shaken
  <2>1. /\ ChannelBusy(h) /\ UpToDate(h) /\ handling[h].answer = "none" /\ HandlerInv(h)
        /\ handling[h].row.name \notin receivers /\ handling[h].name = handling[h].row.name
        /\ handling[h].of \in Stored
    BY <1>1, WorkingType DEF ChannelBusy, Orderly, UpToDate, HandlersInv, HandlerInv
  <2>2. WriteRow(h)
    <3>1. \A k \in Handlers : k # h => ~ ChannelBusy(k)
      BY <2>1 DEF Orderly
    <3>2. handling'[h] # handling[h]
      BY <2>1
    <3>3. ~ RestartApi
      BY DEF RestartApi, NoJob
    <3>4. ASSUME NEW k \in Handlers, NEW kind, NEW c, BeginChannel(k, kind, c) PROVE FALSE
      BY <1>1, <2>1, <3>2, <3>4 DEF BeginChannel, HandlersInv, ChannelBusy
    <3>5. ASSUME NEW k \in Handlers, GetAlertManagerConfig(k) \/ UpdateAlertManagerConfig(k) PROVE FALSE
      BY <3>1, <3>5 DEF GetAlertManagerConfig, UpdateAlertManagerConfig, ChannelBusy
    <3>6. ASSUME NEW k \in Handlers, WriteRow(k) PROVE k = h
      BY <3>1, <3>6 DEF WriteRow, ChannelBusy
    <3>7. QED
      BY <1>1, <3>2, <3>3, <3>4, <3>5, <3>6 DEF ChannelNext, channelVars, CreateChannel, WriteLate
  <2>3. channel'[handling[h].of].name = handling[h].name /\ receivers' = receivers
    BY <1>1, <2>2, WriteOrderly DEF WriteRow
  <2>4. channel'[handling[h].of].status = "retired"
    <3>1. AnswerChannel(h, "ok")
      BY <1>1, <2>2, AnsweredType DEF WriteRow
    <3>2. ~ AnswerChannel(h, "error")
      BY <1>1, AnsweredType
    <3>3. channel' = [channel EXCEPT ![handling[h].of] = [channel[handling[h].of] EXCEPT !.status = "retired"]]
      BY <2>2, <3>2 DEF WriteRow
    <3>4. channel[handling[h].of] \in ChannelRow /\ handling[h].of \in Channels
      BY <1>1, <2>1, ChannelRows
    <3>5. [channel[handling[h].of] EXCEPT !.status = "retired"].status = "retired"
      BY <3>4 DEF ChannelRow
    <3>6. QED
      BY <1>1, <3>3, <3>4, <3>5, ChannelRows
  <2>5. QED
    BY <2>1, <2>3, <2>4
<1>2. ASSUME HandlersInv, Shaken \/ Orderly, [ChannelNext]_channelVars PROVE [Clean]_channelVars
  BY <1>1, <1>2
<1>3. QED
  BY <1>2, OrderlyInvariant, PTL DEF ChannelSpec, RetirementCleansUp

-----------------------------------------------------------------------------
(* The handlers of alerts. *)

\* Groups are finite, which tells whether a rule is the only one of its group.
FiniteNames == {S \in SUBSET Names : IsFiniteSet(S)}

RulesType ==
    /\ TypeOK
    /\ rules \in [Categories -> FiniteNames]
    /\ seen \in [Requests -> [Categories -> FiniteNames]]
    /\ \A r \in Requests : \A c \in Categories : \A n \in seen[r][c] : Category[n] = c
    /\ todo \subseteq System /\ cur \in Alerts

DropSteps   == {"drop_read", "drop_post", "drop_group", "drop_folder", "drop_status"}
RuleSteps   == {"rule_read", "rule_folder", "rule_create", "rule_post", "rule_status"}
SystemSteps == {"system_read", "system_next", "system_folder"}

Active(r)  == pc[r] # "idle"
OnAlert(r) == Active(r) /\ op[r] # "delete_system"

StepInv(r) ==
    /\ pc[r] \in DropSteps => op[r] \in {"publish", "update", "retire", "delete"}
    /\ pc[r] = "update_write" => op[r] = "update"
    /\ pc[r] \in RuleSteps => op[r] = "publish"
    /\ pc[r] \in SystemSteps <=> op[r] = "delete_system"
    /\ pc[r] = "idle" => op[r] = "none"

\* A handler is alone in its category: what it has read of the row and of the group is so
\* until it writes them.
AlertInv(r) ==
    /\ cat[r] = Home(al[r]) /\ InTable(al[r])
    /\ pc[r] \in {"drop_read", "drop_post", "drop_group", "drop_folder"} => status[al[r]] = "live"
    /\ pc[r] \in RuleSteps \cup {"update_write"} => status[al[r]] # "live"
    /\ pc[r] \in {"drop_post", "rule_folder", "rule_create", "rule_post"} => seen[r][cat[r]] = rules[cat[r]]
    /\ pc[r] \in {"rule_folder", "rule_create"} => rules[cat[r]] = {}
    /\ pc[r] = "drop_group" => \E x : rules[cat[r]] = {x}
    /\ pc[r] = "rule_status" => Name[al[r]] \in rules[cat[r]]

\* The groups that the deletion of the system rules has not come to are as it has read them.
ClearInv(r) ==
    /\ pc[r] \in {"system_next", "system_folder"} =>
          \A c \in left[r] : seen[r][c] = rules[c] /\ rules[c] # {}
    /\ pc[r] = "system_folder" => rules[cat[r]] = {} /\ cat[r] \notin left[r]

HandlerOk(r) == StepInv(r) /\ (OnAlert(r) => AlertInv(r)) /\ ClearInv(r)

Apart(r, q) == op[r] # "delete_system" /\ op[q] # "delete_system" /\ Home(al[r]) # Home(al[q])

UniqueNames == \A a, b \in Alerts : InTable(a) /\ InTable(b) /\ Name[a] = Name[b] => a = b

RulesInv ==
    /\ RulesType
    /\ UniqueNames
    /\ \A r \in Requests : HandlerOk(r)
    /\ \A r, q \in Requests : r # q /\ Active(r) /\ Active(q) => Apart(r, q)

LEMMA HomeType ==
  ASSUME NEW a \in Alerts
  PROVE  Name[a] \in Names /\ Home(a) \in Categories
  BY DEF Names, Categories, Home

LEMMA AnyAlertType == AnyAlert \in Alerts
  BY SystemAssumption DEF AnyAlert

\* The types as the proofs use them.
LEMMA RulesFacts ==
  ASSUME RulesType
  PROVE  /\ status \in [Alerts -> {"none", "draft", "live", "retired", "gone"}]
         /\ rules \in [Categories -> FiniteNames] /\ folder \subseteq Categories
         /\ pc \in [Requests -> Pcs] /\ op \in [Requests -> Kinds \cup {"none"}]
         /\ al \in [Requests -> Alerts] /\ cat \in [Requests -> Categories]
         /\ seen \in [Requests -> [Categories -> FiniteNames]]
         /\ left \in [Requests -> SUBSET Categories]
         /\ answer \in [Requests -> {"none", "ok", "error"}]
         /\ \A c \in Categories : \A n \in rules[c] : c = Category[n] /\ c \in folder
         /\ \A r \in Requests : \A c \in Categories : \A n \in seen[r][c] : Category[n] = c
         /\ \A S : S \in FiniteNames => S \subseteq Names /\ IsFiniteSet(S)
         /\ todo \subseteq System /\ cur \in Alerts
  BY DEF RulesType, TypeOK, FiniteNames

LEMMA RulesTypeInit == JobInit => RulesInv
<1> SUFFICES ASSUME JobInit PROVE RulesInv
  OBVIOUS
<1>1. IsFiniteSet({}) /\ {} \in FiniteNames
  BY FS_EmptySet DEF FiniteNames
<1>2. AnyAlert \in Alerts /\ Home(AnyAlert) \in Categories
  BY AnyAlertType, HomeType
<1>3. TypeOK
  BY <1>1, <1>2 DEF JobInit, Init, TypeOK, NoGroups, Pcs, Kinds
<1>4. RulesType
  BY <1>1, <1>2, <1>3 DEF JobInit, Init, RulesType, NoGroups
<1>5. QED
  BY <1>4 DEF JobInit, Init, RulesInv, UniqueNames, InTable, HandlerOk, StepInv, OnAlert, Active, ClearInv,
     DropSteps, RuleSteps, SystemSteps

\* The empty group, a group without some rules, and one with another rule.
LEMMA GroupTypes ==
  /\ {} \in FiniteNames
  /\ \A S \in FiniteNames : \A T : S \ T \in FiniteNames
  /\ \A S \in FiniteNames : \A n \in Names : S \cup {n} \in FiniteNames
<1>1. ASSUME NEW S \in FiniteNames, NEW T PROVE S \ T \in FiniteNames
  <2>1. IsFiniteSet(S) /\ S \subseteq Names
    BY DEF FiniteNames
  <2>2. IsFiniteSet(S \ T)
    BY <2>1, FS_Subset
  <2>3. QED
    BY <2>1, <2>2 DEF FiniteNames
<1>2. ASSUME NEW S \in FiniteNames, NEW n \in Names PROVE S \cup {n} \in FiniteNames
  <2>1. IsFiniteSet(S) /\ S \subseteq Names
    BY DEF FiniteNames
  <2>2. IsFiniteSet(S \cup {n})
    BY <2>1, FS_AddElement
  <2>3. QED
    BY <2>1, <2>2 DEF FiniteNames
<1>3. {} \in FiniteNames
  BY FS_EmptySet DEF FiniteNames
<1>4. QED
  BY <1>1, <1>2, <1>3

LEMMA OnlyRule ==
  ASSUME NEW S \in FiniteNames, S # {}, ~ (Cardinality(S) > 1)
  PROVE  \E x : S = {x}
<1>1. IsFiniteSet(S) /\ Cardinality(S) \in Nat
  BY FS_CardinalityType DEF FiniteNames
<1>2. Cardinality(S) # 0
  BY <1>1, FS_EmptySet
<1>3. Cardinality(S) = 1
  BY <1>1, <1>2
<1>4. QED
  BY <1>1, <1>3, FS_Singleton

\* The call a handler makes next.
LEMMA GotoEffect ==
  ASSUME RulesType, NEW r \in Requests, NEW next \in Pcs, Goto(r, next)
  PROVE  /\ pc' \in [Requests -> Pcs] /\ pc'[r] = next
         /\ \A q \in Requests \ {r} : pc'[q] = pc[q]
         /\ UNCHANGED <<op, al, cat, left, answer>>
  BY RulesFacts DEF Goto, request

\* The handler has answered.
LEMMA DoneEffect ==
  ASSUME RulesType, NEW r \in Requests, NEW result \in {"ok", "error"}, Done(r, result)
  PROVE  /\ pc' \in [Requests -> Pcs] /\ op' \in [Requests -> Kinds \cup {"none"}]
         /\ al' \in [Requests -> Alerts] /\ cat' \in [Requests -> Categories]
         /\ seen' \in [Requests -> [Categories -> FiniteNames]] /\ left' \in [Requests -> SUBSET Categories]
         /\ answer' \in [Requests -> {"none", "ok", "error"}]
         /\ \A q \in Requests : \A c \in Categories : \A n \in seen'[q][c] : Category[n] = c
         /\ pc'[r] = "idle" /\ op'[r] = "none" /\ answer'[r] = result
         /\ \A q \in Requests \ {r} :
               /\ pc'[q] = pc[q] /\ op'[q] = op[q] /\ al'[q] = al[q] /\ cat'[q] = cat[q]
               /\ seen'[q] = seen[q] /\ left'[q] = left[q] /\ answer'[q] = answer[q]
<1>1. AnyAlert \in Alerts /\ Home(AnyAlert) \in Categories
  BY AnyAlertType, HomeType
<1>2. NoGroups \in [Categories -> FiniteNames]
  BY GroupTypes DEF NoGroups
<1>3. /\ pc' = [pc EXCEPT ![r] = "idle"] /\ op' = [op EXCEPT ![r] = "none"] /\ al' = [al EXCEPT ![r] = AnyAlert]
      /\ cat' = [cat EXCEPT ![r] = Home(AnyAlert)] /\ seen' = [seen EXCEPT ![r] = NoGroups]
      /\ left' = [left EXCEPT ![r] = {}] /\ answer' = [answer EXCEPT ![r] = result]
  BY DEF Done
<1>4. pc' \in [Requests -> Pcs] /\ pc'[r] = "idle"
  BY <1>3, RulesFacts DEF Pcs
<1>5. seen' \in [Requests -> [Categories -> FiniteNames]] /\ seen'[r] = NoGroups
  BY <1>2, <1>3, RulesFacts
<1>6. \A q \in Requests : \A c \in Categories : \A n \in seen'[q][c] : Category[n] = c
  BY <1>3, <1>5, RulesFacts DEF NoGroups
<1>7. QED
  BY <1>1, <1>3, <1>4, <1>5, <1>6, RulesFacts

\* What remains to be shown of the types after the step of a handler.
LEMMA TypeKept ==
  ASSUME RulesType, UNCHANGED faults, todo' \subseteq System, cur' \in Alerts,
         status' \in [Alerts -> {"none", "draft", "live", "retired", "gone"}],
         rules' \in [Categories -> FiniteNames], folder' \subseteq Categories,
         pc' \in [Requests -> Pcs], op' \in [Requests -> Kinds \cup {"none"}],
         al' \in [Requests -> Alerts], cat' \in [Requests -> Categories],
         seen' \in [Requests -> [Categories -> FiniteNames]], left' \in [Requests -> SUBSET Categories],
         answer' \in [Requests -> {"none", "ok", "error"}],
         \A c \in Categories : \A n \in rules'[c] : c = Category[n] /\ c \in folder',
         \A r \in Requests : \A c \in Categories : \A n \in seen'[r][c] : Category[n] = c
  PROVE  RulesType'
<1>1. rules' \in [Categories -> SUBSET Names] /\ seen' \in [Requests -> [Categories -> SUBSET Names]]
  BY DEF FiniteNames
<1>2. TypeOK'
  BY <1>1 DEF RulesType, TypeOK
<1>3. QED
  BY <1>2 DEF RulesType

\* What the step of a handler leaves alone: the other handlers, and, if it is about an alert,
\* the groups of other categories and the rows of other alerts.
Frame(r) ==
    /\ \A q \in Requests \ {r} :
          /\ pc'[q] = pc[q] /\ op'[q] = op[q] /\ al'[q] = al[q] /\ cat'[q] = cat[q]
          /\ seen'[q] = seen[q] /\ left'[q] = left[q] /\ answer'[q] = answer[q]
    /\ op[r] # "delete_system" => \A c \in Categories \ {cat[r]} : rules'[c] = rules[c] /\ (c \in folder' <=> c \in folder)
    /\ op[r] # "delete_system" => \A a \in Alerts \ {al[r]} : status'[a] = status[a]
    /\ \A a \in Alerts : InTable(a)' => InTable(a)
    /\ pc'[r] = "idle" \/ (op'[r] = op[r] /\ al'[r] = al[r])

\* The handler is about an alert, and what it knows.
LEMMA AlertFacts ==
  ASSUME RulesInv, NEW r \in Requests, pc[r] \in DropSteps \cup RuleSteps \cup {"update_write"}
  PROVE  /\ op[r] \in {"publish", "update", "retire", "delete"} /\ AlertInv(r) /\ StepInv(r)
         /\ al[r] \in Alerts /\ cat[r] = Home(al[r]) /\ cat[r] \in Categories
         /\ Name[al[r]] \in Names /\ Category[Name[al[r]]] = cat[r]
<1>1. StepInv(r) /\ (OnAlert(r) => AlertInv(r))
  BY DEF RulesInv, HandlerOk
<1>2. op[r] \in {"publish", "update", "retire", "delete"} /\ pc[r] # "idle"
  BY <1>1 DEF StepInv, DropSteps, RuleSteps
<1>3. AlertInv(r)
  BY <1>1, <1>2 DEF OnAlert, Active
<1>4. al[r] \in Alerts
  BY RulesFacts DEF RulesInv
<1>5. QED
  BY <1>1, <1>2, <1>3, <1>4, HomeType DEF AlertInv, Home

LEMMA SetStatusEffect ==
  ASSUME RulesType, NEW a \in Alerts, NEW s \in {"draft", "live", "retired", "gone"}, InTable(a), SetStatus(a, s)
  PROVE  /\ status' \in [Alerts -> {"none", "draft", "live", "retired", "gone"}]
         /\ status'[a] = s /\ \A b \in Alerts \ {a} : status'[b] = status[b]
         /\ \A b \in Alerts : InTable(b)' => InTable(b)
  BY RulesFacts DEF SetStatus, InTable

\* The answer leaves nothing to the handler.
LEMMA AnsweredOk ==
  ASSUME NEW r \in Requests, pc'[r] = "idle", op'[r] = "none"
  PROVE  HandlerOk(r)'
  BY DEF HandlerOk, StepInv, OnAlert, Active, ClearInv, DropSteps, RuleSteps, SystemSteps

LEMMA DropReadStep ==
  ASSUME RulesInv, NEW r \in Requests, DropRead(r), UNCHANGED <<faults, job>>
  PROVE  RulesType' /\ HandlerOk(r)' /\ Frame(r)
<1> USE DEF DropSteps, RuleSteps
<1>0. RulesType /\ pc[r] = "drop_read"
  BY DEF RulesInv, DropRead, At
<1>1. op[r] \in {"publish", "update", "retire", "delete"} /\ AlertInv(r) /\ al[r] \in Alerts /\ cat[r] \in Categories
  BY <1>0, AlertFacts
<1>2. UNCHANGED <<status, rules, folder, todo, cur, faults>>
  BY DEF DropRead, grafana, job
<1>3. CASE /\ rules[cat[r]] # {}
           /\ seen' = [seen EXCEPT ![r] = rules]
           /\ Goto(r, IF Cardinality(rules[cat[r]]) > 1 THEN "drop_post" ELSE "drop_group")
  <2>1. PICK next \in {"drop_post", "drop_group"} : Goto(r, next) /\ (next = "drop_group" => ~ (Cardinality(rules[cat[r]]) > 1))
    BY <1>3
  <2>2. /\ pc' \in [Requests -> Pcs] /\ pc'[r] = next
        /\ \A q \in Requests \ {r} : pc'[q] = pc[q]
        /\ UNCHANGED <<op, al, cat, left, answer>>
    BY <1>0, <2>1, GotoEffect DEF Pcs
  <2>3. /\ seen' \in [Requests -> [Categories -> FiniteNames]] /\ seen'[r] = rules
        /\ \A q \in Requests \ {r} : seen'[q] = seen[q]
        /\ \A q \in Requests : \A c \in Categories : \A n \in seen'[q][c] : Category[n] = c
    BY <1>0, <1>3, RulesFacts
  <2>4. RulesType'
    BY <1>0, <1>2, <2>2, <2>3, RulesFacts, TypeKept
  <2>5. next = "drop_group" => \E x : rules[cat[r]] = {x}
    BY <1>0, <1>1, <1>3, <2>1, OnlyRule, RulesFacts
  <2>6. HandlerOk(r)'
    BY <1>0, <1>1, <1>2, <2>2, <2>3, <2>5
       DEF HandlerOk, StepInv, OnAlert, Active, AlertInv, ClearInv, SystemSteps, InTable, Home
  <2>7. QED
    BY <1>1, <1>2, <2>2, <2>3, <2>4, <2>6 DEF Frame, InTable
<1>4. CASE Goto(r, "drop_status") /\ UNCHANGED seen
  <2>2. /\ pc' \in [Requests -> Pcs] /\ pc'[r] = "drop_status"
        /\ \A q \in Requests \ {r} : pc'[q] = pc[q]
        /\ UNCHANGED <<op, al, cat, left, answer, seen>>
    BY <1>0, <1>4, GotoEffect DEF Pcs
  <2>4. RulesType'
    BY <1>0, <1>2, <2>2, RulesFacts, TypeKept
  <2>6. HandlerOk(r)'
    BY <1>0, <1>1, <1>2, <2>2
       DEF HandlerOk, StepInv, OnAlert, Active, AlertInv, ClearInv, SystemSteps, InTable, Home
  <2>7. QED
    BY <1>1, <1>2, <2>2, <2>4, <2>6 DEF Frame, InTable
<1>5. QED
  BY <1>3, <1>4 DEF DropRead


\* The group of a category is replaced by one of rules of that category.
LEMMA GroupReplaced ==
  ASSUME RulesType, NEW c \in Categories, NEW group \in FiniteNames,
         \A n \in group : Category[n] = c, c \in folder \/ group = {},
         rules' = [rules EXCEPT ![c] = group], UNCHANGED folder
  PROVE  /\ rules' \in [Categories -> FiniteNames] /\ folder' \subseteq Categories
         /\ rules'[c] = group /\ \A d \in Categories \ {c} : rules'[d] = rules[d]
         /\ \A d \in Categories : \A n \in rules'[d] : d = Category[n] /\ d \in folder'
  BY RulesFacts

LEMMA DropPostStep ==
  ASSUME RulesInv, NEW r \in Requests, DropPost(r), UNCHANGED <<faults, job>>
  PROVE  RulesType' /\ HandlerOk(r)' /\ Frame(r)
<1> USE DEF DropSteps, RuleSteps
<1>0. RulesType /\ pc[r] = "drop_post"
  BY DEF RulesInv, DropPost, At
<1>1. op[r] \in {"publish", "update", "retire", "delete"} /\ AlertInv(r) /\ al[r] \in Alerts /\ cat[r] \in Categories
  BY <1>0, AlertFacts
<1>2. UNCHANGED <<status, seen, todo, cur, faults>>
  BY DEF DropPost, job
<1>3. /\ pc' \in [Requests -> Pcs] /\ pc'[r] = "drop_status"
      /\ \A q \in Requests \ {r} : pc'[q] = pc[q]
      /\ UNCHANGED <<op, al, cat, left, answer>>
  BY <1>0, GotoEffect DEF Pcs, DropPost
<1>4. PICK group : group = seen[r][cat[r]] \ {Name[al[r]]}
  OBVIOUS
<1>5. group \in FiniteNames /\ \A n \in group : Category[n] = cat[r]
  <2>1. seen[r][cat[r]] \in FiniteNames /\ \A n \in seen[r][cat[r]] : Category[n] = cat[r]
    BY <1>0, <1>1, RulesFacts
  <2>2. QED
    BY <1>4, <2>1, GroupTypes
<1>6. /\ rules' \in [Categories -> FiniteNames] /\ folder' \subseteq Categories
      /\ UNCHANGED folder /\ \A d \in Categories \ {cat[r]} : rules'[d] = rules[d]
      /\ \A d \in Categories : \A n \in rules'[d] : d = Category[n] /\ d \in folder'
  <2>1. CASE Post(cat[r], group)
    BY <1>0, <1>1, <1>5, <2>1, GroupReplaced DEF Post
  <2>2. CASE Refused(cat[r])
    BY <1>0, <2>2, RulesFacts DEF Refused, grafana
  <2>3. QED
    BY <1>4, <2>1, <2>2 DEF DropPost
<1>7. RulesType'
  BY <1>0, <1>2, <1>3, <1>6, RulesFacts, TypeKept
<1>8. HandlerOk(r)'
  BY <1>0, <1>1, <1>2, <1>3
     DEF HandlerOk, StepInv, OnAlert, Active, AlertInv, ClearInv, SystemSteps, InTable, Home
<1>9. QED
  BY <1>1, <1>2, <1>3, <1>6, <1>7, <1>8 DEF Frame, InTable

LEMMA DropGroupStep ==
  ASSUME RulesInv, NEW r \in Requests, DropGroup(r), UNCHANGED <<faults, job>>
  PROVE  RulesType' /\ HandlerOk(r)' /\ Frame(r)
<1> USE DEF DropSteps, RuleSteps
<1>0. RulesType /\ pc[r] = "drop_group"
  BY DEF RulesInv, DropGroup, At
<1>1. op[r] \in {"publish", "update", "retire", "delete"} /\ AlertInv(r) /\ al[r] \in Alerts /\ cat[r] \in Categories
  BY <1>0, AlertFacts
<1>2. UNCHANGED <<status, folder, seen, todo, cur, faults>>
  BY DEF DropGroup, job
<1>3. PICK next \in {"drop_folder", "drop_status"} : Goto(r, next)
  BY DEF DropGroup
<1>4. /\ pc' \in [Requests -> Pcs] /\ pc'[r] = next
      /\ \A q \in Requests \ {r} : pc'[q] = pc[q]
      /\ UNCHANGED <<op, al, cat, left, answer>>
  BY <1>0, <1>3, GotoEffect DEF Pcs
<1>6. /\ rules' \in [Categories -> FiniteNames] /\ folder' \subseteq Categories
      /\ \A d \in Categories \ {cat[r]} : rules'[d] = rules[d]
      /\ \A d \in Categories : \A n \in rules'[d] : d = Category[n] /\ d \in folder'
  <2>1. CASE rules' = [rules EXCEPT ![cat[r]] = {}]
    BY <1>0, <1>1, <1>2, <2>1, GroupReplaced, GroupTypes
  <2>2. CASE UNCHANGED rules
    BY <1>0, <1>2, <2>2, RulesFacts
  <2>3. QED
    BY <2>1, <2>2 DEF DropGroup
<1>7. RulesType'
  BY <1>0, <1>2, <1>4, <1>6, RulesFacts, TypeKept
<1>8. HandlerOk(r)'
  BY <1>0, <1>1, <1>2, <1>4
     DEF HandlerOk, StepInv, OnAlert, Active, AlertInv, ClearInv, SystemSteps, InTable, Home
<1>9. QED
  BY <1>1, <1>2, <1>4, <1>6, <1>7, <1>8 DEF Frame, InTable

LEMMA DropFolderStep ==
  ASSUME RulesInv, NEW r \in Requests, DropFolder(r), UNCHANGED <<faults, job>>
  PROVE  RulesType' /\ HandlerOk(r)' /\ Frame(r)
<1> USE DEF DropSteps, RuleSteps
<1>0. RulesType /\ pc[r] = "drop_folder"
  BY DEF RulesInv, DropFolder, At
<1>1. op[r] \in {"publish", "update", "retire", "delete"} /\ AlertInv(r) /\ al[r] \in Alerts /\ cat[r] \in Categories
  BY <1>0, AlertFacts
<1>2. UNCHANGED <<status, rules, seen, todo, cur, faults>>
  BY DEF DropFolder, job
<1>4. /\ pc' \in [Requests -> Pcs] /\ pc'[r] = "drop_status"
      /\ \A q \in Requests \ {r} : pc'[q] = pc[q]
      /\ UNCHANGED <<op, al, cat, left, answer>>
  BY <1>0, GotoEffect DEF Pcs, DropFolder
<1>6. /\ folder' \subseteq Categories
      /\ \A d \in Categories \ {cat[r]} : d \in folder' <=> d \in folder
      /\ \A d \in Categories : \A n \in rules'[d] : d = Category[n] /\ d \in folder'
  BY <1>0, <1>1, <1>2, RulesFacts DEF DropFolder, DeleteFolder
<1>7. RulesType'
  BY <1>0, <1>2, <1>4, <1>6, RulesFacts, TypeKept
<1>8. HandlerOk(r)'
  BY <1>0, <1>1, <1>2, <1>4
     DEF HandlerOk, StepInv, OnAlert, Active, AlertInv, ClearInv, SystemSteps, InTable, Home
<1>9. QED
  BY <1>1, <1>2, <1>4, <1>6, <1>7, <1>8 DEF Frame, InTable

LEMMA DropStatusStep ==
  ASSUME RulesInv, NEW r \in Requests, DropStatus(r), UNCHANGED <<faults, job>>
  PROVE  RulesType' /\ HandlerOk(r)' /\ Frame(r)
<1> USE DEF DropSteps, RuleSteps
<1>0. RulesType /\ pc[r] = "drop_status"
  BY DEF RulesInv, DropStatus, At
<1>1. op[r] \in {"publish", "update", "retire", "delete"} /\ AlertInv(r) /\ al[r] \in Alerts /\ cat[r] \in Categories
  BY <1>0, AlertFacts
<1>2. UNCHANGED <<rules, folder, todo, cur, faults>>
  BY DEF DropStatus, grafana, job
<1>3. PICK s \in {"gone", "retired"} : SetStatus(al[r], s) /\ (s = "gone" => op[r] = "delete")
  BY DEF DropStatus
<1>4. /\ status' \in [Alerts -> {"none", "draft", "live", "retired", "gone"}]
      /\ status'[al[r]] = s /\ \A b \in Alerts \ {al[r]} : status'[b] = status[b]
      /\ \A b \in Alerts : InTable(b)' => InTable(b)
  BY <1>0, <1>1, <1>3, SetStatusEffect DEF AlertInv
<1>5. CASE \/ op[r] = "publish" /\ Goto(r, "rule_read") /\ UNCHANGED seen
           \/ op[r] = "update" /\ Goto(r, "update_write") /\ UNCHANGED seen
  <2>1. PICK next \in {"rule_read", "update_write"} :
           Goto(r, next) /\ op[r] = (IF next = "rule_read" THEN "publish" ELSE "update")
    BY <1>5
  <2>2. /\ pc' \in [Requests -> Pcs] /\ pc'[r] = next
        /\ \A q \in Requests \ {r} : pc'[q] = pc[q]
        /\ UNCHANGED <<op, al, cat, left, answer, seen>>
    BY <1>0, <1>5, <2>1, GotoEffect DEF Pcs
  <2>3. RulesType'
    BY <1>0, <1>2, <1>4, <2>2, RulesFacts, TypeKept
  <2>4. status'[al[r]] = "retired"
    BY <1>3, <1>4, <2>1
  <2>5. HandlerOk(r)'
    BY <1>0, <1>1, <1>2, <2>1, <2>2, <2>4
       DEF HandlerOk, StepInv, OnAlert, Active, AlertInv, ClearInv, SystemSteps, InTable, Home
  <2>6. QED
    BY <1>2, <1>4, <2>2, <2>3, <2>5 DEF Frame
<1>6. CASE \E result \in {"ok", "error"} : Done(r, result)
  <2>1. PICK result \in {"ok", "error"} : Done(r, result)
    BY <1>6
  <2>2. RulesType' /\ HandlerOk(r)' /\ Frame(r)
    BY <1>0, <1>2, <1>4, <2>1, RulesFacts, TypeKept, DoneEffect, AnsweredOk DEF Frame
  <2>3. QED
    BY <2>2
<1>7. QED
  BY <1>1, <1>5, <1>6 DEF DropStatus

LEMMA UpdateWriteStep ==
  ASSUME RulesInv, NEW r \in Requests, UpdateWrite(r), UNCHANGED <<faults, job>>
  PROVE  RulesType' /\ HandlerOk(r)' /\ Frame(r)
<1>0. RulesType /\ pc[r] = "update_write"
  BY DEF RulesInv, UpdateWrite, At
<1>1. AlertInv(r) /\ al[r] \in Alerts
  BY <1>0, AlertFacts
<1>2. UNCHANGED <<rules, folder, todo, cur, faults>> /\ SetStatus(al[r], "draft") /\ Done(r, "ok")
  BY DEF UpdateWrite, grafana, job
<1>4. /\ status' \in [Alerts -> {"none", "draft", "live", "retired", "gone"}]
      /\ status'[al[r]] = "draft" /\ \A b \in Alerts \ {al[r]} : status'[b] = status[b]
      /\ \A b \in Alerts : InTable(b)' => InTable(b)
  BY <1>0, <1>1, <1>2, SetStatusEffect DEF AlertInv
<1>5. QED
  BY <1>0, <1>2, <1>4, RulesFacts, TypeKept, DoneEffect, AnsweredOk DEF Frame


LEMMA RuleReadStep ==
  ASSUME RulesInv, NEW r \in Requests, RuleRead(r), UNCHANGED <<faults, job>>
  PROVE  RulesType' /\ HandlerOk(r)' /\ Frame(r)
<1> USE DEF DropSteps, RuleSteps
<1>0. RulesType /\ pc[r] = "rule_read"
  BY DEF RulesInv, RuleRead, At
<1>1. op[r] = "publish" /\ AlertInv(r) /\ al[r] \in Alerts /\ cat[r] \in Categories
  BY <1>0, AlertFacts DEF StepInv
<1>2. UNCHANGED <<status, rules, folder, todo, cur, faults>>
  BY DEF RuleRead, grafana, job
<1>3. CASE /\ seen' = [seen EXCEPT ![r] = rules]
           /\ Goto(r, IF rules[cat[r]] = {} THEN "rule_folder" ELSE "rule_post")
  <2>1. PICK next \in {"rule_folder", "rule_post"} : Goto(r, next) /\ (next = "rule_folder" => rules[cat[r]] = {})
    BY <1>3
  <2>2. /\ pc' \in [Requests -> Pcs] /\ pc'[r] = next
        /\ \A q \in Requests \ {r} : pc'[q] = pc[q]
        /\ UNCHANGED <<op, al, cat, left, answer>>
    BY <1>0, <2>1, GotoEffect DEF Pcs
  <2>3. /\ seen' \in [Requests -> [Categories -> FiniteNames]] /\ seen'[r] = rules
        /\ \A q \in Requests \ {r} : seen'[q] = seen[q]
        /\ \A q \in Requests : \A c \in Categories : \A n \in seen'[q][c] : Category[n] = c
    BY <1>0, <1>3, RulesFacts
  <2>4. RulesType'
    BY <1>0, <1>2, <2>2, <2>3, RulesFacts, TypeKept
  <2>5. HandlerOk(r)'
    BY <1>0, <1>1, <1>2, <2>1, <2>2, <2>3
       DEF HandlerOk, StepInv, OnAlert, Active, AlertInv, ClearInv, SystemSteps, InTable, Home
  <2>6. QED
    BY <1>2, <2>2, <2>3, <2>4, <2>5 DEF Frame, InTable
<1>4. CASE Done(r, "error")
  BY <1>0, <1>2, <1>4, RulesFacts, TypeKept, DoneEffect, AnsweredOk DEF Frame, InTable
<1>5. QED
  BY <1>3, <1>4 DEF RuleRead

LEMMA RuleFolderStep ==
  ASSUME RulesInv, NEW r \in Requests, RuleFolder(r), UNCHANGED <<faults, job>>
  PROVE  RulesType' /\ HandlerOk(r)' /\ Frame(r)
<1> USE DEF DropSteps, RuleSteps
<1>0. RulesType /\ pc[r] = "rule_folder"
  BY DEF RulesInv, RuleFolder, At
<1>1. op[r] = "publish" /\ AlertInv(r) /\ al[r] \in Alerts /\ cat[r] \in Categories
  BY <1>0, AlertFacts DEF StepInv
<1>2. UNCHANGED <<status, rules, folder, todo, cur, faults>>
  BY DEF RuleFolder, grafana, job
<1>3. CASE Goto(r, IF cat[r] \in folder THEN "rule_post" ELSE "rule_create") /\ UNCHANGED seen
  <2>1. PICK next \in {"rule_create", "rule_post"} : Goto(r, next)
    BY <1>3
  <2>2. /\ pc' \in [Requests -> Pcs] /\ pc'[r] = next
        /\ \A q \in Requests \ {r} : pc'[q] = pc[q]
        /\ UNCHANGED <<op, al, cat, left, answer, seen>>
    BY <1>0, <1>3, <2>1, GotoEffect DEF Pcs
  <2>3. RulesType'
    BY <1>0, <1>2, <2>2, RulesFacts, TypeKept
  <2>4. HandlerOk(r)'
    BY <1>0, <1>1, <1>2, <2>1, <2>2
       DEF HandlerOk, StepInv, OnAlert, Active, AlertInv, ClearInv, SystemSteps, InTable, Home
  <2>5. QED
    BY <1>2, <2>2, <2>3, <2>4 DEF Frame, InTable
<1>4. CASE Done(r, "error")
  BY <1>0, <1>2, <1>4, RulesFacts, TypeKept, DoneEffect, AnsweredOk DEF Frame, InTable
<1>5. QED
  BY <1>3, <1>4 DEF RuleFolder

LEMMA RuleCreateStep ==
  ASSUME RulesInv, NEW r \in Requests, RuleCreate(r), UNCHANGED <<faults, job>>
  PROVE  RulesType' /\ HandlerOk(r)' /\ Frame(r)
<1> USE DEF DropSteps, RuleSteps
<1>0. RulesType /\ pc[r] = "rule_create"
  BY DEF RulesInv, RuleCreate, At
<1>1. op[r] = "publish" /\ AlertInv(r) /\ al[r] \in Alerts /\ cat[r] \in Categories
  BY <1>0, AlertFacts DEF StepInv
<1>2. UNCHANGED <<status, rules, todo, cur, faults>>
  BY DEF RuleCreate, job
<1>3. /\ folder' \subseteq Categories
      /\ \A d \in Categories \ {cat[r]} : d \in folder' <=> d \in folder
      /\ \A d \in Categories : \A n \in rules'[d] : d = Category[n] /\ d \in folder'
  BY <1>0, <1>1, <1>2, RulesFacts DEF RuleCreate
<1>4. CASE Goto(r, "rule_post") /\ UNCHANGED seen
  <2>2. /\ pc' \in [Requests -> Pcs] /\ pc'[r] = "rule_post"
        /\ \A q \in Requests \ {r} : pc'[q] = pc[q]
        /\ UNCHANGED <<op, al, cat, left, answer, seen>>
    BY <1>0, <1>4, GotoEffect DEF Pcs
  <2>3. RulesType'
    BY <1>0, <1>2, <1>3, <2>2, RulesFacts, TypeKept
  <2>4. HandlerOk(r)'
    BY <1>0, <1>1, <1>2, <2>2
       DEF HandlerOk, StepInv, OnAlert, Active, AlertInv, ClearInv, SystemSteps, InTable, Home
  <2>5. QED
    BY <1>2, <1>3, <2>2, <2>3, <2>4 DEF Frame, InTable
<1>5. CASE Done(r, "error")
  BY <1>0, <1>2, <1>3, <1>5, RulesFacts, TypeKept, DoneEffect, AnsweredOk DEF Frame, InTable
<1>6. QED
  BY <1>4, <1>5 DEF RuleCreate

LEMMA RulePostStep ==
  ASSUME RulesInv, NEW r \in Requests, RulePost(r), UNCHANGED <<faults, job>>
  PROVE  RulesType' /\ HandlerOk(r)' /\ Frame(r)
<1> USE DEF DropSteps, RuleSteps
<1>0. RulesType /\ pc[r] = "rule_post"
  BY DEF RulesInv, RulePost, At
<1>1. /\ op[r] = "publish" /\ AlertInv(r) /\ al[r] \in Alerts /\ cat[r] \in Categories
      /\ Name[al[r]] \in Names /\ Category[Name[al[r]]] = cat[r]
  BY <1>0, AlertFacts DEF StepInv
<1>2. UNCHANGED <<status, todo, cur, faults>>
  BY DEF RulePost, job
<1>3. PICK group : group = seen[r][cat[r]] \cup {Name[al[r]]}
  OBVIOUS
<1>4. group \in FiniteNames /\ \A n \in group : Category[n] = cat[r]
  <2>1. seen[r][cat[r]] \in FiniteNames /\ \A n \in seen[r][cat[r]] : Category[n] = cat[r]
    BY <1>0, <1>1, RulesFacts
  <2>2. QED
    BY <1>1, <1>3, <2>1, GroupTypes
<1>5. /\ rules' \in [Categories -> FiniteNames] /\ folder' \subseteq Categories
      /\ UNCHANGED folder /\ \A d \in Categories \ {cat[r]} : rules'[d] = rules[d]
      /\ \A d \in Categories : \A n \in rules'[d] : d = Category[n] /\ d \in folder'
  <2>1. CASE Post(cat[r], group)
    BY <1>0, <1>1, <1>4, <2>1, GroupReplaced DEF Post
  <2>2. CASE Refused(cat[r])
    BY <1>0, <2>2, RulesFacts DEF Refused, grafana
  <2>3. QED
    BY <1>3, <2>1, <2>2 DEF RulePost
<1>6. CASE Post(cat[r], group) /\ Goto(r, "rule_status") /\ UNCHANGED seen
  <2>1. Name[al[r]] \in rules'[cat[r]]
    BY <1>0, <1>1, <1>3, <1>4, <1>6, GroupReplaced DEF Post
  <2>2. /\ pc' \in [Requests -> Pcs] /\ pc'[r] = "rule_status"
        /\ \A q \in Requests \ {r} : pc'[q] = pc[q]
        /\ UNCHANGED <<op, al, cat, left, answer, seen>>
    BY <1>0, <1>6, GotoEffect DEF Pcs
  <2>3. RulesType'
    BY <1>0, <1>2, <1>5, <2>2, RulesFacts, TypeKept
  <2>4. HandlerOk(r)'
    BY <1>0, <1>1, <1>2, <2>1, <2>2
       DEF HandlerOk, StepInv, OnAlert, Active, AlertInv, ClearInv, SystemSteps, InTable, Home
  <2>5. QED
    BY <1>2, <1>5, <2>2, <2>3, <2>4 DEF Frame, InTable
<1>7. CASE Done(r, "error")
  BY <1>0, <1>2, <1>5, <1>7, RulesFacts, TypeKept, DoneEffect, AnsweredOk DEF Frame, InTable
<1>8. QED
  BY <1>3, <1>6, <1>7 DEF RulePost

LEMMA RuleStatusStep ==
  ASSUME RulesInv, NEW r \in Requests, RuleStatus(r), UNCHANGED <<faults, job>>
  PROVE  RulesType' /\ HandlerOk(r)' /\ Frame(r)
<1>0. RulesType /\ pc[r] = "rule_status"
  BY DEF RulesInv, RuleStatus, At
<1>1. AlertInv(r) /\ al[r] \in Alerts
  BY <1>0, AlertFacts DEF RuleSteps
<1>2. UNCHANGED <<rules, folder, todo, cur, faults>> /\ SetStatus(al[r], "live") /\ Done(r, "ok")
  BY DEF RuleStatus, grafana, job
<1>4. /\ status' \in [Alerts -> {"none", "draft", "live", "retired", "gone"}]
      /\ status'[al[r]] = "live" /\ \A b \in Alerts \ {al[r]} : status'[b] = status[b]
      /\ \A b \in Alerts : InTable(b)' => InTable(b)
  BY <1>0, <1>1, <1>2, SetStatusEffect DEF AlertInv
<1>5. QED
  BY <1>0, <1>2, <1>4, RulesFacts, TypeKept, DoneEffect, AnsweredOk DEF Frame


LEMMA SystemReadStep ==
  ASSUME RulesInv, NEW r \in Requests, SystemRead(r), UNCHANGED <<faults, job>>
  PROVE  RulesType' /\ HandlerOk(r)' /\ Frame(r)
<1>0. RulesType /\ pc[r] = "system_read" /\ op[r] = "delete_system"
  BY DEF RulesInv, SystemRead, At, HandlerOk, StepInv, SystemSteps
<1>1. UNCHANGED <<status, rules, folder, todo, cur, faults>>
  BY DEF SystemRead, grafana, job
<1>2. CASE /\ seen' = [seen EXCEPT ![r] = rules]
           /\ left' = [left EXCEPT ![r] = {c \in Categories : rules[c] # {}}]
           /\ pc' = [pc EXCEPT ![r] = "system_next"]
           /\ UNCHANGED <<request, cat, answer>>
  <2>1. /\ pc' \in [Requests -> Pcs] /\ pc'[r] = "system_next"
        /\ \A q \in Requests \ {r} : pc'[q] = pc[q]
        /\ UNCHANGED <<op, al, cat, answer>>
    BY <1>0, <1>2, RulesFacts DEF Pcs, request
  <2>2. /\ seen' \in [Requests -> [Categories -> FiniteNames]] /\ seen'[r] = rules
        /\ \A q \in Requests \ {r} : seen'[q] = seen[q]
        /\ \A q \in Requests : \A c \in Categories : \A n \in seen'[q][c] : Category[n] = c
    BY <1>0, <1>2, RulesFacts
  <2>3. /\ left' \in [Requests -> SUBSET Categories] /\ left'[r] = {c \in Categories : rules[c] # {}}
        /\ \A q \in Requests \ {r} : left'[q] = left[q]
    BY <1>0, <1>2, RulesFacts
  <2>4. RulesType'
    BY <1>0, <1>1, <2>1, <2>2, <2>3, RulesFacts, TypeKept
  <2>5. HandlerOk(r)'
    BY <1>0, <1>1, <2>1, <2>2, <2>3
       DEF HandlerOk, StepInv, OnAlert, Active, ClearInv, DropSteps, RuleSteps, SystemSteps
  <2>6. QED
    BY <1>0, <1>1, <2>1, <2>2, <2>3, <2>4, <2>5 DEF Frame, InTable
<1>3. CASE Done(r, "error")
  BY <1>0, <1>1, <1>3, RulesFacts, TypeKept, DoneEffect, AnsweredOk DEF Frame, InTable
<1>4. QED
  BY <1>2, <1>3 DEF SystemRead

LEMMA SystemClearStep ==
  ASSUME RulesInv, NEW r \in Requests, NEW c \in Categories, SystemClear(r, c), UNCHANGED <<faults, job>>
  PROVE  RulesType' /\ HandlerOk(r)' /\ Frame(r)
<1>0. /\ RulesType /\ pc[r] = "system_next" /\ op[r] = "delete_system"
      /\ \A d \in left[r] : seen[r][d] = rules[d] /\ rules[d] # {}
  BY DEF RulesInv, SystemClear, At, HandlerOk, StepInv, ClearInv, SystemSteps
<1>1. UNCHANGED <<status, op, al, seen, answer, todo, cur, faults>>
  BY DEF SystemClear, request, job
<1>2. /\ left' \in [Requests -> SUBSET Categories] /\ left'[r] = left[r] \ {c}
      /\ \A q \in Requests \ {r} : left'[q] = left[q]
      /\ cat' \in [Requests -> Categories] /\ cat'[r] = c
      /\ \A q \in Requests \ {r} : cat'[q] = cat[q]
  BY <1>0, RulesFacts DEF SystemClear
<1>3. PICK keep : keep = seen[r][c] \ SystemNames
  OBVIOUS
<1>4. keep \in FiniteNames /\ \A n \in keep : Category[n] = c
  <2>1. seen[r][c] \in FiniteNames /\ \A n \in seen[r][c] : Category[n] = c
    BY <1>0, RulesFacts
  <2>2. QED
    BY <1>3, <2>1, GroupTypes
<1>5. /\ rules' \in [Categories -> FiniteNames] /\ folder' \subseteq Categories
      /\ UNCHANGED folder /\ \A d \in Categories \ {c} : rules'[d] = rules[d]
      /\ \A d \in Categories : \A n \in rules'[d] : d = Category[n] /\ d \in folder'
  <2>1. CASE Post(c, keep)
    BY <1>0, <1>4, <2>1, GroupReplaced DEF Post
  <2>2. CASE Refused(c)
    BY <1>0, <2>2, RulesFacts DEF Refused, grafana
  <2>3. CASE rules' = [rules EXCEPT ![c] = {}] /\ UNCHANGED folder
    BY <1>0, <2>3, GroupReplaced, GroupTypes
  <2>4. QED
    BY <1>3, <2>1, <2>2, <2>3 DEF SystemClear
<1>6. /\ pc' \in [Requests -> Pcs] /\ \A q \in Requests \ {r} : pc'[q] = pc[q]
      /\ \/ pc'[r] = "system_next"
         \/ pc'[r] = "system_folder" /\ rules'[c] = {}
  <2>1. CASE UNCHANGED pc
    BY <1>0, <2>1, RulesFacts
  <2>2. CASE pc' = [pc EXCEPT ![r] = "system_folder"] /\ rules' = [rules EXCEPT ![c] = {}]
    BY <1>0, <2>2, RulesFacts DEF Pcs
  <2>3. QED
    BY <2>1, <2>2 DEF SystemClear
<1>7. RulesType'
  BY <1>0, <1>1, <1>2, <1>5, <1>6, RulesFacts, TypeKept
<1>8. ClearInv(r)'
  BY <1>0, <1>1, <1>2, <1>5, <1>6, RulesFacts DEF ClearInv
<1>9. HandlerOk(r)'
  BY <1>0, <1>1, <1>6, <1>8 DEF HandlerOk, StepInv, OnAlert, DropSteps, RuleSteps, SystemSteps
<1>10. QED
  BY <1>0, <1>1, <1>2, <1>6, <1>7, <1>9 DEF Frame, InTable

LEMMA SystemFolderStep ==
  ASSUME RulesInv, NEW r \in Requests, SystemFolder(r), UNCHANGED <<faults, job>>
  PROVE  RulesType' /\ HandlerOk(r)' /\ Frame(r)
<1>0. RulesType /\ pc[r] = "system_folder" /\ op[r] = "delete_system" /\ ClearInv(r) /\ cat[r] \in Categories
  BY RulesFacts DEF RulesInv, SystemFolder, At, HandlerOk, StepInv, SystemSteps
<1>1. UNCHANGED <<status, rules, seen, todo, cur, faults>>
  BY DEF SystemFolder, job
<1>2. /\ pc' \in [Requests -> Pcs] /\ pc'[r] = "system_next"
      /\ \A q \in Requests \ {r} : pc'[q] = pc[q]
      /\ UNCHANGED <<op, al, cat, left, answer>>
  BY <1>0, GotoEffect DEF Pcs, SystemFolder
<1>3. /\ folder' \subseteq Categories
      /\ \A d \in Categories : \A n \in rules'[d] : d = Category[n] /\ d \in folder'
  BY <1>0, <1>1, RulesFacts DEF SystemFolder, DeleteFolder
<1>4. RulesType'
  BY <1>0, <1>1, <1>2, <1>3, RulesFacts, TypeKept
<1>5. HandlerOk(r)'
  BY <1>0, <1>1, <1>2 DEF HandlerOk, StepInv, OnAlert, ClearInv, DropSteps, RuleSteps, SystemSteps
<1>6. QED
  BY <1>0, <1>1, <1>2, <1>4, <1>5 DEF Frame, InTable

LEMMA SystemDestroyStep ==
  ASSUME RulesInv, NEW r \in Requests, SystemDestroy(r), UNCHANGED <<faults, job>>
  PROVE  RulesType' /\ HandlerOk(r)' /\ Frame(r)
<1>0. RulesType /\ pc[r] = "system_next" /\ op[r] = "delete_system"
  BY DEF RulesInv, SystemDestroy, At, HandlerOk, StepInv, SystemSteps
<1>1. UNCHANGED <<rules, folder, todo, cur, faults>> /\ Done(r, "ok")
  BY DEF SystemDestroy, grafana, job
<1>2. /\ status' \in [Alerts -> {"none", "draft", "live", "retired", "gone"}]
      /\ \A b \in Alerts : InTable(b)' => InTable(b)
  BY <1>0, RulesFacts DEF SystemDestroy, InTable
<1>3. QED
  BY <1>0, <1>1, <1>2, RulesFacts, TypeKept, DoneEffect, AnsweredOk DEF Frame

LEMMA HandlerStep ==
  ASSUME RulesInv, NEW r \in Requests, NextStep(r), UNCHANGED <<faults, job>>
  PROVE  RulesType' /\ HandlerOk(r)' /\ Frame(r)
BY DropReadStep, DropPostStep, DropGroupStep, DropFolderStep, DropStatusStep, UpdateWriteStep,
   RuleReadStep, RuleFolderStep, RuleCreateStep, RulePostStep, RuleStatusStep,
   SystemReadStep, SystemFolderStep, SystemDestroyStep, SystemClearStep DEF NextStep

\* What a handler does is no concern of the others.
LEMMA HandlerStepInv ==
  ASSUME RulesInv, NEW r \in Requests, NextStep(r), UNCHANGED <<faults, job>>
  PROVE  RulesInv'
<1>1. RulesType' /\ HandlerOk(r)' /\ Frame(r) /\ RulesType
  BY HandlerStep DEF RulesInv
<1>2. Active(r)
  BY DEF NextStep, DropRead, DropPost, DropGroup, DropFolder, DropStatus, UpdateWrite, RuleRead, RuleFolder,
     RuleCreate, RulePost, RuleStatus, SystemRead, SystemFolder, SystemDestroy, SystemClear, At, Active
<1>3. UniqueNames'
  BY <1>1 DEF RulesInv, UniqueNames, Frame
<1>4. ASSUME NEW q \in Requests \ {r} PROVE HandlerOk(q)'
  <2>1. HandlerOk(q)
    BY DEF RulesInv
  <2>2. /\ pc'[q] = pc[q] /\ op'[q] = op[q] /\ al'[q] = al[q] /\ cat'[q] = cat[q]
        /\ seen'[q] = seen[q] /\ left'[q] = left[q] /\ answer'[q] = answer[q]
    BY <1>1, <1>4 DEF Frame
  <2>3. CASE pc[q] = "idle"
    BY <2>1, <2>2, <2>3, AnsweredOk DEF HandlerOk, StepInv
  <2>4. CASE pc[q] # "idle"
    <3>1. Apart(r, q) /\ OnAlert(q)
      BY <1>2, <1>4, <2>4 DEF RulesInv, Active, OnAlert, Apart
    <3>2. al[q] \in Alerts \ {al[r]} /\ cat[q] \in Categories \ {cat[r]}
      <4>1. cat[q] = Home(al[q]) /\ cat[r] = Home(al[r])
        BY <1>2, <2>1, <3>1 DEF RulesInv, HandlerOk, AlertInv, OnAlert, Apart
      <4>2. QED
        BY <1>1, <3>1, <4>1, RulesFacts DEF Apart
    <3>3. status'[al[q]] = status[al[q]] /\ rules'[cat[q]] = rules[cat[q]]
      BY <1>1, <3>1, <3>2 DEF Frame, Apart
    <3>4. pc[q] \notin SystemSteps
      BY <2>1, <3>1 DEF HandlerOk, StepInv, Apart
    <3>5. QED
      BY <2>1, <2>2, <3>1, <3>3, <3>4
         DEF HandlerOk, StepInv, OnAlert, Active, AlertInv, ClearInv, SystemSteps, InTable, Home
  <2>5. QED
    BY <2>3, <2>4
<1>5. \A p, q \in Requests : p # q /\ Active(p)' /\ Active(q)' => Apart(p, q)'
  <2>1. \A p \in Requests : Active(p)' => Active(p) /\ op'[p] = op[p] /\ al'[p] = al[p]
    BY <1>1, <1>2 DEF Frame, Active
  <2>2. QED
    BY <2>1 DEF RulesInv, Apart, Home
<1>6. QED
  BY <1>1, <1>3, <1>4, <1>5 DEF RulesInv


\* A row is created, in a request of a client or by the job.
LEMMA CreateStep ==
  ASSUME RulesInv, NEW a \in Alerts, CreateAlert(a), UNCHANGED faults, todo' \subseteq System, cur' \in Alerts
  PROVE  RulesInv'
<1>0. RulesType
  BY DEF RulesInv
<1>1. UNCHANGED <<rules, folder, pc, op, al, cat, seen, left, answer>>
  BY DEF CreateAlert, grafana, request
<1>2. /\ status' \in [Alerts -> {"none", "draft", "live", "retired", "gone"}]
      /\ ~InTable(a) /\ \A b \in Alerts \ {a} : status'[b] = status[b]
      /\ \A b \in Alerts : InTable(b) => Name[b] # Name[a]
  BY <1>0, RulesFacts DEF CreateAlert, InTable
<1>3. RulesType'
  BY <1>0, <1>1, <1>2, RulesFacts, TypeKept
<1>4. UniqueNames'
  <2>1. ASSUME NEW b \in Alerts, NEW d \in Alerts, InTable(b)', InTable(d)', Name[b] = Name[d] PROVE b = d
    <3>1. (b # a => InTable(b)) /\ (d # a => InTable(d))
      BY <1>2, <2>1 DEF InTable
    <3>2. QED
      BY <1>2, <2>1, <3>1 DEF RulesInv, UniqueNames
  <2>2. QED
    BY <2>1 DEF UniqueNames
<1>5. ASSUME NEW q \in Requests PROVE HandlerOk(q)'
  <2>1. HandlerOk(q) /\ al[q] \in Alerts
    BY <1>0, RulesFacts DEF RulesInv
  <2>2. OnAlert(q) => status'[al[q]] = status[al[q]]
    BY <1>2, <2>1 DEF HandlerOk, AlertInv
  <2>3. QED
    BY <1>1, <2>1, <2>2 DEF HandlerOk, StepInv, OnAlert, Active, AlertInv, ClearInv, InTable, Home
<1>6. \A p, q \in Requests : p # q /\ Active(p)' /\ Active(q)' => Apart(p, q)'
  BY <1>1 DEF RulesInv, Apart, Active, Home
<1>7. QED
  BY <1>3, <1>4, <1>5, <1>6 DEF RulesInv

\* A request starts: about an alert of the table whose category no other is about, or about
\* the rules of the system when there is no other.
Begins(r, kind, a, next) ==
    /\ Begin(r, kind, a, next)
    /\ \/ /\ kind = "delete_system" /\ next = "system_read"
          /\ MayStartSystem
       \/ /\ kind # "delete_system" /\ next \in {"drop_read", "drop_status", "update_write", "rule_read"}
          /\ MayStart(a) /\ InTable(a)
          /\ next = "drop_read" => status[a] = "live"
          /\ next = "update_write" => kind = "update"
          /\ next = "rule_read" => kind = "publish"
          /\ next # "drop_read" => status[a] # "live"

LEMMA BeginStep ==
  ASSUME RulesInv, NEW r \in Requests, NEW kind \in Kinds, NEW a \in Alerts, NEW next \in Pcs,
         Begins(r, kind, a, next), UNCHANGED faults, todo' \subseteq System, cur' \in Alerts
  PROVE  RulesInv'
<1> USE DEF Begins
<1>0. RulesType
  BY DEF RulesInv
<1>1. UNCHANGED <<status, rules, folder, seen, left>>
  BY DEF Begin, grafana
<1>2. /\ pc' \in [Requests -> Pcs] /\ op' \in [Requests -> Kinds \cup {"none"}]
      /\ al' \in [Requests -> Alerts] /\ cat' \in [Requests -> Categories]
      /\ answer' \in [Requests -> {"none", "ok", "error"}]
      /\ pc'[r] = next /\ op'[r] = kind /\ al'[r] = a /\ cat'[r] = Home(a)
      /\ \A q \in Requests \ {r} : pc'[q] = pc[q] /\ op'[q] = op[q] /\ al'[q] = al[q] /\ cat'[q] = cat[q]
  BY <1>0, HomeType, RulesFacts DEF Begin
<1>3. RulesType'
  BY <1>0, <1>1, <1>2, RulesFacts, TypeKept
<1>4. UniqueNames'
  BY <1>1 DEF RulesInv, UniqueNames, InTable
<1>5. HandlerOk(r)'
  BY <1>1, <1>2 DEF HandlerOk, StepInv, OnAlert, Active, AlertInv, ClearInv, InTable, Home, DropSteps, RuleSteps,
     SystemSteps, Kinds
<1>6. ASSUME NEW q \in Requests \ {r} PROVE HandlerOk(q)'
  <2>1. HandlerOk(q)
    BY DEF RulesInv
  <2>2. QED
    BY <1>1, <1>2, <2>1 DEF HandlerOk, StepInv, OnAlert, Active, AlertInv, ClearInv, InTable, Home
<1>7. ASSUME NEW q \in Requests \ {r}, Active(q) PROVE Apart(r, q)' /\ Apart(q, r)'
  <2>1. kind # "delete_system" /\ op[q] # "delete_system" /\ Home(al[q]) # Home(a)
    BY <1>7 DEF MayStart, MayStartSystem, At, Active
  <2>2. QED
    BY <1>2, <2>1 DEF Apart, Home
<1>8. \A p, q \in Requests : p # q /\ Active(p)' /\ Active(q)' => Apart(p, q)'
  BY <1>2, <1>7 DEF RulesInv, Apart, Active, Home
<1>9. QED
  BY <1>3, <1>4, <1>5, <1>6, <1>8 DEF RulesInv

\* After a restart no handler is left.
LEMMA CrashStep ==
  ASSUME RulesInv, Crash, UNCHANGED <<faults, job>>
  PROVE  RulesInv'
<1>0. RulesType
  BY DEF RulesInv
<1>1. UNCHANGED <<status, rules, folder, todo, cur, faults>>
  BY DEF Crash, grafana, job
<1>2. AnyAlert \in Alerts /\ Home(AnyAlert) \in Categories /\ NoGroups \in [Categories -> FiniteNames]
  BY AnyAlertType, HomeType, GroupTypes DEF NoGroups
<1>3. /\ pc' \in [Requests -> Pcs] /\ op' \in [Requests -> Kinds \cup {"none"}]
      /\ al' \in [Requests -> Alerts] /\ cat' \in [Requests -> Categories]
      /\ left' \in [Requests -> SUBSET Categories] /\ answer' \in [Requests -> {"none", "ok", "error"}]
      /\ \A q \in Requests : pc'[q] = "idle" /\ op'[q] = "none"
  BY <1>0, <1>2, RulesFacts DEF Crash, Pcs
<1>4. /\ seen' \in [Requests -> [Categories -> FiniteNames]]
      /\ \A q \in Requests : \A c \in Categories : \A n \in seen'[q][c] : Category[n] = c
  BY <1>2 DEF Crash, NoGroups
<1>5. RulesType'
  BY <1>0, <1>1, <1>3, <1>4, RulesFacts, TypeKept
<1>6. UniqueNames'
  BY <1>1 DEF RulesInv, UniqueNames, InTable
<1>7. \A q \in Requests : HandlerOk(q)'
  BY <1>3, AnsweredOk
<1>8. QED
  BY <1>3, <1>5, <1>6, <1>7 DEF RulesInv, Active


\* A request about an alert.
LEMMA ClientBegins ==
  ASSUME NEW r \in Requests, NEW a \in Alerts, MayStart(a),
         \/ Publish(r, a) \/ Update(r, a)
         \/ \E kind \in {"retire", "delete"} : Delete(r, a, kind)
  PROVE  \E kind \in Kinds \ {"delete_system"}, next \in Pcs : Begins(r, kind, a, next)
<1>1. CASE Publish(r, a)
  <2>1. PICK next \in Pcs : next = IF status[a] = "live" THEN "drop_read" ELSE "rule_read"
    BY DEF Pcs
  <2>2. Begins(r, "publish", a, next)
    BY <1>1, <2>1 DEF Publish, Begins
  <2>3. QED
    BY <2>2 DEF Kinds
<1>2. CASE Update(r, a)
  <2>1. PICK next \in Pcs : next = IF status[a] = "live" THEN "drop_read" ELSE "update_write"
    BY DEF Pcs
  <2>2. Begins(r, "update", a, next)
    BY <1>2, <2>1 DEF Update, Begins
  <2>3. QED
    BY <2>2 DEF Kinds
<1>3. CASE \E kind \in {"retire", "delete"} : Delete(r, a, kind)
  <2>1. PICK kind \in {"retire", "delete"} : Delete(r, a, kind)
    BY <1>3
  <2>2. PICK next \in Pcs : next = IF status[a] = "live" THEN "drop_read" ELSE "drop_status"
    BY DEF Pcs
  <2>3. Begins(r, kind, a, next)
    BY <2>1, <2>2 DEF Delete, Begins
  <2>4. QED
    BY <2>3 DEF Kinds
<1>4. QED
  BY <1>1, <1>2, <1>3

\* The steps of the job and of the service, by what they do to table and handlers.
LEMMA JobCases ==
  ASSUME RulesInv, [JobNext]_allVars
  PROVE  /\ UNCHANGED faults /\ todo' \subseteq System /\ cur' \in Alerts
         /\ \/ UNCHANGED vars
            \/ \E a \in Alerts : CreateAlert(a)
            \/ \E r \in Requests, a \in Alerts, kind \in Kinds, next \in Pcs : Begins(r, kind, a, next)
            \/ \E r \in Requests : NextStep(r) /\ UNCHANGED job
            \/ Crash /\ UNCHANGED job
<1> DEFINE Goal ==
      /\ UNCHANGED faults /\ todo' \subseteq System /\ cur' \in Alerts
      /\ \/ UNCHANGED vars
         \/ \E a \in Alerts : CreateAlert(a)
         \/ \E r \in Requests, a \in Alerts, kind \in Kinds, next \in Pcs : Begins(r, kind, a, next)
         \/ \E r \in Requests : NextStep(r) /\ UNCHANGED job
         \/ Crash /\ UNCHANGED job
<1>0. todo \subseteq System /\ cur \in Alerts /\ Job \in Requests /\ System \subseteq Alerts
  BY RulesFacts, JobAssumption, SystemAssumption DEF RulesInv
<1>1. CASE UNCHANGED allVars
  BY <1>0, <1>1 DEF allVars, vars, job
<1>2. ASSUME JobStep, UNCHANGED faults PROVE Goal
  <2>1. CASE JobStart
    BY <1>0, <1>2, <2>1, JobAssumption DEF JobStart
  <2>2. CASE JobAlias \/ JobCleaned \/ JobPublished \/ JobEnd
    BY <1>0, <1>2, <2>2 DEF JobAlias, JobCleaned, JobPublished, JobEnd
  <2>3. CASE JobClean
    <3>1. Begins(Job, "delete_system", AnyAlert, "system_read")
      BY <2>3 DEF JobClean, DeleteSystem, Begins
    <3>2. QED
      BY <1>0, <1>2, <2>3, <3>1, AnyAlertType DEF JobClean, Kinds, Pcs
  <2>4. CASE JobCreate
    <3>1. PICK a \in todo : /\ todo' = todo \ {a}
                            /\ CreateAlert(a) \/ UNCHANGED vars
                            /\ cur' \in {a, cur}
      BY <2>4 DEF JobCreate
    <3>2. a \in Alerts
      BY <1>0, <3>1
    <3>3. QED
      BY <1>0, <1>2, <3>1, <3>2
  <2>5. CASE JobPublish
    <3>1. \E kind \in Kinds, next \in Pcs : Begins(Job, kind, cur, next)
      BY <1>0, <2>5, ClientBegins DEF JobPublish
    <3>2. QED
      BY <1>0, <1>2, <2>5, <3>1 DEF JobPublish
  <2>6. QED
    BY <1>2, <2>1, <2>2, <2>3, <2>4, <2>5 DEF JobStep
<1>3. ASSUME ServiceStep, UNCHANGED faults PROVE Goal
  <2>1. todo' \subseteq System /\ cur' \in Alerts
    BY <1>0, <1>3 DEF ServiceStep, job
  <2>2. CASE \E r \in Requests \ {Job}, a \in Alerts \ System : Client(r, a)
    BY <1>3, <2>1, <2>2, ClientBegins DEF Client
  <2>3. QED
    BY <1>3, <2>1, <2>2 DEF ServiceStep
<1>4. QED
  BY <1>1, <1>2, <1>3 DEF JobNext

LEMMA RulesInvStep ==
  ASSUME RulesInv, [JobNext]_allVars
  PROVE  RulesInv'
<1>1. /\ UNCHANGED faults /\ todo' \subseteq System /\ cur' \in Alerts
      /\ \/ UNCHANGED vars
         \/ \E a \in Alerts : CreateAlert(a)
         \/ \E r \in Requests, a \in Alerts, kind \in Kinds, next \in Pcs : Begins(r, kind, a, next)
         \/ \E r \in Requests : NextStep(r) /\ UNCHANGED job
         \/ Crash /\ UNCHANGED job
  BY JobCases
<1>2. CASE UNCHANGED vars
  <2>1. UNCHANGED <<status, rules, folder, pc, op, al, cat, seen, left, answer>>
    BY <1>2 DEF vars, request, grafana
  <2>2. RulesType'
    BY <1>1, <2>1, RulesFacts, TypeKept DEF RulesInv
  <2>3. UniqueNames'
    BY <2>1 DEF RulesInv, UniqueNames, InTable
  <2>4. ASSUME NEW q \in Requests PROVE HandlerOk(q)'
    <3>1. HandlerOk(q)
      BY DEF RulesInv
    <3>2. QED
      BY <2>1, <3>1 DEF HandlerOk, StepInv, OnAlert, Active, AlertInv, ClearInv, InTable, Home
  <2>5. \A r, q \in Requests : r # q /\ Active(r)' /\ Active(q)' => Apart(r, q)'
    BY <2>1 DEF RulesInv, Active, Apart, Home
  <2>6. QED
    BY <2>2, <2>3, <2>4, <2>5 DEF RulesInv
<1>3. QED
  BY <1>1, <1>2, CreateStep, BeginStep, HandlerStepInv, CrashStep

LEMMA RulesInvariant == JobSpec => []RulesInv
<1>1. QED
  BY RulesTypeInit, RulesInvStep, PTL DEF JobSpec


-----------------------------------------------------------------------------
(* Rules of alerts that are live. *)

\* An alert that is live has its rule, or the handler that has removed it is about to change
\* the row.
Covered(a) ==
    \/ Installed(a)
    \/ \E r \in Requests : OnAlert(r) /\ al[r] = a /\ pc[r] \in {"drop_folder", "drop_status"}
    \/ a \in System /\ \E r \in Requests : pc[r] \in {"system_next", "system_folder"}

LiveInv == "crash" \notin faults => \A a \in Alerts : status[a] = "live" => Covered(a)

\* How an alert gets live, and how one that is live goes on.
LEMMA LiveAfter ==
  ASSUME RulesInv, NEW r \in Requests, NextStep(r), UNCHANGED <<faults, job>>, NEW a \in Alerts, status'[a] = "live"
  PROVE  \/ pc[r] = "rule_status" /\ al[r] = a /\ UNCHANGED rules
         \/ /\ status[a] = "live"
            /\ ~ (pc[r] = "drop_status" /\ al[r] = a)
            /\ ~ (SystemDestroy(r) /\ a \in System)
<1>0. RulesType
  BY DEF RulesInv
<1>1. CASE DropStatus(r)
  <2>1. pc[r] = "drop_status" /\ al[r] \in Alerts /\ InTable(al[r])
    BY <1>1, AlertFacts DEF DropStatus, At, DropSteps, AlertInv
  <2>2. PICK s \in {"gone", "retired"} : SetStatus(al[r], s)
    BY <1>1 DEF DropStatus
  <2>3. status'[al[r]] = s /\ \A b \in Alerts \ {al[r]} : status'[b] = status[b]
    BY <1>0, <2>1, <2>2, SetStatusEffect
  <2>4. QED
    BY <2>1, <2>3 DEF SystemDestroy, At
<1>2. CASE UpdateWrite(r) \/ RuleStatus(r)
  <2>1. pc[r] \in {"update_write", "rule_status"} /\ al[r] \in Alerts /\ InTable(al[r])
    BY <1>2, AlertFacts DEF UpdateWrite, RuleStatus, At, RuleSteps, AlertInv
  <2>2. PICK s \in {"draft", "live"} : SetStatus(al[r], s) /\ (s = "live" => RuleStatus(r))
    BY <1>2 DEF UpdateWrite, RuleStatus
  <2>3. status'[al[r]] = s /\ \A b \in Alerts \ {al[r]} : status'[b] = status[b]
    BY <1>0, <2>1, <2>2, SetStatusEffect
  <2>4. QED
    BY <2>1, <2>2, <2>3 DEF SystemDestroy, RuleStatus, grafana, At
<1>3. CASE SystemDestroy(r)
  BY <1>3, RulesFacts DEF SystemDestroy, InTable, At
<1>4. CASE ~ (DropStatus(r) \/ UpdateWrite(r) \/ RuleStatus(r) \/ SystemDestroy(r))
  <2>1. UNCHANGED status
    BY <1>4 DEF NextStep, DropRead, DropPost, DropGroup, DropFolder, RuleRead, RuleFolder,
       RuleCreate, RulePost, SystemRead, SystemFolder, SystemClear
  <2>2. pc[r] # "drop_status"
    BY <1>4 DEF NextStep, DropRead, DropPost, DropGroup, DropFolder, RuleRead, RuleFolder,
       RuleCreate, RulePost, SystemRead, SystemFolder, SystemClear, At
  <2>3. QED
    BY <1>4, <2>1, <2>2
<1>5. QED
  BY <1>1, <1>2, <1>3, <1>4

\* How the rule of an alert leaves Grafana.
LEMMA RuleRemoved ==
  ASSUME RulesInv, NEW r \in Requests, NextStep(r), UNCHANGED <<faults, job>>,
         NEW a \in Alerts, Installed(a), ~ Installed(a)'
  PROVE  \/ /\ pc[r] = "drop_post" /\ Name[a] = Name[al[r]]
            /\ op[r] # "delete_system" /\ pc'[r] = "drop_status"
         \/ /\ pc[r] = "drop_group" /\ rules[cat[r]] = {Name[a]}
            /\ op[r] # "delete_system" /\ pc'[r] \in {"drop_folder", "drop_status"}
         \/ /\ op[r] = "delete_system" /\ Name[a] \in SystemNames
            /\ pc'[r] \in {"system_next", "system_folder"}
<1>0. RulesType /\ Home(a) \in Categories /\ Name[a] \in rules[Home(a)] /\ Name[a] \notin rules'[Home(a)]
  BY HomeType DEF RulesInv, Installed, Home
<1>1. CASE DropPost(r)
  <2>1. pc[r] = "drop_post" /\ op[r] # "delete_system" /\ seen[r][cat[r]] = rules[cat[r]] /\ cat[r] \in Categories
    BY <1>1, AlertFacts DEF DropPost, At, DropSteps, AlertInv
  <2>2. rules' = [rules EXCEPT ![cat[r]] = rules[cat[r]] \ {Name[al[r]]}]
    BY <1>0, <1>1, <2>1 DEF DropPost, Post, Refused, grafana
  <2>3. Name[a] = Name[al[r]]
    BY <1>0, <2>1, <2>2, RulesFacts
  <2>4. pc'[r] = "drop_status"
    BY <1>0, <1>1, GotoEffect DEF DropPost, Pcs
  <2>5. QED
    BY <2>1, <2>3, <2>4
<1>2. CASE DropGroup(r)
  <2>1. /\ pc[r] = "drop_group" /\ op[r] # "delete_system" /\ cat[r] \in Categories
        /\ \E x : rules[cat[r]] = {x}
    BY <1>2, AlertFacts DEF DropGroup, At, DropSteps, AlertInv
  <2>2. rules' = [rules EXCEPT ![cat[r]] = {}]
    BY <1>0, <1>2 DEF DropGroup
  <2>3. rules[cat[r]] = {Name[a]}
    BY <1>0, <2>1, <2>2, RulesFacts
  <2>4. PICK next \in {"drop_folder", "drop_status"} : Goto(r, next)
    BY <1>2 DEF DropGroup
  <2>5. pc'[r] = next
    BY <1>0, <2>4, GotoEffect DEF Pcs
  <2>6. QED
    BY <2>1, <2>3, <2>5
<1>3. CASE RulePost(r)
  <2>1. seen[r][cat[r]] = rules[cat[r]] /\ cat[r] \in Categories
    BY <1>3, AlertFacts DEF RulePost, At, RuleSteps, AlertInv
  <2>2. rules' = [rules EXCEPT ![cat[r]] = rules[cat[r]] \cup {Name[al[r]]}] \/ rules' = rules
    BY <1>3, <2>1 DEF RulePost, Post, Refused, grafana
  <2>3. QED
    BY <1>0, <2>1, <2>2, RulesFacts
<1>4. ASSUME NEW c \in Categories, SystemClear(r, c)
      PROVE  /\ op[r] = "delete_system" /\ Name[a] \in SystemNames
             /\ pc'[r] \in {"system_next", "system_folder"}
  <2>1. /\ pc[r] = "system_next" /\ op[r] = "delete_system"
        /\ seen[r][c] = rules[c]
    BY <1>4 DEF RulesInv, SystemClear, At, HandlerOk, StepInv, ClearInv, SystemSteps
  <2>2. rules' = [rules EXCEPT ![c] = rules[c] \ SystemNames]
    BY <1>0, <1>4, <2>1 DEF SystemClear, Post, Refused, grafana
  <2>3. Name[a] \in SystemNames
    BY <1>0, <2>2, RulesFacts
  <2>4. pc'[r] \in {"system_next", "system_folder"}
    BY <1>0, <1>4, <2>1, RulesFacts DEF SystemClear
  <2>5. QED
    BY <2>1, <2>3, <2>4
<1>5. CASE ~ (DropPost(r) \/ DropGroup(r) \/ RulePost(r) \/ \E c \in Categories : SystemClear(r, c))
  BY <1>0, <1>5 DEF NextStep, DropRead, DropFolder, DropStatus, UpdateWrite, RuleRead, RuleFolder,
     RuleCreate, RuleStatus, SystemRead, SystemFolder, SystemDestroy, grafana
<1>6. QED
  BY <1>1, <1>2, <1>3, <1>4, <1>5


\* The only rule of the group that a handler removes is that of its alert.
LEMMA GroupOfOwnRule ==
  ASSUME RulesInv, LiveInv, "crash" \notin faults, NEW r \in Requests, pc[r] = "drop_group"
  PROVE  rules[cat[r]] = {Name[al[r]]}
<1>1. /\ op[r] # "delete_system" /\ al[r] \in Alerts /\ cat[r] = Home(al[r]) /\ status[al[r]] = "live"
      /\ \E x : rules[cat[r]] = {x}
  BY AlertFacts DEF DropSteps, AlertInv
<1>2. Covered(al[r])
  BY <1>1 DEF LiveInv
<1>3. ~ \E q \in Requests : OnAlert(q) /\ al[q] = al[r] /\ pc[q] \in {"drop_folder", "drop_status"}
  BY <1>1 DEF RulesInv, OnAlert, Active, Apart
<1>4. ~ \E q \in Requests : pc[q] \in {"system_next", "system_folder"}
  <2>1. ASSUME NEW q \in Requests, pc[q] \in {"system_next", "system_folder"} PROVE FALSE
    <3>1. op[q] = "delete_system" /\ Active(q) /\ Active(r)
      BY <2>1 DEF RulesInv, HandlerOk, StepInv, SystemSteps, Active
    <3>2. q # r
      BY <2>1
    <3>3. QED
      BY <3>1, <3>2 DEF RulesInv, Apart
  <2>2. QED
    BY <2>1
<1>5. QED
  BY <1>1, <1>2, <1>3, <1>4 DEF Covered, Installed

LEMMA LiveHandlerStep ==
  ASSUME RulesInv, LiveInv, "crash" \notin faults, NEW r \in Requests, NextStep(r), UNCHANGED <<faults, job>>,
         NEW a \in Alerts, status'[a] = "live"
  PROVE  Covered(a)'
<1>0. RulesType /\ Frame(r) /\ RulesType' /\ HandlerOk(r)' /\ HandlerOk(r)
  BY HandlerStep DEF RulesInv
<1>1. CASE pc[r] = "rule_status" /\ al[r] = a /\ UNCHANGED rules
  BY <1>1, AlertFacts DEF RuleSteps, AlertInv, Covered, Installed, Home
<1>2. CASE /\ status[a] = "live"
           /\ ~ (pc[r] = "drop_status" /\ al[r] = a)
           /\ ~ (SystemDestroy(r) /\ a \in System)
  <2>1. CASE Installed(a)
    <3>1. ASSUME ~ Installed(a)' PROVE Covered(a)'
      <4>1. CASE op[r] # "delete_system" /\ pc[r] \in {"drop_post", "drop_group"}
        <5>1. Name[a] = Name[al[r]] /\ pc'[r] \in {"drop_folder", "drop_status"}
          BY <2>1, <3>1, <4>1, RuleRemoved, GroupOfOwnRule
        <5>2. InTable(a) /\ InTable(al[r]) /\ al[r] \in Alerts
          BY <1>2, <4>1, AlertFacts DEF InTable, AlertInv, DropSteps
        <5>3. a = al[r]
          BY <5>1, <5>2 DEF RulesInv, UniqueNames
        <5>4. op'[r] = op[r] /\ al'[r] = al[r]
          BY <1>0, <5>1 DEF Frame
        <5>5. QED
          BY <4>1, <5>1, <5>3, <5>4 DEF Covered, OnAlert, Active
      <4>2. CASE op[r] = "delete_system" /\ Name[a] \in SystemNames /\ pc'[r] \in {"system_next", "system_folder"}
        BY <4>2, NamesAssumption DEF Covered
      <4>3. QED
        BY <2>1, <3>1, <4>1, <4>2, RuleRemoved
    <3>2. QED
      BY <3>1 DEF Covered
  <2>2. CASE \E q \in Requests : OnAlert(q) /\ al[q] = a /\ pc[q] \in {"drop_folder", "drop_status"}
    <3>1. PICK q \in Requests : OnAlert(q) /\ al[q] = a /\ pc[q] \in {"drop_folder", "drop_status"}
      BY <2>2
    <3>2. CASE q # r
      BY <1>0, <3>1, <3>2 DEF Frame, Covered, OnAlert, Active
    <3>3. CASE q = r
      <4>1. DropFolder(r)
        BY <1>2, <3>1, <3>3 DEF NextStep, DropRead, DropPost, DropGroup, DropFolder, DropStatus, UpdateWrite, RuleRead,
           RuleFolder, RuleCreate, RulePost, RuleStatus, SystemRead, SystemFolder, SystemDestroy, SystemClear, At
      <4>2. pc'[r] = "drop_status"
        BY <1>0, <4>1, GotoEffect DEF DropFolder, Pcs
      <4>3. op'[r] = op[r] /\ al'[r] = al[r]
        BY <1>0, <4>2 DEF Frame
      <4>4. QED
        BY <3>1, <3>3, <4>2, <4>3 DEF Covered, OnAlert, Active
    <3>4. QED
      BY <3>2, <3>3
  <2>3. CASE a \in System /\ \E q \in Requests : pc[q] \in {"system_next", "system_folder"}
    <3>1. PICK q \in Requests : pc[q] \in {"system_next", "system_folder"}
      BY <2>3
    <3>2. CASE q # r
      BY <1>0, <2>3, <3>1, <3>2 DEF Frame, Covered
    <3>3. CASE q = r
      <4>1. SystemFolder(r) \/ \E c \in Categories : SystemClear(r, c)
        BY <1>2, <2>3, <3>1, <3>3 DEF NextStep, DropRead, DropPost, DropGroup, DropFolder, DropStatus, UpdateWrite,
           RuleRead, RuleFolder, RuleCreate, RulePost, RuleStatus, SystemRead, SystemFolder, SystemDestroy, SystemClear, At
      <4>2. pc'[r] \in {"system_next", "system_folder"}
        <5>1. CASE SystemFolder(r)
          BY <1>0, <5>1, GotoEffect DEF SystemFolder, Pcs
        <5>2. CASE \E c \in Categories : SystemClear(r, c)
          BY <1>0, <5>2, RulesFacts DEF SystemClear, At
        <5>3. QED
          BY <4>1, <5>1, <5>2
      <4>3. QED
        BY <2>3, <4>2 DEF Covered
    <3>4. QED
      BY <3>2, <3>3
  <2>4. QED
    BY <1>2, <2>1, <2>2, <2>3 DEF LiveInv, Covered
<1>3. QED
  BY <1>1, <1>2, LiveAfter

\* Nothing but a handler's step and a restart touches rules, or makes an alert live.
LEMMA LiveInvStep ==
  ASSUME RulesInv, LiveInv, [JobNext]_allVars
  PROVE  LiveInv'
<1> SUFFICES ASSUME "crash" \notin faults, "crash" \notin faults', NEW a \in Alerts, status'[a] = "live" PROVE Covered(a)'
  BY JobCases DEF LiveInv
<1>0. RulesType /\ UNCHANGED faults
  BY JobCases DEF RulesInv
<1>1. CASE UNCHANGED vars
  BY <1>1 DEF vars, request, grafana, LiveInv, Covered, Installed, Home, OnAlert, Active
<1>2. CASE \E b \in Alerts : CreateAlert(b)
  <2>1. PICK b \in Alerts : CreateAlert(b)
    BY <1>2
  <2>2. status[a] = "live" /\ UNCHANGED <<rules, pc, op, al>>
    BY <1>0, <2>1, RulesFacts DEF CreateAlert, grafana, request
  <2>3. QED
    BY <2>2 DEF LiveInv, Covered, Installed, Home, OnAlert, Active
<1>3. CASE \E r \in Requests, b \in Alerts, kind \in Kinds, next \in Pcs : Begins(r, kind, b, next)
  <2>1. PICK r \in Requests, b \in Alerts, kind \in Kinds, next \in Pcs : Begins(r, kind, b, next)
    BY <1>3
  <2>2. /\ status[a] = "live" /\ UNCHANGED <<rules, status>> /\ pc[r] = "idle"
        /\ \A q \in Requests \ {r} : pc'[q] = pc[q] /\ op'[q] = op[q] /\ al'[q] = al[q]
    BY <1>0, <2>1, RulesFacts DEF Begins, Begin, grafana, At
  <2>3. Covered(a)
    BY <2>2 DEF LiveInv
  <2>4. QED
    BY <2>2, <2>3 DEF Covered, Installed, Home, OnAlert, Active
<1>4. CASE \E r \in Requests : NextStep(r) /\ UNCHANGED job
  BY <1>0, <1>4, LiveHandlerStep
<1>5. CASE Crash
  BY <1>5 DEF Crash
<1>6. QED
  BY <1>1, <1>2, <1>3, <1>4, <1>5, JobCases

LEMMA LiveInvariant == JobSpec => [](RulesInv /\ LiveInv)
<1>1. JobInit => LiveInv
  BY DEF JobInit, Init, LiveInv
<1>2. QED
  BY <1>1, LiveInvStep, RulesInvariant, PTL DEF JobSpec


\* Unless the service restarts, an alert that is live and not being changed has its rule in
\* Grafana: the second part of what table and Grafana are to agree on.
LEMMA LiveHasItsRule ==
  ASSUME RulesInv, LiveInv
  PROVE  LiveHasRule
<1>1. ASSUME "crash" \notin faults, NEW a \in Alerts, status[a] = "live", Untouched(a) PROVE Installed(a)
  <2>1. Covered(a)
    BY <1>1 DEF LiveInv
  <2>2. \A r \in Requests : pc[r] \in {"system_next", "system_folder"} => op[r] = "delete_system"
    BY DEF RulesInv, HandlerOk, StepInv, SystemSteps
  <2>3. QED
    BY <1>1, <2>1, <2>2 DEF Covered, Untouched, At, OnAlert, Active
<1>2. QED
  BY <1>1 DEF LiveHasRule

-----------------------------------------------------------------------------
(* What a request does to the rules of others, and what its answer says. *)

LEMMA OnlyOwnRulesStep ==
  ASSUME RulesInv, LiveInv, [JobNext]_allVars
  PROVE  OnlyOwnRules
<1> SUFFICES ASSUME NEW a \in Alerts, "crash" \notin faults, Installed(a), ~ Installed(a)'
             PROVE  \E r \in Requests :
                       IF op[r] = "delete_system" THEN Name[a] \in SystemNames
                                                  ELSE Name[al[r]] = Name[a]
  BY DEF OnlyOwnRules
<1>1. PICK r \in Requests : NextStep(r) /\ UNCHANGED job
  <2>1. ~ UNCHANGED rules
    BY DEF Installed, Home
  <2>2. QED
    BY <2>1, JobCases DEF vars, grafana, CreateAlert, Begins, Begin, Crash
<1>2. UNCHANGED faults
  BY JobCases
<1>3. CASE pc[r] = "drop_group" /\ rules[cat[r]] = {Name[a]} /\ op[r] # "delete_system"
  BY <1>3, GroupOfOwnRule
<1>4. QED
  BY <1>1, <1>2, <1>3, RuleRemoved

LEMMA PublishTruthfulStep ==
  ASSUME RulesInv, [JobNext]_allVars
  PROVE  PublishTruthful
<1> SUFFICES ASSUME NEW r \in Requests, op[r] = "publish", answer'[r] = "ok", op'[r] = "none"
             PROVE  Installed(al[r]) /\ status'[al[r]] = "live"
  BY DEF PublishTruthful
<1>0. RulesType /\ UNCHANGED faults
  BY JobCases DEF RulesInv
<1>1. pc[r] # "idle"
  BY DEF RulesInv, HandlerOk, StepInv
<1>2. NextStep(r) /\ UNCHANGED job
  <2>1. ~ UNCHANGED vars /\ ~ \E a \in Alerts : CreateAlert(a)
    BY DEF vars, request, CreateAlert
  <2>2. ~ \E q \in Requests, a \in Alerts, kind \in Kinds, next \in Pcs : Begins(q, kind, a, next)
    <3>1. ASSUME NEW q \in Requests, NEW a \in Alerts, NEW kind \in Kinds, NEW next \in Pcs, Begins(q, kind, a, next)
          PROVE  FALSE
      <4>1. q # r /\ op' = [op EXCEPT ![q] = kind]
        BY <1>1, <3>1 DEF Begins, Begin, At
      <4>2. op'[r] = op[r]
        BY <1>0, <4>1, RulesFacts
      <4>3. QED
        BY <4>2
    <3>2. QED
      BY <3>1
  <2>3. ~ Crash
    BY <1>0, <1>1 DEF Crash, At
  <2>4. ASSUME NEW q \in Requests, NextStep(q), UNCHANGED job PROVE q = r
    <3>1. Frame(q)
      BY <1>0, <2>4, HandlerStep
    <3>2. QED
      BY <3>1 DEF Frame
  <2>5. QED
    BY <2>1, <2>2, <2>3, <2>4, JobCases
<1>3. ~ Done(r, "error")
  BY <1>0, DoneEffect
<1>4. \A next \in Pcs : ~ Goto(r, next)
  BY DEF Goto, request
<1>5. RuleStatus(r)
  <2>1. pc[r] \notin SystemSteps \cup {"update_write"}
    BY DEF RulesInv, HandlerOk, StepInv
  <2>2. ~ (DropRead(r) \/ DropPost(r) \/ DropGroup(r) \/ DropFolder(r) \/ DropStatus(r))
    BY <1>3, <1>4 DEF DropRead, DropPost, DropGroup, DropFolder, DropStatus, Pcs
  <2>3. ~ (RuleRead(r) \/ RuleFolder(r) \/ RuleCreate(r) \/ RulePost(r))
    BY <1>3, <1>4 DEF RuleRead, RuleFolder, RuleCreate, RulePost, Pcs
  <2>4. QED
    BY <1>2, <2>1, <2>2, <2>3
       DEF NextStep, UpdateWrite, SystemRead, SystemFolder, SystemDestroy, SystemClear, At, SystemSteps
<1>6. /\ al[r] \in Alerts /\ cat[r] = Home(al[r]) /\ InTable(al[r]) /\ Name[al[r]] \in rules[cat[r]]
  BY <1>5, AlertFacts DEF RuleStatus, At, RuleSteps, AlertInv
<1>7. status'[al[r]] = "live"
  BY <1>0, <1>5, <1>6, SetStatusEffect DEF RuleStatus
<1>8. QED
  BY <1>6, <1>7 DEF Installed

\* A request about an alert removes the rules of no other from Grafana, and one that publishes
\* an alert and is answered with success has installed its rule.  Handlers of several alerts
\* run at the same time, and any call may fail or lose its reply.
THEOREM RequestsKeepToTheirRules == JobSpec => RequestsAboutOwnRules
<1>1. RulesInv /\ LiveInv /\ [JobNext]_allVars => [OnlyOwnRules /\ PublishTruthful]_vars
  BY OnlyOwnRulesStep, PublishTruthfulStep
<1>2. QED
  BY <1>1, LiveInvariant, PTL DEF JobSpec, RequestsAboutOwnRules


-----------------------------------------------------------------------------
(* Table and Grafana, as long as no call fails. *)

LiveNames(c) == {Name[a] : a \in {b \in Alerts : status[b] = "live" /\ Home(b) = c}}
CategorySettled(c)   == rules[c] = LiveNames(c) /\ (c \in folder <=> rules[c] # {})
Free(c)      == \A r \in Requests : Active(r) => op[r] # "delete_system" /\ cat[r] # c

\* How far the handler of an alert has taken the group of its category.
AgreeAt(r) ==
    /\ pc[r] \in {"drop_read", "drop_post", "drop_group", "update_write", "rule_read", "rule_folder", "rule_create"}
          => CategorySettled(cat[r])
    /\ pc[r] = "drop_post" => \A x : rules[cat[r]] # {x}
    /\ pc[r] \in {"drop_folder", "drop_status"} => rules[cat[r]] = LiveNames(cat[r]) \ {Name[al[r]]}
    /\ pc[r] = "drop_folder" => rules[cat[r]] = {}
    /\ pc[r] = "drop_status" => (cat[r] \in folder <=> rules[cat[r]] # {})
    /\ pc[r] = "rule_post" => rules[cat[r]] = LiveNames(cat[r]) /\ cat[r] \in folder
    /\ pc[r] = "rule_status" => rules[cat[r]] = LiveNames(cat[r]) \cup {Name[al[r]]} /\ cat[r] \in folder

\* How far the deletion of the rules of the system has got.
ClearedAt(r) ==
    /\ pc[r] = "system_read" => \A c \in Categories : CategorySettled(c)
    /\ pc[r] \in {"system_next", "system_folder"} =>
          \A c \in Categories :
             /\ rules[c] = IF c \in left[r] THEN LiveNames(c) ELSE LiveNames(c) \ SystemNames
             /\ (c \in folder <=> rules[c] # {}) \/ (pc[r] = "system_folder" /\ c = cat[r])

\* Categories that no request is about are settled, and the others are as their handler has
\* left them.
AgreeInv ==
    faults = {} =>
        /\ \A c \in Categories : Free(c) => CategorySettled(c)
        /\ \A r \in Requests : (OnAlert(r) => AgreeAt(r)) /\ ClearedAt(r)

LEMMA LiveNamesMember ==
  ASSUME NEW c, NEW n
  PROVE  n \in LiveNames(c) <=> \E a \in Alerts : status[a] = "live" /\ Home(a) = c /\ Name[a] = n
  BY DEF LiveNames

\* The live rules of the other categories do not change with the row of an alert.
LEMMA OtherLiveNames ==
  ASSUME NEW a \in Alerts, \A b \in Alerts \ {a} : status'[b] = status[b]
  PROVE  \A c : c # Home(a) => LiveNames(c)' = LiveNames(c)
  BY DEF LiveNames, Home

LEMMA LiveNamesNotLive ==
  ASSUME RulesInv, NEW a \in Alerts, InTable(a), \A b \in Alerts \ {a} : status'[b] = status[b], status'[a] # "live"
  PROVE  LiveNames(Home(a))' = LiveNames(Home(a)) \ {Name[a]}
<1>1. ASSUME NEW n PROVE n \in LiveNames(Home(a))' <=> n \in LiveNames(Home(a)) \ {Name[a]}
  <2>1. \A b \in Alerts : status[b] = "live" /\ Name[b] = Name[a] => b = a
    BY DEF RulesInv, UniqueNames, InTable
  <2>2. n \in LiveNames(Home(a))' <=> \E b \in Alerts : status'[b] = "live" /\ Home(b) = Home(a) /\ Name[b] = n
    BY DEF LiveNames, Home
  <2>3. n \in LiveNames(Home(a)) <=> \E b \in Alerts : status[b] = "live" /\ Home(b) = Home(a) /\ Name[b] = n
    BY LiveNamesMember
  <2>4. QED
    BY <2>1, <2>2, <2>3
<1>2. QED
  BY <1>1

LEMMA LiveNamesLive ==
  ASSUME NEW a \in Alerts, \A b \in Alerts \ {a} : status'[b] = status[b], status'[a] = "live"
  PROVE  LiveNames(Home(a))' = LiveNames(Home(a)) \cup {Name[a]}
<1>1. ASSUME NEW n PROVE n \in LiveNames(Home(a))' <=> n \in LiveNames(Home(a)) \cup {Name[a]}
  <2>2. n \in LiveNames(Home(a))' <=> \E b \in Alerts : status'[b] = "live" /\ Home(b) = Home(a) /\ Name[b] = n
    BY DEF LiveNames, Home
  <2>3. n \in LiveNames(Home(a)) <=> \E b \in Alerts : status[b] = "live" /\ Home(b) = Home(a) /\ Name[b] = n
    BY LiveNamesMember
  <2>4. QED
    BY <2>2, <2>3
<1>2. QED
  BY <1>1

LEMMA LiveNamesSystem ==
  ASSUME NEW r, SystemDestroy(r), NEW c
  PROVE  LiveNames(c)' = LiveNames(c) \ SystemNames
<1>1. \A b \in Alerts : status'[b] = "live" <=> status[b] = "live" /\ b \notin System
  BY DEF SystemDestroy, InTable
<1>2. \A b \in Alerts : b \in System <=> Name[b] \in SystemNames
  BY NamesAssumption DEF SystemNames
<1>3. ASSUME NEW n PROVE n \in LiveNames(c)' <=> n \in LiveNames(c) \ SystemNames
  <2>2. n \in LiveNames(c)' <=> \E b \in Alerts : status'[b] = "live" /\ Home(b) = c /\ Name[b] = n
    BY DEF LiveNames, Home
  <2>3. n \in LiveNames(c) <=> \E b \in Alerts : status[b] = "live" /\ Home(b) = c /\ Name[b] = n
    BY LiveNamesMember
  <2>4. QED
    BY <1>1, <1>2, <2>2, <2>3
<1>4. QED
  BY <1>3


\* The group of a category is settled or its handler goes on.
After(r, c) ==
    \/ pc'[r] = "idle" /\ CategorySettled(c)'
    \/ AgreeAt(r)' /\ cat'[r] = c /\ OnAlert(r)'

LEMMA NoRuleOfOther ==
  ASSUME NEW S \in FiniteNames, Cardinality(S) > 1
  PROVE  \A x : S # {x}
  BY FS_Singleton DEF FiniteNames

LEMMA AgreeDropStep ==
  ASSUME RulesInv, AgreeInv, faults = {}, NEW r \in Requests, NEW c \in Categories, c = cat[r],
         DropRead(r) \/ DropPost(r) \/ DropGroup(r) \/ DropFolder(r), UNCHANGED <<faults, job>>
  PROVE  After(r, c)
<1>0. RulesType /\ pc[r] \in {"drop_read", "drop_post", "drop_group", "drop_folder"}
  BY DEF RulesInv, DropRead, DropPost, DropGroup, DropFolder, At
<1>1. /\ op[r] \in {"publish", "update", "retire", "delete"} /\ AlertInv(r) /\ al[r] \in Alerts /\ c = Home(al[r])
      /\ status[al[r]] = "live"
  BY <1>0, AlertFacts DEF DropSteps, AlertInv
<1>2. AgreeAt(r)
  BY <1>0, <1>1 DEF AgreeInv, OnAlert, Active
<1>3. PICK n : n = Name[al[r]]
  OBVIOUS
<1>4. n \in LiveNames(c)
  BY <1>1, <1>3, LiveNamesMember
<1>5. UNCHANGED status /\ LiveNames(c)' = LiveNames(c)
  BY DEF DropRead, DropPost, DropGroup, DropFolder, LiveNames, Home
<1>6. PICK next \in {"drop_post", "drop_group", "drop_folder", "drop_status"} : Goto(r, next)
  BY DEF DropRead, DropPost, DropGroup, DropFolder
<1>7. pc'[r] = next /\ UNCHANGED <<op, al, cat>>
  BY <1>0, <1>6, GotoEffect DEF Pcs
<1>8. OnAlert(r)'
  BY <1>1, <1>7 DEF OnAlert, Active
<1>9. CASE DropRead(r)
  <2>1. CategorySettled(c) /\ UNCHANGED <<rules, folder>>
    BY <1>2, <1>9 DEF AgreeAt, DropRead, At, grafana
  <2>2. rules[c] # {}
    BY <1>4, <2>1 DEF CategorySettled
  <2>3. Goto(r, IF Cardinality(rules[c]) > 1 THEN "drop_post" ELSE "drop_group")
    BY <1>9, <2>2 DEF DropRead
  <2>4. pc'[r] = IF Cardinality(rules[c]) > 1 THEN "drop_post" ELSE "drop_group"
    BY <1>0, <2>3, GotoEffect DEF Pcs
  <2>5. Cardinality(rules[c]) > 1 => \A x : rules[c] # {x}
    BY <1>0, RulesFacts, NoRuleOfOther
  <2>6. AgreeAt(r)'
    BY <1>5, <1>7, <2>1, <2>4, <2>5 DEF AgreeAt, CategorySettled
  <2>7. QED
    BY <1>7, <1>8, <2>6 DEF After
<1>10. CASE DropPost(r)
  <2>1. CategorySettled(c) /\ seen[r][c] = rules[c] /\ (\A x : rules[c] # {x})
    BY <1>1, <1>2, <1>10 DEF AgreeAt, DropPost, At, AlertInv
  <2>2. c \in folder
    BY <1>4, <2>1 DEF CategorySettled
  <2>3. rules' = [rules EXCEPT ![c] = rules[c] \ {n}] /\ UNCHANGED folder /\ Goto(r, "drop_status")
    BY <1>3, <1>10, <2>1, <2>2 DEF DropPost, Post, Refused
  <2>4. rules'[c] = LiveNames(c) \ {n} /\ pc'[r] = "drop_status"
    BY <1>0, <2>1, <2>3, GotoEffect, RulesFacts DEF CategorySettled, Pcs
  <2>5. rules'[c] # {}
    BY <1>4, <2>1, <2>4 DEF CategorySettled
  <2>6. AgreeAt(r)'
    BY <1>3, <1>5, <1>7, <2>2, <2>3, <2>4, <2>5 DEF AgreeAt
  <2>7. QED
    BY <1>7, <1>8, <2>6 DEF After
<1>11. CASE DropGroup(r)
  <2>1. CategorySettled(c) /\ \E x : rules[c] = {x}
    BY <1>1, <1>2, <1>11 DEF AgreeAt, DropGroup, At, AlertInv
  <2>2. LiveNames(c) = {n}
    BY <1>4, <2>1 DEF CategorySettled
  <2>3. rules' = [rules EXCEPT ![c] = {}] /\ Goto(r, "drop_folder")
    BY <1>11 DEF DropGroup
  <2>4. rules'[c] = {} /\ pc'[r] = "drop_folder"
    BY <1>0, <2>3, GotoEffect, RulesFacts DEF Pcs
  <2>5. AgreeAt(r)'
    BY <1>3, <1>5, <1>7, <2>2, <2>4 DEF AgreeAt
  <2>6. QED
    BY <1>7, <1>8, <2>5 DEF After
<1>12. CASE DropFolder(r)
  <2>1. rules[c] = {} /\ rules[c] = LiveNames(c) \ {n}
    BY <1>2, <1>3, <1>12 DEF AgreeAt, DropFolder, At
  <2>2. UNCHANGED rules /\ c \notin folder' /\ Goto(r, "drop_status")
    BY <1>12, <2>1 DEF DropFolder, DeleteFolder
  <2>3. pc'[r] = "drop_status"
    BY <1>0, <2>2, GotoEffect DEF Pcs
  <2>4. AgreeAt(r)'
    BY <1>3, <1>5, <1>7, <2>1, <2>2, <2>3 DEF AgreeAt
  <2>5. QED
    BY <1>7, <1>8, <2>4 DEF After
<1>13. QED
  BY <1>9, <1>10, <1>11, <1>12

LEMMA AgreeDropStatusStep ==
  ASSUME RulesInv, AgreeInv, faults = {}, NEW r \in Requests, NEW c \in Categories, c = cat[r],
         DropStatus(r), UNCHANGED <<faults, job>>
  PROVE  After(r, c)
<1>0. RulesType /\ pc[r] = "drop_status"
  BY DEF RulesInv, DropStatus, At
<1>1. op[r] \in {"publish", "update", "retire", "delete"} /\ AlertInv(r) /\ al[r] \in Alerts /\ c = Home(al[r])
  BY <1>0, AlertFacts DEF DropSteps, AlertInv
<1>2. rules[c] = LiveNames(c) \ {Name[al[r]]} /\ (c \in folder <=> rules[c] # {})
  BY <1>0, <1>1 DEF AgreeInv, OnAlert, Active, AgreeAt
<1>3. PICK s \in {"gone", "retired"} : SetStatus(al[r], s)
  BY DEF DropStatus
<1>4. status'[al[r]] # "live" /\ \A b \in Alerts \ {al[r]} : status'[b] = status[b]
  BY <1>0, <1>1, <1>3, SetStatusEffect DEF AlertInv
<1>5. CategorySettled(c)'
  <2>1. PICK a \in Alerts : a = al[r]
    BY <1>1
  <2>2. LiveNames(Home(a))' = LiveNames(Home(a)) \ {Name[a]}
    BY <1>1, <1>4, <2>1, LiveNamesNotLive DEF AlertInv
  <2>3. c = Home(a)
    BY <1>1, <2>1
  <2>4. LiveNames(c)' = LiveNames(c) \ {Name[a]}
    BY <2>2, <2>3 DEF LiveNames, Home
  <2>5. QED
    BY <1>2, <2>1, <2>4 DEF CategorySettled, DropStatus, grafana
<1>6. CASE \E next \in {"rule_read", "update_write"} : Goto(r, next)
  <2>1. PICK next \in {"rule_read", "update_write"} : Goto(r, next)
    BY <1>6
  <2>2. pc'[r] = next /\ UNCHANGED <<op, al, cat>>
    BY <1>0, <2>1, GotoEffect DEF Pcs
  <2>3. QED
    BY <1>1, <1>5, <2>2 DEF After, AgreeAt, OnAlert, Active
<1>7. CASE \E result \in {"ok", "error"} : Done(r, result)
  BY <1>0, <1>5, <1>7, DoneEffect DEF After
<1>8. QED
  BY <1>1, <1>6, <1>7 DEF DropStatus


LEMMA AgreeWriteStep ==
  ASSUME RulesInv, AgreeInv, faults = {}, NEW r \in Requests, NEW c \in Categories, c = cat[r],
         UpdateWrite(r), UNCHANGED <<faults, job>>
  PROVE  After(r, c)
<1>0. RulesType /\ pc[r] = "update_write"
  BY DEF RulesInv, UpdateWrite, At
<1>1. AlertInv(r) /\ al[r] \in Alerts /\ c = Home(al[r]) /\ op[r] # "delete_system" /\ status[al[r]] # "live"
  BY <1>0, AlertFacts DEF AlertInv
<1>2. CategorySettled(c)
  BY <1>0, <1>1 DEF AgreeInv, OnAlert, Active, AgreeAt
<1>3. \A b \in Alerts : status'[b] = "live" <=> status[b] = "live"
  BY <1>0, <1>1, SetStatusEffect DEF UpdateWrite, AlertInv
<1>4. LiveNames(c)' = LiveNames(c)
  BY <1>3 DEF LiveNames, Home
<1>5. pc'[r] = "idle" /\ UNCHANGED <<rules, folder>>
  BY <1>0, DoneEffect DEF UpdateWrite, grafana
<1>6. QED
  BY <1>2, <1>4, <1>5 DEF After, CategorySettled

LEMMA AgreeRuleStep ==
  ASSUME RulesInv, AgreeInv, faults = {}, NEW r \in Requests, NEW c \in Categories, c = cat[r],
         RuleRead(r) \/ RuleFolder(r) \/ RuleCreate(r) \/ RulePost(r), UNCHANGED <<faults, job>>
  PROVE  After(r, c)
<1>0. RulesType /\ pc[r] \in {"rule_read", "rule_folder", "rule_create", "rule_post"}
  BY DEF RulesInv, RuleRead, RuleFolder, RuleCreate, RulePost, At
<1>1. op[r] = "publish" /\ AlertInv(r) /\ al[r] \in Alerts /\ c = Home(al[r])
  BY <1>0, AlertFacts DEF RuleSteps, AlertInv, StepInv
<1>2. AgreeAt(r)
  BY <1>0, <1>1 DEF AgreeInv, OnAlert, Active
<1>3. UNCHANGED status /\ LiveNames(c)' = LiveNames(c)
  BY DEF RuleRead, RuleFolder, RuleCreate, RulePost, LiveNames, Home
<1>4. ASSUME NEW next \in {"rule_folder", "rule_create", "rule_post", "rule_status"}, Goto(r, next)
      PROVE  pc'[r] = next /\ UNCHANGED <<op, al, cat>> /\ OnAlert(r)'
  BY <1>0, <1>1, <1>4, GotoEffect DEF Pcs, OnAlert, Active
<1>5. CASE RuleRead(r)
  <2>1. CategorySettled(c) /\ UNCHANGED <<rules, folder>>
    BY <1>2, <1>5 DEF AgreeAt, RuleRead, At, grafana
  <2>2. CASE Goto(r, IF rules[c] = {} THEN "rule_folder" ELSE "rule_post")
    <3>1. pc'[r] = (IF rules[c] = {} THEN "rule_folder" ELSE "rule_post") /\ UNCHANGED <<op, al, cat>> /\ OnAlert(r)'
      BY <1>4, <2>2
    <3>2. rules[c] # {} => c \in folder
      BY <2>1 DEF CategorySettled
    <3>3. QED
      BY <1>3, <2>1, <3>1, <3>2 DEF After, AgreeAt, CategorySettled
  <2>3. CASE Done(r, "error")
    BY <1>0, <1>3, <2>1, <2>3, DoneEffect DEF After, CategorySettled
  <2>4. QED
    BY <1>5, <2>2, <2>3 DEF RuleRead
<1>6. CASE RuleFolder(r)
  <2>1. CategorySettled(c) /\ UNCHANGED <<rules, folder>>
    BY <1>2, <1>6 DEF AgreeAt, RuleFolder, At, grafana
  <2>2. Goto(r, IF c \in folder THEN "rule_post" ELSE "rule_create")
    BY <1>6 DEF RuleFolder
  <2>3. pc'[r] = (IF c \in folder THEN "rule_post" ELSE "rule_create") /\ UNCHANGED <<op, al, cat>> /\ OnAlert(r)'
    BY <1>4, <2>2
  <2>4. QED
    BY <1>3, <2>1, <2>3 DEF After, AgreeAt, CategorySettled
<1>7. CASE RuleCreate(r)
  <2>1. CategorySettled(c) /\ UNCHANGED rules
    BY <1>2, <1>7 DEF AgreeAt, RuleCreate, At
  <2>2. CASE c \notin folder /\ folder' = folder \cup {c} /\ Goto(r, "rule_post")
    <3>1. pc'[r] = "rule_post" /\ UNCHANGED <<op, al, cat>> /\ OnAlert(r)'
      BY <1>4, <2>2
    <3>2. QED
      BY <1>3, <2>1, <2>2, <3>1 DEF After, AgreeAt, CategorySettled
  <2>3. CASE UNCHANGED folder /\ Done(r, "error")
    BY <1>0, <1>3, <2>1, <2>3, DoneEffect DEF After, CategorySettled
  <2>4. QED
    BY <1>7, <2>2, <2>3 DEF RuleCreate
<1>8. CASE RulePost(r)
  <2>1. rules[c] = LiveNames(c) /\ c \in folder /\ seen[r][c] = rules[c]
    BY <1>1, <1>2, <1>8 DEF AgreeAt, RulePost, At, AlertInv
  <2>2. rules' = [rules EXCEPT ![c] = rules[c] \cup {Name[al[r]]}] /\ UNCHANGED folder /\ Goto(r, "rule_status")
    BY <1>8, <2>1 DEF RulePost, Post, Refused
  <2>3. rules'[c] = LiveNames(c) \cup {Name[al[r]]}
    BY <1>0, <2>1, <2>2, RulesFacts
  <2>4. pc'[r] = "rule_status" /\ UNCHANGED <<op, al, cat>> /\ OnAlert(r)'
    BY <1>4, <2>2
  <2>5. QED
    BY <1>3, <2>1, <2>2, <2>3, <2>4 DEF After, AgreeAt
<1>9. QED
  BY <1>5, <1>6, <1>7, <1>8

LEMMA AgreeRuleStatusStep ==
  ASSUME RulesInv, AgreeInv, faults = {}, NEW r \in Requests, NEW c \in Categories, c = cat[r],
         RuleStatus(r), UNCHANGED <<faults, job>>
  PROVE  After(r, c)
<1>0. RulesType /\ pc[r] = "rule_status"
  BY DEF RulesInv, RuleStatus, At
<1>1. op[r] = "publish" /\ AlertInv(r) /\ al[r] \in Alerts /\ c = Home(al[r])
  BY <1>0, AlertFacts DEF RuleSteps, AlertInv, StepInv
<1>2. rules[c] = LiveNames(c) \cup {Name[al[r]]} /\ c \in folder
  BY <1>0, <1>1 DEF AgreeInv, OnAlert, Active, AgreeAt
<1>3. PICK a \in Alerts : a = al[r]
  BY <1>1
<1>4. status'[a] = "live" /\ \A b \in Alerts \ {a} : status'[b] = status[b]
  BY <1>0, <1>1, <1>3, SetStatusEffect DEF AlertInv, RuleStatus
<1>5. LiveNames(Home(a))' = LiveNames(Home(a)) \cup {Name[a]}
  BY <1>4, LiveNamesLive
<1>6. c = Home(a)
  BY <1>1, <1>3
<1>7. LiveNames(c)' = LiveNames(c) \cup {Name[a]}
  BY <1>5, <1>6 DEF LiveNames, Home
<1>8. pc'[r] = "idle" /\ UNCHANGED <<rules, folder>>
  BY <1>0, DoneEffect DEF RuleStatus, grafana
<1>9. QED
  BY <1>2, <1>3, <1>7, <1>8 DEF After, CategorySettled

LEMMA AgreeAlertStep ==
  ASSUME RulesInv, AgreeInv, faults = {}, NEW r \in Requests, op[r] # "delete_system",
         NextStep(r), UNCHANGED <<faults, job>>, NEW c \in Categories, c = cat[r]
  PROVE  After(r, c)
<1>1. pc[r] \notin SystemSteps
  BY DEF RulesInv, HandlerOk, StepInv
<1>2. QED
  BY <1>1, AgreeDropStep, AgreeDropStatusStep, AgreeWriteStep, AgreeRuleStep, AgreeRuleStatusStep
     DEF NextStep, SystemRead, SystemFolder, SystemDestroy, SystemClear, At, SystemSteps


LEMMA AgreeSystemStep ==
  ASSUME RulesInv, AgreeInv, faults = {}, NEW r \in Requests, op[r] = "delete_system",
         NextStep(r), UNCHANGED <<faults, job>>
  PROVE  \/ ClearedAt(r)' /\ op'[r] = "delete_system" /\ pc'[r] # "idle"
         \/ pc'[r] = "idle" /\ \A c \in Categories : CategorySettled(c)'
<1>0. RulesType /\ pc[r] \in SystemSteps /\ ClearInv(r) /\ ClearedAt(r)
  BY DEF RulesInv, HandlerOk, StepInv, AgreeInv
<1>1. SystemRead(r) \/ SystemFolder(r) \/ SystemDestroy(r) \/ \E c \in Categories : SystemClear(r, c)
  BY <1>0 DEF NextStep, DropRead, DropPost, DropGroup, DropFolder, DropStatus, UpdateWrite,
     RuleRead, RuleFolder, RuleCreate, RulePost, RuleStatus, At, SystemSteps
<1>2. ~ SystemDestroy(r) => \A c : LiveNames(c)' = LiveNames(c)
  BY <1>1 DEF SystemRead, SystemFolder, SystemClear, LiveNames, Home
<1>3. CASE SystemRead(r)
  <2>1. \A c \in Categories : CategorySettled(c)
    BY <1>0, <1>3 DEF ClearedAt, SystemRead, At
  <2>2. /\ left'[r] = {c \in Categories : rules[c] # {}} /\ pc'[r] = "system_next" /\ op'[r] = op[r]
        /\ UNCHANGED <<rules, folder>>
    BY <1>0, <1>3, RulesFacts DEF SystemRead, grafana, request
  <2>3. \A c : LiveNames(c)' = LiveNames(c)
    BY <1>3 DEF SystemRead, LiveNames, Home
  <2>4. QED
    BY <2>1, <2>2, <2>3 DEF ClearedAt, CategorySettled
<1>4. ASSUME NEW c \in Categories, SystemClear(r, c)
      PROVE  ClearedAt(r)' /\ op'[r] = "delete_system" /\ pc'[r] # "idle"
  <2>1. pc[r] = "system_next" /\ c \in left[r] /\ seen[r][c] = rules[c] /\ rules[c] # {}
    BY <1>0, <1>4 DEF SystemClear, At, ClearInv
  <2>2. c \in folder
    BY <1>0, <2>1, RulesFacts
  <2>3. /\ rules' = [rules EXCEPT ![c] = rules[c] \ SystemNames] /\ UNCHANGED folder
        /\ \/ UNCHANGED pc /\ rules[c] \ SystemNames # {}
           \/ pc' = [pc EXCEPT ![r] = "system_folder"]
    BY <1>4, <2>1, <2>2 DEF SystemClear, Post, Refused
  <2>4. /\ rules'[c] = LiveNames(c) \ SystemNames /\ \A d \in Categories \ {c} : rules'[d] = rules[d]
        /\ rules[c] = LiveNames(c)
    BY <1>0, <2>1, <2>3, RulesFacts DEF ClearedAt
  <2>5. left'[r] = left[r] \ {c} /\ cat'[r] = c /\ op'[r] = op[r]
    BY <1>0, <1>4, RulesFacts DEF SystemClear, request
  <2>6. /\ pc'[r] \in {"system_next", "system_folder"}
        /\ pc'[r] = "system_next" => rules[c] \ SystemNames # {}
    BY <1>0, <2>1, <2>3, RulesFacts
  <2>7. \A d : LiveNames(d)' = LiveNames(d)
    BY <1>4 DEF SystemClear, LiveNames, Home
  <2>8. ASSUME NEW d \in Categories
        PROVE  /\ rules'[d] = IF d \in left'[r] THEN LiveNames(d)' ELSE LiveNames(d)' \ SystemNames
               /\ (d \in folder' <=> rules'[d] # {}) \/ (pc'[r] = "system_folder" /\ d = cat'[r])
    <3>1. CASE d = c
      BY <2>2, <2>3, <2>4, <2>5, <2>6, <2>7, <3>1
    <3>2. CASE d # c
      BY <1>0, <2>1, <2>3, <2>4, <2>5, <2>7, <3>2 DEF ClearedAt
    <3>3. QED
      BY <3>1, <3>2
  <2>9. QED
    BY <2>5, <2>6, <2>8 DEF ClearedAt
<1>5. CASE SystemFolder(r)
  <2>1. pc[r] = "system_folder" /\ rules[cat[r]] = {}
    BY <1>0, <1>5 DEF SystemFolder, At, ClearInv
  <2>2. pc'[r] = "system_next" /\ UNCHANGED <<rules, op, left>>
    BY <1>0, <1>5, GotoEffect DEF SystemFolder, Pcs
  <2>3. folder' = folder \ {cat[r]}
    BY <1>5, <2>1 DEF SystemFolder, DeleteFolder
  <2>4. \A d : LiveNames(d)' = LiveNames(d)
    BY <1>5 DEF SystemFolder, LiveNames, Home
  <2>5. QED
    BY <1>0, <2>1, <2>2, <2>3, <2>4 DEF ClearedAt
<1>6. CASE SystemDestroy(r)
  <2>1. pc[r] = "system_next" /\ left[r] = {} /\ UNCHANGED <<rules, folder>>
    BY <1>6 DEF SystemDestroy, At, grafana
  <2>2. pc'[r] = "idle"
    BY <1>0, <1>6, DoneEffect DEF SystemDestroy
  <2>3. \A d : LiveNames(d)' = LiveNames(d) \ SystemNames
    BY <1>6, LiveNamesSystem
  <2>4. QED
    BY <1>0, <2>1, <2>2, <2>3 DEF ClearedAt, CategorySettled
<1>7. QED
  BY <1>1, <1>3, <1>4, <1>5, <1>6

\* The categories of the others and those that no request is about are as before.
LEMMA AgreeHandlerStep ==
  ASSUME RulesInv, AgreeInv, faults = {}, NEW r \in Requests, NextStep(r), UNCHANGED <<faults, job>>
  PROVE  AgreeInv'
<1>0. RulesType /\ Frame(r) /\ RulesInv' /\ UNCHANGED faults
  BY HandlerStep, HandlerStepInv DEF RulesInv
<1>1. Active(r)
  BY DEF NextStep, DropRead, DropPost, DropGroup, DropFolder, DropStatus, UpdateWrite, RuleRead, RuleFolder,
     RuleCreate, RulePost, RuleStatus, SystemRead, SystemFolder, SystemDestroy, SystemClear, At, Active
<1>2. \A q \in Requests \ {r} : Active(q) => Apart(r, q)
  BY <1>1 DEF RulesInv
<1>3. \A q \in Requests \ {r} :
        /\ pc'[q] = pc[q] /\ op'[q] = op[q] /\ al'[q] = al[q] /\ cat'[q] = cat[q] /\ left'[q] = left[q]
        /\ Active(q)' <=> Active(q)
  BY <1>0 DEF Frame, Active
<1>4. \A q \in Requests : pc[q] \in SystemSteps <=> op[q] = "delete_system"
  BY DEF RulesInv, HandlerOk, StepInv
<1>5. \A q \in Requests : pc'[q] \in SystemSteps <=> op'[q] = "delete_system"
  BY <1>0 DEF RulesInv, HandlerOk, StepInv
<1>6. CASE op[r] = "delete_system"
  <2>1. \A q \in Requests \ {r} : ~ Active(q) /\ ~ Active(q)'
    BY <1>2, <1>3, <1>6 DEF Apart
  <2>2. CASE ClearedAt(r)' /\ op'[r] = "delete_system" /\ pc'[r] # "idle"
    <3>1. \A c \in Categories : ~ Free(c)'
      BY <2>2 DEF Free, Active
    <3>2. \A q \in Requests : ~ OnAlert(q)' /\ ClearedAt(q)'
      BY <2>1, <2>2 DEF OnAlert, ClearedAt, Active
    <3>3. QED
      BY <3>1, <3>2 DEF AgreeInv
  <2>3. CASE pc'[r] = "idle" /\ \A c \in Categories : CategorySettled(c)'
    <3>1. \A q \in Requests : ~ OnAlert(q)' /\ ClearedAt(q)'
      BY <2>1, <2>3 DEF OnAlert, ClearedAt, Active
    <3>2. QED
      BY <2>3, <3>1 DEF AgreeInv
  <2>4. QED
    BY <1>6, <2>2, <2>3, AgreeSystemStep
<1>7. CASE op[r] # "delete_system"
  <2>0. OnAlert(r) /\ al[r] \in Alerts /\ cat[r] = Home(al[r]) /\ cat[r] \in Categories
    BY <1>0, <1>1, <1>7, RulesFacts DEF OnAlert, RulesInv, HandlerOk, AlertInv
  <2>1. PICK c \in Categories : c = cat[r]
    BY <2>0
  <2>2. After(r, c)
    BY <1>7, <2>1, AgreeAlertStep
  <2>3. \A d \in Categories \ {c} :
           LiveNames(d)' = LiveNames(d) /\ rules'[d] = rules[d] /\ (d \in folder' <=> d \in folder)
    <3>1. PICK a \in Alerts : a = al[r]
      BY <2>0
    <3>2. c = Home(a)
      BY <2>0, <2>1, <3>1
    <3>3. \A b \in Alerts \ {a} : status'[b] = status[b]
      BY <1>0, <1>7, <3>1 DEF Frame
    <3>4. \A d \in Categories \ {c} : LiveNames(d)' = LiveNames(d)
      BY <3>2, <3>3, OtherLiveNames
    <3>5. QED
      BY <1>0, <1>7, <2>1, <3>4 DEF Frame
  <2>4. \A d \in Categories \ {c} : CategorySettled(d) => CategorySettled(d)'
    BY <2>3 DEF CategorySettled
  <2>5. \A q \in Requests : ClearedAt(q)'
    <3>1. \A q \in Requests : pc'[q] \notin SystemSteps
      BY <1>1, <1>2, <1>3, <1>5, <1>7, <2>2 DEF Apart, SystemSteps, After, OnAlert, Active
    <3>2. QED
      BY <3>1 DEF ClearedAt, SystemSteps
  <2>6. ASSUME NEW q \in Requests, OnAlert(q)' PROVE AgreeAt(q)'
    <3>1. CASE q = r
      BY <2>2, <2>6, <3>1 DEF After, OnAlert, Active
    <3>2. CASE q # r
      <4>1. OnAlert(q) /\ AgreeAt(q)
        BY <1>3, <2>6, <3>2 DEF OnAlert, AgreeInv
      <4>2. cat[q] = Home(al[q]) /\ cat[q] \in Categories \ {c}
        BY <1>0, <1>2, <2>0, <2>1, <3>2, <4>1, RulesFacts DEF Apart, OnAlert, RulesInv, HandlerOk, AlertInv
      <4>3. PICK d \in Categories \ {c} : d = cat[q]
        BY <4>2
      <4>4. /\ LiveNames(d)' = LiveNames(d) /\ rules'[d] = rules[d] /\ (d \in folder' <=> d \in folder)
            /\ CategorySettled(d) => CategorySettled(d)'
        BY <2>3, <2>4
      <4>5. pc'[q] = pc[q] /\ al'[q] = al[q] /\ cat'[q] = d
        BY <1>3, <3>2, <4>3
      <4>6. QED
        BY <4>1, <4>3, <4>4, <4>5 DEF AgreeAt
    <3>3. QED
      BY <3>1, <3>2
  <2>7. ASSUME NEW d \in Categories, Free(d)' PROVE CategorySettled(d)'
    <3>1. CASE d = c
      BY <2>2, <2>7, <3>1 DEF After, Free, OnAlert
    <3>2. CASE d # c
      <4>1. Free(d)
        BY <1>3, <1>7, <2>1, <2>7, <3>2 DEF Free
      <4>2. QED
        BY <2>4, <3>2, <4>1 DEF AgreeInv
    <3>3. QED
      BY <3>1, <3>2
  <2>8. QED
    BY <2>5, <2>6, <2>7 DEF AgreeInv
<1>8. QED
  BY <1>6, <1>7


LEMMA AgreeCreateStep ==
  ASSUME RulesInv, AgreeInv, NEW a \in Alerts, CreateAlert(a), UNCHANGED faults
  PROVE  AgreeInv'
<1>1. /\ UNCHANGED <<rules, folder, pc, op, al, cat, left>>
      /\ \A b \in Alerts : status'[b] = "live" <=> status[b] = "live"
  BY RulesFacts DEF RulesInv, CreateAlert, grafana, request
<1>2. \A c : LiveNames(c)' = LiveNames(c)
  BY <1>1 DEF LiveNames, Home
<1>3. \A c : (CategorySettled(c)' <=> CategorySettled(c)) /\ (Free(c)' <=> Free(c))
  BY <1>1, <1>2 DEF CategorySettled, Free, Active
<1>4. \A r \in Requests : (OnAlert(r)' => OnAlert(r)) /\ (AgreeAt(r) => AgreeAt(r)') /\ (ClearedAt(r) => ClearedAt(r)')
  BY <1>1, <1>2, <1>3 DEF OnAlert, Active, AgreeAt, ClearedAt
<1>5. QED
  BY <1>3, <1>4 DEF AgreeInv

LEMMA AgreeBeginStep ==
  ASSUME RulesInv, AgreeInv, NEW r \in Requests, NEW a \in Alerts, NEW kind \in Kinds, NEW next \in Pcs,
         Begins(r, kind, a, next), UNCHANGED faults
  PROVE  AgreeInv'
<1> SUFFICES ASSUME faults = {} PROVE AgreeInv'
  BY DEF AgreeInv
<1>0. RulesType
  BY DEF RulesInv
<1>1. /\ UNCHANGED <<status, rules, folder, left>> /\ pc[r] = "idle" /\ next # "idle"
      /\ pc'[r] = next /\ op'[r] = kind /\ al'[r] = a /\ cat'[r] = Home(a)
      /\ \A q \in Requests \ {r} : pc'[q] = pc[q] /\ op'[q] = op[q] /\ al'[q] = al[q] /\ cat'[q] = cat[q]
  BY <1>0, RulesFacts DEF Begins, Begin, grafana, At
<1>2. \A c : LiveNames(c)' = LiveNames(c)
  BY <1>1 DEF LiveNames, Home
<1>3. \A c : CategorySettled(c)' <=> CategorySettled(c)
  BY <1>1, <1>2 DEF CategorySettled
<1>4. \A c \in Categories : Free(c)' => CategorySettled(c)'
  <2>1. \A c : Free(c)' => Free(c)
    BY <1>1 DEF Free, Active
  <2>2. QED
    BY <1>3, <2>1 DEF AgreeInv
<1>5. ASSUME NEW q \in Requests \ {r} PROVE (OnAlert(q)' => AgreeAt(q)') /\ ClearedAt(q)'
  <2>1. (OnAlert(q) => AgreeAt(q)) /\ ClearedAt(q)
    BY DEF AgreeInv
  <2>2. pc'[q] = pc[q] /\ op'[q] = op[q] /\ al'[q] = al[q] /\ cat'[q] = cat[q] /\ left'[q] = left[q]
    BY <1>1
  <2>3. QED
    BY <1>1, <1>2, <1>3, <2>1, <2>2 DEF OnAlert, Active, AgreeAt, ClearedAt
<1>6. CASE kind = "delete_system"
  <2>1. next = "system_read" /\ \A c \in Categories : Free(c)
    BY <1>6 DEF Begins, MayStartSystem, At, Free, Active
  <2>2. \A c \in Categories : CategorySettled(c)'
    BY <1>3, <2>1 DEF AgreeInv
  <2>3. ClearedAt(r)' /\ ~ OnAlert(r)'
    BY <1>1, <1>6, <2>1, <2>2 DEF ClearedAt, OnAlert
  <2>4. QED
    BY <1>4, <1>5, <2>3 DEF AgreeInv
<1>7. CASE kind # "delete_system"
  <2>1. PICK c \in Categories : c = Home(a)
    BY HomeType
  <2>2. /\ next \in {"drop_read", "drop_status", "update_write", "rule_read"} /\ MayStart(a)
        /\ next = "drop_status" => status[a] # "live" /\ InTable(a)
    BY <1>7 DEF Begins
  <2>3. Free(c)
    <3>1. ASSUME NEW q \in Requests, Active(q) PROVE op[q] # "delete_system" /\ cat[q] # c
      <4>1. op[q] # "delete_system" /\ Home(al[q]) # Home(a)
        BY <2>2, <3>1 DEF MayStart, At, Active
      <4>2. cat[q] = Home(al[q])
        BY <3>1, <4>1 DEF RulesInv, HandlerOk, OnAlert, AlertInv
      <4>3. QED
        BY <2>1, <4>1, <4>2
    <3>2. QED
      BY <3>1 DEF Free
  <2>4. CategorySettled(c)
    BY <2>3 DEF AgreeInv
  <2>5. next = "drop_status" => Name[a] \notin LiveNames(c)
    BY <2>2, LiveNamesMember DEF RulesInv, UniqueNames, InTable
  <2>6. AgreeAt(r)'
    BY <1>1, <1>2, <1>3, <2>1, <2>2, <2>4, <2>5 DEF AgreeAt, CategorySettled
  <2>7. ClearedAt(r)'
    BY <1>1, <2>2 DEF ClearedAt
  <2>8. QED
    BY <1>4, <1>5, <2>6, <2>7 DEF AgreeInv
<1>8. QED
  BY <1>6, <1>7

LEMMA AgreeInvStep ==
  ASSUME RulesInv, AgreeInv, [JobNext]_allVars
  PROVE  AgreeInv'
<1> SUFFICES ASSUME faults = {} PROVE AgreeInv'
  BY JobCases DEF AgreeInv
<1>0. UNCHANGED faults
  BY JobCases
<1>1. CASE UNCHANGED vars
  <2>1. UNCHANGED <<status, rules, folder, pc, op, al, cat, left>>
    BY <1>1 DEF vars, request, grafana
  <2>2. \A c : LiveNames(c)' = LiveNames(c)
    BY <2>1 DEF LiveNames, Home
  <2>3. \A c : (CategorySettled(c)' <=> CategorySettled(c)) /\ (Free(c)' <=> Free(c))
    BY <2>1, <2>2 DEF CategorySettled, Free, Active
  <2>4. \A r \in Requests : (OnAlert(r)' => OnAlert(r)) /\ (AgreeAt(r) => AgreeAt(r)') /\ (ClearedAt(r) => ClearedAt(r)')
    BY <2>1, <2>2, <2>3 DEF OnAlert, Active, AgreeAt, ClearedAt
  <2>5. QED
    BY <2>3, <2>4 DEF AgreeInv
<1>2. ~ Crash
  BY DEF Crash
<1>3. QED
  BY <1>0, <1>1, <1>2, JobCases, AgreeCreateStep, AgreeBeginStep, AgreeHandlerStep

LEMMA AgreeInvariant == JobSpec => [](RulesInv /\ LiveInv /\ AgreeInv)
<1>1. JobInit => AgreeInv
  BY DEF JobInit, Init, AgreeInv, CategorySettled, LiveNames, NoGroups, OnAlert, Active, ClearedAt
<1>2. QED
  BY <1>1, AgreeInvStep, LiveInvariant, PTL DEF JobSpec

\* Between requests, table and Grafana agree on the rules: on all of them as long as no call
\* has failed, and on those of the live alerts as long as the service has not restarted.
THEOREM TableAndGrafanaAgree == JobSpec => []RulesAgree
<1>1. RulesInv /\ LiveInv /\ AgreeInv => RulesAgree
  <2>1. ASSUME AgreeInv PROVE TablesAgree
    BY <2>1 DEF AgreeInv, TablesAgree, Quiet, At, Free, Active, CategorySettled, LiveNames
  <2>2. QED
    BY <2>1, LiveHasItsRule DEF RulesAgree
<1>2. QED
  BY <1>1, AgreeInvariant, PTL


-----------------------------------------------------------------------------
(* The job. *)

\* No other request is about the system's rules, and the job's is about what its stage says.
JobAlone ==
    /\ \A r \in Requests \ {Job} : op[r] # "delete_system" /\ (OnAlert(r) => al[r] \notin System)
    /\ Active(Job) => \/ stage = "cleaning" /\ op[Job] = "delete_system"
                      \/ stage = "publishing" /\ op[Job] = "publish" /\ al[Job] = cur

Running == stage # "idle" \/ run > 0

\* What is still to be done for an alert of the run.
Ahead(a) == a \in todo \/ (a = cur /\ stage \in {"publish", "publishing"})

JobProgress ==
    /\ Running => run \in DOMAIN Batch /\ todo \subseteq Batch[run]
    /\ stage = "idle" => todo = {}
    /\ stage \in {"alias", "clean", "cleaning"} => todo = Batch[run]
    /\ stage \in {"publish", "publishing"} => cur \in System
    /\ "crash" \notin faults /\ Running =>
          \A a \in Batch[run] : Ahead(a) \/ status[a] = "live" \/ Name[a] \in logged
    /\ stage = "publishing" /\ At(Job, "idle") /\ answer[Job] = "ok" => status[cur] = "live"

\* As long as no call fails, nothing is logged, and once the rules of the system have been
\* deleted, those in the table are the ones that the run has created.
CleanInstall ==
    faults = {} =>
        /\ logged = {}
        /\ stage \in {"create", "publish", "publishing"} \/ (stage = "idle" /\ run > 0) =>
              \A a \in System : InTable(a) => a \in Batch[run] \ todo
        /\ stage = "cleaning" /\ At(Job, "idle") => answer[Job] = "ok" /\ \A a \in System : ~ InTable(a)
        /\ stage = "publishing" /\ At(Job, "idle") => answer[Job] = "ok"

JobInv == JobAlone /\ JobProgress /\ CleanInstall

LEMMA JobFacts ==
  /\ Job \in Requests /\ System \subseteq Alerts
  /\ \A k \in DOMAIN Batch : Batch[k] \subseteq System
  BY JobAssumption, SystemAssumption

\* A handler that is not the job's leaves the rows of the system alone.
LEMMA SystemRows ==
  ASSUME RulesInv, JobAlone, NEW r \in Requests \ {Job}, NextStep(r), UNCHANGED <<faults, job>>
  PROVE  /\ \A a \in System : status'[a] = status[a]
         /\ pc'[Job] = pc[Job] /\ op'[Job] = op[Job] /\ al'[Job] = al[Job] /\ answer'[Job] = answer[Job]
<1>1. Frame(r)
  BY HandlerStep
<1>2. OnAlert(r) /\ al[r] \notin System
  BY DEF JobAlone, OnAlert, NextStep, DropRead, DropPost, DropGroup, DropFolder, DropStatus, UpdateWrite,
     RuleRead, RuleFolder, RuleCreate, RulePost, RuleStatus, SystemRead, SystemFolder, SystemDestroy, SystemClear, At, Active
<1>3. QED
  BY <1>1, <1>2, JobFacts DEF Frame, OnAlert

\* A deletion of the system's rules that ends without a failure has deleted the rows, and a
\* publication without a failure succeeds.
LEMMA NoFailure ==
  ASSUME RulesInv, AgreeInv, faults = {}, NEW r \in Requests, op[r] \in {"publish", "delete_system"},
         NextStep(r), UNCHANGED <<faults, job>>, pc'[r] = "idle"
  PROVE  /\ answer'[r] = "ok"
         /\ op[r] = "delete_system" => \A a \in System : ~ InTable(a)'
<1>0. RulesType /\ StepInv(r)
  BY DEF RulesInv, HandlerOk
<1>1. \A next \in Pcs \ {"idle"} : ~ Goto(r, next)
  BY <1>0, GotoEffect
<1>2. CASE op[r] = "delete_system"
  <2>1. SystemDestroy(r)
    <3>1. SystemRead(r) \/ SystemFolder(r) \/ SystemDestroy(r) \/ \E c \in Categories : SystemClear(r, c)
      BY <1>0, <1>2 DEF StepInv, NextStep, DropRead, DropPost, DropGroup, DropFolder, DropStatus, UpdateWrite,
         RuleRead, RuleFolder, RuleCreate, RulePost, RuleStatus, At, SystemSteps
    <3>2. ~ SystemRead(r)
      BY <1>0, RulesFacts DEF SystemRead
    <3>3. ~ SystemFolder(r)
      BY <1>1 DEF SystemFolder, Pcs
    <3>4. \A c \in Categories : ~ SystemClear(r, c)
      BY <1>0, RulesFacts DEF SystemClear, At
    <3>5. QED
      BY <3>1, <3>2, <3>3, <3>4
  <2>2. answer'[r] = "ok"
    BY <1>0, <2>1, DoneEffect DEF SystemDestroy
  <2>3. \A a \in System : ~ InTable(a)'
    BY <2>1, JobFacts DEF SystemDestroy, InTable
  <2>4. QED
    BY <2>2, <2>3
<1>3. CASE op[r] = "publish"
  <2>0. pc[r] \notin SystemSteps \cup {"update_write"}
    BY <1>0, <1>3 DEF StepInv
  <2>1. DropStatus(r) \/ RuleRead(r) \/ RuleFolder(r) \/ RuleCreate(r) \/ RulePost(r) \/ RuleStatus(r)
    BY <1>1, <2>0 DEF NextStep, DropRead, DropPost, DropGroup, DropFolder, UpdateWrite,
       SystemRead, SystemFolder, SystemDestroy, SystemClear, At, SystemSteps, Pcs
  <2>2. pc[r] \in DropSteps \cup RuleSteps
    BY <2>1 DEF DropStatus, RuleRead, RuleFolder, RuleCreate, RulePost, RuleStatus, At, DropSteps, RuleSteps
  <2>3. AlertInv(r) /\ al[r] \in Alerts /\ cat[r] = Home(al[r]) /\ cat[r] \in Categories /\ AgreeAt(r)
    BY <1>3, <2>2, AlertFacts DEF AgreeInv, OnAlert, Active, DropSteps, RuleSteps
  <2>4. ~ DropStatus(r)
    BY <1>1, <1>3 DEF DropStatus, Pcs
  <2>5. ~ RuleRead(r)
    <3>1. ASSUME RuleRead(r) PROVE FALSE
      <4>1. rules[cat[r]] = LiveNames(cat[r]) /\ status[al[r]] # "live"
        BY <2>3, <3>1 DEF RuleRead, At, AlertInv, AgreeAt, CategorySettled, RuleSteps
      <4>2. Name[al[r]] \notin LiveNames(cat[r])
        BY <2>3, <4>1, LiveNamesMember DEF RulesInv, UniqueNames, InTable, AlertInv
      <4>3. QED
        BY <1>1, <3>1, <4>1, <4>2 DEF RuleRead, Pcs
    <3>2. QED
      BY <3>1
  <2>6. ~ RuleFolder(r)
    BY <1>1 DEF RuleFolder, Pcs
  <2>7. ~ RuleCreate(r)
    BY <1>1, <2>3 DEF RuleCreate, At, AgreeAt, CategorySettled, AlertInv, Pcs
  <2>8. ~ RulePost(r)
    BY <1>1, <2>3 DEF RulePost, At, AgreeAt, Refused, Pcs
  <2>9. RuleStatus(r)
    BY <2>1, <2>4, <2>5, <2>6, <2>7, <2>8
  <2>10. QED
    BY <1>0, <1>3, <2>9, DoneEffect DEF RuleStatus
<1>4. QED
  BY <1>2, <1>3


\* Steps of the service, while the job waits for an answer or does not look.
LEMMA JobHandlerStep ==
  ASSUME RulesInv, AgreeInv, JobInv, NEW r \in Requests, NextStep(r), UNCHANGED <<faults, job>>
  PROVE  JobInv'
<1>0. /\ UNCHANGED <<run, stage, todo, cur, tries, logged>>
      /\ RulesInv' /\ Frame(r)
  BY HandlerStep, HandlerStepInv DEF job
<1>1. \A q \in Requests : pc'[q] = "idle" => op'[q] = "none"
  BY <1>0 DEF RulesInv, HandlerOk, StepInv
<1>2. Active(r)
  BY DEF NextStep, DropRead, DropPost, DropGroup, DropFolder, DropStatus, UpdateWrite, RuleRead, RuleFolder,
     RuleCreate, RulePost, RuleStatus, SystemRead, SystemFolder, SystemDestroy, SystemClear, At, Active
<1>3. JobAlone'
  <2>1. \A q \in Requests : pc'[q] = "idle" \/ (op'[q] = op[q] /\ al'[q] = al[q] /\ pc[q] # "idle")
    BY <1>0, <1>2 DEF Frame, Active
  <2>2. QED
    BY <1>0, <1>1, <2>1, JobFacts DEF JobInv, JobAlone, OnAlert, Active
<1>4. CASE r # Job
  <2>1. /\ \A a \in System : status'[a] = status[a]
        /\ pc'[Job] = pc[Job] /\ answer'[Job] = answer[Job]
    BY <1>4, SystemRows DEF JobInv
  <2>2. JobProgress'
    <3>1. Running => run \in DOMAIN Batch /\ \A a \in Batch[run] : status'[a] = status[a]
      BY <2>1, JobFacts DEF JobInv, JobProgress
    <3>2. stage = "publishing" /\ At(Job, "idle") /\ answer[Job] = "ok" => status'[cur] = "live"
      BY <2>1 DEF JobInv, JobProgress
    <3>3. QED
      BY <1>0, <2>1, <3>1, <3>2 DEF JobInv, JobProgress, Running, Ahead, At
  <2>3. CleanInstall'
    BY <1>0, <2>1 DEF JobInv, CleanInstall, InTable, At
  <2>4. QED
    BY <1>3, <2>2, <2>3 DEF JobInv
<1>5. CASE r = Job
  <2>1. \/ stage = "cleaning" /\ op[Job] = "delete_system"
        \/ stage = "publishing" /\ op[Job] = "publish" /\ al[Job] = cur
    BY <1>2, <1>5 DEF JobInv, JobAlone
  <2>2. stage = "publishing" => \A a \in Alerts \ {cur} : status'[a] = status[a]
    BY <1>0, <1>5, <2>1 DEF Frame
  <2>3. JobProgress'
    <3>1. CASE stage = "cleaning"
      BY <1>0, <3>1 DEF JobInv, JobProgress, Running, Ahead
    <3>2. CASE stage = "publishing"
      <4>1. Running /\ run \in DOMAIN Batch /\ Batch[run] \subseteq Alerts
        BY <3>2, JobFacts DEF JobInv, JobProgress, Running
      <4>2. pc'[Job] = "idle" /\ answer'[Job] = "ok" => status'[cur] = "live"
        <5>1. JobNext
          BY <1>0 DEF JobNext, ServiceStep
        <5>2. PublishTruthful
          BY <5>1, PublishTruthfulStep
        <5>3. QED
          BY <1>1, <1>5, <2>1, <3>2, <5>2 DEF PublishTruthful
      <4>3. QED
        BY <1>0, <2>2, <3>2, <4>1, <4>2 DEF JobInv, JobProgress, Running, Ahead, At
    <3>3. QED
      BY <2>1, <3>1, <3>2
  <2>4. CleanInstall'
    <3>1. ASSUME faults = {}, pc'[Job] = "idle"
          PROVE  answer'[Job] = "ok" /\ (stage = "cleaning" => \A a \in System : ~ InTable(a)')
      BY <1>5, <2>1, <3>1, NoFailure
    <3>2. ASSUME stage = "publishing", NEW a \in System, InTable(a)' PROVE InTable(a)
      BY <1>0, <3>2, JobFacts DEF Frame
    <3>3. QED
      BY <1>0, <2>1, <3>1, <3>2 DEF JobInv, CleanInstall, At
  <2>5. QED
    BY <1>3, <2>3, <2>4 DEF JobInv
<1>6. QED
  BY <1>4, <1>5

LEMMA JobCrashStep ==
  ASSUME RulesInv, JobInv, Crash, UNCHANGED <<faults, job>>
  PROVE  JobInv'
<1>1. /\ UNCHANGED <<run, stage, todo, cur, tries, logged, status>>
      /\ \A r \in Requests : pc'[r] = "idle" /\ op'[r] = "none" /\ (answer'[r] = "ok" => pc[r] = "idle" /\ answer[r] = "ok")
      /\ "crash" \in faults /\ UNCHANGED faults
  BY DEF Crash, job, At
<1>2. JobAlone'
  BY <1>1, JobFacts DEF JobAlone, OnAlert, Active
<1>3. JobProgress'
  BY <1>1, JobFacts DEF JobInv, JobProgress, Running, Ahead, At
<1>4. CleanInstall'
  BY <1>1 DEF CleanInstall
<1>5. QED
  BY <1>2, <1>3, <1>4 DEF JobInv

\* A client starts a request about an alert of a user, or creates a row for one.
LEMMA JobUserStep ==
  ASSUME RulesInv, JobInv, UNCHANGED <<faults, job>>, NEW a \in Alerts \ System,
         \/ CreateAlert(a)
         \/ \E r \in Requests \ {Job}, kind \in Kinds \ {"delete_system"}, next \in Pcs : Begins(r, kind, a, next)
  PROVE  JobInv'
<1>0. UNCHANGED <<run, stage, todo, cur, tries, logged>> /\ RulesType
  BY DEF job, RulesInv
<1>1. /\ \A b \in System : status'[b] = status[b]
      /\ status'[cur] = "live" <=> status[cur] = "live"
      /\ pc'[Job] = pc[Job] /\ op'[Job] = op[Job] /\ al'[Job] = al[Job]
      /\ answer'[Job] = answer[Job]
      /\ \A q \in Requests : \/ pc'[q] = pc[q] /\ op'[q] = op[q] /\ al'[q] = al[q]
                             \/ q # Job /\ op'[q] # "delete_system" /\ al'[q] = a
  <2>1. CASE CreateAlert(a)
    BY <1>0, <2>1, RulesFacts, JobFacts DEF CreateAlert, request
  <2>2. CASE \E r \in Requests \ {Job}, kind \in Kinds \ {"delete_system"}, next \in Pcs : Begins(r, kind, a, next)
    BY <1>0, <2>2, RulesFacts, JobFacts DEF Begins, Begin
  <2>3. QED
    BY <2>1, <2>2
<1>2. JobAlone'
  BY <1>0, <1>1, JobFacts DEF JobInv, JobAlone, OnAlert, Active
<1>3. JobProgress'
  <2>1. Running => run \in DOMAIN Batch /\ \A b \in Batch[run] : status'[b] = status[b]
    BY <1>1, JobFacts DEF JobInv, JobProgress
  <2>2. QED
    BY <1>0, <1>1, <2>1 DEF JobInv, JobProgress, Running, Ahead, At
<1>4. CleanInstall'
  BY <1>0, <1>1 DEF JobInv, CleanInstall, InTable, At
<1>5. QED
  BY <1>2, <1>3, <1>4 DEF JobInv


\* The rules of a run have different names.
BatchNames == \A k \in DOMAIN Batch : \A a, b \in Batch[k] : Name[a] = Name[b] => a = b

\* The job moves on without a call of the service, or to the next call.
LEMMA JobMoveStep ==
  ASSUME JobInv, UNCHANGED <<vars, cur>>, RulesType,
         JobStart \/ JobAlias \/ JobCleaned \/ JobPublished \/ JobEnd
  PROVE  JobInv'
<1>0. UNCHANGED <<faults, status, rules, folder, pc, op, al, cat, seen, left, answer>>
  BY DEF vars, request, grafana
<1>1. ~ Active(Job)
  BY DEF JobInv, JobAlone, JobStart, JobAlias, JobCleaned, JobPublished, JobEnd, At, Active
<1>2. JobAlone'
  BY <1>0, <1>1 DEF JobInv, JobAlone, OnAlert, Active
<1>3. CASE JobStart
  <2>1. /\ stage = "idle" /\ run + 1 \in DOMAIN Batch /\ run' = run + 1 /\ stage' = "alias"
        /\ todo' = Batch[run'] /\ logged' = {}
    BY <1>3 DEF JobStart
  <2>2. JobProgress'
    BY <1>0, <2>1, JobFacts DEF JobProgress, Ahead
  <2>3. CleanInstall'
    BY <2>1 DEF CleanInstall
  <2>4. QED
    BY <1>2, <2>2, <2>3 DEF JobInv
<1>4. CASE JobAlias
  <2>1. /\ stage = "alias" /\ UNCHANGED <<run, todo, logged>>
        /\ stage' = "clean" \/ (stage' = "create" /\ faults # {})
    BY <1>4 DEF JobAlias
  <2>2. JobProgress'
    BY <1>0, <2>1 DEF JobInv, JobProgress, Running, Ahead
  <2>3. CleanInstall'
    BY <1>0, <2>1 DEF JobInv, CleanInstall
  <2>4. QED
    BY <1>2, <2>2, <2>3 DEF JobInv
<1>5. CASE JobCleaned
  <2>1. /\ stage = "cleaning" /\ At(Job, "idle") /\ UNCHANGED <<run, todo, logged>>
        /\ (stage' = "clean" /\ answer[Job] = "error") \/ stage' = "create"
    BY <1>5 DEF JobCleaned, Repeat
  <2>2. JobProgress'
    BY <1>0, <2>1 DEF JobInv, JobProgress, Running, Ahead
  <2>3. CleanInstall'
    BY <1>0, <2>1 DEF JobInv, CleanInstall, InTable
  <2>4. QED
    BY <1>2, <2>2, <2>3 DEF JobInv
<1>6. CASE JobPublished
  <2>1. /\ stage = "publishing" /\ At(Job, "idle") /\ UNCHANGED <<run, todo>>
        /\ \/ stage' = "publish" /\ answer[Job] = "error" /\ logged' = logged
           \/ /\ stage' = "create"
              /\ logged' = IF answer[Job] = "ok" THEN logged ELSE logged \cup {Name[cur]}
    BY <1>6 DEF JobPublished, Repeat
  <2>2. JobProgress'
    BY <1>0, <2>1 DEF JobInv, JobProgress, Running, Ahead
  <2>3. CleanInstall'
    BY <1>0, <2>1 DEF JobInv, CleanInstall, InTable
  <2>4. QED
    BY <1>2, <2>2, <2>3 DEF JobInv
<1>7. CASE JobEnd
  <2>1. stage = "create" /\ todo = {} /\ stage' = "idle" /\ UNCHANGED <<run, todo, logged>>
    BY <1>7 DEF JobEnd
  <2>2. JobProgress'
    BY <1>0, <2>1 DEF JobInv, JobProgress, Running, Ahead
  <2>3. CleanInstall'
    BY <1>0, <2>1 DEF JobInv, CleanInstall, InTable
  <2>4. QED
    BY <1>2, <2>2, <2>3 DEF JobInv
<1>8. QED
  BY <1>3, <1>4, <1>5, <1>6, <1>7

LEMMA JobCreateStep ==
  ASSUME BatchNames, RulesInv, JobInv, JobCreate, UNCHANGED faults
  PROVE  JobInv'
<1>0. RulesType
  BY DEF RulesInv
<1>1. PICK a \in todo :
        /\ todo' = todo \ {a}
        /\ \/ CreateAlert(a) /\ cur' = a /\ stage' = "publish" /\ UNCHANGED logged
           \/ /\ \E b \in Alerts : InTable(b) /\ Name[b] = Name[a]
              /\ logged' = logged \cup {Name[a]} /\ UNCHANGED <<vars, cur, stage>>
           \/ /\ "created" \in faults /\ CreateAlert(a)
              /\ logged' = logged \cup {Name[a]} /\ UNCHANGED <<cur, stage>>
  BY DEF JobCreate
<1>2. stage = "create" /\ UNCHANGED <<run, tries>>
  BY DEF JobCreate
<1>3. Running /\ run \in DOMAIN Batch /\ todo \subseteq Batch[run] /\ Batch[run] \subseteq System /\ a \in Alerts
  BY <1>1, <1>2, JobFacts DEF JobInv, JobProgress, Running
<1>4. /\ UNCHANGED <<pc, op, al, answer>>
      /\ \A b \in Alerts \ {a} : status'[b] = status[b]
      /\ status[a] = "live" => status'[a] = "live"
  BY <1>0, <1>1, RulesFacts DEF CreateAlert, request, vars
<1>5. JobAlone'
  BY <1>2, <1>4 DEF JobInv, JobAlone, OnAlert, Active
<1>6. JobProgress'
  <2>1. /\ Running' /\ stage' # "publishing"
        /\ stage' = "publish" => cur' \in System
        /\ stage' \in {"create", "publish"}
    BY <1>1, <1>2, <1>3 DEF Running
  <2>2. ASSUME "crash" \notin faults, NEW b \in Batch[run] PROVE Ahead(b)' \/ status'[b] = "live" \/ Name[b] \in logged'
    <3>1. b \in todo \/ status[b] = "live" \/ Name[b] \in logged
      BY <1>2, <1>3, <2>2 DEF JobInv, JobProgress, Ahead
    <3>2. CASE b = a
      BY <1>1, <3>2 DEF Ahead
    <3>3. CASE b # a
      BY <1>1, <1>3, <1>4, <3>1, <3>3, JobFacts DEF Ahead
    <3>4. QED
      BY <3>2, <3>3
  <2>3. QED
    BY <1>1, <1>2, <1>3, <2>1, <2>2 DEF JobProgress
<1>7. CleanInstall'
  <2>1. ASSUME faults = {} PROVE ~ \E b \in Alerts : InTable(b) /\ Name[b] = Name[a]
    <3>1. ASSUME NEW b \in Alerts, InTable(b), Name[b] = Name[a] PROVE FALSE
      <4>1. b \in System
        BY <1>1, <1>3, <3>1, NamesAssumption DEF SystemNames
      <4>2. b \in Batch[run] \ todo
        BY <1>2, <2>1, <3>1, <4>1 DEF JobInv, CleanInstall
      <4>3. QED
        BY <1>1, <1>3, <3>1, <4>2 DEF BatchNames
    <3>2. QED
      BY <3>1
  <2>2. ASSUME faults = {}
        PROVE  /\ logged' = {}
               /\ \A b \in System : InTable(b)' => b \in Batch[run] \ todo'
    <3>1. logged = {} /\ \A b \in System : InTable(b) => b \in Batch[run] \ todo
      BY <1>2, <2>2 DEF JobInv, CleanInstall
    <3>2. \A b \in System \ {a} : InTable(b)' => InTable(b)
      BY <1>4, JobFacts DEF InTable
    <3>3. QED
      BY <1>1, <1>3, <2>1, <2>2, <3>1, <3>2
  <2>3. QED
    BY <1>1, <1>2, <2>2 DEF CleanInstall
<1>8. QED
  BY <1>5, <1>6, <1>7 DEF JobInv

\* The job sends a request.
LEMMA JobSendStep ==
  ASSUME RulesInv, JobInv, JobClean \/ JobPublish, UNCHANGED faults
  PROVE  JobInv'
<1>0. RulesType /\ UNCHANGED <<run, todo, cur, tries, logged>>
  BY DEF RulesInv, JobClean, JobPublish
<1>1. PICK kind \in {"publish", "delete_system"}, a \in Alerts, next \in Pcs \ {"idle"} :
        /\ Begin(Job, kind, a, next)
        /\ kind = "publish" => stage = "publish" /\ stage' = "publishing" /\ a = cur
        /\ kind = "delete_system" => stage = "clean" /\ stage' = "cleaning"
  <2>1. CASE JobClean
    BY <2>1, AnyAlertType DEF JobClean, DeleteSystem, Pcs
  <2>2. CASE JobPublish
    <3>1. PICK next \in Pcs \ {"idle"} : next = IF status[cur] = "live" THEN "drop_read" ELSE "rule_read"
      BY DEF Pcs
    <3>2. Begin(Job, "publish", cur, next) /\ stage = "publish" /\ stage' = "publishing" /\ cur \in Alerts
      BY <1>0, <2>2, <3>1, RulesFacts DEF JobPublish, Publish
    <3>3. QED
      BY <3>2
  <2>3. QED
    BY <2>1, <2>2
<1>2. /\ UNCHANGED status /\ pc'[Job] = next /\ op'[Job] = kind /\ al'[Job] = a
      /\ \A q \in Requests \ {Job} : pc'[q] = pc[q] /\ op'[q] = op[q] /\ al'[q] = al[q]
  BY <1>0, <1>1, RulesFacts, JobFacts DEF Begin
<1>3. JobAlone'
  BY <1>0, <1>1, <1>2 DEF JobInv, JobAlone, OnAlert, Active
<1>4. JobProgress'
  BY <1>0, <1>1, <1>2 DEF JobInv, JobProgress, Running, Ahead, At
<1>5. CleanInstall'
  BY <1>0, <1>1, <1>2 DEF JobInv, CleanInstall, InTable, At
<1>6. QED
  BY <1>3, <1>4, <1>5 DEF JobInv


LEMMA JobInvStep ==
  ASSUME BatchNames, RulesInv, AgreeInv, JobInv, [JobNext]_allVars
  PROVE  JobInv'
<1>0. RulesType
  BY DEF RulesInv
<1>1. CASE UNCHANGED allVars
  <2>1. UNCHANGED <<run, stage, todo, cur, tries, logged, faults, status, pc, op, al, answer>>
    BY <1>1 DEF allVars, job, vars, request
  <2>2. JobAlone'
    BY <2>1 DEF JobInv, JobAlone, OnAlert, Active
  <2>3. JobProgress'
    BY <2>1 DEF JobInv, JobProgress, Running, Ahead, At
  <2>4. CleanInstall'
    BY <2>1 DEF JobInv, CleanInstall, InTable, At
  <2>5. QED
    BY <2>2, <2>3, <2>4 DEF JobInv
<1>2. CASE JobStep /\ UNCHANGED faults
  BY <1>0, <1>2, JobMoveStep, JobCreateStep, JobSendStep
     DEF JobStep, JobStart, JobAlias, JobCleaned, JobPublished, JobEnd
<1>3. CASE ServiceStep /\ UNCHANGED faults
  <2>1. UNCHANGED <<faults, job>>
    BY <1>3 DEF ServiceStep
  <2>2. ASSUME NEW r \in Requests \ {Job}, NEW a \in Alerts \ System, Client(r, a) PROVE JobInv'
    <3>1. \E kind \in Kinds \ {"delete_system"}, next \in Pcs : Begins(r, kind, a, next)
      BY <2>2, ClientBegins DEF Client
    <3>2. QED
      BY <2>1, <2>2, <3>1, JobUserStep
  <2>3. QED
    BY <1>3, <2>1, <2>2, JobHandlerStep, JobUserStep, JobCrashStep DEF ServiceStep
<1>4. QED
  BY <1>1, <1>2, <1>3 DEF JobNext

\* Between requests about it, the rules of a category are those of its live alerts, except for
\* the rule of the alert that a request is about.
LEMMA SystemNamesInRules ==
  ASSUME RulesInv, AgreeInv, JobInv, faults = {}, stage = "idle"
  PROVE  (UNION {rules[c] : c \in Categories}) \cap SystemNames = {Name[a] : a \in {b \in System : status[b] = "live"}}
<1>1. ASSUME NEW c \in Categories, NEW n \in SystemNames
      PROVE  n \in rules[c] <=> n \in LiveNames(c)
  <2>1. CASE Free(c)
    BY <2>1 DEF AgreeInv, CategorySettled
  <2>2. CASE ~ Free(c)
    <3>1. PICK r \in Requests : Active(r) /\ (op[r] = "delete_system" \/ cat[r] = c)
      BY <2>2 DEF Free
    <3>2. r # Job /\ op[r] # "delete_system" /\ al[r] \notin System /\ cat[r] = c
      BY <3>1 DEF JobInv, JobAlone, OnAlert
    <3>3. AgreeAt(r) /\ AlertInv(r) /\ StepInv(r) /\ al[r] \in Alerts
      BY <3>1, <3>2, RulesFacts DEF AgreeInv, OnAlert, RulesInv, HandlerOk
    <3>4. Name[al[r]] # n
      BY <3>2, <3>3, NamesAssumption
    <3>5. pc[r] \in DropSteps \cup RuleSteps \cup {"update_write"}
      BY <3>1, <3>2, <3>3, RulesFacts DEF StepInv, RulesInv, Active, Pcs, DropSteps, RuleSteps, SystemSteps
    <3>6. QED
      BY <3>2, <3>3, <3>4, <3>5 DEF AgreeAt, CategorySettled, DropSteps, RuleSteps
  <2>3. QED
    BY <2>1, <2>2
<1>2. ASSUME NEW n PROVE n \in (UNION {rules[c] : c \in Categories}) \cap SystemNames
                         <=> \E a \in System : status[a] = "live" /\ Name[a] = n
  <2>1. ASSUME NEW c \in Categories, n \in rules[c], n \in SystemNames
        PROVE  \E a \in System : status[a] = "live" /\ Name[a] = n
    <3>1. PICK a \in Alerts : status[a] = "live" /\ Name[a] = n
      BY <1>1, <2>1, LiveNamesMember
    <3>2. QED
      BY <2>1, <3>1, NamesAssumption
  <2>2. ASSUME NEW a \in System, status[a] = "live", Name[a] = n
        PROVE  n \in SystemNames /\ \E c \in Categories : n \in rules[c]
    <3>1. a \in Alerts /\ Home(a) \in Categories /\ n \in SystemNames
      BY <2>2, JobFacts, HomeType DEF SystemNames
    <3>2. n \in LiveNames(Home(a))
      BY <2>2, <3>1, LiveNamesMember
    <3>3. QED
      BY <1>1, <3>1, <3>2
  <2>3. n \in UNION {rules[c] : c \in Categories} <=> \E c \in Categories : n \in rules[c]
    OBVIOUS
  <2>4. (\E c \in Categories : n \in rules[c]) /\ n \in SystemNames => \E a \in System : status[a] = "live" /\ Name[a] = n
    BY <2>1
  <2>5. (\E a \in System : status[a] = "live" /\ Name[a] = n) => n \in SystemNames /\ \E c \in Categories : n \in rules[c]
    BY <2>2
  <2>6. QED
    BY <2>3, <2>4, <2>5
<1>3. QED
  BY <1>2

\* A run of the job leaves the rules it was to install, or has logged which ones it could not,
\* whatever users do to their own alerts meanwhile.  The names of a run's rules differ.
THEOREM JobInstallsOrLogs == ASSUME BatchNames PROVE JobSpec => []InstalledOrLogged
<1>1. JobInit => JobInv
  BY JobFacts DEF JobInit, Init, JobInv, JobAlone, JobProgress, CleanInstall, Running, Active, OnAlert
<1>2. ASSUME RulesInv, LiveInv, AgreeInv, JobInv PROVE InstalledOrLogged
  <2>1. ASSUME faults = {}, stage = "idle", run > 0 PROVE IngestorInstalls
    <3>1. \A a \in Batch[run] : status[a] = "live"
      BY <1>2, <2>1 DEF JobInv, JobProgress, CleanInstall, Running, Ahead
    <3>2. Batch[run] \subseteq System
      BY <1>2, <2>1, JobFacts DEF JobInv, JobProgress, Running
    <3>3. \A a \in System : status[a] = "live" <=> a \in Batch[run]
      BY <1>2, <2>1, <3>1, <3>2 DEF JobInv, CleanInstall, InTable
    <3>4. {b \in System : status[b] = "live"} = Batch[run]
      BY <3>2, <3>3
    <3>5. QED
      BY <1>2, <2>1, <3>3, <3>4, SystemNamesInRules DEF IngestorInstalls
  <2>2. ASSUME "crash" \notin faults, stage = "idle", run > 0, NEW a \in Batch[run]
        PROVE  (status[a] = "live" /\ Installed(a)) \/ Name[a] \in logged
    <3>1. a \in System /\ a \in Alerts
      BY <1>2, <2>2, JobFacts DEF JobInv, JobProgress, Running
    <3>2. status[a] = "live" \/ Name[a] \in logged
      BY <1>2, <2>2 DEF JobInv, JobProgress, Running, Ahead
    <3>3. Untouched(a)
      BY <1>2, <2>2, <3>1 DEF JobInv, JobAlone, Untouched, At, OnAlert, Active
    <3>4. QED
      BY <1>2, <2>2, <3>1, <3>2, <3>3, LiveHasItsRule DEF LiveHasRule
  <2>3. IngestorInstalls
    BY <2>1 DEF IngestorInstalls
  <2>4. MissingIsLogged
    BY <2>2 DEF MissingIsLogged
  <2>5. QED
    BY <2>3, <2>4 DEF InstalledOrLogged
<1>3. QED
  BY <1>1, <1>2, JobInvStep, AgreeInvariant, PTL DEF JobSpec

-----------------------------------------------------------------------------
(* The types of rules, job and channels. *)

\* The job publishes rules of the system.
JobTypes == JobTypeOK /\ (stage \in {"publish", "publishing"} => cur \in System)

\* The handler of the job is at work only while the job waits for its answer.
LEMMA JobAnswered ==
  ASSUME RulesInv, JobTypes, ServiceStep, UNCHANGED faults
  PROVE  stage' \in {"cleaning", "publishing"} \/ pc'[Job] = "idle"
<1>1. UNCHANGED job /\ stage' = stage
  BY DEF ServiceStep, job
<1>2. stage \in {"cleaning", "publishing"} \/ pc[Job] = "idle"
  BY DEF JobTypes, JobTypeOK, At
<1>3. Job \in Requests /\ pc \in [Requests -> Pcs]
  BY JobAssumption, RulesFacts DEF RulesInv
<1>4. CASE \E a \in Alerts \ System : CreateAlert(a)
  BY <1>1, <1>2, <1>4 DEF CreateAlert
<1>5. CASE \E r \in Requests \ {Job}, a \in Alerts \ System : Client(r, a)
  <2>1. PICK r \in Requests \ {Job}, a \in Alerts \ System : Client(r, a)
    BY <1>5
  <2>2. \E kind \in Kinds, next \in Pcs : Begins(r, kind, a, next)
    BY <2>1, ClientBegins DEF Client
  <2>3. pc'[Job] = pc[Job]
    BY <1>3, <2>2 DEF Begins, Begin
  <2>4. QED
    BY <1>1, <1>2, <2>3
<1>6. CASE \E r \in Requests : NextStep(r)
  <2>1. PICK r \in Requests : NextStep(r)
    BY <1>6
  <2>2. Frame(r)
    BY <1>1, <2>1, HandlerStep
  <2>3. pc[r] # "idle"
    BY <2>1 DEF NextStep, DropRead, DropPost, DropGroup, DropFolder, DropStatus, UpdateWrite, RuleRead, RuleFolder,
       RuleCreate, RulePost, RuleStatus, SystemRead, SystemFolder, SystemDestroy, SystemClear, At
  <2>4. r # Job => pc'[Job] = pc[Job]
    BY <1>3, <2>2 DEF Frame
  <2>5. QED
    BY <1>1, <1>2, <2>3, <2>4
<1>7. CASE Crash
  BY <1>3, <1>7 DEF Crash
<1>8. QED
  BY <1>4, <1>5, <1>6, <1>7 DEF ServiceStep

LEMMA JobTypesStep ==
  ASSUME RulesInv, JobTypes, [JobNext]_allVars
  PROVE  JobTypes'
<1>0. /\ Job \in Requests /\ System \subseteq Alerts /\ Retries \in Nat
      /\ \A k \in DOMAIN Batch : Batch[k] \subseteq System
      /\ \A a \in System : Name[a] \in SystemNames
  BY JobAssumption, SystemAssumption DEF SystemNames
<1>1. CASE UNCHANGED allVars
  BY <1>1 DEF allVars, vars, job, JobTypes, JobTypeOK, At
<1>2. ASSUME ServiceStep, UNCHANGED faults PROVE JobTypes'
  <2>1. UNCHANGED job
    BY <1>2 DEF ServiceStep
  <2>2. QED
    BY <1>2, <2>1, JobAnswered DEF JobTypes, JobTypeOK, job, At
<1>3. CASE JobStart
  BY <1>0, <1>3 DEF JobStart, JobTypes, JobTypeOK, Stages, vars, At
<1>4. CASE JobAlias \/ JobEnd
  BY <1>4 DEF JobAlias, JobEnd, JobTypes, JobTypeOK, Stages, vars, At
<1>5. CASE JobClean
  BY <1>5 DEF JobClean, JobTypes, JobTypeOK, Stages
<1>6. CASE JobCleaned
  BY <1>0, <1>6 DEF JobCleaned, Repeat, JobTypes, JobTypeOK, Stages, vars, At
<1>7. CASE JobCreate
  <2>1. PICK a \in todo :
           /\ todo' = todo \ {a}
           /\ UNCHANGED vars \/ CreateAlert(a)
           /\ (cur' = a /\ stage' = "publish") \/ (cur' = cur /\ stage' = stage)
           /\ logged' = logged \/ logged' = logged \cup {Name[a]}
    BY <1>7 DEF JobCreate
  <2>2. pc' = pc
    BY <2>1 DEF CreateAlert, vars
  <2>3. UNCHANGED <<run, tries>> /\ stage = "create"
    BY <1>7 DEF JobCreate
  <2>4. QED
    BY <1>0, <2>1, <2>2, <2>3 DEF JobTypes, JobTypeOK, Stages, At
<1>8. CASE JobPublish
  BY <1>8 DEF JobPublish, JobTypes, JobTypeOK, Stages
<1>9. CASE JobPublished
  <2>1. UNCHANGED <<run, todo, cur>> /\ pc' = pc /\ stage = "publishing" /\ pc[Job] = "idle"
    BY <1>9 DEF JobPublished, vars, At
  <2>2. tries' \in 0 .. Retries /\ stage' \in {"publish", "create"}
        /\ (logged' = logged \/ logged' = logged \cup {Name[cur]})
    BY <1>0, <1>9 DEF JobPublished, Repeat, JobTypes, JobTypeOK
  <2>3. QED
    BY <1>0, <2>1, <2>2 DEF JobTypes, JobTypeOK, Stages, At
<1>10. QED
  BY <1>1, <1>2, <1>3, <1>4, <1>5, <1>6, <1>7, <1>8, <1>9 DEF JobNext, JobStep

\* The tables of alerts and rules, the handlers and the job have the form that they rely on.
LEMMA RulesTypesKept == JobSpec => [](TypeOK /\ JobTypeOK)
<1>1. JobInit => JobTypes
  BY AnyAlertType, JobAssumption DEF JobInit, Init, JobTypes, JobTypeOK, Stages, At
<1>2. RulesInv /\ JobTypes => TypeOK /\ JobTypeOK
  BY DEF RulesInv, RulesType, JobTypes
<1>3. QED
  BY <1>1, <1>2, JobTypesStep, RulesInvariant, PTL DEF JobSpec

LEMMA ChannelTypesKept == ChannelSpec => []ChannelTypeOK
  BY HandlersInvariant, PTL DEF HandlersInv

=============================================================================
