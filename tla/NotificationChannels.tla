------------------------ MODULE NotificationChannels ------------------------
(***************************************************************************)
(* Notification channels.  A channel is a row of the API service; while it *)
(* is published it is also a receiver, with a route to it, in the one      *)
(* configuration of the Alertmanager of Grafana.  A handler reads all of   *)
(* that configuration, changes its copy and posts it.  The handler of a    *)
(* publication does not wait for the row to be written.                    *)
(*                                                                         *)
(* The address and the labels of a channel are left out.                   *)
(***************************************************************************)
EXTENDS Naturals, FiniteSets

CONSTANTS
    Channels,      \* rows
    ChannelNames,  \* their names
    Foreign,       \* receivers that are not of this service
    Handlers,      \* requests in progress at the same time
    MaxHandled     \* how many requests there are

VARIABLES
    channel,    \* table notificationChannel: the status and the name of each
    receivers,  \* the configuration in Grafana: the names of its receivers
    handling,   \* what each handler is doing
    late,       \* the channels whose row a publication has yet to write
    unsettled,  \* the names of those of which something failed, overlapped or came late
    handled

channelVars == <<channel, receivers, handling, late, unsettled, handled>>

NoJob == [step |-> "idle", kind |-> "none", answer |-> "none"]

Stored == { c \in Channels : channel[c].status # "none" }
Undisturbed  == \A h \in Handlers : handling[h].step = "idle"

ChannelTypeOK ==
    /\ channel \in [Channels -> [status : {"none", "draft", "live", "retired"}, name : ChannelNames]]
    /\ receivers \subseteq ChannelNames \cup Foreign
    /\ \A h \in Handlers :
        /\ handling[h].step \in {"idle", "get", "post", "write"}
        /\ handling[h].step # "idle" => handling[h].of \in Stored
    /\ late \subseteq Stored
    /\ \A c, d \in Stored : channel[c].name = channel[d].name => c = d   \* unique

ChannelInit ==
    /\ channel \in [Channels -> [status : {"none"}, name : ChannelNames]]
    /\ receivers = Foreign
    /\ handling = [h \in Handlers |-> NoJob]
    /\ late = {} /\ unsettled = {}
    /\ handled = 0

-----------------------------------------------------------------------------
(* The rows *)

\* name is unique in the table.
NameFree(c, name) == \A d \in Stored \ {c} : channel[d].name # name

CreateChannel(c) ==
    /\ channel[c].status = "none" /\ NameFree(c, channel[c].name)
    /\ channel' = [channel EXCEPT ![c].status = "draft"]
    /\ UNCHANGED <<receivers, handling, late, unsettled, handled>>

-----------------------------------------------------------------------------
(* The handlers.  An await ends a step. *)

Step(h, next) == handling' = [handling EXCEPT ![h].step = next]

AnswerChannel(h, answer) ==
    handling' = [handling EXCEPT ![h] = [NoJob EXCEPT !.kind = handling[h].kind, !.answer = answer]]

\* Mutant: a channel that is not live is retired in its row only.
CallsGrafana_LiveOnly(kind, status) == status = "live" \/ kind = "publish"

\* An update of a channel that is not live does not call Grafana.
CallsGrafana(kind, status) == kind = "update" => status = "live"

\* The row has been read: a live channel is not published again. Requests that overlap shake
\* all channels, for they share the configuration; so does one on a row yet to be written.
BeginChannel(h, kind, c) ==
    /\ handled < MaxHandled /\ handling[h].step = "idle"
    /\ c \in Stored
    /\ handled' = handled + 1
    /\ \E name \in ChannelNames :
        /\ kind # "update" => name = channel[c].name
        /\ unsettled' = CASE ~ Undisturbed  -> ChannelNames
                       [] Undisturbed /\ c \in late -> unsettled \cup {channel[c].name, name}
                       [] OTHER -> unsettled
        /\ handling' = [handling EXCEPT ![h] =
            IF kind = "publish" /\ channel[c].status = "live"
            THEN [NoJob EXCEPT !.kind = kind, !.answer = "error"]
            ELSE [kind |-> kind, of |-> c, row |-> channel[c], name |-> name, answer |-> "none",
                  step |-> IF CallsGrafana(kind, channel[c].status) THEN "get" ELSE "write"]]
    /\ UNCHANGED <<channel, receivers, late>>

GetAlertManagerConfig(h) ==
    /\ handling[h].step = "get"
    /\ \/ handling' = [handling EXCEPT ![h] = [kind |-> @.kind, of |-> @.of, row |-> @.row, name |-> @.name,
                                     answer |-> "none", step |-> "post", config |-> receivers]]
       \/ AnswerChannel(h, "error")
    /\ UNCHANGED <<channel, receivers, late, unsettled, handled>>

\* Mutant: the receivers that were there are not posted again.
NewConfig_Alone(h) == IF handling[h].kind = "publish" THEN {handling[h].row.name} ELSE handling[h].config \ {handling[h].row.name}

\* createContactPointsAndNotificationPolicy, or removeReceiverAndNotificationPolicy, which goes
\* by the name in the row that was read.
NewConfig(h) == IF handling[h].kind = "publish" THEN handling[h].config \cup {handling[h].row.name}
                ELSE handling[h].config \ {handling[h].row.name}

\* Grafana refuses a configuration that has a receiver twice. A publication is answered
\* before its row is written.
UpdateAlertManagerConfig(h) ==
    /\ handling[h].step = "post"
    /\ \/ /\ handling[h].kind = "publish" => handling[h].row.name \notin handling[h].config
          /\ receivers' = NewConfig(h)
          /\ \/ /\ IF handling[h].kind = "publish"
                   THEN AnswerChannel(h, "ok") /\ late' = late \cup {handling[h].of}
                   ELSE Step(h, "write") /\ UNCHANGED late
                /\ UNCHANGED unsettled
             \/ /\ AnswerChannel(h, "error")            \* the reply was lost
                /\ unsettled' = unsettled \cup {handling[h].row.name, handling[h].name} /\ UNCHANGED late
       \/ AnswerChannel(h, "error") /\ UNCHANGED <<receivers, late, unsettled>>
    /\ UNCHANGED <<channel, handled>>

\* Notification.update of an update or a retirement.
WriteRow(h) ==
    /\ handling[h].step = "write"
    /\ \/ /\ NameFree(handling[h].of, handling[h].name)
          /\ channel' = [channel EXCEPT ![handling[h].of] =
                IF handling[h].kind = "update" THEN [status |-> "draft", name |-> handling[h].name]
                ELSE [@ EXCEPT !.status = "retired"]]
          /\ AnswerChannel(h, "ok") /\ UNCHANGED unsettled
       \/ /\ AnswerChannel(h, "error") /\ UNCHANGED channel
          /\ unsettled' = unsettled \cup {handling[h].row.name, handling[h].name}
    /\ UNCHANGED <<receivers, late, handled>>

\* The write that a publication did not wait for.
WriteLate(c) ==
    /\ c \in late
    /\ late' = late \ {c}
    /\ \/ channel' = [channel EXCEPT ![c].status = "live"] /\ UNCHANGED unsettled
       \/ unsettled' = unsettled \cup {channel[c].name} /\ UNCHANGED channel
    /\ UNCHANGED <<receivers, handling, handled>>

\* The API service restarts.
RestartApi ==
    /\ ~ Undisturbed \/ late # {}
    /\ unsettled' = unsettled \cup { channel[c].name : c \in late }
                        \cup UNION { {handling[h].row.name, handling[h].name} : h \in { k \in Handlers : handling[k].step # "idle" } }
    /\ handling' = [h \in Handlers |-> NoJob] /\ late' = {}
    /\ UNCHANGED <<channel, receivers, handled>>

ChannelNext ==
    \/ \E c \in Channels : CreateChannel(c) \/ WriteLate(c)
    \/ \E h \in Handlers :
        \/ \E kind \in {"publish", "update", "retire"}, c \in Channels : BeginChannel(h, kind, c)
        \/ GetAlertManagerConfig(h) \/ UpdateAlertManagerConfig(h) \/ WriteRow(h)
    \/ RestartApi

ChannelSpec == ChannelInit /\ [][ChannelNext]_channelVars

-----------------------------------------------------------------------------
(* Properties *)

\* Between requests, a channel is live if and only if Grafana notifies it under its name,
\* unless its requests overlapped with others, failed after Grafana had taken the
\* configuration, or overtook the row of a publication.
ChannelsAgree ==
    Undisturbed /\ late = {} =>
        \A c \in Stored : channel[c].name \notin unsettled =>
            (channel[c].status = "live" <=> channel[c].name \in receivers)

\* No handler loses a receiver that is not of this service, even if requests overlap, fail or
\* are cut off: each posts what it has read and its own change.
ForeignKept == Foreign \subseteq receivers

\* Grafana notifies the channels that the table says are live, and what others configured.
GrafanaAgrees == ChannelsAgree /\ ForeignKept

\* Whatever went wrong before, a retirement that is answered with success leaves no receiver
\* of the channel in Grafana, if no other request was in progress.
RetirementCleansUp ==
    [][\A h \in Handlers :
        handling[h].step = "write" /\ handling[h].kind = "retire" /\ handling'[h].answer = "ok" /\ unsettled # ChannelNames =>
            channel'[handling[h].of].status = "retired" /\ channel'[handling[h].of].name \notin receivers']_channelVars
=============================================================================
