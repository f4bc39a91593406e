---------------------------- MODULE DatasetStatus ----------------------------
(***************************************************************************)
(* What the services promise about the status of a dataset, whatever the   *)
(* interleaving of requests and the failures: the draft of a dataset is    *)
(* created as Draft and only then becomes ReadyToPublish; a dataset goes   *)
(* Live only by a draft that was found ReadyToPublish; only a dataset that *)
(* has been Live is Retired; and the two tables never change status in     *)
(* the same step.                                                          *)
(***************************************************************************)
CONSTANT Datasets

VARIABLES draftStatus,  \* "none", "Draft" or "ReadyToPublish"
          liveStatus,   \* "none", "Live" or "Retired"
          approved      \* the datasets whose approved draft is being made live

statusVars == <<draftStatus, liveStatus, approved>>

StatusInit ==
    /\ draftStatus = [d \in Datasets |-> "none"]
    /\ liveStatus = [d \in Datasets |-> "none"]
    /\ approved = {}

MoveDraft(d, from, to) ==
    /\ draftStatus[d] \in from
    /\ draftStatus' = [draftStatus EXCEPT ![d] = to]
    /\ UNCHANGED <<liveStatus, approved>>

NewDraft(d) == MoveDraft(d, {"none"}, "Draft")
MakeReady(d) == MoveDraft(d, {"Draft"}, "ReadyToPublish")
Reopen(d)   == MoveDraft(d, {"ReadyToPublish"}, "Draft")
Discard(d)  == MoveDraft(d, {"Draft", "ReadyToPublish"}, "none")

Approve(d) ==
    /\ draftStatus[d] = "ReadyToPublish"
    /\ approved' = approved \cup {d}
    /\ UNCHANGED <<draftStatus, liveStatus>>

Abandon(d) == approved' = approved \ {d} /\ UNCHANGED <<draftStatus, liveStatus>>

GoLive(d) ==
    /\ d \in approved
    /\ approved' = approved \ {d}
    /\ liveStatus' = [liveStatus EXCEPT ![d] = "Live"]
    /\ UNCHANGED draftStatus

Retire(d) ==
    /\ liveStatus[d] = "Live"
    /\ liveStatus' = [liveStatus EXCEPT ![d] = "Retired"]
    /\ UNCHANGED <<draftStatus, approved>>

StatusNext ==
    \E d \in Datasets :
        \/ NewDraft(d) \/ MakeReady(d) \/ Reopen(d) \/ Discard(d)
        \/ Approve(d) \/ Abandon(d) \/ GoLive(d) \/ Retire(d)

StatusSpec == StatusInit /\ [][StatusNext]_statusVars

=============================================================================
