---------------------------- MODULE DeliveryBook ----------------------------
(***************************************************************************)
(* What RoomHub promises of a notification and a display it is for         *)
(* (protocol/messages.md, "Notifications"): it is sent, waits or is shown, *)
(* is closed, and one outcome is recorded for good.  If it is lost on the  *)
(* way, or its end cannot be reported, nothing is recorded.  Its script    *)
(* runs once at most, after it was closed and before the outcome is        *)
(* recorded, and never for one that is lost.                               *)
(***************************************************************************)
CONSTANTS Ids, Endpoints, Outcomes

Showings == Ids \X Endpoints

Stages == {"none", "sent", "held", "closed", "unreported", "lost"} \cup Outcomes

VARIABLES
    stage,  \* where the notification stands for the display
    runs    \* how often its script was run from there

TypeOK == stage \in [Showings -> Stages] /\ runs \in [Showings -> {0, 1}]

Init ==
    /\ stage = [x \in Showings |-> "none"]
    /\ runs = [x \in Showings |-> 0]

\* A notification that finds no room is closed as it comes.
Onward ==
    {<<"none", "sent">>, <<"sent", "held">>}
      \cup {"sent", "held"} \X {"closed", "unreported"}
      \cup {"closed"} \X {"unreported"}
      \cup {"sent", "held", "closed"} \X {"lost"}
      \cup {"closed"} \X Outcomes

\* A request is for several displays, a lost link or a new notification
\* concerns several notifications.
Advance ==
    /\ stage' \in [Showings -> Stages]
    /\ \A x \in Showings : stage'[x] = stage[x] \/ <<stage[x], stage'[x]>> \in Onward
    /\ UNCHANGED runs

Run(x) ==
    /\ stage[x] \in {"closed", "unreported"} /\ runs[x] = 0
    /\ runs' = [runs EXCEPT ![x] = 1]
    /\ UNCHANGED stage

Next == Advance \/ \E x \in Showings : Run(x)

Spec == Init /\ [][Next]_<<stage, runs>>
=============================================================================
