----------------------------- MODULE UpdateBook -----------------------------
(***************************************************************************)
(* What RoomHub promises of the updates of an endpoint ("Endpoint         *)
(* firmware deployments use request IDs and endpoint acknowledgements",    *)
(* roomhub/server/DOCS.md): a deployment is taken up once, one at a time   *)
(* and by an endpoint that runs something older; its status only follows   *)
(* what the endpoint did, and the newest is the one that is followed; and  *)
(* the endpoint changes its image only for the one it took up, or goes     *)
(* back from one that was not confirmed.                                   *)
(***************************************************************************)
EXTENDS Naturals, Sequences

CONSTANTS Versions, Factory

VARIABLES
    orders,  \* the deployments: version and status
    taken,   \* those the endpoint took up
    update,  \* the one it is busy with, 0 for none
    image    \* the version it runs and the one it would fall back to

book == <<orders, taken, update, image>>

Statuses ==
    {"sent", "unacknowledged", "accepted", "restarting", "failed", "completed"}

TypeOK ==
    /\ orders \in Seq([version : Versions, status : Statuses])
    /\ taken \subseteq DOMAIN orders
    /\ update \in taken \cup {0}
    /\ image \in [running : Versions, fallback : Versions \cup {0}]

Init ==
    /\ orders = <<>> /\ taken = {} /\ update = 0
    /\ image = [running |-> Factory, fallback |-> 0]

\* What the endpoint may ever have run.
Held == {Factory} \cup {orders[r].version : r \in taken}

\* A deployment that is under way goes on; one that is over may be found to
\* go on after all.
Onward ==
    {"sent"} \X {"unacknowledged", "accepted"}
      \cup {<<"unacknowledged", "accepted">>}
      \cup (Statuses \ {"restarting"}) \X {"restarting"}
      \cup {"failed", "completed"} \X {"accepted"}
      \cup Statuses \X {"failed", "completed"}

Order(v) ==
    /\ orders' = Append(orders, [version |-> v, status |-> "sent"])
    /\ UNCHANGED <<taken, update, image>>

\* A command that could not be sent may be found out late; all else is
\* recorded of the newest.
Record(r, status) ==
    /\ <<orders[r].status, status>> \in Onward
    /\ r # Len(orders) => status = "failed"
    /\ status \in {"accepted", "restarting"} => r \in taken
    /\ status = "completed" => orders[r].version \in Held
    /\ orders' = [orders EXCEPT ![r].status = status]
    /\ UNCHANGED <<taken, update, image>>

TakeUp(r) ==
    /\ update = 0 /\ r \notin taken
    /\ orders[r].version > image.running
    /\ taken' = taken \cup {r}
    /\ update' = r
    /\ UNCHANGED <<orders, image>>

GiveUp ==
    /\ update' = 0
    /\ UNCHANGED <<orders, taken, image>>

Switch ==
    /\ update # 0
    /\ image' = [running |-> orders[update].version, fallback |-> image.running]
    /\ update' = 0
    /\ UNCHANGED <<orders, taken>>

Confirm ==
    /\ image' = [image EXCEPT !.fallback = 0]
    /\ UNCHANGED <<orders, taken, update>>

GoBack ==
    /\ image.fallback # 0
    /\ image' = [running |-> image.fallback, fallback |-> 0]
    /\ update' = 0
    /\ UNCHANGED <<orders, taken>>

Next ==
    \/ \E v \in Versions : Order(v)
    \/ \E r \in DOMAIN orders : TakeUp(r) \/ \E x \in Statuses : Record(r, x)
    \/ GiveUp \/ Switch \/ Confirm \/ GoBack

Spec == Init /\ [][Next]_book
=============================================================================
