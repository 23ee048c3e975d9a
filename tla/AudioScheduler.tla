---------------------------- MODULE AudioScheduler ----------------------------
(***************************************************************************)
(* roomhub::audio::Scheduler (components/roomhub_audio): the item that     *)
(* owns the speaker and an array of those that wait, kept in order by      *)
(* insertion.  The operations are actions of AudioService, which calls     *)
(* them under its mutex.                                                   *)
(***************************************************************************)
EXTENDS Naturals, Sequences

CONSTANTS
    Capacity,     \* Scheduler::capacity
    Priorities    \* the values of Priority that requests carry

ASSUME SchedulerAssumption == Capacity \in Nat /\ Priorities \subseteq Nat \ {0}

VARIABLES
    active,  \* the active item, or NoItem
    queue    \* the queued ones

Item == [token : Nat \ {0}, priority : Priorities]
NoItem == [token |-> 0, priority |-> 0]

SchedulerTypeOK ==
    /\ active \in Item \cup {NoItem}
    /\ queue \in Seq(Item)
    /\ Len(queue) <= Capacity

SchedulerInit == active = NoItem /\ queue = <<>>

Active(token) == active # NoItem /\ active.token = token

Scheduled(token) ==
    Active(token) \/ \E k \in 1 .. Len(queue) : queue[k].token = token

-----------------------------------------------------------------------------
(* submit                                                                  *)

\* Mutant: an item overtakes those of its own priority.
OvertakesEqual(item, queued) == item.priority >= queued.priority

\* The loop moves a queued item back as long as this holds.
Overtakes(item, queued) == item.priority > queued.priority

\* How many items stay in front of the new one.
Position(item) ==
    CHOOSE k \in 0 .. Len(queue) :
      /\ k = 0 \/ ~ Overtakes(item, queue[k])
      /\ \A j \in k + 1 .. Len(queue) : Overtakes(item, queue[j])

InsertAfter(k, item) ==
    [i \in 1 .. Len(queue) + 1 |->
       IF i <= k THEN queue[i] ELSE IF i = k + 1 THEN item ELSE queue[i - 1]]

Starts(item) ==
    /\ active = NoItem
    /\ active' = item
    /\ UNCHANGED queue

Interrupts(item) ==
    /\ active # NoItem
    /\ item.priority > active.priority
    /\ active' = item
    /\ UNCHANGED queue

Queues(item) ==
    /\ active # NoItem
    /\ item.priority <= active.priority
    /\ Len(queue) < Capacity
    /\ queue' = InsertAfter(Position(item), item)
    /\ UNCHANGED active

-----------------------------------------------------------------------------
(* cancel and complete                                                     *)

StartNext ==
    IF queue = <<>>
      THEN active' = NoItem /\ UNCHANGED queue
      ELSE active' = Head(queue) /\ queue' = Tail(queue)

\* Mutant: the count of queued items stays.
RemovedUncounted(k) ==
    [i \in 1 .. Len(queue) |->
       IF i < k THEN queue[i] ELSE IF i < Len(queue) THEN queue[i + 1] ELSE NoItem]

Removed(k) ==
    [i \in 1 .. Len(queue) - 1 |-> IF i < k THEN queue[i] ELSE queue[i + 1]]

CancelItem(token) ==
    \/ Active(token) /\ StartNext
    \/ /\ ~ Active(token)
       /\ \E k \in 1 .. Len(queue) :
            queue[k].token = token /\ queue' = Removed(k)
       /\ UNCHANGED active

Complete(token) ==
    IF Active(token) THEN StartNext ELSE UNCHANGED <<active, queue>>
=============================================================================
