------------------------------ MODULE AudioQueue ------------------------------
(***************************************************************************)
(* What the endpoint's audio scheduler promises (protocol/messages.md and  *)
(* the endpoint's README): one item is current, a higher priority          *)
(* interrupts it and others wait; the next one is the oldest of those with *)
(* the highest priority.  Tokens grow with every request.                  *)
(***************************************************************************)
EXTENDS Naturals, FiniteSets

CONSTANTS Capacity, Priorities

VARIABLES current, waiting

Item == [token : Nat \ {0}, priority : Priorities]
NoItem == [token |-> 0, priority |-> 0]

QueueInit == current = NoItem /\ waiting = {}

\* A comes before B.
Before(a, b) ==
    \/ a.priority > b.priority
    \/ a.priority = b.priority /\ a.token < b.token

Start ==
    /\ current = NoItem
    /\ current' \in Item
    /\ UNCHANGED waiting

Interrupt ==
    /\ current # NoItem
    /\ current' \in Item
    /\ current'.priority > current.priority
    /\ UNCHANGED waiting

\* The newest item waits.
Wait ==
    /\ current # NoItem
    /\ Cardinality(waiting) < Capacity
    /\ \E item \in waiting' :
         /\ item \in Item
         /\ item.priority <= current.priority
         /\ \A w \in waiting : w.token < item.token
         /\ waiting' = waiting \cup {item}
    /\ UNCHANGED current

Withdraw ==
    /\ \E item \in waiting : waiting' = waiting \ {item}
    /\ UNCHANGED current

\* The current item ends, or is cancelled.
Advance ==
    /\ current # NoItem
    /\ \/ /\ waiting = {}
          /\ current' = NoItem
          /\ UNCHANGED waiting
       \/ /\ current' \in waiting
          /\ \A w \in waiting \ {current'} : Before(current', w)
          /\ waiting' = waiting \ {current'}

QueueNext == Start \/ Interrupt \/ Wait \/ Withdraw \/ Advance

QueueSpec == QueueInit /\ [][QueueNext]_<<current, waiting>>
=============================================================================
