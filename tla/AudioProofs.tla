------------------------------ MODULE AudioProofs ------------------------------
(***************************************************************************)
(* Theorems about AudioService, for every capacity, any number of requests *)
(* and calls: types, the exclusive use of the speaker, that the array of   *)
(* the scheduler implements the abstract queue, that what is scheduled is  *)
(* recorded, and that who is outvoted is asked to stop.                    *)
(***************************************************************************)
EXTENDS AudioService, TLAPS, WellFoundedInduction, SequenceTheorems,
        FiniteSetTheorems

-----------------------------------------------------------------------------
(* The invariants                                                          *)

\* Where a task stands with the intercom stream: it is starting one, has the
\* codec open for one, or is giving one up.
Starting == {"locking", "opening", "listens"}
GivingUp == {"failing", "failed", "closing", "closed"}

\* The service task owns the speaker from Pick to Reported, and has the mutex
\* around what others may not see half done.
ServiceOwns ==
    /\ service.pc # "idle" =>
         service.request \in Tokens /\ playing_token = service.request
    /\ playing_token \in Tokens => service.pc # "idle"
    /\ mutex <=> service.pc \in {"claimed", "ranked", "reporting"}

\* The ring owns it from its claim to its release; no second one is started.
RingOwns ==
    /\ ring \in {"sounding", "closed"} <=> playing_token = RingToken
    /\ caller["handler"] \in {"ranking", "interrupting"} => ring = "none"

\* So does the intercom, and one task at a time is responsible for it: the one
\* that starts it, the one that gives it up, or whoever finds receiving set.
IntercomOwns ==
    /\ playing_token = ReceiveToken =>
         stream \/ \E t \in Tasks : caller[t] \in {"failed", "closed"}
    /\ stream => playing_token = ReceiveToken
    /\ \A t \in Tasks :
         /\ caller[t] \in {"opening", "listens", "failing", "closing"} => stream
         /\ caller[t] \in {"failed", "closed"} =>
              playing_token = ReceiveToken /\ ~ stream
         /\ caller[t] \in Starting => receive_active /\ ~ call.receiving
         /\ caller[t] \in GivingUp => ~ call.receiving
         /\ \A u \in Tasks \ {t} :
              /\ caller[t] \in Starting => caller[u] \notin Starting
              /\ caller[t] \in GivingUp =>
                   caller[u] \notin GivingUp \cup {"opening", "listens"}
    /\ receive_active /\ (\A t \in Tasks : caller[t] # "locking") => stream
    /\ receive_active /\ (\E t \in Tasks : caller[t] \in GivingUp) =>
         \E t \in Tasks : caller[t] = "locking"
    /\ stream /\ (~ receive_active \/ \E t \in Tasks : caller[t] = "locking") =>
         \E t \in Tasks : caller[t] \in {"failing", "closing"}
    /\ call.receiving => receive_active

Ownership == TypeOK /\ ServiceOwns /\ RingOwns /\ IntercomOwns

\* As long as no operation of the talk button crosses the start or the end of a
\* call, one task at a time is about the stream, all that is on belongs to a
\* call the panel was told of, and a stream that is on and is nobody's work is
\* announced by receiving.
InTurn ==
    /\ ~ (Busy("handler") /\ Busy("touch"))
    /\ \/ call.active \/ call.receiving \/ call.talking \/ Busy("touch")
       \/ caller["handler"] \in Starting \cup {"failing", "failed", "deaf"}
       => call.told
    /\ \/ call.talking \/ Busy("touch")
       \/ caller["handler"] \in Starting \cup {"failing", "failed", "deaf"}
       => ~ call.receiving
    /\ caller["touch"] \in {"restarting", "locking", "opening", "listens"} => ~ call.talking
    /\ receive_active => call.receiving \/ \E t \in Tasks : caller[t] \in Starting

Uncrossed == call.crossed \/ InTurn

\* The queue is in order, and tokens are older than the next one.
InOrder ==
    /\ \A i, j \in 1 .. Len(queue) : i < j => Queue!Before(queue[i], queue[j])
    /\ \A i \in 1 .. Len(queue) : queue[i].token < next_token

-----------------------------------------------------------------------------
(* The scheduler                                                           *)

\* Every non-empty set of numbers up to n has a largest.
LEMMA LargestExists ==
    ASSUME NEW n \in Nat, NEW S \in SUBSET (0 .. n), S # {}
    PROVE  \E k \in S : \A j \in S : j <= k
<1> DEFINE T == {n - k : k \in S}
<1>0. S \subseteq 0 .. n
    OBVIOUS
<1>1. T \subseteq Nat /\ T # {}
  <2>1. \A k \in S : n - k \in Nat
      BY <1>0
  <2>2. PICK k \in S : TRUE
      OBVIOUS
  <2>3. n - k \in T
      BY <2>2
  <2> QED
    BY <2>1, <2>3
<1> HIDE DEF T
<1>2. PICK x \in T : \A y \in T : ~ (<<y, x>> \in OpToRel(<, Nat))
    BY <1>1, WFMin, NatLessThanWellFounded, Zenon
<1>3. \A y \in T : x <= y
  <2> SUFFICES ASSUME NEW y \in T, ~ (x <= y) PROVE FALSE
      OBVIOUS
  <2>1. x \in Nat /\ y \in Nat /\ y < x
      BY <1>1
  <2>2. <<y, x>> \in {p \in Nat \X Nat : p[1] < p[2]}
      BY <2>1
  <2> QED
      BY <1>2, <2>1, <2>2, Zenon DEF OpToRel
<1>4. PICK k \in S : x = n - k
    BY DEF T
<1>5. \A j \in S : j <= k
  <2> TAKE j \in S
  <2>1. n - j \in T
      BY DEF T
  <2> QED
    BY <1>0, <1>3, <1>4, <2>1
<1> QED
    BY <1>5

\* The insertion loop stops somewhere, and Position is where.
LEMMA PositionStops ==
    ASSUME queue \in Seq(Item), NEW item
    PROVE  /\ Position(item) \in 0 .. Len(queue)
           /\ Position(item) = 0 \/ ~ Overtakes(item, queue[Position(item)])
           /\ \A j \in Position(item) + 1 .. Len(queue) : Overtakes(item, queue[j])
<1> DEFINE S == {k \in 0 .. Len(queue) : k = 0 \/ ~ Overtakes(item, queue[k])}
<1>1. S \in SUBSET (0 .. Len(queue)) /\ 0 \in S /\ Len(queue) \in Nat
    OBVIOUS
<1>2. PICK k \in S : \A j \in S : j <= k
  <2> HIDE DEF S
  <2> QED
    BY <1>1, LargestExists
<1>3. \A j \in k + 1 .. Len(queue) : Overtakes(item, queue[j])
    BY <1>1, <1>2
<1> QED
    BY <1>2, <1>3 DEF Position

\* What insertion does to the array.
LEMMA InsertionType ==
    ASSUME queue \in Seq(Item), NEW item \in Item,
           NEW k \in 0 .. Len(queue)
    PROVE  /\ InsertAfter(k, item) \in Seq(Item)
           /\ Len(InsertAfter(k, item)) = Len(queue) + 1
           /\ {InsertAfter(k, item)[i] : i \in 1 .. Len(queue) + 1}
                = {queue[i] : i \in 1 .. Len(queue)} \cup {item}
<1> DEFINE n == Len(queue)
           q == InsertAfter(k, item)
<1>1. n \in Nat /\ k \in 0 .. n /\ \A i \in 1 .. n : queue[i] \in Item
    OBVIOUS
<1>2. \A i \in 1 .. n + 1 : q[i] \in Item
    BY <1>1 DEF InsertAfter
<1>3. q \in Seq(Item) /\ Len(q) = n + 1
    BY <1>1, <1>2, IsASeq DEF InsertAfter
<1>4. \A i \in 1 .. n : \E j \in 1 .. n + 1 : q[j] = queue[i]
  <2> TAKE i \in 1 .. n
  <2>1. CASE i <= k
      BY <2>1, <1>1 DEF InsertAfter
  <2>2. CASE i > k
    <3>1. q[i + 1] = queue[i]
        BY <2>2, <1>1 DEF InsertAfter
    <3> QED
      BY <3>1, <1>1
  <2> QED
    BY <2>1, <2>2, <1>1
<1>5. k + 1 \in 1 .. n + 1 /\ q[k + 1] = item
    BY <1>1 DEF InsertAfter
<1>6. \A j \in 1 .. n + 1 : q[j] = item \/ \E i \in 1 .. n : q[j] = queue[i]
    BY <1>1 DEF InsertAfter
<1>7. {q[i] : i \in 1 .. n + 1} = {queue[i] : i \in 1 .. n} \cup {item}
  <2> HIDE DEF q, n
  <2>1. ASSUME NEW x \in {q[i] : i \in 1 .. n + 1}
        PROVE  x \in {queue[i] : i \in 1 .. n} \cup {item}
    <3>1. PICK j \in 1 .. n + 1 : x = q[j]
        BY <2>1
    <3> QED
      BY <3>1, <1>6
  <2>2. ASSUME NEW x \in {queue[i] : i \in 1 .. n}
        PROVE  x \in {q[i] : i \in 1 .. n + 1}
    <3>1. PICK i \in 1 .. n : x = queue[i]
        BY <2>2
    <3>2. PICK j \in 1 .. n + 1 : q[j] = queue[i]
        BY <1>4
    <3> QED
      BY <3>1, <3>2
  <2>3. item \in {q[i] : i \in 1 .. n + 1}
      BY <1>5
  <2> QED
    BY <2>1, <2>2, <2>3
<1> QED
    BY <1>3, <1>7

\* What the removal of an item does to it.
LEMMA RemovalType ==
    ASSUME queue \in Seq(Item), NEW k \in 1 .. Len(queue)
    PROVE  /\ Removed(k) \in Seq(Item)
           /\ Len(Removed(k)) = Len(queue) - 1
<1> DEFINE n == Len(queue)
<1>1. n \in Nat /\ k \in 1 .. n /\ \A i \in 1 .. n : queue[i] \in Item
    OBVIOUS
<1>2. n - 1 \in Nat /\ \A i \in 1 .. n - 1 : i \in 1 .. n /\ i + 1 \in 1 .. n
    BY <1>1
<1>3. \A i \in 1 .. n - 1 : (IF i < k THEN queue[i] ELSE queue[i + 1]) \in Item
    BY <1>1, <1>2
<1> QED
    BY <1>2, <1>3, IsASeq DEF Removed

-----------------------------------------------------------------------------
(* Types                                                                   *)

\* start_next keeps the types.
LEMMA StartNextType ==
    ASSUME SchedulerTypeOK, StartNext
    PROVE  SchedulerTypeOK'
<1>1. queue \in Seq(Item) /\ Len(queue) \in Nat /\ Len(queue) <= Capacity
    BY DEF SchedulerTypeOK
<1>2. CASE queue = <<>>
    BY <1>1, <1>2 DEF SchedulerTypeOK, StartNext
<1>3. CASE queue # <<>>
  <2>1. active' = Head(queue) /\ queue' = Tail(queue)
      BY <1>3 DEF StartNext
  <2>2. Head(queue) \in Item /\ Tail(queue) \in Seq(Item)
        /\ Len(Tail(queue)) = Len(queue) - 1
      BY <1>1, <1>3
  <2> QED
    BY <2>1, <2>2, <1>1, SchedulerAssumption DEF SchedulerTypeOK
<1> QED
  BY <1>2, <1>3

\* So does Scheduler::cancel,
LEMMA CancelItemType ==
    ASSUME SchedulerTypeOK, NEW token, CancelItem(token)
    PROVE  SchedulerTypeOK'
<1>1. CASE StartNext
    BY <1>1, StartNextType
<1>2. ASSUME NEW k \in 1 .. Len(queue), queue' = Removed(k), UNCHANGED active
      PROVE  SchedulerTypeOK'
  <2>1. queue \in Seq(Item) /\ Len(queue) \in Nat /\ Len(queue) <= Capacity
      BY DEF SchedulerTypeOK
  <2>2. Removed(k) \in Seq(Item) /\ Len(Removed(k)) = Len(queue) - 1
      BY <2>1, RemovalType
  <2> QED
    BY <1>2, <2>1, <2>2, SchedulerAssumption DEF SchedulerTypeOK
<1> QED
  BY <1>1, <1>2 DEF CancelItem

\* and the insertion of Scheduler::submit.
LEMMA QueuesType ==
    ASSUME SchedulerTypeOK, NEW item \in Item, Queues(item)
    PROVE  SchedulerTypeOK'
<1>1. queue \in Seq(Item) /\ Len(queue) \in Nat /\ Len(queue) < Capacity
    BY DEF SchedulerTypeOK, Queues
<1>2. Position(item) \in 0 .. Len(queue)
    BY <1>1, PositionStops
<1>3. InsertAfter(Position(item), item) \in Seq(Item)
      /\ Len(InsertAfter(Position(item), item)) = Len(queue) + 1
    BY <1>1, <1>2, InsertionType
<1> QED
  BY <1>1, <1>3, SchedulerAssumption DEF SchedulerTypeOK, Queues

\* A record that changes state stays a record.
LEMMA MarkedType ==
    ASSUME records \subseteq Record, NEW token,
           NEW state \in {"queued", "playing"} \cup Final
    PROVE  Marked(token, state) \subseteq Record
<1> SUFFICES ASSUME NEW r \in records
             PROVE  [r EXCEPT !.state = IF r.token = token THEN state ELSE @] \in Record
    BY DEF Marked
<1>1. r \in Record
    OBVIOUS
<1> QED
    BY <1>1 DEF Record

\* Everything that Submit changes.
LEMMA SubmitType ==
    ASSUME TypeOK, NEW priority \in Priorities, NEW retained \in BOOLEAN,
           Submit(priority, retained)
    PROVE  /\ SchedulerTypeOK'
           /\ next_token \in Tokens
           /\ records' \subseteq Record
           /\ next_token' \in 1 .. MaxToken + 1
<1> DEFINE item == [token |-> next_token, priority |-> priority]
<1>1. next_token \in Tokens
    BY AudioBounds DEF TypeOK, Submit, Tokens
<1>2. item \in Item
    BY <1>1, AudioBounds DEF Item, Tokens
<1>3. SchedulerTypeOK'
  <2>1. SchedulerTypeOK
      BY DEF TypeOK
  <2>2. CASE Queues(item)
      BY <1>2, <2>1, <2>2, QueuesType
  <2>3. CASE Starts(item) \/ Interrupts(item)
      BY <1>2, <2>1, <2>3 DEF SchedulerTypeOK, Starts, Interrupts
  <2> QED
    BY <2>2, <2>3 DEF Submit
<1>4. /\ records' = records \cup
          {[token |-> next_token, retained |-> retained,
            state |-> IF queue' # queue THEN "queued" ELSE "playing"]}
      /\ next_token' = next_token + 1
      /\ next_token <= MaxToken
    BY DEF Submit, Accepted
<1>5. records' \subseteq Record
    BY <1>1, <1>4 DEF TypeOK, Record
<1>6. next_token' \in 1 .. MaxToken + 1
    BY <1>1, <1>4, AudioBounds DEF Tokens
<1> QED
    BY <1>1, <1>3, <1>5, <1>6

\* Everything that Cancel changes.
LEMMA CancelType ==
    ASSUME TypeOK, NEW token, Cancel(token)
    PROVE  /\ SchedulerTypeOK'
           /\ records' \subseteq Record
<1>1. SchedulerTypeOK'
    BY CancelItemType DEF Cancel, TypeOK
<1>2. records' \subseteq Record
    BY MarkedType DEF Cancel, TypeOK, Final
<1> QED
    BY <1>1, <1>2

\* The flags, on their own: each is kept or assigned a truth value.
LEMMA FlagsStep ==
    ASSUME FlagsTypeOK, [Next]_vars
    PROVE  FlagsTypeOK'
<1>1. CASE ServiceStep
    BY <1>1, Zenon DEF ServiceStep, Pick, Rank, StartPlaying, PlayEnds, Reported,
       FlagsTypeOK, receive
<1>2. CASE RingStep
    BY <1>2, Zenon DEF RingStep, RingClaims, RingGivesUp, RingEnds, RingReleases,
       FlagsTypeOK, receive
<1>3. CASE HandlerStep
    BY <1>3, Zenon DEF HandlerStep, Play, Submit, Stop, Cancel, Ring, RingRanks,
       RingInterrupts, CallActive, CallEnds, CallDropped, StartReceive, StopReceive,
       FlagsTypeOK, receive
<1>4. CASE TouchStep
    BY <1>4, Zenon DEF TouchStep, TalkPressed, Talks, TalkReleased, TalkRestarts, StartReceive,
       StopReceive, FlagsTypeOK, receive
<1>5. CASE WakeStep
    BY <1>5, Zenon DEF WakeStep, WakeWord, WakeRanks, WakeInterrupts, VoiceAnswered,
       VoicePolls, Submit, Cancel, FlagsTypeOK, receive
<1>6. ASSUME NEW t \in Tasks, ReceiveStep(t)
      PROVE  FlagsTypeOK'
    BY <1>6, Zenon DEF ReceiveStep, ReceiveClaims, ReceiveRefused, ReceiveOpens,
       ReceiveCloses, ReceiveReleases, Started, FlagsTypeOK, receive
<1>7. CASE UNCHANGED vars
    BY <1>7, Zenon DEF vars, receive, FlagsTypeOK
<1> QED
  BY <1>1, <1>2, <1>3, <1>4, <1>5, <1>6, <1>7 DEF Next

\* The initial state has the types,
LEMMA TypeInit ==
    ASSUME Init
    PROVE  TypeOK
<1>1. SchedulerTypeOK
    BY SchedulerAssumption DEF Init, SchedulerInit, SchedulerTypeOK
<1>2. FlagsTypeOK
    BY Zenon DEF Init, FlagsTypeOK
<1> QED
  BY <1>1, <1>2, AudioBounds DEF Init, TypeOK, ReceiveToken

\* and every step keeps them.
LEMMA TypeStep ==
    ASSUME TypeOK, [Next]_vars
    PROVE  TypeOK'
<1> USE AudioBounds, PriorityAssumption
<1>0. FlagsTypeOK'
    BY FlagsStep DEF TypeOK
<1>1. ASSUME NEW p \in Priorities, Play(p)
      PROVE  TypeOK'
  <2>1. Submit(p, FALSE)
      BY <1>1 DEF Play
  <2>2. /\ SchedulerTypeOK' /\ records' \subseteq Record
        /\ next_token' \in 1 .. MaxToken + 1
      BY <2>1, SubmitType, Zenon
  <2> QED
    BY <1>0, <1>1, <2>2 DEF Play, TypeOK, owner, ringing, receive
<1>2. CASE Stop
    BY <1>0, <1>2, CancelType DEF Stop, TypeOK, owner, ringing, receive
<1>3. CASE Pick
  <2>1. PICK r \in records : /\ records' = Marked(r.token, "playing")
                             /\ playing_token' = r.token
                             /\ At("claimed", r.token)
      BY <1>0, <1>3 DEF Pick
  <2>2. r.token \in Tokens
      BY DEF TypeOK, Record
  <2>3. records' \subseteq Record
      BY <2>1, MarkedType DEF TypeOK
  <2> QED
    BY <1>0, <1>3, <2>1, <2>2, <2>3 DEF Pick, TypeOK, SchedulerTypeOK, sched, ringing,
       receive, At, Tokens, ReceiveToken
<1>4. CASE Rank
  <2>1. active.priority \in Priorities \cup {0}
      BY DEF TypeOK, SchedulerTypeOK, Item, NoItem
  <2> QED
    BY <1>0, <1>4, <2>1 DEF Rank, TypeOK, SchedulerTypeOK, sched, store, ringing, receive, At
<1>5. CASE StartPlaying
    BY <1>0, <1>5 DEF StartPlaying, TypeOK, SchedulerTypeOK, sched, store, owner, ringing,
       receive, At
<1>6. ASSUME NEW result \in Final, PlayEnds(result)
      PROVE  TypeOK'
  <2>1. records' \subseteq Record
      BY <1>0, <1>6, MarkedType DEF PlayEnds, TypeOK
  <2> QED
    BY <1>0, <1>6, <2>1 DEF PlayEnds, TypeOK, SchedulerTypeOK, sched, owner, ringing,
       receive, At
<1>7. CASE Reported
  <2>1. SchedulerTypeOK'
      BY <1>0, <1>7, StartNextType DEF Reported, Complete, TypeOK, SchedulerTypeOK
  <2> QED
    BY <1>0, <1>7, <2>1 DEF Reported, TypeOK, ringing, receive, At, ReceiveToken
<1>8. CASE RingStep
    BY <1>0, <1>8 DEF RingStep, RingClaims, RingGivesUp, RingEnds, RingReleases, TypeOK,
       SchedulerTypeOK, sched, store, owner, receive, RingToken, ReceiveToken
<1>9. CASE Ring \/ RingRanks \/ RingInterrupts
    BY <1>0, <1>9 DEF Ring, RingRanks, RingInterrupts, TaskStarts, Goes, TypeOK,
       SchedulerTypeOK, sched, store, owner, receive
<1>10. ASSUME NEW t \in Tasks, ReceiveStep(t)
       PROVE  TypeOK'
  <2>1. CASE ReceiveClaims(t) \/ ReceiveRefused(t) \/ ReceiveReleases(t)
      BY <1>0, <2>1 DEF ReceiveClaims, ReceiveRefused, ReceiveReleases, Goes, TypeOK,
         SchedulerTypeOK, sched, store, owner, ringing, receive, ReceiveToken
  <2>2. CASE ReceiveOpens(t) \/ ReceiveCloses(t)
      BY <1>0, <2>2 DEF ReceiveOpens, ReceiveCloses, Goes, TypeOK, SchedulerTypeOK, sched,
         store, owner, ringing
  <2>3. CASE Started(t)
    <3> DEFINE heard == caller[t] = "listens"
    <3>1. heard \in BOOLEAN /\ call' = IF t = "handler"
            THEN [call EXCEPT !.receiving = heard, !.active = TRUE, !.talking = FALSE]
            ELSE [call EXCEPT !.receiving = heard]
        BY <2>3, Zenon DEF Started
    <3>2. call' \in [told : BOOLEAN, active : BOOLEAN, receiving : BOOLEAN,
                     talking : BOOLEAN, crossed : BOOLEAN, number : 0 .. MaxCalls]
      <4> HIDE DEF heard
      <4> QED
        BY <3>1 DEF TypeOK
    <3> QED
      BY <1>0, <2>3, <3>2 DEF Started, Goes, TypeOK, SchedulerTypeOK, sched, store,
         owner, ringing, receive
  <2> QED
    BY <1>10, <2>1, <2>2, <2>3 DEF ReceiveStep
<1>11. CASE CallActive
  <2>1. call.number + 1 \in 0 .. MaxCalls
      BY <1>11 DEF CallActive, TypeOK
  <2>2. call' = [call EXCEPT !.told = TRUE, !.number = call.number + 1,
                             !.crossed = call.crossed \/ Busy("touch")]
      BY <1>11, Zenon DEF CallActive
  <2>3. call' \in [told : BOOLEAN, active : BOOLEAN, receiving : BOOLEAN,
                   talking : BOOLEAN, crossed : BOOLEAN, number : 0 .. MaxCalls]
    <3>1. (call.crossed \/ Busy("touch")) \in BOOLEAN
        BY DEF TypeOK, Busy
    <3> QED
      BY <2>1, <2>2, <3>1 DEF TypeOK
  <2>4. UNCHANGED <<sched, store, owner, cancel_requested, mutex, service, ringing, wake>>
      BY <1>11, Zenon DEF CallActive
  <2>5. caller' = [caller EXCEPT !["handler"] = "deaf"]
          \/ caller' = [caller EXCEPT !["handler"] = "locking"]
      BY <1>11, Zenon DEF CallActive, StartReceive, Goes
  <2> QED
    BY <1>0, <2>3, <2>4, <2>5 DEF TypeOK, SchedulerTypeOK, sched, store, owner, ringing
<1>12. CASE CallEnds \/ CallDropped
  <2>1. CASE CallEnds
    <3> DEFINE crossed == call.crossed \/ Busy("touch")
    <3>1. crossed \in BOOLEAN
        BY DEF TypeOK, Busy
    <3>2. call' = [call EXCEPT !.told = FALSE, !.active = FALSE, !.talking = FALSE,
                               !.receiving = FALSE, !.crossed = crossed]
        BY <2>1, Zenon DEF CallEnds
    <3>3. call' \in [told : BOOLEAN, active : BOOLEAN, receiving : BOOLEAN,
                     talking : BOOLEAN, crossed : BOOLEAN, number : 0 .. MaxCalls]
      <4> HIDE DEF crossed
      <4> QED
        BY <3>1, <3>2 DEF TypeOK
    <3> QED
      BY <1>0, <2>1, <3>3 DEF CallEnds, StopReceive, Goes, TypeOK, SchedulerTypeOK,
         sched, store, owner, ringing, receive
  <2>2. CASE CallDropped
    <3>1. call' \in [told : BOOLEAN, active : BOOLEAN, receiving : BOOLEAN,
                     talking : BOOLEAN, crossed : BOOLEAN, number : 0 .. MaxCalls]
        BY <2>2 DEF CallDropped, TypeOK
    <3> QED
      BY <1>0, <2>2, <3>1 DEF CallDropped, TypeOK, SchedulerTypeOK, sched, store, owner,
         ringing, receive
  <2> QED
    BY <1>12, <2>1, <2>2
<1>13. CASE TouchStep
  <2>1. CASE TalkPressed \/ TalkReleased
    <3> DEFINE crossed == call.crossed \/ Busy("handler")
    <3>1. crossed \in BOOLEAN
        BY DEF TypeOK, Busy
    <3>2. \/ call' = [call EXCEPT !.receiving = FALSE, !.crossed = crossed]
          \/ call' = [call EXCEPT !.talking = FALSE, !.crossed = crossed]
        BY <2>1, Zenon DEF TalkPressed, TalkReleased
    <3>3. call' \in [told : BOOLEAN, active : BOOLEAN, receiving : BOOLEAN,
                     talking : BOOLEAN, crossed : BOOLEAN, number : 0 .. MaxCalls]
      <4> HIDE DEF crossed
      <4> QED
        BY <3>1, <3>2 DEF TypeOK
    <3>4. \/ caller' = caller
          \/ \E pc \in {"closing", "silent", "restarting"} :
               caller' = [caller EXCEPT !["touch"] = pc]
        BY <2>1 DEF TalkPressed, TalkReleased, StopReceive, Goes
    <3>5. UNCHANGED <<sched, store, owner, cancel_requested, mutex, service, ringing, wake>>
        BY <2>1, Zenon DEF TalkPressed, TalkReleased
    <3> QED
      BY <1>0, <3>3, <3>4, <3>5 DEF TypeOK, SchedulerTypeOK, sched, store, owner, ringing
  <2>2. CASE Talks \/ TalkRestarts
      BY <1>0, <2>2 DEF Talks, TalkRestarts, StartReceive, Goes, TypeOK,
         SchedulerTypeOK, sched, store, owner, ringing, receive
  <2> QED
    BY <1>13, <2>1, <2>2 DEF TouchStep
<1>14. CASE WakeWord \/ WakeRanks
    BY <1>0, <1>14 DEF WakeWord, WakeRanks, WakeGoes, TypeOK, SchedulerTypeOK, sched, store,
       owner, ringing, receive
<1>15. CASE WakeInterrupts
  <2>1. SchedulerTypeOK' /\ records' \subseteq Record
      BY <1>0, <1>15, CancelType DEF WakeInterrupts, TypeOK, SchedulerTypeOK, sched
  <2> QED
    BY <1>0, <1>15, <2>1 DEF WakeInterrupts, WakeGoes, TypeOK, owner, ringing, receive
<1>16. CASE VoiceAnswered
  <2>1. CASE Submit(VoiceAssistant, TRUE) /\ wake' = [pc |-> "answering", token |-> next_token]
    <3>1. /\ SchedulerTypeOK' /\ records' \subseteq Record
          /\ next_token \in Tokens /\ next_token' \in 1 .. MaxToken + 1
        BY <2>1, PriorityAssumption, SubmitType, Zenon
    <3> QED
      BY <1>0, <1>16, <2>1, <3>1 DEF VoiceAnswered, TypeOK, owner, ringing, receive
  <2>2. CASE WakeGoes("waiting") /\ UNCHANGED <<sched, store, cancel_requested>>
      BY <1>0, <1>16, <2>2 DEF VoiceAnswered, WakeGoes, TypeOK, SchedulerTypeOK, sched,
         store, owner, ringing, receive
  <2> QED
    BY <1>0, <1>16, <2>1, <2>2 DEF VoiceAnswered
<1>17. CASE VoicePolls
    BY <1>0, <1>17 DEF VoicePolls, WakeGoes, TypeOK, SchedulerTypeOK, sched, owner, ringing,
       receive
<1>18. CASE UNCHANGED vars
    BY <1>0, <1>18 DEF vars, TypeOK, SchedulerTypeOK, sched, store, owner, ringing, receive
<1> QED
  BY <1>1, <1>2, <1>3, <1>4, <1>5, <1>6, <1>7, <1>8, <1>9, <1>10, <1>11, <1>12,
     <1>13, <1>14, <1>15, <1>16, <1>17, <1>18
  DEF Next, ServiceStep, HandlerStep, WakeStep

\* Every reachable state has the types: the queue never exceeds its array and
\* the tokens that own the speaker are those of requests or the two reserved.
THEOREM AudioTypeCorrect == Spec => []TypeOK
<1>1. Init => TypeOK
    BY TypeInit
<1>2. TypeOK /\ [Next]_vars => TypeOK'
    BY TypeStep
<1> QED
  BY <1>1, <1>2, PTL DEF Spec

-----------------------------------------------------------------------------
(* The owner of the speaker                                                *)

\* No two owners have the same token.
LEMMA OwnersDiffer ==
    /\ 0 \notin Tokens /\ RingToken \notin Tokens /\ ReceiveToken \notin Tokens
    /\ 0 # RingToken /\ 0 # ReceiveToken /\ RingToken # ReceiveToken
BY AudioBounds DEF Tokens, RingToken, ReceiveToken

\* The ownership invariant holds initially.
LEMMA OwnershipInit ==
    ASSUME Init
    PROVE  Ownership
<1>1. ServiceOwns /\ RingOwns
    BY OwnersDiffer DEF Init, ServiceOwns, RingOwns
<1>2. IntercomOwns
    BY OwnersDiffer DEF Init, IntercomOwns, Starting, GivingUp, Tasks
<1> QED
  BY <1>1, <1>2, TypeInit DEF Ownership

\* Every step keeps what is said of the service task,
LEMMA ServiceOwnsStep ==
    ASSUME Ownership, [Next]_vars
    PROVE  ServiceOwns'
<1> USE OwnersDiffer DEF Ownership, ServiceOwns
<1>1. CASE ServiceStep
  <2>1. CASE Pick
    <3>1. service'.pc = "claimed" /\ service'.request = playing_token'
        BY <2>1 DEF Pick, At
    <3>2. playing_token' \in Tokens /\ mutex'
        BY <2>1 DEF Pick, TypeOK, Record
    <3> QED
      BY <3>1, <3>2
  <2>2. CASE Rank
      BY <2>2 DEF Rank, At
  <2>3. CASE StartPlaying
      BY <2>3 DEF StartPlaying, At, owner
  <2>4. ASSUME NEW result \in Final, PlayEnds(result)
        PROVE  ServiceOwns'
      BY <2>4 DEF PlayEnds, At, owner
  <2>5. CASE Reported
      BY <2>5 DEF Reported, At
  <2> QED
    BY <1>1, <2>1, <2>2, <2>3, <2>4, <2>5 DEF ServiceStep
<1>2. CASE RingStep
    BY <1>2 DEF RingStep, RingClaims, RingGivesUp, RingEnds, RingReleases, owner
<1>3. ASSUME NEW t \in Tasks, ReceiveStep(t)
      PROVE  ServiceOwns'
  <2>1. CASE ReceiveClaims(t) \/ ReceiveReleases(t)
    BY <2>1, <1>3 DEF ReceiveClaims, ReceiveReleases, IntercomOwns, owner
  <2>2. CASE UNCHANGED <<owner, mutex, service>>
    BY <2>2 DEF owner
  <2> QED
    BY <1>3, <2>1, <2>2 DEF ReceiveStep, ReceiveRefused, ReceiveOpens, ReceiveCloses,
       Started, owner
<1>4. CASE UNCHANGED <<owner, mutex, service>>
    BY <1>4 DEF owner
<1> QED
  BY <1>1, <1>2, <1>3, <1>4
  DEF Next, vars, HandlerStep, Play, Stop, Ring, RingRanks, RingInterrupts, CallActive,
      CallEnds, CallDropped, TouchStep, TalkPressed, Talks, TalkReleased, TalkRestarts, WakeStep,
      WakeWord, WakeRanks, WakeInterrupts, VoiceAnswered, VoicePolls

\* of the ring,
LEMMA RingOwnsStep ==
    ASSUME Ownership, [Next]_vars
    PROVE  RingOwns'
<1> USE OwnersDiffer DEF Ownership, RingOwns
<1>1. CASE ServiceStep
  <2>1. CASE Pick
    <3>1. playing_token' \in Tokens /\ playing_token = 0 /\ UNCHANGED <<ring, caller>>
        BY <2>1 DEF Pick, TypeOK, Record, ringing
    <3> QED
      BY <3>1
  <2>2. CASE Reported
      BY <2>2 DEF Reported, ServiceOwns, ringing
  <2>3. CASE UNCHANGED <<playing_token, ring, caller>>
      BY <2>3
  <2> QED
    BY <1>1, <2>1, <2>2, <2>3 DEF ServiceStep, Rank, StartPlaying, PlayEnds, owner,
       ringing
<1>2. CASE RingStep
    BY <1>2 DEF RingStep, RingClaims, RingGivesUp, RingEnds, RingReleases, owner,
       ServiceOwns
<1>3. ASSUME NEW t \in Tasks, ReceiveStep(t)
      PROVE  RingOwns'
  <2>1. /\ UNCHANGED ring
        /\ \E pc : /\ pc \notin {"ranking", "interrupting"}
                  /\ caller' = [caller EXCEPT ![t] = pc]
    <3>1. UNCHANGED ring
        BY <1>3 DEF ReceiveStep, ReceiveClaims, ReceiveRefused, ReceiveOpens,
           ReceiveCloses, ReceiveReleases, Started, ringing
    <3>2. \E pc \in {"idle", "opening", "listens", "deaf", "failing", "failed",
                    "closed", "silent"} : Goes(t, pc)
        BY <1>3, Zenon DEF ReceiveStep, ReceiveClaims, ReceiveRefused, ReceiveOpens,
           ReceiveCloses, ReceiveReleases, Started
    <3> QED
      BY <3>1, <3>2 DEF Goes
  <2>2. CASE ReceiveClaims(t) \/ ReceiveReleases(t)
    BY <2>1, <2>2, <1>3 DEF ReceiveClaims, ReceiveReleases, IntercomOwns, TypeOK, owner
  <2>3. CASE UNCHANGED playing_token
    BY <2>1, <2>3 DEF TypeOK
  <2> QED
    BY <1>3, <2>2, <2>3 DEF ReceiveStep, ReceiveRefused, ReceiveOpens, ReceiveCloses,
       Started, owner
<1>4. CASE Ring \/ RingRanks \/ RingInterrupts
    BY <1>4 DEF Ring, RingRanks, RingInterrupts, TaskStarts, Goes, TypeOK, Tasks, owner
<1>5. CASE CallActive \/ CallEnds \/ TouchStep
    BY <1>5 DEF CallActive, CallEnds, TouchStep, TalkPressed, Talks, TalkReleased, TalkRestarts,
       StartReceive, StopReceive, Goes, TypeOK, Tasks, owner, ringing, receive
<1>6. CASE UNCHANGED <<playing_token, ring, caller>>
    BY <1>6
<1> QED
  BY <1>1, <1>2, <1>3, <1>4, <1>5, <1>6
  DEF Next, vars, HandlerStep, Play, Stop, CallDropped, WakeStep, WakeWord, WakeRanks,
      WakeInterrupts, VoiceAnswered, VoicePolls, owner, ringing

\* and of the intercom.
LEMMA IntercomOwnsStep ==
    ASSUME Ownership, [Next]_vars
    PROVE  IntercomOwns'
<1> USE OwnersDiffer DEF Ownership
<1>1. CASE ServiceStep
  <2>1. UNCHANGED <<receive_active, stream, caller, call>>
      BY <1>1 DEF ServiceStep, Pick, Rank, StartPlaying, PlayEnds, Reported, receive
  <2>2. (playing_token' = ReceiveToken) <=> (playing_token = ReceiveToken)
    <3>1. CASE Pick
        BY <3>1 DEF Pick, TypeOK, Record
    <3>2. CASE Reported
        BY <3>2 DEF Reported, ServiceOwns
    <3> QED
      BY <1>1, <3>1, <3>2 DEF ServiceStep, Rank, StartPlaying, PlayEnds, owner
  <2> QED
    BY <2>1, <2>2 DEF IntercomOwns
<1>2. CASE RingStep
  <2>1. UNCHANGED <<receive_active, stream, caller, call>>
      BY <1>2 DEF RingStep, RingClaims, RingGivesUp, RingEnds, RingReleases, receive
  <2>2. (playing_token' = ReceiveToken) <=> (playing_token = ReceiveToken)
      BY <1>2 DEF RingStep, RingClaims, RingGivesUp, RingEnds, RingReleases, owner
  <2> QED
    BY <2>1, <2>2 DEF IntercomOwns
<1>3. ASSUME NEW t \in Tasks, ReceiveStep(t)
      PROVE  IntercomOwns'
  <2>1. CASE ReceiveClaims(t)
      BY <2>1 DEF ReceiveClaims, IntercomOwns, Goes, TypeOK, Starting, GivingUp, receive
  <2>2. CASE ReceiveRefused(t)
      BY <2>2 DEF ReceiveRefused, IntercomOwns, Goes, TypeOK, Starting, GivingUp, owner
  <2>3. CASE ReceiveOpens(t)
      BY <2>3 DEF ReceiveOpens, IntercomOwns, Goes, TypeOK, Starting, GivingUp, owner
  <2>4. CASE ReceiveCloses(t)
      BY <2>4 DEF ReceiveCloses, IntercomOwns, Goes, TypeOK, Starting, GivingUp, owner
  <2>5. CASE ReceiveReleases(t)
      BY <2>5 DEF ReceiveReleases, IntercomOwns, Goes, TypeOK, Starting, GivingUp,
         ServiceOwns, owner, receive
  <2>6. CASE Started(t)
      BY <2>6 DEF Started, IntercomOwns, Goes, TypeOK, Starting, GivingUp, owner, receive
  <2> QED
    BY <1>3, <2>1, <2>2, <2>3, <2>4, <2>5, <2>6 DEF ReceiveStep
<1>4. CASE CallActive
    BY <1>4 DEF CallActive, StartReceive, IntercomOwns, Goes, TypeOK, Tasks, Starting,
       GivingUp, owner
<1>5. CASE CallEnds
    BY <1>5 DEF CallEnds, StopReceive, IntercomOwns, Goes, TypeOK, Tasks, Starting,
       GivingUp, owner, receive
<1>6. CASE TalkPressed
    BY <1>6 DEF TalkPressed, StopReceive, IntercomOwns, Goes, TypeOK, Tasks, Starting,
       GivingUp, owner, receive
<1>7. CASE TalkRestarts
    BY <1>7 DEF TalkRestarts, StartReceive, IntercomOwns, Goes, TypeOK, Tasks, Starting,
       GivingUp, owner, receive
<1>8. CASE Ring \/ RingRanks \/ RingInterrupts
    BY <1>8 DEF Ring, RingRanks, RingInterrupts, TaskStarts, IntercomOwns, Goes, TypeOK,
       Tasks, Starting, GivingUp, owner, receive
<1>9. CASE CallDropped
  <2>1. UNCHANGED <<owner, receive, caller>> /\ call'.receiving = call.receiving
      BY <1>9 DEF CallDropped, TypeOK
  <2> QED
    BY <2>1 DEF IntercomOwns, owner, receive
<1>10. CASE Talks
  <2>1. UNCHANGED <<owner, receive>> /\ call'.receiving = call.receiving
      BY <1>10 DEF Talks, TypeOK
  <2>2. caller["touch"] = "silent" /\ caller' = [caller EXCEPT !["touch"] = "idle"]
      BY <1>10 DEF Talks, Goes
  <2> QED
    BY <2>1, <2>2 DEF IntercomOwns, TypeOK, Starting, GivingUp, owner, receive
<1>12. CASE TalkReleased
  <2>1. UNCHANGED <<owner, receive>> /\ call'.receiving = call.receiving
      BY <1>12 DEF TalkReleased, TypeOK
  <2>2. caller["touch"] = "idle"
        /\ \E pc \in {"idle", "restarting"} : caller' = [caller EXCEPT !["touch"] = pc]
      BY <1>12 DEF TalkReleased, Goes, TypeOK
  <2> QED
    BY <2>1, <2>2 DEF IntercomOwns, TypeOK, Starting, GivingUp, owner, receive
<1>11. CASE UNCHANGED <<owner, receive, caller, call>>
    BY <1>11 DEF IntercomOwns, owner, receive
<1> QED
  BY <1>1, <1>2, <1>3, <1>4, <1>5, <1>6, <1>7, <1>8, <1>9, <1>10, <1>11, <1>12
  DEF Next, vars, HandlerStep, Play, Stop, TouchStep, WakeStep, WakeWord, WakeRanks,
      WakeInterrupts, VoiceAnswered, VoicePolls

\* So it is an invariant.
LEMMA OwnershipHolds == Spec => []Ownership
<1>1. Init => Ownership
    BY OwnershipInit
<1>2. Ownership /\ [Next]_vars => Ownership'
    BY TypeStep, ServiceOwnsStep, RingOwnsStep, IntercomOwnsStep DEF Ownership
<1> QED
  BY <1>1, <1>2, PTL DEF Spec

\* While nothing is crossed the operations on the stream take turns.
LEMMA UncrossedStep ==
    ASSUME Ownership, Uncrossed, [Next]_vars
    PROVE  Uncrossed'
<1> USE DEF Ownership
<1> SUFFICES ASSUME ~ call'.crossed PROVE InTurn'
    BY DEF Uncrossed
<1>0. "handler" \in Tasks /\ "touch" \in Tasks /\ \A t \in Tasks : t \in {"handler", "touch"}
    BY DEF Tasks
<1>1. ASSUME NEW t \in Tasks, ReceiveStep(t)
      PROVE  InTurn'
  <2>1. InTurn /\ UNCHANGED call.crossed
      BY <1>1 DEF Uncrossed, ReceiveStep, ReceiveClaims, ReceiveRefused, ReceiveOpens,
         ReceiveCloses, ReceiveReleases, Started, TypeOK
  <2>2. CASE ReceiveClaims(t) \/ ReceiveRefused(t) \/ ReceiveOpens(t)
    <3>1. /\ caller[t] \in {"locking", "opening"} /\ UNCHANGED call
          /\ \E pc \in {"opening", "listens", "failing", "deaf"} :
               /\ caller' = [caller EXCEPT ![t] = pc]
               /\ pc \in {"opening", "listens"} => receive_active' = receive_active
               /\ pc \in {"failing", "deaf"} => ~ receive_active'
        BY <2>2 DEF ReceiveClaims, ReceiveRefused, ReceiveOpens, Goes, receive
    <3>2. DOMAIN caller = Tasks
        BY DEF TypeOK
    <3>3. PICK pc \in {"opening", "listens", "failing", "deaf"} :
            /\ \A u \in Tasks : caller'[u] = IF u = t THEN pc ELSE caller[u]
            /\ pc \in {"opening", "listens"} => receive_active' = receive_active
            /\ pc \in {"failing", "deaf"} => ~ receive_active'
        BY <3>1, <3>2
    <3>4. Busy(t) /\ \A u \in Tasks : Busy(u)' <=> Busy(u)
        BY <3>1, <3>3 DEF Busy
    <3>5. /\ \A u \in Tasks : caller'[u] \in Starting \cup {"failing", "failed", "deaf"}
               => caller[u] \in Starting \cup {"failing", "failed", "deaf"}
          /\ receive_active' => receive_active /\ caller'[t] \in Starting
        BY <3>1, <3>3 DEF Starting
    <3>6. caller'["touch"] \in {"restarting", "locking", "opening", "listens"}
            => caller["touch"] \in {"restarting", "locking", "opening", "listens"}
        BY <1>0, <3>1, <3>3
    <3> QED
      BY <1>0, <2>1, <3>1, <3>4, <3>5, <3>6 DEF InTurn
  <2>3. CASE ReceiveCloses(t) \/ ReceiveReleases(t)
    <3>1. /\ caller[t] \in GivingUp /\ UNCHANGED <<call, receive_active>>
          /\ \E pc \in {"closed", "failed", "deaf", "silent", "idle"} :
               /\ caller' = [caller EXCEPT ![t] = pc]
               /\ pc \in {"failed", "deaf"} => caller[t] \in {"failing", "failed"}
        BY <2>3 DEF ReceiveCloses, ReceiveReleases, Goes, GivingUp, receive
    <3>2. DOMAIN caller = Tasks
        BY DEF TypeOK
    <3>3. PICK pc \in {"closed", "failed", "deaf", "silent", "idle"} :
            /\ \A u \in Tasks : caller'[u] = IF u = t THEN pc ELSE caller[u]
            /\ pc \in {"failed", "deaf"} => caller[t] \in {"failing", "failed"}
        BY <3>1, <3>2
    <3>4. \A u \in Tasks : Busy(u)' => Busy(u)
        BY <3>1, <3>3 DEF Busy, GivingUp
    <3>5. \A u \in Tasks : /\ caller'[u] \in Starting <=> caller[u] \in Starting
                           /\ caller'[u] \in {"failing", "failed", "deaf"}
                                => caller[u] \in {"failing", "failed", "deaf"}
        BY <3>1, <3>3 DEF Starting, GivingUp
    <3>6. caller'["touch"] \in {"restarting", "locking", "opening", "listens"}
            => caller["touch"] \in {"restarting", "locking", "opening", "listens"}
        BY <1>0, <3>1, <3>3
    <3> QED
      BY <1>0, <2>1, <3>1, <3>4, <3>5, <3>6 DEF InTurn
  <2>4. CASE Started(t)
    <3>1. /\ caller[t] \in {"listens", "deaf"} /\ caller' = [caller EXCEPT ![t] = "idle"]
          /\ UNCHANGED <<call.told, receive_active>>
          /\ call'.receiving <=> caller[t] = "listens"
          /\ IF t = "handler" THEN call'.active /\ ~ call'.talking
                              ELSE UNCHANGED <<call.active, call.talking>>
        BY <2>4 DEF Started, Goes, TypeOK, receive
    <3>2. DOMAIN caller = Tasks
        BY DEF TypeOK
    <3>3. \A u \in Tasks : caller'[u] = IF u = t THEN "idle" ELSE caller[u]
        BY <3>1, <3>2
    <3>4. /\ Busy(t) /\ ~ Busy("handler")' /\ ~ Busy("touch")'
          /\ \A u \in Tasks : caller'[u] \notin Starting \cup {"failing", "failed", "deaf"}
        BY <1>0, <2>1, <3>1, <3>3 DEF InTurn, Busy, Starting
    <3>5. receive_active => caller[t] = "listens"
      <4>1. ~ call.receiving
          BY <1>0, <2>1, <3>1, <3>4 DEF InTurn, Starting
      <4>2. \A u \in Tasks : caller[u] \in Starting => u = t
          BY <1>0, <2>1, <3>1, <3>4 DEF InTurn, Starting, Busy
      <4> QED
        BY <2>1, <3>1, <4>1, <4>2 DEF InTurn, Starting
    <3>6. call.told
        BY <1>0, <2>1, <3>1, <3>4 DEF InTurn, Starting
    <3>7. call'.talking => ~ call'.receiving
        BY <1>0, <2>1, <3>1 DEF InTurn
    <3> QED
      BY <1>0, <3>1, <3>3, <3>4, <3>5, <3>6, <3>7 DEF InTurn, Starting
  <2> QED
    BY <1>1, <2>2, <2>3, <2>4 DEF ReceiveStep
<1>2. CASE CallActive
  <2>1. InTurn /\ ~ Busy("touch") /\ ~ call.told /\ caller["handler"] = "idle"
      BY <1>2 DEF CallActive, Uncrossed, TypeOK, Busy
  <2>2. ~ receive_active
      BY <1>0, <2>1 DEF InTurn, Starting, Busy
  <2>3. /\ call'.told /\ UNCHANGED <<call.active, call.receiving, call.talking>>
        /\ caller' = [caller EXCEPT !["handler"] = "locking"]
      BY <1>2, <2>2 DEF CallActive, StartReceive, Goes, TypeOK
  <2> QED
    BY <1>0, <2>1, <2>3 DEF InTurn, Busy, Starting, TypeOK
<1>3. CASE CallEnds
  <2>1. /\ InTurn /\ ~ Busy("touch") /\ caller["handler"] = "idle"
        /\ ~ (call'.active \/ call'.receiving \/ call'.talking)
      BY <1>3 DEF CallEnds, Uncrossed, TypeOK, Busy
  <2>2. \/ caller' = [caller EXCEPT !["handler"] = "closing"] /\ ~ receive_active'
        \/ caller' = [caller EXCEPT !["handler"] = "idle"] /\ ~ receive_active'
        \/ UNCHANGED <<caller, receive_active>> /\ ~ call.receiving
      BY <1>3 DEF CallEnds, StopReceive, Goes, receive
  <2> QED
    BY <1>0, <2>1, <2>2 DEF InTurn, Busy, Starting, TypeOK
<1>4. CASE TalkPressed
  <2>1. /\ InTurn /\ ~ Busy("handler") /\ caller["touch"] = "idle" /\ call.told
        /\ ~ call'.receiving /\ UNCHANGED <<call.told, call.active, call.talking>>
      BY <1>4 DEF TalkPressed, Uncrossed, InTurn, TypeOK, Busy
  <2>2. \/ caller' = [caller EXCEPT !["touch"] = "closing"] /\ ~ receive_active'
        \/ caller' = [caller EXCEPT !["touch"] = "silent"]
             /\ (receive_active' => receive_active /\ ~ call.receiving)
      BY <1>4 DEF TalkPressed, StopReceive, Goes, receive
  <2> QED
    BY <1>0, <2>1, <2>2 DEF InTurn, Busy, Starting, TypeOK
<1>5. CASE TalkReleased
  <2>1. /\ InTurn /\ ~ Busy("handler") /\ caller["touch"] = "idle" /\ call.talking
        /\ ~ call'.talking /\ UNCHANGED <<call.told, call.active, call.receiving>>
      BY <1>5 DEF TalkReleased, Uncrossed, TypeOK, Busy
  <2>2. \/ caller' = [caller EXCEPT !["touch"] = "restarting"]
        \/ UNCHANGED caller
      BY <1>5 DEF TalkReleased, Goes
  <2>3. UNCHANGED receive_active
      BY <1>5 DEF TalkReleased, receive
  <2> QED
    BY <1>0, <2>1, <2>2, <2>3 DEF InTurn, Busy, Starting, TypeOK
<1>6. CASE TalkRestarts
  <2>1. InTurn /\ caller["touch"] = "restarting" /\ UNCHANGED call
      BY <1>6 DEF TalkRestarts, Uncrossed
  <2>2. ~ receive_active
      BY <1>0, <2>1 DEF InTurn, Starting, Busy
  <2>3. caller' = [caller EXCEPT !["touch"] = "locking"]
      BY <1>6, <2>2 DEF TalkRestarts, StartReceive, Goes
  <2> QED
    BY <1>0, <2>1, <2>3 DEF InTurn, Busy, Starting, TypeOK
<1>7. CASE Talks
  <2>1. /\ InTurn /\ caller["touch"] = "silent"
        /\ UNCHANGED <<call.told, call.active, call.receiving, receive_active>>
        /\ caller' = [caller EXCEPT !["touch"] = "idle"]
      BY <1>7 DEF Talks, Uncrossed, TypeOK, Goes, receive
  <2> QED
    BY <1>0, <2>1 DEF InTurn, Busy, Starting, TypeOK
<1>8. CASE CallDropped
  <2>1. /\ InTurn /\ ~ call'.active /\ ~ call'.talking
        /\ UNCHANGED <<call.told, call.receiving, receive_active, caller>>
      BY <1>8 DEF CallDropped, Uncrossed, TypeOK, receive
  <2> QED
    BY <2>1 DEF InTurn, Busy, Starting
<1>9. CASE Ring \/ RingRanks \/ RingInterrupts
  <2>1. /\ InTurn /\ UNCHANGED <<call, receive_active>>
        /\ ~ Busy("handler") /\ caller["handler"] \notin Starting
        /\ \E pc \in {"idle", "ranking", "interrupting"} :
             caller' = [caller EXCEPT !["handler"] = pc]
      BY <1>9 DEF Ring, RingRanks, RingInterrupts, TaskStarts, Goes, Uncrossed, Busy, Starting,
         receive
  <2> QED
    BY <1>0, <2>1 DEF InTurn, Busy, Starting, TypeOK
<1>10. CASE UNCHANGED <<call, caller, receive>>
    BY <1>10 DEF Uncrossed, InTurn, Busy, Starting, receive
<1> QED
  BY <1>1, <1>2, <1>3, <1>4, <1>5, <1>6, <1>7, <1>8, <1>9, <1>10
  DEF Next, vars, ServiceStep, Pick, Rank, StartPlaying, PlayEnds, Reported, RingStep,
      RingClaims, RingGivesUp, RingEnds, RingReleases, HandlerStep, Play, Stop, TouchStep,
      WakeStep, WakeWord, WakeRanks, WakeInterrupts, VoiceAnswered, VoicePolls

LEMMA UncrossedHolds == Spec => []Uncrossed
<1>1. Init => Uncrossed
    BY DEF Init, Uncrossed, InTurn, Busy, Starting, Tasks
<1>2. Ownership /\ Uncrossed /\ [Next]_vars => Uncrossed'
    BY UncrossedStep
<1> QED
  BY <1>1, <1>2, OwnershipHolds, PTL DEF Spec

\* Each of the three is the owner while it sounds, and there is one owner.
LEMMA OwnersExclude ==
    ASSUME Ownership
    PROVE  OneOutput
<1>1. /\ "service" \in Sounding => playing_token \in Tokens
      /\ "ring" \in Sounding => playing_token = RingToken
      /\ "intercom" \in Sounding => playing_token = ReceiveToken
    BY DEF Ownership, ServiceOwns, RingOwns, IntercomOwns, Sounding
<1>2. \A a, b \in Sounding : a = b
    BY <1>1, OwnersDiffer DEF Sounding
<1>3. Sounding = {} \/ \E a : Sounding = {a}
    BY <1>2
<1>4. Cardinality(Sounding) = 0 \/ Cardinality(Sounding) = 1
    BY <1>3, FS_EmptySet, FS_Singleton
<1> QED
  BY <1>4 DEF OneOutput

\* The invariants name who will give the speaker back.
LEMMA OwnersLive ==
    ASSUME Ownership, Uncrossed
    PROVE  OwnerAlive
<1>1. /\ playing_token = RingToken => ring \in {"sounding", "closed"}
      /\ playing_token \in Tokens => service.request = playing_token
    BY DEF Ownership, ServiceOwns, RingOwns
<1>2. playing_token = ReceiveToken =>
        stream \/ \E t \in Tasks : caller[t] \in {"failed", "closed"}
    BY DEF Ownership, IntercomOwns
<1>3. ASSUME stream, ~ call.crossed PROVE HasCloser
  <2>1. CASE ~ receive_active \/ \E t \in Tasks : caller[t] = "locking"
      BY <1>3, <2>1 DEF Ownership, IntercomOwns, HasCloser
  <2>2. CASE receive_active /\ \A t \in Tasks : caller[t] # "locking"
      BY <1>3, <2>2 DEF Uncrossed, InTurn, Starting, HasCloser
  <2> QED
    BY <2>1, <2>2
<1> QED
  BY <1>1, <1>2, <1>3 DEF OwnerAlive, HasCloser

\* Playback, ring and intercom never use the codec at the same time
\* (playing_token in tab5_audio_service.cpp), for every number of requests,
\* rings and calls.
THEOREM SpeakerExclusive == Spec => []OneOutput
<1>1. Ownership => OneOutput
    BY OwnersExclude
<1> QED
  BY <1>1, OwnershipHolds, PTL

\* Whoever owns the speaker has somebody to give it back, or is a stream that
\* an operation of the talk button left open when it crossed the start or the
\* end of a call; a release whose wait for the mutex times out orphans no owner.
THEOREM OwnersAlive == Spec => []OwnerAlive
<1>1. Ownership /\ Uncrossed => OwnerAlive
    BY OwnersLive
<1> QED
  BY <1>1, OwnershipHolds, UncrossedHolds, PTL

-----------------------------------------------------------------------------
(* The array implements the queue                                          *)

\* What a step does to the scheduler.
NewItem(item) ==
    /\ item.token = next_token
    /\ next_token' = next_token + 1
    /\ Starts(item) \/ Interrupts(item) \/ Queues(item)
NextItem == active # NoItem /\ StartNext /\ UNCHANGED next_token
NoLongerWaits(k) == queue' = Removed(k) /\ UNCHANGED <<active, next_token>>

\* Every step of the service is one of these for the scheduler, or none.
LEMMA SchedulerSteps ==
    ASSUME TypeOK, [Next]_vars
    PROVE  \/ \E item \in Item : NewItem(item)
           \/ NextItem
           \/ \E k \in 1 .. Len(queue) : NoLongerWaits(k)
           \/ UNCHANGED <<sched, next_token>>
<1>1. ASSUME NEW p \in Priorities, NEW retained \in BOOLEAN, Submit(p, retained)
      PROVE  \E item \in Item : NewItem(item)
  <2> DEFINE item == [token |-> next_token, priority |-> p]
  <2>1. item \in Item
      BY <1>1, SubmitType, AudioBounds DEF Item, Tokens
  <2>2. NewItem(item)
      BY <1>1 DEF Submit, Accepted, NewItem
  <2> QED
    BY <2>1, <2>2
<1>2. ASSUME NEW token, CancelItem(token), UNCHANGED next_token
      PROVE  NextItem \/ \E k \in 1 .. Len(queue) : NoLongerWaits(k)
    BY <1>2 DEF CancelItem, Active, NextItem, NoLongerWaits
<1>3. ASSUME NEW p \in Priorities, Play(p)
      PROVE  \E item \in Item : NewItem(item)
    BY <1>1, <1>3 DEF Play
<1>4. CASE Stop
    BY <1>2, <1>4 DEF Stop, Cancel
<1>5. CASE WakeInterrupts
    BY <1>2, <1>5 DEF WakeInterrupts, Cancel
<1>6. CASE VoiceAnswered
    BY <1>1, <1>6, PriorityAssumption DEF VoiceAnswered, store
<1>7. CASE Reported
    BY <1>7 DEF Reported, Complete, Active, NextItem, sched
<1>8. CASE UNCHANGED <<sched, next_token>>
    BY <1>8
<1> QED
  BY <1>3, <1>4, <1>5, <1>6, <1>7, <1>8
  DEF Next, vars, store, ServiceStep, Pick, Rank, StartPlaying, PlayEnds, RingStep,
      RingClaims, RingGivesUp, RingEnds, RingReleases, HandlerStep, Ring, RingRanks,
      RingInterrupts, CallActive, CallEnds, CallDropped, TouchStep, TalkPressed, Talks,
      TalkReleased, TalkRestarts, WakeStep, WakeWord, WakeRanks, VoicePolls, ReceiveStep,
      ReceiveClaims, ReceiveRefused, ReceiveOpens, ReceiveCloses, ReceiveReleases,
      Started

\* The items that wait, as the abstract queue sees them.
Waiting == {queue[k] : k \in 1 .. Len(queue)}

\* Tokens and priorities are numbers.
LEMMA ItemNumbers ==
    ASSUME NEW a \in Item
    PROVE  a.token \in Nat /\ a.priority \in Nat
<1>1. a.token \in Nat /\ a.priority \in Priorities
    BY DEF Item
<1>2. Priorities \subseteq Nat
    BY SchedulerAssumption
<1> QED
  BY <1>1, <1>2

\* Before is a strict order.
LEMMA BeforeOrders ==
    /\ \A a, b, c \in Item :
         Queue!Before(a, b) /\ Queue!Before(b, c) => Queue!Before(a, c)
    /\ \A a \in Item : ~ Queue!Before(a, a)
BY ItemNumbers DEF Queue!Before

\* A new item takes its place in the order.
LEMMA InsertionInOrder ==
    ASSUME queue \in Seq(Item), InOrder, NEW item \in Item, item.token = next_token
    PROVE  LET q == InsertAfter(Position(item), item) IN
             \A i, j \in 1 .. Len(queue) + 1 : i < j => Queue!Before(q[i], q[j])
<1> DEFINE k == Position(item)
           n == Len(queue)
           q == InsertAfter(k, item)
<1>1. /\ k \in 0 .. n /\ n \in Nat
      /\ k = 0 \/ ~ Overtakes(item, queue[k])
      /\ \A j \in k + 1 .. n : Overtakes(item, queue[j])
    BY PositionStops
<1>2. \A i \in 1 .. n : queue[i] \in Item
    OBVIOUS
<1> HIDE DEF k
<1>3. \A i \in 1 .. k : Queue!Before(queue[i], item)
  <2> TAKE i \in 1 .. k
  <2>1. i \in 1 .. n /\ k \in 1 .. n /\ queue[i] \in Item /\ queue[k] \in Item
      BY <1>1, <1>2
  <2>2. item.priority <= queue[k].priority
      BY <1>1, <2>1, ItemNumbers DEF Overtakes
  <2>3. queue[k].priority <= queue[i].priority
    <3>1. i = k \/ Queue!Before(queue[i], queue[k])
        BY <2>1 DEF InOrder
    <3>2. queue[i].priority \in Nat /\ queue[k].priority \in Nat
        BY <2>1, ItemNumbers
    <3> QED
      BY <3>1, <3>2 DEF Queue!Before
  <2>4. queue[i].token < item.token
      BY <2>1 DEF InOrder
  <2> QED
    BY <2>1, <2>2, <2>3, <2>4, ItemNumbers DEF Queue!Before
<1>4. \A j \in k + 1 .. n : Queue!Before(item, queue[j])
  <2> TAKE j \in k + 1 .. n
  <2>1. Overtakes(item, queue[j]) /\ queue[j] \in Item
      BY <1>1, <1>2
  <2> QED
    BY <2>1 DEF Overtakes, Queue!Before
<1>5. \A i \in 1 .. n + 1 : q[i] = IF i <= k THEN queue[i]
                                 ELSE IF i = k + 1 THEN item ELSE queue[i - 1]
    BY DEF InsertAfter
<1>6. \A i, j \in 1 .. n + 1 : i < j => Queue!Before(q[i], q[j])
  <2> SUFFICES ASSUME NEW i \in 1 .. n + 1, NEW j \in 1 .. n + 1, i < j
               PROVE  Queue!Before(q[i], q[j])
      OBVIOUS
  <2> HIDE DEF q
  <2>1. CASE j <= k
      BY <1>1, <1>5, <2>1 DEF InOrder
  <2>2. CASE i <= k /\ j = k + 1
      BY <1>1, <1>3, <1>5, <2>2
  <2>3. CASE i <= k /\ j > k + 1
    <3>1. q[i] = queue[i] /\ q[j] = queue[j - 1] /\ i \in 1 .. n /\ j - 1 \in 1 .. n
          /\ i < j - 1
        BY <1>1, <1>5, <2>3
    <3> QED
      BY <3>1 DEF InOrder
  <2>4. CASE i = k + 1 /\ j > k + 1
    <3>1. q[i] = item /\ q[j] = queue[j - 1] /\ j - 1 \in k + 1 .. n
        BY <1>1, <1>5, <2>4
    <3> QED
      BY <3>1, <1>4
  <2>5. CASE i > k + 1
    <3>1. q[i] = queue[i - 1] /\ q[j] = queue[j - 1] /\ i - 1 \in 1 .. n
          /\ j - 1 \in 1 .. n /\ i - 1 < j - 1
        BY <1>1, <1>5, <2>5
    <3> QED
      BY <3>1 DEF InOrder
  <2> QED
    BY <1>1, <2>1, <2>2, <2>3, <2>4, <2>5
<1> QED
  BY <1>6 DEF k

\* The empty array is in order,
LEMMA InOrderInit ==
    ASSUME Init
    PROVE  InOrder
BY DEF Init, SchedulerInit, InOrder

\* and every step keeps it so.
LEMMA InOrderStep ==
    ASSUME TypeOK, InOrder, [Next]_vars
    PROVE  InOrder'
<1>1. /\ queue \in Seq(Item) /\ Len(queue) \in Nat /\ next_token \in Nat
      /\ queue # <<>> => Len(queue) # 0
      /\ \A i \in 1 .. Len(queue) : queue[i] \in Item
    BY AudioBounds DEF TypeOK, SchedulerTypeOK
<1>2. ASSUME NEW item \in Item, NewItem(item)
      PROVE  InOrder'
  <2>1. CASE UNCHANGED queue
    <3>1. \A i \in 1 .. Len(queue) : queue[i].token < next_token + 1
        BY <1>1 DEF InOrder, Item
    <3> QED
      BY <1>2, <2>1, <3>1 DEF InOrder, NewItem
  <2>2. CASE Queues(item)
    <3> DEFINE k == Position(item)
               q == InsertAfter(k, item)
               n == Len(queue)
    <3>1. k \in 0 .. n
        BY <1>1, PositionStops
    <3>2. /\ q \in Seq(Item) /\ Len(q) = n + 1
          /\ {q[i] : i \in 1 .. n + 1} = Waiting \cup {item}
        BY <1>1, <3>1, InsertionType DEF Waiting
    <3>3. \A i, j \in 1 .. n + 1 : i < j => Queue!Before(q[i], q[j])
        BY <1>1, <1>2, InsertionInOrder DEF NewItem
    <3>4. \A i \in 1 .. n + 1 : q[i].token < next_token + 1
      <4> TAKE i \in 1 .. n + 1
      <4> HIDE DEF q
      <4>1. q[i] = item \/ \E j \in 1 .. n : q[i] = queue[j]
          BY <3>2 DEF Waiting
      <4> QED
        BY <1>1, <1>2, <4>1 DEF NewItem, InOrder, Item
    <3>5. queue' = q /\ next_token' = next_token + 1
        BY <1>2, <2>2 DEF Queues, NewItem
    <3> HIDE DEF q
    <3> QED
      BY <3>2, <3>3, <3>4, <3>5 DEF InOrder
  <2> QED
    BY <1>2, <2>1, <2>2 DEF NewItem, Starts, Interrupts
<1>3. CASE NextItem
  <2>1. CASE queue = <<>>
      BY <1>3, <2>1 DEF NextItem, StartNext, InOrder
  <2>2. CASE queue # <<>>
    <3>1. queue' = Tail(queue) /\ next_token' = next_token
        BY <1>3, <2>2 DEF NextItem, StartNext
    <3>2. /\ Len(Tail(queue)) = Len(queue) - 1
          /\ \A i \in 1 .. Len(queue) - 1 : Tail(queue)[i] = queue[i + 1]
        BY <1>1, <2>2
    <3>3. \A i \in 1 .. Len(queue) - 1 : i + 1 \in 1 .. Len(queue)
        BY <1>1
    <3> QED
      BY <1>1, <3>1, <3>2, <3>3 DEF InOrder
  <2> QED
    BY <2>1, <2>2
<1>4. ASSUME NEW k \in 1 .. Len(queue), NoLongerWaits(k)
      PROVE  InOrder'
  <2>1. Len(Removed(k)) = Len(queue) - 1
      BY <1>1, RemovalType
  <2>2. \A i \in 1 .. Len(queue) - 1 :
          Removed(k)[i] = IF i < k THEN queue[i] ELSE queue[i + 1]
      BY DEF Removed
  <2>3. queue' = Removed(k) /\ next_token' = next_token
      BY <1>4 DEF NoLongerWaits
  <2> DEFINE m(i) == IF i < k THEN i ELSE i + 1
  <2>4. \A i \in 1 .. Len(queue) - 1 :
          m(i) \in 1 .. Len(queue) /\ Removed(k)[i] = queue[m(i)]
      BY <1>1, <2>2
  <2>5. \A i, j \in 1 .. Len(queue) - 1 : i < j => m(i) < m(j)
      BY <1>1
  <2> HIDE DEF m
  <2> QED
    BY <1>1, <2>1, <2>3, <2>4, <2>5 DEF InOrder
<1>5. CASE UNCHANGED <<sched, next_token>>
    BY <1>5 DEF sched, InOrder
<1> QED
  BY <1>2, <1>3, <1>4, <1>5, SchedulerSteps

\* The set of waiting items is no larger than the array.
LEMMA WaitingSize ==
    ASSUME queue \in Seq(Item)
    PROVE  Cardinality(Waiting) <= Len(queue) /\ IsFiniteSet(Waiting)
<1> DEFINE n == Len(queue)
           f == [k \in 1 .. n |-> queue[k]]
<1>1. n \in Nat
    OBVIOUS
<1>2. f \in Surjection(1 .. n, Waiting)
    BY DEF Surjection, Waiting
<1>3. IsFiniteSet(1 .. n) /\ Cardinality(1 .. n) = n
    BY <1>1, FS_Interval
<1> HIDE DEF f, n
<1>4. IsFiniteSet(Waiting) /\ Cardinality(Waiting) <= Cardinality(1 .. n)
    BY <1>2, <1>3, FS_Surjection
<1> QED
  BY <1>3, <1>4 DEF n

\* Taking an item out of the array takes it out of the set: no item is there
\* twice.
LEMMA RemovalRemoves ==
    ASSUME queue \in Seq(Item), InOrder, NEW k \in 1 .. Len(queue)
    PROVE  {Removed(k)[i] : i \in 1 .. Len(queue) - 1} = Waiting \ {queue[k]}
<1> DEFINE n == Len(queue)
<1>1. n \in Nat /\ \A i \in 1 .. n : queue[i] \in Item
    OBVIOUS
<1>2. \A i, j \in 1 .. n : i # j => queue[i] # queue[j]
  <2> SUFFICES ASSUME NEW i \in 1 .. n, NEW j \in 1 .. n, i < j
               PROVE  queue[i] # queue[j]
      BY <1>1
  <2>1. Queue!Before(queue[i], queue[j])
      BY DEF InOrder
  <2> QED
    BY <1>1, <2>1, BeforeOrders
<1>3. \A i \in 1 .. n - 1 :
        Removed(k)[i] = IF i < k THEN queue[i] ELSE queue[i + 1]
    BY DEF Removed
<1>4. \A i \in 1 .. n - 1 : Removed(k)[i] \in Waiting \ {queue[k]}
  <2> TAKE i \in 1 .. n - 1
  <2>1. \E j \in 1 .. n : j # k /\ Removed(k)[i] = queue[j]
    <3>1. CASE i < k
        BY <1>1, <1>3, <3>1
    <3>2. CASE ~ (i < k)
      <4>1. i + 1 \in 1 .. n /\ i + 1 # k
          BY <1>1, <3>2
      <4> QED
        BY <1>3, <3>2, <4>1
    <3> QED
      BY <3>1, <3>2
  <2> QED
    BY <1>2, <2>1 DEF Waiting
<1>5. \A j \in 1 .. n : j # k => \E i \in 1 .. n - 1 : Removed(k)[i] = queue[j]
  <2> SUFFICES ASSUME NEW j \in 1 .. n, j # k
               PROVE  \E i \in 1 .. n - 1 : Removed(k)[i] = queue[j]
      OBVIOUS
  <2>1. CASE j < k
    <3>1. j \in 1 .. n - 1
        BY <1>1, <2>1
    <3> QED
      BY <1>3, <2>1, <3>1
  <2>2. CASE j > k
    <3>1. j - 1 \in 1 .. n - 1 /\ ~ (j - 1 < k) /\ (j - 1) + 1 = j
        BY <1>1, <2>2
    <3>2. Removed(k)[j - 1] = queue[j]
        BY <1>3, <3>1
    <3> QED
      BY <3>1, <3>2
  <2> QED
    BY <1>1, <2>1, <2>2
<1>6. Waiting \ {queue[k]} \subseteq {Removed(k)[i] : i \in 1 .. n - 1}
    BY <1>5 DEF Waiting
<1> QED
  BY <1>4, <1>6

\* Every step is a step of the abstract queue, or leaves it alone.
LEMMA QueueSteps ==
    ASSUME TypeOK, InOrder, [Next]_vars
    PROVE  [Queue!QueueNext]_<<active, Waiting>>
<1>1. /\ queue \in Seq(Item) /\ Len(queue) \in Nat
      /\ Len(queue) <= Capacity /\ Capacity \in Nat
      /\ active \in Item \cup {NoItem}
    BY SchedulerAssumption DEF TypeOK, SchedulerTypeOK
<1>2. Queue!Item = Item /\ Queue!NoItem = NoItem
    BY DEF Queue!Item, Item, Queue!NoItem, NoItem
<1>3. ASSUME NEW item \in Item, NewItem(item)
      PROVE  Queue!QueueNext
  <2>1. CASE Starts(item)
    <3>1. active = NoItem /\ active' = item /\ Waiting' = Waiting
        BY <2>1 DEF Starts, Waiting
    <3>2. Queue!Start
        BY <1>2, <3>1 DEF Queue!Start, Waiting
    <3> QED
      BY <3>2 DEF Queue!QueueNext
  <2>2. CASE Interrupts(item)
    <3>1. /\ active # NoItem /\ active' = item /\ Waiting' = Waiting
          /\ active'.priority > active.priority
        BY <2>2 DEF Interrupts, Waiting
    <3>2. Queue!Interrupt
        BY <1>2, <3>1 DEF Queue!Interrupt, Waiting
    <3> QED
      BY <3>2 DEF Queue!QueueNext
  <2>3. CASE Queues(item)
    <3> DEFINE q == InsertAfter(Position(item), item)
    <3>1. Position(item) \in 0 .. Len(queue)
        BY <1>1, PositionStops
    <3>2. Len(q) = Len(queue) + 1 /\ {q[i] : i \in 1 .. Len(queue) + 1} = Waiting \cup {item}
        BY <1>1, <3>1, InsertionType DEF Waiting
    <3>3. Waiting' = {queue'[k] : k \in 1 .. Len(queue')} /\ queue' = q
        BY <2>3 DEF Waiting, Queues
    <3>4. Waiting' = Waiting \cup {item}
      <4> HIDE DEF q
      <4> QED
        BY <3>2, <3>3
    <3>5. Cardinality(Waiting) < Capacity
      <4>1. Cardinality(Waiting) \in Nat /\ Cardinality(Waiting) <= Len(queue)
          BY <1>1, WaitingSize, FS_CardinalityType
      <4> QED
        BY <1>1, <2>3, <4>1 DEF Queues
    <3>6. \A w \in Waiting : w.token < item.token
        BY <1>3 DEF Waiting, InOrder, NewItem
    <3>7. active # NoItem /\ item.priority <= active.priority /\ active' = active
        BY <2>3 DEF Queues
    <3>8. \E w \in Waiting' :
            /\ w \in Queue!Item
            /\ w.priority <= active.priority
            /\ \A v \in Waiting : v.token < w.token
            /\ Waiting' = Waiting \cup {w}
      <4>1. item \in Waiting' /\ item \in Queue!Item
          BY <1>2, <3>4
      <4> QED
        BY <4>1, <3>4, <3>6, <3>7
    <3>9. Queue!Wait
      <4>1. Queue!Cardinality(Waiting) = Cardinality(Waiting)
          BY Zenon DEF Queue!Cardinality, Cardinality
      <4>2. Queue!Cardinality(Waiting) < Capacity /\ active # Queue!NoItem
          BY <1>2, <3>5, <3>7, <4>1
      <4> QED
        BY <3>7, <3>8, <4>2, Zenon DEF Queue!Wait, Waiting
    <3> QED
      BY <3>9 DEF Queue!QueueNext
  <2> QED
    BY <1>3, <2>1, <2>2, <2>3 DEF NewItem
<1>4. CASE NextItem
  <2>1. CASE queue = <<>>
    <3>1. Waiting = {} /\ active # NoItem /\ active' = NoItem /\ Waiting' = Waiting
        BY <1>4, <2>1 DEF NextItem, StartNext, Waiting
    <3>2. Queue!Advance
        BY <1>2, <3>1 DEF Queue!Advance, Waiting
    <3> QED
      BY <3>2 DEF Queue!QueueNext
  <2>2. CASE queue # <<>>
    <3>1. 1 \in 1 .. Len(queue) /\ Head(queue) = queue[1]
        BY <1>1, <2>2
    <3>2. active # NoItem /\ active' = queue[1] /\ queue' = Tail(queue)
        BY <1>4, <2>2, <3>1 DEF NextItem, StartNext
    <3>3. Tail(queue) = Removed(1)
      <4>1. Removed(1) \in Seq(Item) /\ Len(Removed(1)) = Len(queue) - 1
          BY <1>1, <3>1, RemovalType
      <4>2. Tail(queue) \in Seq(Item) /\ Len(Tail(queue)) = Len(queue) - 1
          BY <1>1, <2>2
      <4>3. \A i \in 1 .. Len(queue) - 1 : Tail(queue)[i] = Removed(1)[i]
        <5>1. \A i \in 1 .. Len(queue) - 1 : Tail(queue)[i] = queue[i + 1]
            BY <1>1, <2>2
        <5>2. \A i \in 1 .. Len(queue) - 1 : Removed(1)[i] = queue[i + 1]
            BY <1>1 DEF Removed
        <5> QED
          BY <5>1, <5>2
      <4> QED
        BY <4>1, <4>2, <4>3, SeqEqual
    <3>4. Waiting' = Waiting \ {queue[1]}
      <4>1. Len(Removed(1)) = Len(queue) - 1
          BY <1>1, <3>1, RemovalType
      <4>2. Waiting' = {Removed(1)[i] : i \in 1 .. Len(queue) - 1}
          BY <3>2, <3>3, <4>1 DEF Waiting
      <4> QED
        BY <1>1, <3>1, <4>2, RemovalRemoves
    <3>5. \A w \in Waiting \ {queue[1]} : Queue!Before(queue[1], w)
        BY <1>1, <3>1 DEF Waiting, InOrder
    <3>6. Queue!Advance
        BY <1>2, <3>1, <3>2, <3>4, <3>5 DEF Queue!Advance, Waiting
    <3> QED
      BY <3>6 DEF Queue!QueueNext
  <2> QED
    BY <2>1, <2>2
<1>5. ASSUME NEW k \in 1 .. Len(queue), NoLongerWaits(k)
      PROVE  Queue!QueueNext
  <2>1. Len(Removed(k)) = Len(queue) - 1
      BY <1>1, RemovalType
  <2>2. Waiting' = {Removed(k)[i] : i \in 1 .. Len(queue) - 1}
      BY <1>5, <2>1 DEF NoLongerWaits, Waiting
  <2>3. Waiting' = Waiting \ {queue[k]} /\ queue[k] \in Waiting /\ active' = active
      BY <1>1, <1>5, <2>2, RemovalRemoves DEF Waiting, NoLongerWaits
  <2>4. Queue!Withdraw
      BY <2>3 DEF Queue!Withdraw, Waiting
  <2> QED
    BY <2>4 DEF Queue!QueueNext
<1>6. CASE UNCHANGED <<sched, next_token>>
    BY <1>6 DEF sched, Waiting
<1> QED
  BY <1>3, <1>4, <1>5, <1>6, SchedulerSteps

\* The array, its insertion loop and the shifts of cancel and start_next
\* (audio_scheduler.cpp) keep what the scheduler promises, for every capacity
\* and every set of priorities.
THEOREM QueueImplemented == Spec => KeepsAudioQueue
<1>1. Init => Queue!QueueInit /\ TypeOK /\ InOrder
  <2>1. Init => active = NoItem /\ Waiting = {} /\ Queue!NoItem = NoItem
      BY DEF Init, SchedulerInit, Waiting, Queue!NoItem, NoItem
  <2> QED
    BY <2>1, TypeInit, InOrderInit DEF Queue!QueueInit, Waiting
<1>2. TypeOK /\ InOrder /\ [Next]_vars => TypeOK' /\ InOrder'
    BY TypeStep, InOrderStep
<1>3. TypeOK /\ InOrder /\ [Next]_vars => [Queue!QueueNext]_<<active, Waiting>>
    BY QueueSteps
<1> QED
  BY <1>1, <1>2, <1>3, PTL DEF Spec, KeepsAudioQueue, Queue!QueueSpec, Waiting

-----------------------------------------------------------------------------
(* What is scheduled, and what is recorded of it                           *)

\* No token is scheduled twice,
Distinct ==
    /\ \A i, j \in 1 .. Len(queue) : i # j => queue[i].token # queue[j].token
    /\ \A i \in 1 .. Len(queue) : queue[i].token # active.token

\* what the service task took never waits again,
Taken ==
    service.pc # "idle" =>
      \A i \in 1 .. Len(queue) : queue[i].token # service.request

\* every token in use is older than the next one,
Older ==
    /\ active.token < next_token
    /\ service.request < next_token
    /\ \A i \in 1 .. Len(queue) : queue[i].token < next_token
    /\ \A r \in records : r.token < next_token

\* and while the service task prepares to play, it prepares the active item,
\* whose record is not final.
Prepared ==
    service.pc \in {"claimed", "ranked"} =>
      /\ active.token = service.request
      /\ \A r \in records : r.token = service.request => r.state \notin Final

Recorded ==
    Ownership /\ Distinct /\ Taken /\ Older /\ Prepared /\ ScheduledHasRecord

\* Item k left the array and those behind it moved up.
Shrunk(k) ==
    /\ Len(queue') = Len(queue) - 1
    /\ \A i \in 1 .. Len(queue) - 1 :
         queue'[i] = IF i < k THEN queue[i] ELSE queue[i + 1]

\* start_next takes the first of those that wait, if any,
LEMMA StartNextTakes ==
    ASSUME SchedulerTypeOK, StartNext
    PROVE  \/ queue = <<>> /\ active' = NoItem /\ UNCHANGED queue
           \/ 1 \in 1 .. Len(queue) /\ active' = queue[1] /\ Shrunk(1)
<1>1. queue \in Seq(Item) /\ Len(queue) \in Nat
    BY DEF SchedulerTypeOK
<1>2. CASE queue # <<>>
  <2>1. 1 \in 1 .. Len(queue) /\ Head(queue) = queue[1]
      BY <1>1, <1>2
  <2>2. active' = queue[1] /\ queue' = Tail(queue)
      BY <1>2, <2>1 DEF StartNext
  <2>3. /\ Len(Tail(queue)) = Len(queue) - 1
        /\ \A i \in 1 .. Len(queue) - 1 : Tail(queue)[i] = queue[i + 1]
      BY <1>1, <1>2
  <2>4. Shrunk(1)
      BY <1>1, <2>2, <2>3 DEF Shrunk
  <2> QED
    BY <2>1, <2>2, <2>4
<1> QED
  BY <1>2 DEF StartNext

\* and cancel takes out the item it looks for, or starts the next one.
LEMMA CancelTakes ==
    ASSUME SchedulerTypeOK, NEW token, CancelItem(token)
    PROVE  \/ Active(token) /\ StartNext
           \/ /\ ~ Active(token) /\ UNCHANGED active
              /\ \E k \in 1 .. Len(queue) : queue[k].token = token /\ Shrunk(k)
<1>1. ASSUME NEW k \in 1 .. Len(queue), queue' = Removed(k)
      PROVE  Shrunk(k)
  <2>1. queue \in Seq(Item)
      BY DEF SchedulerTypeOK
  <2>2. Len(Removed(k)) = Len(queue) - 1
      BY <2>1, RemovalType
  <2>3. \A i \in 1 .. Len(queue) - 1 :
          Removed(k)[i] = IF i < k THEN queue[i] ELSE queue[i + 1]
      BY DEF Removed
  <2> QED
    BY <1>1, <2>2, <2>3 DEF Shrunk
<1> QED
  BY <1>1 DEF CancelItem

\* Items that move up stay distinct, and the one that left is gone.
LEMMA ShrunkSchedules ==
    ASSUME SchedulerTypeOK, Distinct, NEW k \in 1 .. Len(queue), Shrunk(k),
           active' = active \/ active' = queue[k]
    PROVE  /\ Distinct'
           /\ \A i \in 1 .. Len(queue') :
                \E j \in 1 .. Len(queue) : j # k /\ queue'[i] = queue[j]
<1> DEFINE n == Len(queue)
           m(i) == IF i < k THEN i ELSE i + 1
<1>1. n \in Nat /\ k \in 1 .. n
    BY DEF SchedulerTypeOK
<1>2. Len(queue') = n - 1
    BY DEF Shrunk
<1>3. \A i \in 1 .. n - 1 : m(i) \in 1 .. n /\ m(i) # k /\ queue'[i] = queue[m(i)]
    BY <1>1 DEF Shrunk
<1>4. \A i, j \in 1 .. n - 1 : i # j => m(i) # m(j)
    BY <1>1
<1> HIDE DEF m
<1>5. \A i, j \in 1 .. n - 1 : i # j => queue'[i].token # queue'[j].token
    BY <1>3, <1>4 DEF Distinct
<1>6. \A i \in 1 .. n - 1 : queue'[i].token # active'.token
    BY <1>3 DEF Distinct
<1> QED
  BY <1>2, <1>3, <1>5, <1>6 DEF Distinct

\* The active item gives way to the next: it is no longer scheduled.
LEMMA AdvanceSchedules ==
    ASSUME SchedulerTypeOK, Distinct, active # NoItem, StartNext
    PROVE  /\ Distinct'
           /\ \A i \in 1 .. Len(queue') :
                \E j \in 1 .. Len(queue) : queue'[i] = queue[j]
           /\ active' = NoItem \/ \E j \in 1 .. Len(queue) : active' = queue[j]
           /\ \A token : Scheduled(token)' => Scheduled(token) /\ token # active.token
<1>1. CASE queue = <<>> /\ active' = NoItem /\ UNCHANGED queue
  <2>1. Len(queue') = 0 /\ Len(queue) = 0
      BY <1>1
  <2>2. 1 .. 0 = {}
      OBVIOUS
  <2> QED
    BY <1>1, <2>1, <2>2 DEF Distinct, Scheduled, Active
<1>2. CASE 1 \in 1 .. Len(queue) /\ active' = queue[1] /\ Shrunk(1)
  <2>1. /\ Distinct'
        /\ \A i \in 1 .. Len(queue') :
             \E j \in 1 .. Len(queue) : queue'[i] = queue[j]
      BY <1>2, ShrunkSchedules
  <2>2. \A j \in 1 .. Len(queue) : queue[j].token # active.token
      BY DEF Distinct
  <2>3. ASSUME NEW token, Scheduled(token)'
        PROVE  Scheduled(token) /\ token # active.token
    <3>1. \E j \in 1 .. Len(queue) : queue[j].token = token
        BY <1>2, <2>1, <2>3 DEF Scheduled, Active
    <3> QED
      BY <2>2, <3>1 DEF Scheduled
  <2> QED
    BY <1>2, <2>1, <2>3
<1> QED
  BY <1>1, <1>2, StartNextTakes

\* What is cancelled is no longer scheduled, and nothing else changes.
LEMMA CancelSchedules ==
    ASSUME SchedulerTypeOK, Distinct, NEW token, CancelItem(token)
    PROVE  /\ Distinct'
           /\ \A i \in 1 .. Len(queue') :
                \E j \in 1 .. Len(queue) : queue'[i] = queue[j]
           /\ \/ active' = active \/ active' = NoItem
              \/ \E j \in 1 .. Len(queue) : active' = queue[j]
           /\ active' = active \/ Active(token)
           /\ \A other : Scheduled(other)' => Scheduled(other) /\ other # token
<1>1. CASE Active(token) /\ StartNext
    BY <1>1, AdvanceSchedules DEF Active
<1>2. ASSUME ~ Active(token), UNCHANGED active, NEW k \in 1 .. Len(queue),
             queue[k].token = token, Shrunk(k)
      PROVE  /\ Distinct'
             /\ \A i \in 1 .. Len(queue') :
                  \E j \in 1 .. Len(queue) : queue'[i] = queue[j]
             /\ \A other : Scheduled(other)' => Scheduled(other) /\ other # token
  <2>1. /\ Distinct'
        /\ \A i \in 1 .. Len(queue') :
             \E j \in 1 .. Len(queue) : j # k /\ queue'[i] = queue[j]
      BY <1>2, ShrunkSchedules
  <2>2. \A j \in 1 .. Len(queue) : j # k => queue[j].token # token
      BY <1>2 DEF Distinct
  <2>3. ASSUME NEW other, Scheduled(other)'
        PROVE  Scheduled(other) /\ other # token
      BY <1>2, <2>1, <2>2, <2>3 DEF Scheduled, Active
  <2> QED
    BY <2>1, <2>3
<1> QED
  BY <1>1, <1>2, CancelTakes

\* A new item adds its own token.
LEMMA SubmitSchedules ==
    ASSUME SchedulerTypeOK, Distinct, NEW item \in Item,
           \A i \in 1 .. Len(queue) : queue[i].token # item.token,
           active.token # item.token,
           Starts(item) \/ Interrupts(item) \/ Queues(item)
    PROVE  /\ Distinct'
           /\ \A i \in 1 .. Len(queue') :
                queue'[i] = item \/ \E j \in 1 .. Len(queue) : queue'[i] = queue[j]
           /\ active' = active \/ active' = item
           /\ \A token : Scheduled(token)' => Scheduled(token) \/ token = item.token
<1>1. CASE Starts(item) \/ Interrupts(item)
  <2>1. active' = item /\ queue' = queue
      BY <1>1 DEF Starts, Interrupts
  <2> QED
    BY <2>1 DEF Distinct, Scheduled, Active
<1>2. CASE Queues(item)
  <2> DEFINE n == Len(queue)
             k == Position(item)
  <2>1. queue \in Seq(Item) /\ n \in Nat
      BY DEF SchedulerTypeOK
  <2>2. k \in 0 .. n
      BY <2>1, PositionStops
  <2>3. Len(InsertAfter(k, item)) = n + 1
      BY <2>1, <2>2, InsertionType
  <2>4. active' = active /\ queue' = InsertAfter(k, item)
      BY <1>2 DEF Queues
  <2>5. Len(queue') = n + 1
      BY <2>3, <2>4
  <2> HIDE DEF k
  <2>6. \A i \in 1 .. n + 1 :
          queue'[i] = IF i <= k THEN queue[i] ELSE IF i = k + 1 THEN item
                      ELSE queue[i - 1]
      BY <2>4 DEF InsertAfter
  <2>7. \A i \in 1 .. n + 1 :
          /\ i <= k => i \in 1 .. n
          /\ i > k + 1 => i - 1 \in 1 .. n
      BY <2>1, <2>2
  <2>8. \A i \in 1 .. n + 1 :
          queue'[i] = item \/ \E j \in 1 .. n : queue'[i] = queue[j]
      BY <2>2, <2>6, <2>7
  <2>9. \A i, j \in 1 .. n + 1 : i # j => queue'[i].token # queue'[j].token
    <3> SUFFICES ASSUME NEW i \in 1 .. n + 1, NEW j \in 1 .. n + 1, i < j
                 PROVE  queue'[i].token # queue'[j].token
        BY <2>1
    <3>1. CASE j <= k
        BY <2>1, <2>2, <2>6, <2>7, <3>1 DEF Distinct
    <3>2. CASE j = k + 1
      <4>1. queue'[j] = item /\ queue'[i] = queue[i] /\ i \in 1 .. n
          BY <2>1, <2>2, <2>6, <2>7, <3>2
      <4> QED
        BY <4>1
    <3>3. CASE j > k + 1
      <4>1. queue'[j] = queue[j - 1] /\ j - 1 \in 1 .. n
          BY <2>1, <2>2, <2>6, <2>7, <3>3
      <4>2. CASE i <= k
        <5>1. queue'[i] = queue[i] /\ i \in 1 .. n /\ i # j - 1
            BY <2>1, <2>2, <2>6, <2>7, <3>3, <4>2
        <5> QED
          BY <4>1, <5>1 DEF Distinct
      <4>3. CASE i = k + 1
        <5>1. queue'[i] = item
            BY <2>1, <2>2, <2>6, <4>3
        <5> QED
          BY <4>1, <5>1
      <4>4. CASE i > k + 1
        <5>1. queue'[i] = queue[i - 1] /\ i - 1 \in 1 .. n /\ i - 1 # j - 1
            BY <2>1, <2>2, <2>6, <2>7, <4>4
        <5> QED
          BY <4>1, <5>1 DEF Distinct
      <4> QED
        BY <2>1, <2>2, <4>2, <4>3, <4>4
    <3> QED
      BY <2>1, <2>2, <3>1, <3>2, <3>3
  <2>10. \A i \in 1 .. n + 1 : queue'[i].token # active'.token
      BY <2>4, <2>8 DEF Distinct
  <2> QED
    BY <2>4, <2>5, <2>8, <2>9, <2>10 DEF Distinct, Scheduled, Active
<1> QED
  BY <1>1, <1>2

\* Items of the queue and the active one are older than the next token.
LEMMA ItemsOlder ==
    ASSUME TypeOK, Older, next_token' = next_token \/ next_token' = next_token + 1
    PROVE  /\ \A i \in 1 .. Len(queue) : queue[i].token < next_token'
           /\ active.token < next_token' /\ service.request < next_token'
           /\ \A r \in records : r.token < next_token'
           /\ NoItem.token < next_token'
<1>1. /\ \A i \in 1 .. Len(queue) : queue[i].token \in Nat
      /\ active.token \in Nat /\ service.request \in Nat /\ next_token \in Nat \ {0}
      /\ \A r \in records : r.token \in Nat
  <2>1. queue \in Seq(Item) /\ active \in Item \cup {NoItem} /\ records \subseteq Record
      BY DEF TypeOK, SchedulerTypeOK
  <2>2. \A i \in 1 .. Len(queue) : queue[i] \in Item
      BY <2>1
  <2>3. Tokens \subseteq Nat
      BY AudioBounds DEF Tokens
  <2>4. service.request \in Nat
    <3>1. service.request \in Tokens \cup {0}
        BY DEF TypeOK
    <3>2. 0 \in Nat
        OBVIOUS
    <3> QED
      BY <2>3, <3>1, <3>2, Zenon
  <2>5. next_token \in Nat \ {0}
      BY AudioBounds DEF TypeOK
  <2>6. active.token \in Nat /\ \A i \in 1 .. Len(queue) : queue[i].token \in Nat
      BY <2>1, <2>2 DEF Item, NoItem
  <2>7. \A r \in records : r.token \in Nat
      BY <2>1, <2>3 DEF Record
  <2> QED
    BY <2>4, <2>5, <2>6, <2>7
<1>2. next_token < next_token' \/ next_token = next_token'
    BY <1>1
<1>3. NoItem.token = 0 /\ 0 < next_token'
    BY <1>1 DEF NoItem
<1>4. \A t \in Nat : t < next_token => t < next_token'
    BY <1>1
<1> QED
  BY <1>1, <1>3, <1>4 DEF Older

\* A request that is accepted has a record of its own, and no other changes.
LEMMA SubmitRecords ==
    ASSUME Recorded, NEW p \in Priorities, NEW retained \in BOOLEAN,
           Submit(p, retained), UNCHANGED <<mutex, service>>
    PROVE  Distinct' /\ Taken' /\ Older' /\ Prepared' /\ ScheduledHasRecord'
<1> DEFINE item == [token |-> next_token, priority |-> p]
           record == [token |-> next_token, retained |-> retained,
                      state |-> IF queue' # queue THEN "queued" ELSE "playing"]
<1>1. SchedulerTypeOK /\ Distinct /\ TypeOK /\ Older
    BY DEF Recorded, Ownership, TypeOK
<1>2. item \in Item
    BY <1>1, SubmitType, AudioBounds DEF Item, Tokens
<1>3. /\ \A i \in 1 .. Len(queue) : queue[i].token # item.token
      /\ active.token # item.token
      /\ service.request # item.token
    BY <1>1, AudioBounds DEF Older, TypeOK
<1>4. Starts(item) \/ Interrupts(item) \/ Queues(item)
    BY DEF Submit
<1>5. /\ Distinct'
      /\ \A i \in 1 .. Len(queue') :
           queue'[i] = item \/ \E j \in 1 .. Len(queue) : queue'[i] = queue[j]
      /\ active' = active \/ active' = item
      /\ \A token : Scheduled(token)' => Scheduled(token) \/ token = item.token
  <2> HIDE DEF item
  <2> QED
    BY <1>1, <1>2, <1>3, <1>4, SubmitSchedules
<1>6. /\ records' = records \cup {record}
      /\ next_token' = next_token + 1
      /\ ~ mutex
    BY DEF Submit, Accepted
<1>7. Taken'
    BY <1>3, <1>5 DEF Recorded, Taken
<1>8. Older'
  <2>1. item.token < next_token' /\ record.token < next_token'
      BY <1>1, <1>6, AudioBounds DEF TypeOK
  <2>2. /\ \A i \in 1 .. Len(queue) : queue[i].token < next_token'
        /\ active.token < next_token' /\ service.request < next_token'
        /\ \A r \in records : r.token < next_token'
      BY <1>1, <1>6, ItemsOlder
  <2> HIDE DEF item, record
  <2> QED
    BY <1>5, <1>6, <2>1, <2>2 DEF Older
<1>9. Prepared'
    BY <1>6 DEF Prepared, Recorded, Ownership, ServiceOwns
<1>10. ScheduledHasRecord'
  <2>1. record.token = item.token /\ record.state \notin Final
      BY DEF Final
  <2> HIDE DEF item, record
  <2>2. ASSUME NEW token \in Tokens, Scheduled(token)'
        PROVE  \E r \in records' : r.token = token /\ r.state \notin Final
      BY <1>5, <1>6, <2>1, <2>2 DEF Recorded, ScheduledHasRecord
  <2> QED
    BY <2>2 DEF ScheduledHasRecord
<1> QED
  BY <1>5, <1>7, <1>8, <1>9, <1>10

\* A change of state leaves a record its token, and other records alone.
LEMMA MarkedRecords ==
    ASSUME NEW token, NEW state, records \subseteq Record,
           records' = Marked(token, state)
    PROVE  /\ \A r \in records' : \E s \in records : s.token = r.token
           /\ \A r \in records' : r.token = token => r.state = state
           /\ \A r \in records : r.token # token => r \in records'
           /\ \A r \in records : r.token = token =>
                \E s \in records' : s.token = token /\ s.state = state
<1> DEFINE f(r) == [r EXCEPT !.state = IF r.token = token THEN state ELSE @]
<1>1. \A r \in records : /\ f(r).token = r.token
                         /\ r.token = token => f(r).state = state
                         /\ r.token # token => f(r) = r
    BY DEF Record
<1>2. records' = {f(r) : r \in records}
    BY DEF Marked
<1> HIDE DEF f
<1> QED
  BY <1>1, <1>2

\* What is cancelled leaves the scheduler; its record is final, the others
\* stay as they are.
LEMMA CancelRecords ==
    ASSUME Recorded, NEW token, Cancel(token), UNCHANGED <<mutex, service, next_token>>
    PROVE  Distinct' /\ Taken' /\ Older' /\ Prepared' /\ ScheduledHasRecord'
<1>1. SchedulerTypeOK /\ Distinct /\ TypeOK /\ Older /\ records \subseteq Record
    BY DEF Recorded, Ownership, TypeOK
<1>2. /\ CancelItem(token) /\ records' = Marked(token, "interrupted") /\ ~ mutex
    BY DEF Cancel
<1>3. /\ Distinct'
      /\ \A i \in 1 .. Len(queue') :
           \E j \in 1 .. Len(queue) : queue'[i] = queue[j]
      /\ \/ active' = active \/ active' = NoItem
         \/ \E j \in 1 .. Len(queue) : active' = queue[j]
      /\ \A other : Scheduled(other)' => Scheduled(other) /\ other # token
    BY <1>1, <1>2, CancelSchedules
<1>4. /\ \A r \in records' : \E s \in records : s.token = r.token
      /\ \A r \in records : r.token # token => r \in records'
    BY <1>1, <1>2, MarkedRecords
<1>5. Taken'
    BY <1>3 DEF Recorded, Taken
<1>6. Older'
  <2>1. /\ \A i \in 1 .. Len(queue) : queue[i].token < next_token'
        /\ active.token < next_token' /\ service.request < next_token'
        /\ \A r \in records : r.token < next_token'
        /\ NoItem.token < next_token'
      BY <1>1, ItemsOlder
  <2> QED
    BY <1>3, <1>4, <2>1 DEF Older
<1>7. Prepared'
    BY <1>2 DEF Prepared, Recorded, Ownership, ServiceOwns
<1>8. ScheduledHasRecord'
  <2>1. ASSUME NEW other \in Tokens, Scheduled(other)'
        PROVE  \E r \in records' : r.token = other /\ r.state \notin Final
    <3>1. Scheduled(other) /\ other # token
        BY <1>3, <2>1
    <3>2. \E r \in records : r.token = other /\ r.state \notin Final
        BY <1>2, <3>1 DEF Recorded, ScheduledHasRecord
    <3> QED
      BY <1>4, <3>1, <3>2
  <2> QED
    BY <2>1 DEF ScheduledHasRecord
<1> QED
  BY <1>3, <1>5, <1>6, <1>7, <1>8

\* Steps that leave the scheduler, the records and the service task alone.
LEMMA NothingRecorded ==
    ASSUME Recorded, UNCHANGED <<active, queue, records, next_token, mutex, service>>
    PROVE  Distinct' /\ Taken' /\ Older' /\ Prepared' /\ ScheduledHasRecord'
<1>1. /\ Distinct => Distinct'
      /\ Taken => Taken'
      /\ Older => Older'
      /\ Prepared => Prepared'
      /\ ScheduledHasRecord => ScheduledHasRecord'
    BY DEF Distinct, Taken, Older, Prepared, ScheduledHasRecord, Scheduled, Active
<1> QED
  BY <1>1 DEF Recorded

\* The service task's own steps.
LEMMA ServiceRecords ==
    ASSUME Recorded, ServiceStep
    PROVE  Distinct' /\ Taken' /\ Older' /\ Prepared' /\ ScheduledHasRecord'
<1>0. /\ SchedulerTypeOK /\ Distinct /\ Taken /\ TypeOK /\ Older /\ Prepared
      /\ records \subseteq Record /\ ServiceOwns
    BY DEF Recorded, Ownership, TypeOK
<1>1. CASE Pick
  <2>1. PICK t : /\ t = active.token
                 /\ \E r \in records : r.token = t
                 /\ records' = Marked(t, "playing")
                 /\ service' = [pc |-> "claimed", request |-> t]
      BY <1>1 DEF Pick, At
  <2>2. UNCHANGED <<active, queue, next_token>> /\ ~ mutex
      BY <1>1 DEF Pick, sched
  <2>3. /\ \A r \in records' : \E s \in records : s.token = r.token
        /\ \A r \in records' : r.token = t => r.state = "playing"
        /\ \A r \in records : r.token # t => r \in records'
        /\ \A r \in records : r.token = t =>
             \E s \in records' : s.token = t /\ s.state = "playing"
      BY <1>0, <2>1, MarkedRecords
  <2>4. Distinct'
      BY <1>0, <2>2 DEF Distinct
  <2>5. Taken'
      BY <1>0, <2>1, <2>2 DEF Taken, Distinct
  <2>6. Older'
    <3>1. service'.request = t
        BY <2>1
    <3> QED
      BY <1>0, <2>1, <2>2, <2>3, <3>1 DEF Older
  <2>7. Prepared'
      BY <2>1, <2>2, <2>3 DEF Prepared, Final
  <2>8. ScheduledHasRecord'
    <3>1. ASSUME NEW token \in Tokens, Scheduled(token)'
          PROVE  \E r \in records' : r.token = token /\ r.state \notin Final
      <4>1. Scheduled(token)
          BY <2>2, <3>1 DEF Scheduled, Active
      <4>2. \E r \in records : r.token = token /\ r.state \notin Final
          BY <2>2, <4>1 DEF Recorded, ScheduledHasRecord
      <4> QED
        BY <2>3, <4>2 DEF Final
    <3> QED
      BY <3>1 DEF ScheduledHasRecord
  <2> QED
    BY <2>4, <2>5, <2>6, <2>7, <2>8
<1>2. CASE Rank
  <2>1. /\ UNCHANGED <<active, queue, records, next_token, mutex>>
        /\ service.pc = "claimed"
        /\ service' = [pc |-> "ranked", request |-> service.request]
      BY <1>2 DEF Rank, sched, store, At
  <2>2. service'.request = service.request /\ service'.pc = "ranked"
      BY <2>1
  <2>3. Distinct' /\ Taken' /\ Older' /\ Prepared'
      BY <1>0, <2>1, <2>2 DEF Distinct, Taken, Older, Prepared
  <2>4. ScheduledHasRecord'
      BY <2>1, <2>2 DEF Recorded, ScheduledHasRecord, Scheduled, Active
  <2> QED
    BY <2>3, <2>4
<1>3. CASE StartPlaying
  <2>1. /\ UNCHANGED <<active, queue, records, next_token>>
        /\ service.pc = "ranked"
        /\ service' = [pc |-> "playing", request |-> service.request]
      BY <1>3 DEF StartPlaying, sched, store, At
  <2>2. service'.request = service.request /\ service'.pc = "playing"
      BY <2>1
  <2>3. Distinct' /\ Taken' /\ Older' /\ Prepared'
      BY <1>0, <2>1, <2>2 DEF Distinct, Taken, Older, Prepared
  <2>4. ScheduledHasRecord'
    <3>1. ASSUME NEW token \in Tokens, Scheduled(token)'
          PROVE  \E r \in records' : r.token = token /\ r.state \notin Final
      <4>1. Scheduled(token)
          BY <2>1, <3>1 DEF Scheduled, Active
      <4>2. PICK r \in records : /\ r.token = token
                                 /\ r.state \notin Final \/ service.request = token
          BY <4>1 DEF Recorded, ScheduledHasRecord
      <4>3. r.state \notin Final
          BY <1>0, <2>1, <4>2 DEF Prepared
      <4> QED
        BY <2>1, <4>2, <4>3
    <3> QED
      BY <3>1 DEF ScheduledHasRecord
  <2> QED
    BY <2>3, <2>4
<1>4. ASSUME NEW result \in Final, PlayEnds(result)
      PROVE  Distinct' /\ Taken' /\ Older' /\ Prepared' /\ ScheduledHasRecord'
  <2>1. /\ UNCHANGED <<active, queue, next_token>>
        /\ service.pc = "playing" /\ ~ mutex /\ mutex'
        /\ records' = Marked(service.request, result)
        /\ service' = [pc |-> "reporting", request |-> service.request]
      BY <1>4 DEF PlayEnds, sched, At
  <2>2. service'.request = service.request /\ service'.pc = "reporting"
      BY <2>1
  <2>3. /\ \A r \in records' : \E s \in records : s.token = r.token
        /\ \A r \in records : r.token # service.request => r \in records'
        /\ \A r \in records : r.token = service.request =>
             \E s \in records' : s.token = service.request
    <3> DEFINE t == service.request
    <3> HIDE DEF t
    <3>1. records' = Marked(t, result)
        BY <2>1 DEF t
    <3> QED
      BY <1>0, <3>1, MarkedRecords DEF t
  <2>4. Distinct' /\ Taken' /\ Prepared'
      BY <1>0, <2>1, <2>2 DEF Distinct, Taken, Prepared
  <2>5. Older'
      BY <1>0, <2>1, <2>2, <2>3 DEF Older
  <2>6. ScheduledHasRecord'
    <3>1. ASSUME NEW token \in Tokens, Scheduled(token)'
          PROVE  \E r \in records' :
                   r.token = token /\ (r.state \notin Final \/ service.request = token)
      <4>1. Scheduled(token)
          BY <2>1, <3>1 DEF Scheduled, Active
      <4>2. PICK r \in records : r.token = token /\ r.state \notin Final
          BY <2>1, <4>1 DEF Recorded, ScheduledHasRecord
      <4> QED
        BY <2>3, <4>2
    <3> QED
      BY <2>1, <2>2, <3>1 DEF ScheduledHasRecord
  <2> QED
    BY <2>4, <2>5, <2>6
<1>5. CASE Reported
  <2>1. /\ service.pc = "reporting" /\ service' = [pc |-> "idle", request |-> 0]
        /\ records' = {r \in records : r.token # service.request \/ r.retained}
        /\ Complete(service.request) /\ UNCHANGED next_token
      BY <1>5 DEF Reported, At
  <2>2. service'.request = 0 /\ service'.pc = "idle"
      BY <2>1
  <2>3. /\ Distinct'
        /\ \A i \in 1 .. Len(queue') :
             \E j \in 1 .. Len(queue) : queue'[i] = queue[j]
        /\ \/ active' = active \/ active' = NoItem
           \/ \E j \in 1 .. Len(queue) : active' = queue[j]
        /\ \A token : Scheduled(token)' => Scheduled(token) /\ token # service.request
    <3>1. CASE Active(service.request)
        BY <1>0, <2>1, <3>1, AdvanceSchedules DEF Complete, Active
    <3>2. CASE ~ Active(service.request)
      <4>1. UNCHANGED <<active, queue>>
          BY <2>1, <3>2 DEF Complete
      <4>2. \A token : Scheduled(token)' <=> Scheduled(token)
          BY <4>1 DEF Scheduled, Active
      <4>3. \A token : Scheduled(token) => token # service.request
          BY <1>0, <2>1, <3>2 DEF Scheduled, Taken
      <4>4. Distinct'
          BY <1>0, <4>1 DEF Distinct
      <4> QED
        BY <4>1, <4>2, <4>3, <4>4
    <3> QED
      BY <3>1, <3>2
  <2>4. Taken' /\ Prepared'
      BY <2>2 DEF Taken, Prepared
  <2>5. Older'
    <3>1. /\ \A i \in 1 .. Len(queue) : queue[i].token < next_token'
          /\ active.token < next_token'
          /\ \A r \in records : r.token < next_token'
          /\ NoItem.token < next_token' /\ NoItem.token = 0
        BY <1>0, <2>1, ItemsOlder DEF NoItem
    <3>2. records' \subseteq records
        BY <2>1
    <3> QED
      BY <2>2, <2>3, <3>1, <3>2 DEF Older
  <2>6. ScheduledHasRecord'
    <3>1. ASSUME NEW token \in Tokens, Scheduled(token)'
          PROVE  \E r \in records' : r.token = token /\ r.state \notin Final
      <4>1. Scheduled(token) /\ token # service.request
          BY <2>3, <3>1
      <4>2. \E r \in records : r.token = token /\ r.state \notin Final
          BY <4>1 DEF Recorded, ScheduledHasRecord
      <4> QED
        BY <2>1, <4>1, <4>2
    <3> QED
      BY <3>1 DEF ScheduledHasRecord
  <2> QED
    BY <2>3, <2>4, <2>5, <2>6
<1> QED
  BY <1>1, <1>2, <1>3, <1>4, <1>5 DEF ServiceStep

\* Every step keeps the invariant,
LEMMA RecordedStep ==
    ASSUME Recorded, [Next]_vars
    PROVE  Recorded'
<1>1. Ownership'
    BY TypeStep, ServiceOwnsStep, RingOwnsStep, IntercomOwnsStep DEF Ownership, Recorded
<1> SUFFICES Distinct' /\ Taken' /\ Older' /\ Prepared' /\ ScheduledHasRecord'
    BY <1>1 DEF Recorded
<1>2. CASE ServiceStep
    BY <1>2, ServiceRecords
<1>3. ASSUME NEW p \in Priorities, Play(p)
      PROVE  Distinct' /\ Taken' /\ Older' /\ Prepared' /\ ScheduledHasRecord'
    BY <1>3, SubmitRecords DEF Play
<1>4. CASE Stop
    BY <1>4, CancelRecords DEF Stop
<1>5. CASE WakeInterrupts
  <2>1. CASE Cancel(playing_token)
      BY <1>5, <2>1, CancelRecords DEF WakeInterrupts
  <2>2. CASE UNCHANGED <<sched, records, cancel_requested>>
      BY <1>5, <2>2, NothingRecorded DEF WakeInterrupts, sched
  <2> QED
    BY <1>5, <2>1, <2>2 DEF WakeInterrupts
<1>6. CASE VoiceAnswered
  <2>1. CASE Submit(VoiceAssistant, TRUE)
      BY <1>6, <2>1, PriorityAssumption, SubmitRecords DEF VoiceAnswered
  <2>2. CASE UNCHANGED <<sched, store, cancel_requested>>
      BY <1>6, <2>2, NothingRecorded DEF VoiceAnswered, sched, store
  <2> QED
    BY <1>6, <2>1, <2>2 DEF VoiceAnswered
<1>7. CASE VoicePolls
  <2>1. /\ UNCHANGED <<active, queue, next_token, mutex, service>> /\ ~ mutex
        /\ records' \subseteq records
        /\ \A r \in records : r.state \notin Final => r \in records'
      BY <1>7 DEF VoicePolls, sched
  <2>2. Distinct' /\ Taken' /\ Older' /\ Prepared'
      BY <2>1 DEF Recorded, Distinct, Taken, Older, Prepared
  <2>3. ScheduledHasRecord'
      BY <2>1 DEF Recorded, ScheduledHasRecord, Scheduled, Active
  <2> QED
    BY <2>2, <2>3
<1>8. CASE UNCHANGED <<active, queue, records, next_token, mutex, service>>
    BY <1>8, NothingRecorded
<1>9. \/ ServiceStep \/ \E p \in Priorities : Play(p)
      \/ Stop \/ WakeInterrupts \/ VoiceAnswered \/ VoicePolls
      \/ UNCHANGED <<active, queue, records, next_token, mutex, service>>
    BY Zenon DEF Next, vars, sched, store, RingStep, RingClaims, RingGivesUp,
       RingEnds, RingReleases, HandlerStep, Ring, RingRanks, RingInterrupts,
       CallActive, CallEnds, CallDropped, TouchStep, TalkPressed, Talks,
       TalkReleased, TalkRestarts, WakeStep, WakeWord, WakeRanks, ReceiveStep, ReceiveClaims,
       ReceiveRefused, ReceiveOpens, ReceiveCloses, ReceiveReleases, Started
<1> QED
  BY <1>2, <1>3, <1>4, <1>5, <1>6, <1>7, <1>8, <1>9

\* and it holds when the service starts.
LEMMA RecordedHolds == Spec => []Recorded
<1>1. Init => Recorded
  <2> SUFFICES ASSUME Init PROVE Recorded
      OBVIOUS
  <2>1. /\ active = NoItem /\ queue = <<>> /\ records = {} /\ next_token = 1
        /\ service = [pc |-> "idle", request |-> 0]
      BY DEF Init, SchedulerInit
  <2>2. Len(queue) = 0 /\ 1 .. 0 = {}
      BY <2>1
  <2>3. Distinct /\ Taken /\ Older /\ Prepared
      BY <2>1, <2>2 DEF Distinct, Taken, Older, Prepared, NoItem
  <2>4. ScheduledHasRecord
      BY <2>1, <2>2 DEF ScheduledHasRecord, Scheduled, Active
  <2> QED
    BY <2>3, <2>4, OwnershipInit DEF Recorded
<1>2. Recorded /\ [Next]_vars => Recorded'
    BY RecordedStep
<1> QED
  BY <1>1, <1>2, PTL DEF Spec

\* What is scheduled has a record that is not final (find_record in
\* audio_service_task and cancel_tab5_audio), for every capacity: the service
\* task never skips an active item whose record is gone.
THEOREM ScheduledRecorded == Spec => []ScheduledHasRecord
<1>1. Recorded => ScheduledHasRecord
    BY DEF Recorded
<1> QED
  BY <1>1, RecordedHolds, PTL

-----------------------------------------------------------------------------
(* Who is outvoted is asked to stop                                        *)

Outvoted == Recorded /\ OutvotedIsStopped

\* The flag is reset only where the item that plays is the active one, and
\* every call that makes another one active sets it.
LEMMA OutvotedStep ==
    ASSUME Outvoted, [Next]_vars
    PROVE  Outvoted'
<1>1. Recorded'
    BY RecordedStep DEF Outvoted
<1> SUFFICES OutvotedIsStopped'
    BY <1>1 DEF Outvoted
<1>2. ASSUME NEW p, NEW retained, Submit(p, retained), UNCHANGED service
      PROVE  OutvotedIsStopped'
  <2> DEFINE item == [token |-> next_token, priority |-> p]
  <2>1. CASE Starts(item) /\ UNCHANGED cancel_requested
    <3>1. active.token = 0
        BY <2>1 DEF Starts, NoItem
    <3>2. service.pc = "playing" => service.request # 0
        BY OwnersDiffer DEF Outvoted, Recorded, Ownership, ServiceOwns
    <3>3. service.pc = "playing" => cancel_requested
        BY <3>1, <3>2 DEF Outvoted, OutvotedIsStopped
    <3> QED
      BY <1>2, <2>1, <3>3 DEF OutvotedIsStopped
  <2>2. CASE cancel_requested' = TRUE
      BY <2>2 DEF OutvotedIsStopped
  <2>3. CASE Queues(item) /\ UNCHANGED cancel_requested
      BY <1>2, <2>3 DEF Queues, Outvoted, OutvotedIsStopped
  <2> QED
    BY <1>2, <2>1, <2>2, <2>3 DEF Submit
<1>3. ASSUME NEW token, Cancel(token), UNCHANGED service
      PROVE  OutvotedIsStopped'
  <2>1. active' = active \/ Active(token)
      BY <1>3, CancelSchedules DEF Cancel, Outvoted, Recorded, Ownership, TypeOK
  <2>2. cancel_requested' = (cancel_requested \/ playing_token = token)
      BY <1>3 DEF Cancel
  <2>3. service.pc = "playing" => playing_token = service.request
      BY DEF Outvoted, Recorded, Ownership, ServiceOwns
  <2> QED
    BY <1>3, <2>1, <2>2, <2>3 DEF Outvoted, OutvotedIsStopped, Active
<1>4. CASE ServiceStep
  <2>1. CASE StartPlaying
    <3>1. /\ active' = active /\ service.pc = "ranked"
          /\ service' = [pc |-> "playing", request |-> service.request]
        BY <2>1 DEF StartPlaying, At, sched
    <3>2. service'.request = service.request
        BY <3>1
    <3> QED
      BY <3>1, <3>2 DEF Outvoted, Recorded, Prepared, OutvotedIsStopped
  <2>2. CASE Pick \/ Rank \/ Reported \/ \E result \in Final : PlayEnds(result)
    <3>1. service'.pc # "playing"
        BY <2>2 DEF Pick, Rank, Reported, PlayEnds, At
    <3> QED
      BY <3>1 DEF OutvotedIsStopped
  <2> QED
    BY <1>4, <2>1, <2>2 DEF ServiceStep
<1>5. ASSUME NEW p \in Priorities, Play(p)
      PROVE  OutvotedIsStopped'
    BY <1>2, <1>5 DEF Play
<1>6. CASE Stop
    BY <1>3, <1>6 DEF Stop
<1>7. CASE WakeInterrupts
  <2>1. CASE Cancel(playing_token)
      BY <1>3, <1>7, <2>1 DEF WakeInterrupts
  <2>2. CASE UNCHANGED <<sched, records, cancel_requested>>
      BY <1>7, <2>2 DEF WakeInterrupts, sched, Outvoted, OutvotedIsStopped
  <2> QED
    BY <1>7, <2>1, <2>2 DEF WakeInterrupts
<1>8. CASE VoiceAnswered
  <2>1. CASE Submit(VoiceAssistant, TRUE)
      BY <1>2, <1>8, <2>1 DEF VoiceAnswered
  <2>2. CASE UNCHANGED <<sched, store, cancel_requested>>
      BY <1>8, <2>2 DEF VoiceAnswered, sched, Outvoted, OutvotedIsStopped
  <2> QED
    BY <1>8, <2>1, <2>2 DEF VoiceAnswered
<1>9. CASE RingInterrupts
    BY <1>9 DEF RingInterrupts, OutvotedIsStopped
<1>10. CASE UNCHANGED <<active, cancel_requested, service>>
    BY <1>10 DEF Outvoted, OutvotedIsStopped
<1>11. \/ ServiceStep \/ \E p \in Priorities : Play(p)
       \/ Stop \/ WakeInterrupts \/ VoiceAnswered \/ RingInterrupts
       \/ UNCHANGED <<active, cancel_requested, service>>
    BY Zenon DEF Next, vars, sched, store, RingStep, RingClaims, RingGivesUp,
       RingEnds, RingReleases, HandlerStep, Ring, RingRanks, CallActive, CallEnds,
       CallDropped, TouchStep, TalkPressed, Talks, TalkReleased, TalkRestarts, WakeStep, WakeWord,
       WakeRanks, VoicePolls, ReceiveStep, ReceiveClaims, ReceiveRefused,
       ReceiveOpens, ReceiveCloses, ReceiveReleases, Started
<1> QED
  BY <1>4, <1>5, <1>6, <1>7, <1>8, <1>9, <1>10, <1>11

\* An item that plays although another one is active has been asked to stop
\* (cancel_requested in tab5_audio_service.cpp), whatever the requests,
\* cancellations and rings around it: no request to stop is lost.
THEOREM OutvotedStopped == Spec => []OutvotedIsStopped
<1>1. Init => OutvotedIsStopped
    BY DEF Init, OutvotedIsStopped
<1>2. Outvoted /\ [Next]_vars => Outvoted'
    BY OutvotedStep
<1>3. Recorded /\ OutvotedIsStopped <=> Outvoted
    BY DEF Outvoted
<1>4. Recorded /\ Recorded' /\ OutvotedIsStopped /\ [Next]_vars => OutvotedIsStopped'
    BY <1>2, <1>3 DEF Outvoted
<1> QED
  BY <1>1, <1>4, RecordedHolds, PTL DEF Spec

-----------------------------------------------------------------------------
(* A free record is room in the array                                      *)

\* The records in use are finitely many,
LEMMA FiniteStep ==
    ASSUME IsFiniteSet(records), [Next]_vars
    PROVE  IsFiniteSet(records')
<1>1. ASSUME NEW record, records' = records \cup {record}
      PROVE  IsFiniteSet(records')
    BY <1>1, FS_AddElement
<1>2. ASSUME NEW token, NEW state, records' = Marked(token, state)
      PROVE  IsFiniteSet(records')
  <2> DEFINE g == [r \in records |->
                     [r EXCEPT !.state = IF r.token = token THEN state ELSE @]]
  <2>1. records' = {g[r] : r \in records}
      BY <1>2 DEF Marked
  <2>2. g \in Surjection(records, records')
    <3>1. DOMAIN g = records /\ g = [r \in records |-> g[r]]
        OBVIOUS
    <3> HIDE DEF g
    <3> QED
      BY <2>1, <3>1 DEF Surjection
  <2> HIDE DEF g
  <2> QED
    BY <2>2, FS_Surjection
<1>3. CASE records' \subseteq records
    BY <1>3, FS_Subset
<1>4. \/ \E record : records' = records \cup {record}
      \/ \E token, state : records' = Marked(token, state)
      \/ records' \subseteq records
  <2>1. ASSUME NEW p, NEW retained, Submit(p, retained)
        PROVE  \E record : records' = records \cup {record}
      BY <2>1, Zenon DEF Submit, Accepted
  <2>2. ASSUME NEW token, Cancel(token)
        PROVE  records' = Marked(token, "interrupted")
      BY <2>2 DEF Cancel
  <2>3. \/ \E p, retained : Submit(p, retained)
        \/ \E token : Cancel(token)
        \/ Pick \/ (\E result : PlayEnds(result))
        \/ Reported \/ VoicePolls
        \/ UNCHANGED records
      BY Zenon DEF Next, vars, store, ServiceStep, Rank, StartPlaying, RingStep,
         RingClaims, RingGivesUp, RingEnds, RingReleases, HandlerStep, Play, Stop,
         Ring, RingRanks, RingInterrupts, CallActive, CallEnds, CallDropped,
         TouchStep, TalkPressed, Talks, TalkReleased, TalkRestarts, WakeStep, WakeWord, WakeRanks,
         WakeInterrupts, VoiceAnswered, ReceiveStep, ReceiveClaims, ReceiveRefused,
         ReceiveOpens, ReceiveCloses, ReceiveReleases, Started
  <2>4. CASE Pick
      BY <2>4, Zenon DEF Pick
  <2>5. ASSUME NEW result, PlayEnds(result)
        PROVE  records' = Marked(service.request, result)
      BY <2>5 DEF PlayEnds
  <2>6. CASE Reported \/ VoicePolls
      BY <2>6 DEF Reported, VoicePolls
  <2> QED
    BY <2>1, <2>2, <2>3, <2>4, <2>5, <2>6, Zenon
<1> QED
  BY <1>1, <1>2, <1>3, <1>4

\* and each scheduled item has one of its own.
LEMMA RecordsSuffice ==
    ASSUME Recorded, IsFiniteSet(records), HasRecord
    PROVE  active = NoItem \/ Len(queue) < Capacity
<1> SUFFICES ASSUME active # NoItem
             PROVE  Len(queue) < Capacity
    OBVIOUS
<1> DEFINE n == Len(queue)
           W == {queue[i].token : i \in 1 .. n}
           R == {r.token : r \in records}
           f == [i \in 1 .. n |-> queue[i].token]
           g == [r \in records |-> r.token]
<1>1. /\ queue \in Seq(Item) /\ n \in Nat /\ active \in Item /\ TypeOK
      /\ \A i \in 1 .. n : queue[i] \in Item
    BY DEF Recorded, Ownership, TypeOK, SchedulerTypeOK
<1>2. IsFiniteSet(W) /\ Cardinality(W) = n
  <2>1. IsFiniteSet(1 .. n) /\ Cardinality(1 .. n) = n
    <3> HIDE DEF n
    <3>1. IsFiniteSet(1 .. n) /\ Cardinality(1 .. n) = IF 1 > n THEN 0 ELSE n - 1 + 1
        BY <1>1, FS_Interval
    <3> QED
      BY <1>1, <3>1
  <2>2. f \in Surjection(1 .. n, W) /\ f \in Injection(1 .. n, W)
    <3>1. f \in Surjection(1 .. n, W)
        BY DEF Surjection
    <3>2. \A i, j \in 1 .. n : f[i] = f[j] => i = j
        BY DEF Recorded, Distinct
    <3>3. f \in Injection(1 .. n, W)
      <4> HIDE DEF f
      <4> QED
        BY <3>1, <3>2 DEF Injection, Surjection, IsInjective
    <3> QED
      BY <3>1, <3>3
  <2> HIDE DEF f, W, n
  <2> QED
    BY <2>1, <2>2, FS_Surjection
<1>3. active.token \notin W
    BY DEF Recorded, Distinct
<1>4. /\ IsFiniteSet(W \cup {active.token})
      /\ Cardinality(W \cup {active.token}) = n + 1
  <2> HIDE DEF W, n
  <2> QED
    BY <1>2, <1>3, FS_AddElement
<1>5. IsFiniteSet(R) /\ Cardinality(R) <= Cardinality(records)
  <2>1. g \in Surjection(records, R)
      BY DEF Surjection
  <2> HIDE DEF g, R
  <2> QED
    BY <2>1, FS_Surjection
<1>6. W \cup {active.token} \subseteq R
  <2>1. ASSUME NEW item \in Item, Scheduled(item.token), item.token < next_token
        PROVE  item.token \in R
    <3>1. item.token \in Nat \ {0}
        BY DEF Item
    <3>2. next_token \in 1 .. MaxToken + 1
        BY <1>1 DEF TypeOK
    <3>3. item.token \in Tokens
        BY <2>1, <3>1, <3>2, AudioBounds DEF Tokens
    <3> QED
      BY <2>1, <3>3 DEF Recorded, ScheduledHasRecord
  <2>2. active.token \in R
      BY <1>1, <2>1 DEF Scheduled, Active, Recorded, Older
  <2>3. ASSUME NEW i \in 1 .. n
        PROVE  queue[i].token \in R
      BY <1>1, <2>1 DEF Scheduled, Recorded, Older
  <2> QED
    BY <2>2, <2>3
<1>7. n + 1 <= Cardinality(R)
  <2> HIDE DEF W, R, n
  <2> QED
    BY <1>4, <1>5, <1>6, FS_Subset
<1>8. Cardinality(R) \in Nat /\ Cardinality(records) \in Nat /\ Capacity \in Nat
  <2> HIDE DEF R
  <2> QED
    BY <1>5, FS_CardinalityType, SchedulerAssumption
<1>9. Cardinality(records) <= Capacity
    BY DEF HasRecord
<1> QED
  <2> HIDE DEF W, R, n
  <2> QED
    BY <1>1, <1>5, <1>7, <1>8, <1>9 DEF n

\* When submit_tab5_audio finds a free record, Scheduler::submit does not
\* answer that its array is full: the two limits of audio_scheduler.hpp and
\* tab5_audio_service.cpp agree, and Submit needs no third outcome.
THEOREM SubmitFindsRoom ==
    Spec => [](HasRecord => active = NoItem \/ Len(queue) < Capacity)
<1>1. Init => IsFiniteSet(records)
    BY FS_EmptySet DEF Init
<1>2. IsFiniteSet(records) /\ [Next]_vars => IsFiniteSet(records)'
    BY FiniteStep
<1>3. Recorded /\ IsFiniteSet(records) =>
        (HasRecord => active = NoItem \/ Len(queue) < Capacity)
    BY RecordsSuffice
<1> QED
  BY <1>1, <1>2, <1>3, RecordedHolds, PTL DEF Spec
=============================================================================
