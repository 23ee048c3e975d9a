------------------------------ MODULE SyncProofs ------------------------------
(***************************************************************************)
(* Theorems about HomeAssistantSync, for any entities, connections and     *)
(* changes: types, the agreement of memory and tables, that the mirror     *)
(* keeps the newest state, and that registry events are followed.          *)
(***************************************************************************)
EXTENDS HomeAssistantSync, TLAPS, SequenceTheorems

-----------------------------------------------------------------------------
(* What a step does to the messages under way                              *)

Connections == 1 .. MaxConnections

\* Message i of connection n is the answer to the request of task t.
IsAnswer(n, i, t) == inbox[n][i].type = "result" /\ inbox[n][i].task = t

\* A task's answer is under way only while the task waits for it, and once.
Answered(t) == \E n \in Connections : \E i \in 1 .. Len(inbox[n]) : IsAnswer(n, i, t)

Awaited == \A t \in Tasks : Answered(t) => task[t].phase = "answered"

Unique ==
    \A t \in Tasks, n, k \in Connections :
      \A i \in 1 .. Len(inbox[n]), j \in 1 .. Len(inbox[k]) :
        IsAnswer(n, i, t) /\ IsAnswer(k, j, t) => n = k /\ i = j

\* A link is that of a connection, and changes have numbers.
Numbered == clock # 0 /\ (link => conn # 0)

Typed == TypeOK /\ Awaited /\ Unique /\ Numbered

\* The messages of connection n move up by d; some are forgotten or lost.
Moved(n, d) ==
    \A i \in 1 .. Len(inbox'[n]) :
      /\ i + d \in 1 .. Len(inbox[n])
      /\ inbox'[n][i] \in {inbox[n][i + d], Unclaimed}

Moves == \A n \in Connections : Moved(n, 0) \/ Moved(n, 1)

\* Messages ms arrive behind the others.
Arrives(ms) ==
    /\ \A n \in Connections \ {conn} : inbox'[n] = inbox[n]
    /\ Len(inbox'[conn]) = Len(inbox[conn]) + Len(ms)
    /\ \A i \in 1 .. Len(inbox[conn]) : inbox'[conn][i] = inbox[conn][i]
    /\ \A i \in 1 .. Len(ms) : inbox'[conn][Len(inbox[conn]) + i] = ms[i]

\* The parts of the types.
HomeTypes ==
    home \in States /\ clock \in Stamp
LinkTypes ==
    /\ conn \in 0 .. MaxConnections
    /\ link \in BOOLEAN
    /\ subscribed \subseteq {"state", "registry"}
    /\ loop \in [Connections -> {"none", "reading", "sending", "over"}]
InboxTypes == inbox \in [Connections -> Seq(Message)]
TaskTypes == task \in [Tasks -> Task]
StoreTypes ==
    /\ entries \subseteq Entities
    /\ mirror \in States /\ disk \in States /\ work \in States
    /\ batch \in Tasks \cup {"none"}
    /\ told \in States /\ outrun \subseteq Entities
FlagTypes == pending \in BOOLEAN /\ overlap \in BOOLEAN /\ lapse \in BOOLEAN


LEMMA Parts ==
    /\ TypeOK <=> /\ HomeTypes /\ LinkTypes /\ InboxTypes /\ TaskTypes /\ StoreTypes
                  /\ FlagTypes
    /\ TypeOK' <=> /\ HomeTypes' /\ LinkTypes' /\ InboxTypes' /\ TaskTypes' /\ StoreTypes'
                   /\ FlagTypes'
BY DEF TypeOK, HomeTypes, LinkTypes, InboxTypes, TaskTypes, StoreTypes, FlagTypes,
       Connections

\* What a step leaves alone keeps its type.
LEMMA PartsKept ==
    /\ UNCHANGED ha /\ HomeTypes => HomeTypes'
    /\ UNCHANGED connection /\ UNCHANGED loop /\ LinkTypes => LinkTypes'
    /\ UNCHANGED inbox /\ InboxTypes => InboxTypes'
    /\ UNCHANGED task /\ TaskTypes => TaskTypes'
    /\ UNCHANGED <<entries, registry, batch, brought>> /\ StoreTypes => StoreTypes'
    /\ UNCHANGED <<pending, history>> /\ FlagTypes => FlagTypes'
BY DEF HomeTypes, LinkTypes, InboxTypes, TaskTypes, StoreTypes, FlagTypes, ha,
       connection, registry, brought, history

LEMMA NumbersKept ==
    /\ MaxConnections \in Nat /\ MaxChanges \in Nat
    /\ Connections' = Connections
    /\ 0 \in Stamp /\ 1 \in Stamp /\ Stamp \subseteq Nat
    /\ Nothing \in States
BY SyncKnobs DEF Connections, Stamp, Nothing, States

\* Every message under way is one.
LEMMA MessageTypes ==
    ASSUME InboxTypes, NEW n \in Connections
    PROVE  /\ Len(inbox[n]) \in Nat
           /\ inbox[n] \in Seq(Message)
           /\ \A i \in 1 .. Len(inbox[n]) : inbox[n][i] \in Message
<1>1. inbox[n] \in Seq(Message)
    BY DEF InboxTypes
<1> QED
  BY <1>1

\* The first message is read.
LEMMA ReadsMoves ==
    ASSUME InboxTypes, NEW n \in Connections, NEW type, Reads(n, type)
    PROVE  /\ InboxTypes' /\ Moves /\ Moved(n, 1)
           /\ 1 \in 1 .. Len(inbox[n]) /\ Head(inbox[n]) = inbox[n][1]
           /\ inbox[n][1] \in Message /\ inbox[n][1].type = type
           /\ Len(inbox'[n]) = Len(inbox[n]) - 1
           /\ \A i \in 1 .. Len(inbox[n]) - 1 : inbox'[n][i] = inbox[n][i + 1]
           /\ \A k \in Connections \ {n} : inbox'[k] = inbox[k]
<1>1. inbox[n] # <<>> /\ inbox' = [inbox EXCEPT ![n] = Tail(@)]
      /\ Head(inbox[n]).type = type
    BY DEF Reads
<1>2. inbox[n] \in Seq(Message) /\ \A k \in Connections : Len(inbox[k]) \in Nat
    BY MessageTypes
<1>3. /\ Tail(inbox[n]) \in Seq(Message) /\ Len(Tail(inbox[n])) = Len(inbox[n]) - 1
      /\ \A i \in 1 .. Len(inbox[n]) - 1 : Tail(inbox[n])[i] = inbox[n][i + 1]
      /\ Head(inbox[n]) = inbox[n][1] /\ 1 \in 1 .. Len(inbox[n])
      /\ inbox[n][1] \in Message
    BY <1>1, <1>2
<1>4. inbox'[n] = Tail(inbox[n]) /\ \A k \in Connections \ {n} : inbox'[k] = inbox[k]
    BY <1>1 DEF InboxTypes
<1>5. InboxTypes'
    BY <1>1, <1>3, NumbersKept DEF InboxTypes
<1>6. Moved(n, 1)
    BY <1>2, <1>3, <1>4 DEF Moved
<1>7. \A k \in Connections \ {n} : Moved(k, 0)
    BY <1>2, <1>4 DEF Moved
<1> QED
  BY <1>1, <1>3, <1>4, <1>5, <1>6, <1>7 DEF Moves

\* Answers to failed requests are forgotten.
LEMMA ForgetMoves ==
    ASSUME InboxTypes, NEW failed, Forget(failed)
    PROVE  /\ InboxTypes' /\ Moves
           /\ \A n \in Connections :
                /\ Moved(n, 0)
                /\ Len(inbox'[n]) = Len(inbox[n])
                /\ \A i \in 1 .. Len(inbox[n]) :
                     inbox'[n][i] = IF Forgotten(inbox[n][i], failed) THEN Unclaimed
                                    ELSE inbox[n][i]
<1>1. Unclaimed \in Message
    BY NumbersKept DEF Unclaimed, Message
<1>2. ASSUME NEW n \in Connections
      PROVE  /\ inbox'[n] \in Seq(Message)
             /\ Len(inbox'[n]) = Len(inbox[n])
             /\ \A i \in 1 .. Len(inbox[n]) :
                  inbox'[n][i] = IF Forgotten(inbox[n][i], failed) THEN Unclaimed
                                 ELSE inbox[n][i]
  <2> DEFINE s == [i \in 1 .. Len(inbox[n]) |->
                     IF Forgotten(inbox[n][i], failed) THEN Unclaimed ELSE inbox[n][i]]
  <2>1. inbox'[n] = s
      BY DEF Forget, Connections
  <2>2. Len(inbox[n]) \in Nat /\ \A i \in 1 .. Len(inbox[n]) : inbox[n][i] \in Message
      BY MessageTypes
  <2>3. \A i \in 1 .. Len(inbox[n]) :
          (IF Forgotten(inbox[n][i], failed) THEN Unclaimed ELSE inbox[n][i]) \in Message
      BY <1>1, <2>2
  <2>4. s \in Seq(Message) /\ Len(s) = Len(inbox[n])
      BY <2>2, <2>3, IsASeq
  <2>5. \A i \in 1 .. Len(inbox[n]) :
          s[i] = IF Forgotten(inbox[n][i], failed) THEN Unclaimed ELSE inbox[n][i]
      OBVIOUS
  <2> HIDE DEF s
  <2> QED
    BY <2>1, <2>4, <2>5
<1>3. InboxTypes'
    BY <1>2, NumbersKept DEF InboxTypes, Forget, Connections
<1>4. \A n \in Connections : Moved(n, 0)
  <2> TAKE n \in Connections
  <2>1. Len(inbox[n]) \in Nat
      BY MessageTypes
  <2> QED
    BY <1>2, <2>1 DEF Moved
<1> QED
  BY <1>2, <1>3, <1>4 DEF Moves

\* Some of those under way are lost.
LEMMA LostMoves ==
    ASSUME InboxTypes, conn \in Connections, NEW k \in 0 .. Len(inbox[conn]),
           inbox' = [inbox EXCEPT ![conn] = SubSeq(@, 1, k)]
    PROVE  InboxTypes' /\ Moves
<1>1. /\ inbox[conn] \in Seq(Message)
      /\ \A n \in Connections : Len(inbox[n]) \in Nat
    BY MessageTypes
<1>2. /\ SubSeq(inbox[conn], 1, k) \in Seq(Message)
      /\ Len(SubSeq(inbox[conn], 1, k)) = k
      /\ \A i \in 1 .. k : SubSeq(inbox[conn], 1, k)[i] = inbox[conn][i]
    BY <1>1, SubSeqProperties
<1>3. /\ inbox'[conn] = SubSeq(inbox[conn], 1, k)
      /\ \A n \in Connections \ {conn} : inbox'[n] = inbox[n]
    BY DEF InboxTypes
<1>4. InboxTypes'
    BY <1>2, NumbersKept DEF InboxTypes
<1>5. \A n \in Connections : Moved(n, 0)
  <2> TAKE n \in Connections
  <2>1. CASE n = conn
      BY <1>1, <1>2, <1>3, <2>1 DEF Moved
  <2>2. CASE n # conn
      BY <1>1, <1>3, <2>2 DEF Moved
  <2> QED
    BY <2>1, <2>2
<1> QED
  BY <1>4, <1>5 DEF Moves

\* A message arrives,
LEMMA AppendArrives ==
    ASSUME InboxTypes, conn \in Connections, NEW m \in Message,
           inbox' = [inbox EXCEPT ![conn] = Append(@, m)]
    PROVE  InboxTypes' /\ Arrives(<<m>>)
<1>1. inbox[conn] \in Seq(Message) /\ Len(inbox[conn]) \in Nat
    BY MessageTypes
<1>2. /\ Append(inbox[conn], m) \in Seq(Message)
      /\ Len(Append(inbox[conn], m)) = Len(inbox[conn]) + 1
      /\ \A i \in 1 .. Len(inbox[conn]) : Append(inbox[conn], m)[i] = inbox[conn][i]
      /\ Append(inbox[conn], m)[Len(inbox[conn]) + 1] = m
    BY <1>1, AppendProperties
<1>3. /\ inbox'[conn] = Append(inbox[conn], m)
      /\ \A n \in Connections \ {conn} : inbox'[n] = inbox[n]
    BY DEF InboxTypes
<1>4. InboxTypes'
    BY <1>2, NumbersKept DEF InboxTypes
<1>5. Len(<<m>>) = 1 /\ <<m>>[1] = m /\ \A i \in 1 .. 1 : i = 1
    OBVIOUS
<1>6. Arrives(<<m>>)
    BY <1>2, <1>3, <1>5 DEF Arrives
<1> QED
  BY <1>4, <1>6

\* or several.
LEMMA ReportsArrive ==
    ASSUME InboxTypes, conn \in Connections, NEW ms \in Seq(Message), link,
           Reports(ms)
    PROVE  InboxTypes' /\ Arrives(ms)
<1>1. inbox[conn] \in Seq(Message) /\ Len(inbox[conn]) \in Nat /\ Len(ms) \in Nat
    BY MessageTypes
<1>2. /\ inbox[conn] \o ms \in Seq(Message)
      /\ Len(inbox[conn] \o ms) = Len(inbox[conn]) + Len(ms)
      /\ \A i \in 1 .. Len(inbox[conn]) : (inbox[conn] \o ms)[i] = inbox[conn][i]
      /\ \A i \in 1 .. Len(ms) : (inbox[conn] \o ms)[Len(inbox[conn]) + i] = ms[i]
    BY <1>1, ConcatProperties
<1>3. inbox' = [inbox EXCEPT ![conn] = inbox[conn] \o ms]
    BY DEF Reports
<1>4. /\ inbox'[conn] = inbox[conn] \o ms
      /\ \A n \in Connections \ {conn} : inbox'[n] = inbox[n]
    BY <1>3 DEF InboxTypes
<1>5. InboxTypes'
    BY <1>2, <1>3, NumbersKept DEF InboxTypes
<1>6. Arrives(ms)
    BY <1>2, <1>4 DEF Arrives
<1> QED
  BY <1>5, <1>6

-----------------------------------------------------------------------------
(* Messages and requests                                                   *)

\* The fields of a message.
LEMMA MessageShape ==
    ASSUME NEW m \in Message
    PROVE  /\ m.type \in {"result", "state", "registry"}
           /\ m.type = "result" => m.task \in Tasks \cup {"nobody"} /\ m.data \in States
           /\ m.type = "state" => m.entity \in Entities /\ m.stamp \in Stamp
BY DEF Message

\* The fields of a task.
LEMMA TaskShape ==
    ASSUME NEW k \in Task
    PROVE  /\ k = [pc |-> k.pc, phase |-> k.phase, data |-> k.data]
           /\ k.data \in States
           /\ k.phase \in {"asked", "answered"} => k.pc \in Requesting /\ k.data = Nothing
           /\ k.phase = "ready" => k.pc \in Requesting
           /\ k.pc \in Requesting => k.phase \in {"asked", "answered", "ready"}
           /\ k.phase \in {"none", "asked", "answered", "ready"}
           /\ k.pc \in Requesting \cup {"down", "watching", "none", "starting", "importing"}
BY NumbersKept DEF Task, Requesting

\* What a task becomes.
LEMMA NewTasks ==
    /\ \A pc \in {"down", "watching", "none", "starting"} : Idle(pc) \in Task
    /\ \A pc \in Requesting : Asking(pc) \in Task
    /\ \A t \in Tasks, pc \in Requesting : Asks(t, pc) \in Task
    /\ \A pc \in Requesting, data \in States :
         [pc |-> pc, phase |-> "ready", data |-> data] \in Task
    /\ \A pc \in Requesting : [pc |-> pc, phase |-> "answered", data |-> Nothing] \in Task
    /\ \A data \in States : [pc |-> "importing", phase |-> "none", data |-> data] \in Task
<1>1. \A pc \in {"down", "watching", "none", "starting"} : Idle(pc) \in Task
    BY DEF Idle, Task
<1>2. \A pc \in Requesting : Asking(pc) \in Task
    BY DEF Asking, Task
<1>3. \A data \in States, pc \in Requesting :
        [pc |-> pc, phase |-> "ready", data |-> data] \in Task
    BY DEF Task
<1>4. \A data \in States : [pc |-> "importing", phase |-> "none", data |-> data] \in Task
    BY DEF Task
<1>5. \A pc \in Requesting : [pc |-> pc, phase |-> "answered", data |-> Nothing] \in Task
    BY DEF Task
<1> QED
  BY <1>1, <1>2, <1>3, <1>4, <1>5 DEF Asks

\* Where messages only move, no answer is new,
LEMMA MovesAnswers ==
    ASSUME InboxTypes, Unique, Moves
    PROVE  /\ Unique'
           /\ \A t \in Tasks : Answered(t)' => Answered(t)
<1>1. \A n \in Connections : Len(inbox[n]) \in Nat
    BY MessageTypes
<1>2. ASSUME NEW n \in Connections, NEW d \in {0, 1}, Moved(n, d),
             NEW i \in 1 .. Len(inbox'[n]), NEW t \in Tasks, IsAnswer(n, i, t)'
      PROVE  i + d \in 1 .. Len(inbox[n]) /\ IsAnswer(n, i + d, t)
  <2>1. i + d \in 1 .. Len(inbox[n]) /\ inbox'[n][i] \in {inbox[n][i + d], Unclaimed}
      BY <1>2 DEF Moved
  <2>2. inbox'[n][i].type = "result" /\ inbox'[n][i].task = t
      BY <1>2 DEF IsAnswer
  <2>3. Unclaimed.task = "nobody" /\ t # "nobody"
      BY DEF Unclaimed, Tasks
  <2>4. inbox'[n][i] = inbox[n][i + d]
      BY <2>1, <2>2, <2>3
  <2> QED
    BY <2>1, <2>2, <2>4 DEF IsAnswer
<1>3. \A n \in Connections : \E d \in {0, 1} : Moved(n, d)
    BY DEF Moves
<1>4. Unique'
  <2> SUFFICES ASSUME NEW t \in Tasks, NEW n \in Connections, NEW k \in Connections,
                      NEW i \in 1 .. Len(inbox'[n]), NEW j \in 1 .. Len(inbox'[k]),
                      IsAnswer(n, i, t)', IsAnswer(k, j, t)'
               PROVE  n = k /\ i = j
      BY NumbersKept DEF Unique
  <2>1. PICK d \in {0, 1} : Moved(n, d)
      BY <1>3
  <2>2. PICK c \in {0, 1} : Moved(k, c) /\ (n = k => c = d)
      BY <1>3, <2>1
  <2>3. i + d \in 1 .. Len(inbox[n]) /\ IsAnswer(n, i + d, t)
      BY <1>2, <2>1
  <2>4. j + c \in 1 .. Len(inbox[k]) /\ IsAnswer(k, j + c, t)
      BY <1>2, <2>2
  <2>5. n = k /\ i + d = j + c
      BY <2>3, <2>4 DEF Unique
  <2>6. i \in Int /\ j \in Int /\ d \in Int /\ c = d
      BY <2>2, <2>5
  <2> QED
    BY <2>5, <2>6
<1>5. ASSUME NEW t \in Tasks, Answered(t)'
      PROVE  Answered(t)
  <2>1. PICK n \in Connections : \E i \in 1 .. Len(inbox'[n]) : IsAnswer(n, i, t)'
      BY <1>5, NumbersKept DEF Answered
  <2> QED
    BY <1>2, <1>3, <2>1 DEF Answered
<1> QED
  BY <1>4, <1>5

\* A message after an arrival was there before, or is one of those.
LEMMA ArrivedFrom ==
    ASSUME InboxTypes, conn \in Connections, NEW ms \in Seq(Message), Arrives(ms),
           NEW n \in Connections, NEW i \in 1 .. Len(inbox'[n])
    PROVE  \/ i \in 1 .. Len(inbox[n]) /\ inbox'[n][i] = inbox[n][i]
           \/ /\ n = conn
              /\ \E k \in 1 .. Len(ms) :
                   i = Len(inbox[conn]) + k /\ inbox'[n][i] = ms[k]
<1>1. Len(inbox[conn]) \in Nat /\ Len(ms) \in Nat
    BY MessageTypes
<1>2. CASE n # conn
    BY <1>2 DEF Arrives
<1>3. CASE n = conn /\ i <= Len(inbox[conn])
    BY <1>1, <1>3 DEF Arrives
<1>4. CASE n = conn /\ ~ (i <= Len(inbox[conn]))
  <2>1. Len(inbox'[conn]) = Len(inbox[conn]) + Len(ms)
      BY DEF Arrives
  <2>2. i - Len(inbox[conn]) \in 1 .. Len(ms)
        /\ i = Len(inbox[conn]) + (i - Len(inbox[conn]))
      BY <1>1, <1>4, <2>1
  <2>3. \A k \in 1 .. Len(ms) : inbox'[conn][Len(inbox[conn]) + k] = ms[k]
      BY DEF Arrives
  <2> QED
    BY <1>4, <2>2, <2>3
<1> QED
  BY <1>2, <1>3, <1>4

\* and where reports arrive, neither;
LEMMA ArrivesAnswers ==
    ASSUME InboxTypes, conn \in Connections, Unique,
           NEW ms \in Seq(Message), Arrives(ms),
           \A i \in 1 .. Len(ms) : ms[i].type # "result"
    PROVE  /\ Unique'
           /\ \A t \in Tasks : Answered(t)' => Answered(t)
<1>1. ASSUME NEW n \in Connections, NEW i \in 1 .. Len(inbox'[n]), NEW t \in Tasks,
             IsAnswer(n, i, t)'
      PROVE  i \in 1 .. Len(inbox[n]) /\ IsAnswer(n, i, t)
  <2>1. inbox'[n][i].type = "result" /\ inbox'[n][i].task = t
      BY <1>1 DEF IsAnswer
  <2>2. \/ i \in 1 .. Len(inbox[n]) /\ inbox'[n][i] = inbox[n][i]
        \/ \E k \in 1 .. Len(ms) : inbox'[n][i] = ms[k]
      BY ArrivedFrom
  <2>3. i \in 1 .. Len(inbox[n]) /\ inbox'[n][i] = inbox[n][i]
      BY <2>1, <2>2
  <2> QED
    BY <2>1, <2>3 DEF IsAnswer
<1>2. Unique'
  <2> SUFFICES ASSUME NEW t \in Tasks, NEW n \in Connections, NEW k \in Connections,
                      NEW i \in 1 .. Len(inbox'[n]), NEW j \in 1 .. Len(inbox'[k]),
                      IsAnswer(n, i, t)', IsAnswer(k, j, t)'
               PROVE  n = k /\ i = j
      BY NumbersKept DEF Unique
  <2>1. i \in 1 .. Len(inbox[n]) /\ IsAnswer(n, i, t)
      BY <1>1
  <2>2. j \in 1 .. Len(inbox[k]) /\ IsAnswer(k, j, t)
      BY <1>1
  <2> QED
    BY <2>1, <2>2 DEF Unique
<1>3. ASSUME NEW t \in Tasks, Answered(t)'
      PROVE  Answered(t)
    BY <1>1, <1>3, NumbersKept DEF Answered
<1> QED
  BY <1>2, <1>3

\* an answer is the first of its request.
LEMMA AnswerArrives ==
    ASSUME InboxTypes, conn \in Connections, Unique, NEW t \in Tasks, ~ Answered(t),
           NEW m \in Message, m.type = "result", m.task = t, Arrives(<<m>>)
    PROVE  /\ Unique'
           /\ \A u \in Tasks : Answered(u)' => Answered(u) \/ u = t
<1>1. <<m>> \in Seq(Message) /\ Len(<<m>>) = 1 /\ <<m>>[1] = m
    OBVIOUS
<1>2. \A k \in 1 .. Len(<<m>>) : k = 1
    BY <1>1
<1>3. ASSUME NEW n \in Connections, NEW i \in 1 .. Len(inbox'[n])
      PROVE  \/ i \in 1 .. Len(inbox[n]) /\ inbox'[n][i] = inbox[n][i]
             \/ n = conn /\ i = Len(inbox[conn]) + 1 /\ inbox'[n][i] = m
  <2>1. \/ i \in 1 .. Len(inbox[n]) /\ inbox'[n][i] = inbox[n][i]
        \/ /\ n = conn
           /\ \E k \in 1 .. Len(<<m>>) :
                i = Len(inbox[conn]) + k /\ inbox'[n][i] = <<m>>[k]
      BY <1>1, ArrivedFrom
  <2> QED
    BY <1>1, <1>2, <2>1
<1>4. Unique'
  <2> SUFFICES ASSUME NEW u \in Tasks, NEW n \in Connections, NEW k \in Connections,
                      NEW i \in 1 .. Len(inbox'[n]), NEW j \in 1 .. Len(inbox'[k]),
                      IsAnswer(n, i, u)', IsAnswer(k, j, u)'
               PROVE  n = k /\ i = j
      BY NumbersKept DEF Unique
  <2>1. \/ i \in 1 .. Len(inbox[n]) /\ IsAnswer(n, i, u)
        \/ n = conn /\ i = Len(inbox[conn]) + 1 /\ u = t
      BY <1>3 DEF IsAnswer
  <2>2. \/ j \in 1 .. Len(inbox[k]) /\ IsAnswer(k, j, u)
        \/ k = conn /\ j = Len(inbox[conn]) + 1 /\ u = t
      BY <1>3 DEF IsAnswer
  <2>3. u = t => /\ ~ (i \in 1 .. Len(inbox[n]) /\ IsAnswer(n, i, u))
                 /\ ~ (j \in 1 .. Len(inbox[k]) /\ IsAnswer(k, j, u))
      BY DEF Answered
  <2> QED
    BY <2>1, <2>2, <2>3 DEF Unique
<1>5. ASSUME NEW u \in Tasks, Answered(u)', u # t
      PROVE  Answered(u)
  <2>1. PICK n \in Connections : \E i \in 1 .. Len(inbox'[n]) : IsAnswer(n, i, u)'
      BY <1>5, NumbersKept DEF Answered
  <2>2. PICK i \in 1 .. Len(inbox'[n]) : IsAnswer(n, i, u)'
      BY <2>1
  <2>3. i \in 1 .. Len(inbox[n]) /\ IsAnswer(n, i, u)
      BY <1>3, <1>5, <2>2 DEF IsAnswer
  <2> QED
    BY <2>3 DEF Answered
<1> QED
  BY <1>4, <1>5

\* Nothing arrives: the empty report.
LEMMA ReportTypes ==
    ASSUME NEW m \in Message
    PROVE  /\ Report(m) \in Seq(Message)
           /\ m.type \in subscribed => Len(Report(m)) = 1 /\ Report(m)[1] = m
           /\ m.type \notin subscribed => Len(Report(m)) = 0
<1>1. /\ <<m>> \in Seq(Message) /\ Len(<<m>>) = 1 /\ <<m>>[1] = m
    OBVIOUS
<1>2. <<>> \in Seq(Message) /\ Len(<<>>) = 0
    OBVIOUS
<1> QED
  BY <1>1, <1>2 DEF Report

\* What a change reports: a message about the registry, one about the state,
\* each if it is subscribed.
LEMMA TwoReports ==
    ASSUME NEW a \in Message, NEW b \in Message
    PROVE  LET ms == Report(a) \o Report(b) IN
             /\ ms \in Seq(Message)
             /\ \A i \in 1 .. Len(ms) :
                  \/ ms[i] = a /\ a.type \in subscribed
                  \/ ms[i] = b /\ b.type \in subscribed
             /\ a.type \in subscribed => 1 \in 1 .. Len(ms) /\ ms[1] = a
<1> DEFINE A == Report(a)
           B == Report(b)
<1>1. /\ A \in Seq(Message) /\ B \in Seq(Message)
      /\ a.type \in subscribed => Len(A) = 1 /\ A[1] = a
      /\ a.type \notin subscribed => Len(A) = 0
      /\ b.type \in subscribed => Len(B) = 1 /\ B[1] = b
      /\ b.type \notin subscribed => Len(B) = 0
    BY ReportTypes
<1> DEFINE C == A \o B
<1> SUFFICES
      /\ C \in Seq(Message)
      /\ \A i \in 1 .. Len(C) :
           \/ C[i] = a /\ a.type \in subscribed
           \/ C[i] = b /\ b.type \in subscribed
      /\ a.type \in subscribed => 1 \in 1 .. Len(C) /\ C[1] = a
    OBVIOUS
<1> HIDE DEF A, B
<1>2. /\ C \in Seq(Message)
      /\ Len(C) = Len(A) + Len(B)
      /\ \A i \in 1 .. Len(A) : C[i] = A[i]
      /\ \A i \in 1 .. Len(B) : C[Len(A) + i] = B[i]
    BY <1>1, ConcatProperties
<1> HIDE DEF C
<1>3. CASE a.type \in subscribed /\ b.type \in subscribed
  <2>1. Len(A) = 1 /\ Len(B) = 1 /\ A[1] = a /\ B[1] = b /\ Len(C) = 2
      BY <1>1, <1>2, <1>3
  <2>2. C[1] = a
      BY <1>2, <2>1
  <2>3. 1 \in 1 .. Len(B) /\ Len(A) + 1 = 2
      BY <2>1
  <2>4. C[2] = b
      BY <1>2, <2>1, <2>3
  <2>5. /\ \A i \in 1 .. 2 : i = 1 \/ i = 2
        /\ 1 \in 1 .. 2
      OBVIOUS
  <2> QED
    BY <1>2, <1>3, <2>1, <2>2, <2>4, <2>5
<1>4. CASE a.type \in subscribed /\ b.type \notin subscribed
  <2>1. Len(C) = 1 /\ C[1] = a
      BY <1>1, <1>2, <1>4
  <2>2. /\ \A i \in 1 .. 1 : i = 1
        /\ 1 \in 1 .. 1
      OBVIOUS
  <2> QED
    BY <1>2, <1>4, <2>1, <2>2
<1>5. CASE a.type \notin subscribed /\ b.type \in subscribed
  <2>1. Len(C) = 1 /\ C[1] = b
      BY <1>1, <1>2, <1>5
  <2>2. /\ \A i \in 1 .. 1 : i = 1
        /\ 1 \in 1 .. 1
      OBVIOUS
  <2> QED
    BY <1>2, <1>5, <2>1, <2>2
<1>6. CASE a.type \notin subscribed /\ b.type \notin subscribed
  <2>1. Len(C) = 0
      BY <1>1, <1>2, <1>6
  <2>2. \A i \in 1 .. 0 : FALSE
      OBVIOUS
  <2> QED
    BY <1>2, <1>6, <2>1, <2>2
<1> QED
  BY <1>3, <1>4, <1>5, <1>6

\* What a change in Home Assistant brings: new numbers, and reports of what is
\* subscribed on a link that is up.
NewReport(m) ==
    /\ m.type \in subscribed
    /\ m.type = "state" =>
         m.stamp = 0 \/ (m.stamp = clock' /\ home'[m.entity] = clock')

HomeChanges ==
    \E e \in Entities : StateChanges(e) \/ EntityAdded(e) \/ EntityRemoved(e)

LEMMA ChangeReports ==
    ASSUME Typed, HomeChanges
    PROVE  /\ HomeTypes' /\ InboxTypes' /\ clock' = clock + 1
           /\ \A e \in Entities : home'[e] = home[e] \/ home'[e] \in {0, clock'}
           /\ \/ ~ link /\ inbox' = inbox
              \/ /\ link /\ conn \in Connections
                 /\ \E ms \in Seq(Message) :
                      /\ Arrives(ms)
                      /\ \A i \in 1 .. Len(ms) :
                           ms[i].type \in {"state", "registry"} /\ NewReport(ms[i])
                      /\ \/ In(home') = In(home) /\ lapse' = lapse
                         \/ lapse' = (lapse \/ Unreported)
                            /\ ("registry" \in subscribed =>
                                  \E i \in 1 .. Len(ms) : ms[i].type = "registry")
           /\ UNCHANGED <<connection, loop, task, pending, entries, registry, batch,
                          brought, overlap>>
<1>1. PICK e \in Entities : StateChanges(e) \/ EntityAdded(e) \/ EntityRemoved(e)
    BY DEF HomeChanges
<1>2. /\ HomeTypes /\ InboxTypes /\ clock \in Nat /\ clock <= MaxChanges
      /\ clock' = clock + 1 /\ clock + 1 \in Stamp /\ 0 \in Stamp
  <2>1. clock <= MaxChanges /\ clock' = clock + 1
      BY <1>1 DEF StateChanges, EntityAdded, EntityRemoved
  <2>2. HomeTypes /\ InboxTypes
      BY Parts DEF Typed
  <2> QED
    BY <2>1, <2>2, SyncKnobs DEF HomeTypes, Stamp
<1>3. home' = [home EXCEPT ![e] = clock + 1] \/ home' = [home EXCEPT ![e] = 0]
    BY <1>1 DEF StateChanges, EntityAdded, EntityRemoved
<1>4. HomeTypes'
    BY <1>2, <1>3 DEF HomeTypes, States
<1>5. \A f \in Entities : home'[f] = home[f] \/ home'[f] \in {0, clock'}
    BY <1>2, <1>3 DEF HomeTypes, States
<1>6. link => conn \in Connections
    BY Parts DEF Typed, Numbered, LinkTypes, Connections
<1> DEFINE R == [type |-> "registry"]
           S == [type |-> "state", entity |-> e, stamp |-> clock + 1]
           Z == [type |-> "state", entity |-> e, stamp |-> 0]
<1>7. /\ R \in Message /\ S \in Message /\ Z \in Message
      /\ R.type = "registry" /\ S.type = "state" /\ Z.type = "state"
      /\ S.stamp = clock' /\ S.entity = e /\ Z.stamp = 0
    BY <1>2 DEF Message
<1> HIDE DEF R, S, Z
<1>8. /\ Report(S) \in Seq(Message)
      /\ \A i \in 1 .. Len(Report(S)) : Report(S)[i] = S /\ S.type \in subscribed
  <2>1. /\ Report(S) \in Seq(Message)
        /\ S.type \in subscribed => Len(Report(S)) = 1 /\ Report(S)[1] = S
        /\ S.type \notin subscribed => Len(Report(S)) = 0
      BY <1>7, ReportTypes
  <2>2. /\ \A i \in 1 .. 1 : i = 1
        /\ \A i \in 1 .. 0 : FALSE
      OBVIOUS
  <2> QED
    BY <2>1, <2>2
<1>9. UNCHANGED <<connection, loop, task, pending, entries, registry, batch,
                  brought, overlap>>
    BY <1>1 DEF StateChanges, EntityAdded, EntityRemoved, Changes
<1>10. CASE ~ link
  <2>1. inbox' = inbox
      BY <1>1, <1>10 DEF StateChanges, EntityAdded, EntityRemoved, Changes, Reports
  <2> QED
    BY <1>2, <1>4, <1>5, <1>9, <1>10, <2>1 DEF InboxTypes, Connections
<1>11. CASE link
  <2> SUFFICES
        /\ InboxTypes'
        /\ \E ms \in Seq(Message) :
             /\ Arrives(ms)
             /\ \A i \in 1 .. Len(ms) :
                  ms[i].type \in {"state", "registry"} /\ NewReport(ms[i])
             /\ \/ In(home') = In(home) /\ lapse' = lapse
                \/ lapse' = (lapse \/ Unreported)
                   /\ ("registry" \in subscribed =>
                         \E i \in 1 .. Len(ms) : ms[i].type = "registry")
      BY <1>2, <1>4, <1>5, <1>6, <1>9, <1>11
  <2>1. CASE StateChanges(e)
    <3>1. Reports(Report(S)) /\ lapse' = lapse /\ home[e] # 0
          /\ home' = [home EXCEPT ![e] = clock + 1]
        BY <2>1 DEF StateChanges, Changes, S
    <3>2. InboxTypes' /\ Arrives(Report(S))
        BY <1>2, <1>6, <1>8, <1>11, <3>1, ReportsArrive
    <3>3. In(home') = In(home) /\ home'[e] = clock'
        BY <1>2, <3>1 DEF In, HomeTypes, States
    <3> QED
      BY <1>7, <1>8, <3>1, <3>2, <3>3 DEF NewReport
  <2>2. ASSUME NEW B \in {S, Z}, Reports(Report(R) \o Report(B)),
               lapse' = (lapse \/ Unreported), B = Z \/ home'[e] = clock'
        PROVE  /\ InboxTypes'
               /\ \E ms \in Seq(Message) :
                    /\ Arrives(ms)
                    /\ \A i \in 1 .. Len(ms) :
                         ms[i].type \in {"state", "registry"} /\ NewReport(ms[i])
                    /\ "registry" \in subscribed =>
                         \E i \in 1 .. Len(ms) : ms[i].type = "registry"
    <3> DEFINE ms == Report(R) \o Report(B)
    <3>0. B \in Message /\ R \in Message
        BY <1>7, <2>2
    <3>1. /\ ms \in Seq(Message)
          /\ \A i \in 1 .. Len(ms) :
               \/ ms[i] = R /\ R.type \in subscribed
               \/ ms[i] = B /\ B.type \in subscribed
          /\ R.type \in subscribed => 1 \in 1 .. Len(ms) /\ ms[1] = R
        BY <3>0, TwoReports
    <3>2. Reports(ms)
        BY <2>2
    <3> HIDE DEF ms
    <3>3. InboxTypes' /\ Arrives(ms)
        BY <1>2, <1>6, <1>11, <3>1, <3>2, ReportsArrive
    <3>4. \A i \in 1 .. Len(ms) :
            ms[i].type \in {"state", "registry"} /\ NewReport(ms[i])
        BY <1>7, <2>2, <3>1 DEF NewReport
    <3> QED
      BY <1>7, <3>1, <3>3, <3>4
  <2>3. CASE EntityAdded(e)
    <3>1. Reports(Report(R) \o Report(S)) /\ lapse' = (lapse \/ Unreported)
        BY <2>3 DEF EntityAdded, Changes, R, S
    <3>2. home'[e] = clock'
        BY <1>2, <2>3 DEF EntityAdded, HomeTypes, States
    <3> QED
      BY <2>2, <3>1, <3>2
  <2>4. CASE EntityRemoved(e)
    <3>1. Reports(Report(R) \o Report(Z)) /\ lapse' = (lapse \/ Unreported)
        BY <2>4 DEF EntityRemoved, Changes, R, Z
    <3> QED
      BY <2>2, <3>1
  <2> QED
    BY <1>1, <2>1, <2>3, <2>4
<1> QED
  BY <1>10, <1>11, Parts DEF Typed, LinkTypes

-----------------------------------------------------------------------------
(* Types                                                                   *)

\* Nothing happens to the messages,
LEMMA SameMessages ==
    ASSUME inbox' = inbox
    PROVE  /\ Unique => Unique'
           /\ \A t \in Tasks : Answered(t)' <=> Answered(t)
BY NumbersKept DEF Unique, Answered, IsAnswer

\* or all are gone.
LEMMA NoMessages ==
    ASSUME InboxTypes, inbox' = [n \in 1 .. MaxConnections |-> <<>>]
    PROVE  InboxTypes' /\ Moves
<1>1. <<>> \in Seq(Message) /\ Len(<<>>) = 0
    OBVIOUS
<1>2. \A n \in Connections : inbox'[n] = <<>>
    BY DEF Connections
<1>3. InboxTypes'
    BY <1>1, <1>2, NumbersKept DEF InboxTypes, Connections
<1>4. \A n \in Connections : Moved(n, 0)
  <2>1. 1 .. 0 = {}
      OBVIOUS
  <2> QED
    BY <1>1, <1>2, <2>1 DEF Moved
<1> QED
  BY <1>3, <1>4 DEF Moves

\* A task that is given something else to do.
LEMMA TaskChanges ==
    ASSUME TaskTypes, NEW t \in Tasks, NEW k \in Task, task' = [task EXCEPT ![t] = k]
    PROVE  /\ TaskTypes' /\ task'[t] = k
           /\ \A u \in Tasks \ {t} : task'[u] = task[u]
BY DEF TaskTypes, Tasks

\* An answer is awaited by who has asked for it.
LEMMA NotAnswered ==
    ASSUME Typed, NEW t \in Tasks, Answered(t)
    PROVE  /\ task[t].phase = "answered" /\ task[t].pc \in Requesting
           /\ task[t].data = Nothing
<1>1. task[t].phase = "answered"
    BY DEF Typed, Awaited
<1>2. task[t] \in Task
    BY Parts DEF Typed, TaskTypes
<1> QED
  BY <1>1, <1>2, TaskShape

\* A message on the state or the registry changes.
LEMMA TypedChanges ==
    ASSUME Typed, HomeChanges
    PROVE  Typed'
<1>1. /\ HomeTypes /\ LinkTypes /\ InboxTypes /\ TaskTypes /\ StoreTypes /\ FlagTypes
      /\ Unique /\ Awaited /\ Numbered
    BY Parts DEF Typed
<1>2. /\ HomeTypes' /\ InboxTypes' /\ clock' = clock + 1
      /\ UNCHANGED <<connection, loop, task, pending, entries, registry, batch,
                     brought, overlap>>
    BY ChangeReports
<1>3. lapse' \in BOOLEAN
    BY <1>1 DEF HomeChanges, StateChanges, EntityAdded, EntityRemoved, FlagTypes
<1>4. Unique' /\ \A t \in Tasks : Answered(t)' => Answered(t)
  <2>1. CASE inbox' = inbox
      BY <1>1, <2>1, SameMessages
  <2>2. CASE link /\ conn \in Connections /\
             \E ms \in Seq(Message) :
               /\ Arrives(ms)
               /\ \A i \in 1 .. Len(ms) : ms[i].type \in {"state", "registry"}
    <3>1. PICK ms \in Seq(Message) :
            Arrives(ms) /\ \A i \in 1 .. Len(ms) : ms[i].type # "result"
        BY <2>2
    <3> QED
      BY <1>1, <2>2, <3>1, ArrivesAnswers
  <2> QED
    BY <2>1, <2>2, ChangeReports
<1>5. Awaited'
    BY <1>1, <1>2, <1>4 DEF Awaited, Tasks
<1>6. Numbered'
    BY <1>1, <1>2 DEF Numbered, HomeTypes, Stamp, connection
<1>7. FlagTypes'
    BY <1>1, <1>2, <1>3 DEF FlagTypes
<1>8. LinkTypes' /\ TaskTypes' /\ StoreTypes'
    BY <1>1, <1>2, PartsKept
<1> QED
  BY <1>2, <1>4, <1>5, <1>6, <1>7, <1>8, Parts DEF Typed

\* What Home Assistant answers.
Reply(t) ==
    [type |-> "result", task |-> t,
     data |-> IF task[t].pc \in {"listing", "reading"} THEN home ELSE Nothing]

LEMMA AnswerBrings ==
    ASSUME Typed, NEW t \in Tasks, Answer(t)
    PROVE  /\ InboxTypes' /\ conn \in Connections /\ ~ Answered(t)
           /\ Reply(t) \in Message /\ Arrives(<<Reply(t)>>)
           /\ task[t].phase = "asked" /\ task[t].pc \in Requesting
           /\ TaskTypes'
           /\ task'[t] = [pc |-> task[t].pc, phase |-> "answered", data |-> Nothing]
           /\ \A u \in Tasks \ {t} : task'[u] = task[u]
<1>1. /\ HomeTypes /\ LinkTypes /\ InboxTypes /\ TaskTypes
    BY Parts DEF Typed
<1>2. conn \in Connections /\ task[t].phase = "asked"
    BY <1>1 DEF Answer, Typed, Numbered, LinkTypes, Connections
<1>3. task[t] \in Task
    BY <1>1 DEF TaskTypes
<1>4. task[t] = [pc |-> task[t].pc, phase |-> "asked", data |-> Nothing]
      /\ task[t].pc \in Requesting
    BY <1>2, <1>3, TaskShape
<1>5. Reply(t) \in Message
    BY <1>1, NumbersKept DEF Reply, Message, HomeTypes
<1>6. inbox' = [inbox EXCEPT ![conn] = Append(@, Reply(t))]
    BY DEF Answer, Reply
<1>7. InboxTypes' /\ Arrives(<<Reply(t)>>)
    BY <1>1, <1>2, <1>5, <1>6, AppendArrives
<1> DEFINE k == [pc |-> task[t].pc, phase |-> "answered", data |-> Nothing]
<1>8. task' = [task EXCEPT ![t] = k]
  <2>1. task' = [task EXCEPT ![t].phase = "answered"]
      BY DEF Answer
  <2>2. [task[t] EXCEPT !.phase = "answered"] = k
      BY <1>4
  <2> QED
    BY <1>1, <2>1, <2>2 DEF TaskTypes
<1>9. k \in Task
    BY <1>4, NewTasks
<1> HIDE DEF k
<1>10. TaskTypes' /\ task'[t] = k /\ \A u \in Tasks \ {t} : task'[u] = task[u]
    BY <1>1, <1>8, <1>9, TaskChanges
<1> QED
  BY <1>2, <1>4, <1>5, <1>7, <1>10, NotAnswered DEF k

LEMMA TypedAnswer ==
    ASSUME Typed, NEW t \in Tasks, Answer(t)
    PROVE  Typed'
<1>1. /\ HomeTypes /\ LinkTypes /\ InboxTypes /\ TaskTypes /\ StoreTypes /\ FlagTypes
      /\ Unique /\ Awaited /\ Numbered
    BY Parts DEF Typed
<1>2. /\ InboxTypes' /\ conn \in Connections /\ ~ Answered(t)
      /\ Reply(t) \in Message /\ Arrives(<<Reply(t)>>)
      /\ TaskTypes' /\ task'[t].phase = "answered"
      /\ \A u \in Tasks \ {t} : task'[u] = task[u]
  <2>1. task'[t] = [pc |-> task[t].pc, phase |-> "answered", data |-> Nothing]
      BY AnswerBrings
  <2>2. task'[t].phase = "answered"
      BY <2>1
  <2>3. InboxTypes' /\ conn \in Connections /\ ~ Answered(t)
      BY AnswerBrings
  <2>4. Reply(t) \in Message /\ Arrives(<<Reply(t)>>)
      BY AnswerBrings
  <2>5. TaskTypes' /\ \A u \in Tasks \ {t} : task'[u] = task[u]
      BY AnswerBrings
  <2> QED
    BY <2>2, <2>3, <2>4, <2>5
<1>3. Reply(t).type = "result" /\ Reply(t).task = t
    BY DEF Reply
<1>4. Unique' /\ \A u \in Tasks : Answered(u)' => Answered(u) \/ u = t
    BY <1>1, <1>2, <1>3, AnswerArrives
<1>5. Awaited'
    BY <1>1, <1>2, <1>4 DEF Awaited, Tasks
<1>6. UNCHANGED <<ha, conn, link, loop, pending, entries, registry, batch, brought, history>>
    BY DEF Answer
<1>7. LinkTypes'
  <2>1. subscribed' \subseteq {"state", "registry"}
      BY <1>1 DEF Answer, LinkTypes
  <2> QED
    BY <1>1, <1>6, <2>1, NumbersKept DEF LinkTypes
<1>8. Numbered'
    BY <1>1, <1>6 DEF Numbered, ha
<1>9. HomeTypes' /\ StoreTypes' /\ FlagTypes'
    BY <1>1, <1>6, PartsKept
<1> QED
  BY <1>2, <1>4, <1>5, <1>7, <1>8, <1>9, Parts DEF Typed

\* No message changes.
LEMMA SameMoves ==
    ASSUME InboxTypes, inbox' = inbox
    PROVE  InboxTypes' /\ Moves
<1>1. \A n \in Connections : Len(inbox[n]) \in Nat
    BY MessageTypes
<1>2. \A n \in Connections : Moved(n, 0)
    BY <1>1 DEF Moved
<1> QED
  BY <1>2, NumbersKept DEF InboxTypes, Moves

\* What is left to show where messages only move.
LEMMA StillTyped ==
    ASSUME Typed, InboxTypes', Moves,
           UNCHANGED ha, LinkTypes', TaskTypes', StoreTypes', FlagTypes',
           link' => conn' # 0,
           \A t \in Tasks : Answered(t) /\ Answered(t)' => task'[t].phase = "answered"
    PROVE  Typed'
<1>1. HomeTypes /\ InboxTypes /\ Unique /\ Awaited /\ Numbered
    BY Parts DEF Typed
<1>2. Unique' /\ \A t \in Tasks : Answered(t)' => Answered(t)
    BY <1>1, MovesAnswers
<1>3. Awaited'
    BY <1>2 DEF Awaited, Tasks
<1>4. HomeTypes'
    BY <1>1, PartsKept
<1>5. Numbered'
    BY <1>1 DEF Numbered, ha
<1> QED
  BY <1>2, <1>3, <1>4, <1>5, Parts DEF Typed

\* The number of a connection whose loop runs.
LEMMA LoopNumber ==
    ASSUME LinkTypes, NEW n \in 1 .. conn
    PROVE  n \in Connections /\ conn \in Connections
BY NumbersKept DEF LinkTypes, Connections

\* Memory and tables hold states.
LEMMA WriteTypes ==
    ASSUME StoreTypes, NEW states \in States, NEW holder, Write(states, holder)
    PROVE  mirror' \in States /\ work' \in States /\ disk' \in States
BY DEF StoreTypes, Write, States

LEMMA BringsTypes ==
    ASSUME StoreTypes, NEW states \in States, Brings(states)
    PROVE  told' \in States
BY DEF StoreTypes, Brings, States

LEMMA RemoveTypes ==
    ASSUME StoreTypes, NEW gone, Remove(gone)
    PROVE  mirror' \in States /\ work' \in States /\ disk' \in States
<1>1. 0 \in Stamp
    BY NumbersKept
<1> QED
  BY <1>1 DEF StoreTypes, Remove, States

Takes(t, m) == task' = [task EXCEPT ![t].phase = "ready", ![t].data = m.data]

LEMMA ResultRead ==
    ASSUME Typed, NEW n \in 1 .. conn, ReadResult(n)
    PROVE  /\ InboxTypes' /\ Moves /\ Moved(n, 1) /\ n \in Connections
           /\ 1 \in 1 .. Len(inbox[n]) /\ Len(inbox'[n]) = Len(inbox[n]) - 1
           /\ \A k \in Connections \ {n} : inbox'[k] = inbox[k]
           /\ \A i \in 1 .. Len(inbox[n]) - 1 : inbox'[n][i] = inbox[n][i + 1]
           /\ \E m \in Message :
                /\ m = inbox[n][1] /\ m.type = "result" /\ m.data \in States
                /\ \/ m.task = "nobody" /\ task' = task
                   \/ \E t \in Tasks : m.task = t /\ Takes(t, m)
           /\ UNCHANGED <<ha, connection, loop, pending, entries, registry, batch, brought, history>>
<1>1. InboxTypes /\ n \in Connections
    BY Parts, LoopNumber DEF Typed
<1>2. PICK m : m = inbox[n][1]
    OBVIOUS
<1>3. /\ InboxTypes' /\ Moves /\ Moved(n, 1)
      /\ 1 \in 1 .. Len(inbox[n]) /\ Head(inbox[n]) = m
      /\ m \in Message /\ m.type = "result"
      /\ \A k \in Connections \ {n} : inbox'[k] = inbox[k]
      /\ \A i \in 1 .. Len(inbox[n]) - 1 : inbox'[n][i] = inbox[n][i + 1]
      /\ Len(inbox'[n]) = Len(inbox[n]) - 1
    BY <1>1, <1>2, ReadsMoves DEF ReadResult
<1>4. m.task \in Tasks \cup {"nobody"} /\ m.data \in States
    BY <1>3, MessageShape
<1>5. UNCHANGED <<ha, connection, loop, pending, entries, registry, batch, brought, history>>
    BY DEF ReadResult
<1>6. task' = IF m.task = "nobody" THEN task
              ELSE [task EXCEPT ![m.task].phase = "ready", ![m.task].data = m.data]
    BY <1>3 DEF ReadResult
<1>7. "nobody" \notin Tasks
    BY DEF Tasks
<1>8. \/ m.task = "nobody" /\ task' = task
      \/ \E t \in Tasks : m.task = t /\ Takes(t, m)
    BY <1>4, <1>6, <1>7, Zenon DEF Takes
<1> QED
  BY <1>1, <1>2, <1>3, <1>4, <1>5, <1>8

\* The answer that is read was the only one its task waits for.
LEMMA LastAnswer ==
    ASSUME Typed, NEW n \in 1 .. conn, ReadResult(n), NEW t \in Tasks,
           inbox[n][1].task = t
    PROVE  /\ ~ Answered(t)'
           /\ task[t].phase = "answered" /\ task[t].pc \in Requesting
<1>1. /\ n \in Connections /\ 1 \in 1 .. Len(inbox[n])
      /\ Len(inbox'[n]) = Len(inbox[n]) - 1
      /\ \A k \in Connections \ {n} : inbox'[k] = inbox[k]
      /\ \A i \in 1 .. Len(inbox[n]) - 1 : inbox'[n][i] = inbox[n][i + 1]
      /\ IsAnswer(n, 1, t)
    BY ResultRead DEF IsAnswer
<1>2. Answered(t)
    BY <1>1 DEF Answered
<1>3. Unique /\ InboxTypes
    BY Parts DEF Typed
<1>4. ~ Answered(t)'
  <2> SUFFICES ASSUME Answered(t)' PROVE FALSE
      OBVIOUS
  <2>1. PICK k \in Connections : \E i \in 1 .. Len(inbox'[k]) : IsAnswer(k, i, t)'
      BY NumbersKept DEF Answered
  <2>2. PICK i \in 1 .. Len(inbox'[k]) : IsAnswer(k, i, t)'
      BY <2>1
  <2>3. Len(inbox[n]) \in Nat
      BY <1>1, <1>3, MessageTypes
  <2>4. CASE k = n
    <3>1. i \in 1 .. Len(inbox[n]) - 1 /\ i + 1 \in 1 .. Len(inbox[n]) /\ i + 1 # 1
        BY <1>1, <2>2, <2>3, <2>4
    <3>2. IsAnswer(n, i + 1, t)
        BY <1>1, <2>2, <2>4, <3>1 DEF IsAnswer
    <3> QED
      BY <1>1, <1>3, <3>1, <3>2 DEF Unique
  <2>5. CASE k # n
    <3>1. i \in 1 .. Len(inbox[k]) /\ IsAnswer(k, i, t)
        BY <1>1, <2>2, <2>5 DEF IsAnswer
    <3> QED
      BY <1>1, <1>3, <2>5, <3>1 DEF Unique
  <2> QED
    BY <2>4, <2>5
<1> QED
  BY <1>2, <1>4, NotAnswered

\* What it becomes then.
LEMMA AnswerTaken ==
    ASSUME Typed, NEW n \in 1 .. conn, ReadResult(n), NEW t \in Tasks,
           NEW m \in Message, m = inbox[n][1], m.task = t, m.data \in States,
           Takes(t, m)
    PROVE  /\ TaskTypes' /\ \A u \in Tasks \ {t} : task'[u] = task[u]
           /\ task'[t] = [pc |-> task[t].pc, phase |-> "ready", data |-> m.data]
<1>1. TaskTypes /\ task[t] \in Task
    BY Parts DEF Typed, TaskTypes
<1>2. task[t].pc \in Requesting
    BY LastAnswer
<1>3. PICK k : k = [pc |-> task[t].pc, phase |-> "ready", data |-> m.data]
    OBVIOUS
<1>4. k \in Task
    BY <1>2, <1>3, NewTasks
<1>5. [task[t] EXCEPT !.phase = "ready", !.data = m.data] = k
  <2>1. PICK old : old = task[t]
      OBVIOUS
  <2>2. PICK pc, phase, data : old = [pc |-> pc, phase |-> phase, data |-> data]
      BY <1>1, <2>1, TaskShape
  <2>3. [old EXCEPT !.phase = "ready"] = [pc |-> pc, phase |-> "ready", data |-> data]
      BY <2>2
  <2>4. [[pc |-> pc, phase |-> "ready", data |-> data] EXCEPT !.data = m.data]
          = [pc |-> pc, phase |-> "ready", data |-> m.data]
      OBVIOUS
  <2>5. [old EXCEPT !.phase = "ready", !.data = m.data]
          = [[old EXCEPT !.phase = "ready"] EXCEPT !.data = m.data]
      OBVIOUS
  <2>6. old.pc = pc
      BY <2>2
  <2> QED
    BY <1>3, <2>1, <2>3, <2>4, <2>5, <2>6
<1>6. task' = [task EXCEPT ![t] = [task[t] EXCEPT !.phase = "ready", !.data = m.data]]
    BY <1>1 DEF TaskTypes, Takes
<1>7. task' = [task EXCEPT ![t] = k]
    BY <1>5, <1>6
<1>8. TaskTypes' /\ task'[t] = k /\ \A u \in Tasks \ {t} : task'[u] = task[u]
    BY <1>1, <1>4, <1>7, TaskChanges
<1> QED
  BY <1>3, <1>8

LEMMA TypedReadResult ==
    ASSUME Typed, NEW n \in 1 .. conn, ReadResult(n)
    PROVE  Typed'
<1>1. LinkTypes /\ TaskTypes /\ StoreTypes /\ FlagTypes /\ Awaited /\ Numbered
    BY Parts DEF Typed
<1>2. InboxTypes' /\ Moves
      /\ UNCHANGED <<ha, connection, loop, pending, entries, registry, batch, brought, history>>
    BY ResultRead
<1>3. LinkTypes' /\ StoreTypes' /\ FlagTypes' /\ (link' => conn' # 0)
    BY <1>1, <1>2, PartsKept DEF Numbered, connection
<1>4. CASE task' = task
    BY <1>1, <1>2, <1>3, <1>4, PartsKept, StillTyped DEF Awaited
<1>5. CASE \E m \in Message : m = inbox[n][1] /\ m.data \in States /\
             \E t \in Tasks : m.task = t /\ Takes(t, m)
  <2>1. PICK m \in Message : m = inbox[n][1] /\ m.data \in States /\
          \E t \in Tasks : m.task = t /\ Takes(t, m)
      BY <1>5
  <2>2. PICK t \in Tasks : m.task = t /\ Takes(t, m)
      BY <2>1
  <2>3. TaskTypes' /\ \A u \in Tasks \ {t} : task'[u] = task[u]
      BY <2>1, <2>2, AnswerTaken
  <2>4. ~ Answered(t)'
      BY <2>1, <2>2, LastAnswer
  <2>5. \A u \in Tasks : Answered(u) /\ Answered(u)' => task'[u].phase = "answered"
      BY <1>1, <2>3, <2>4 DEF Awaited
  <2> QED
    BY <1>2, <1>3, <2>3, <2>5, StillTyped
<1> QED
  BY <1>4, <1>5, ResultRead

LEMMA TypedReadState ==
    ASSUME Typed, NEW n \in 1 .. conn, ReadState(n)
    PROVE  Typed'
<1>1. /\ HomeTypes /\ LinkTypes /\ InboxTypes /\ TaskTypes /\ StoreTypes /\ FlagTypes
      /\ Unique /\ Awaited /\ Numbered /\ n \in Connections
    BY Parts, LoopNumber DEF Typed
<1> DEFINE m == inbox[n][1]
           one == [Nothing EXCEPT ![m.entity] = m.stamp]
<1>2. /\ InboxTypes' /\ Moves /\ Head(inbox[n]) = m
      /\ m \in Message /\ m.type = "state"
    BY <1>1, ReadsMoves DEF ReadState
<1>3. m.entity \in Entities /\ m.stamp \in Stamp
    BY <1>2, MessageShape
<1>4. one \in States
    BY <1>3, NumbersKept DEF Nothing, States
<1>5. Write(one, batch)
    BY <1>2 DEF ReadState
<1> HIDE DEF one
<1>6. mirror' \in States /\ work' \in States /\ disk' \in States
    BY <1>1, <1>4, <1>5, WriteTypes
<1>7. UNCHANGED <<ha, connection, task, pending, entries, batch, history>>
      /\ Brings(one) /\ outrun' \subseteq outrun \cup {m.entity}
    BY <1>2 DEF ReadState, one
<1>8. told' \in States /\ outrun' \subseteq Entities
    BY <1>1, <1>3, <1>4, <1>7, BringsTypes DEF StoreTypes
<1>13. StoreTypes'
    BY <1>1, <1>6, <1>7, <1>8 DEF StoreTypes
<1>9. \E pc \in {"reading", "sending"} : loop' = [loop EXCEPT ![n] = pc]
    BY DEF ReadState
<1>10. LinkTypes' /\ (link' => conn' # 0)
    BY <1>1, <1>7, <1>9, NumbersKept DEF LinkTypes, connection, Numbered
<1>11. TaskTypes' /\ FlagTypes'
    BY <1>1, <1>7, PartsKept
<1>12. \A t \in Tasks : Answered(t) => task'[t].phase = "answered"
    BY <1>1, <1>7 DEF Awaited
<1> QED
  BY <1>2, <1>7, <1>10, <1>11, <1>12, <1>13, StillTyped

LEMMA TypedLoopOnly ==
    ASSUME Typed, NEW n \in 1 .. conn, DashboardSent(n) \/ LoopEnds(n)
    PROVE  Typed'
<1>1. /\ LinkTypes /\ InboxTypes /\ TaskTypes /\ StoreTypes /\ FlagTypes
      /\ Awaited /\ Numbered /\ n \in Connections
    BY Parts, LoopNumber DEF Typed
<1>2. UNCHANGED <<ha, connection, inbox, task, pending, entries, registry, batch,
                  brought, history>>
    BY DEF DashboardSent, LoopEnds
<1>3. LinkTypes' /\ (link' => conn' # 0)
    BY <1>1, <1>2, NumbersKept DEF LinkTypes, connection, Numbered, DashboardSent, LoopEnds
<1>4. InboxTypes' /\ Moves /\ TaskTypes' /\ FlagTypes' /\ StoreTypes'
    BY <1>1, <1>2, PartsKept, SameMoves
<1>5. \A t \in Tasks : Answered(t) => task'[t].phase = "answered"
    BY <1>1, <1>2 DEF Awaited
<1> QED
  BY <1>2, <1>3, <1>4, <1>5, StillTyped

LEMMA TypedReadRegistry ==
    ASSUME Typed, NEW n \in 1 .. conn, ReadRegistry(n)
    PROVE  Typed'
<1>1. /\ LinkTypes /\ InboxTypes /\ TaskTypes /\ StoreTypes /\ FlagTypes
      /\ Awaited /\ Numbered /\ n \in Connections
    BY Parts, LoopNumber DEF Typed
<1>2. InboxTypes' /\ Moves
    BY <1>1, ReadsMoves DEF ReadRegistry
<1>3. UNCHANGED <<ha, connection, loop, entries, registry, batch, brought, history>>
      /\ pending' = TRUE
    BY DEF ReadRegistry
<1>4. LinkTypes' /\ StoreTypes' /\ FlagTypes' /\ (link' => conn' # 0)
    BY <1>1, <1>3, PartsKept DEF Numbered, connection, FlagTypes, history
<1>5. \/ task' = task
      \/ /\ task["refresh"].pc = "none"
         /\ task' = [task EXCEPT !["refresh"] = Idle("starting")]
    BY DEF ReadRegistry
<1>6. "refresh" \in Tasks /\ Idle("starting") \in Task
    BY NewTasks DEF Tasks
<1>7. TaskTypes'
    BY <1>1, <1>5, <1>6 DEF TaskTypes
<1>8. task["refresh"].pc = "none" => ~ Answered("refresh")
    BY <1>6, NotAnswered DEF Requesting
<1>9. \A t \in Tasks : Answered(t) => task'[t].phase = "answered"
    BY <1>1, <1>5, <1>6, <1>8 DEF Awaited, TaskTypes, Tasks
<1> QED
  BY <1>2, <1>3, <1>4, <1>7, <1>9, StillTyped

\* Answers to failed requests are nobody's.
LEMMA ForgetAnswers ==
    ASSUME Typed, NEW failed, Forget(failed)
    PROVE  /\ InboxTypes' /\ Moves
           /\ \A t \in Tasks : t \in failed => ~ Answered(t)'
<1>1. InboxTypes
    BY Parts DEF Typed
<1>2. /\ InboxTypes' /\ Moves
      /\ \A n \in Connections :
           /\ Len(inbox'[n]) = Len(inbox[n])
           /\ \A i \in 1 .. Len(inbox[n]) :
                inbox'[n][i] = IF Forgotten(inbox[n][i], failed) THEN Unclaimed
                               ELSE inbox[n][i]
    BY <1>1, ForgetMoves
<1>3. ASSUME NEW t \in Tasks, t \in failed, Answered(t)'
      PROVE  FALSE
  <2>1. PICK n \in Connections : \E i \in 1 .. Len(inbox'[n]) : IsAnswer(n, i, t)'
      BY <1>3, NumbersKept DEF Answered
  <2>2. PICK i \in 1 .. Len(inbox'[n]) : IsAnswer(n, i, t)'
      BY <2>1
  <2>3. inbox'[n][i] = IF Forgotten(inbox[n][i], failed) THEN Unclaimed ELSE inbox[n][i]
      BY <1>2, <2>2
  <2>4. inbox'[n][i].type = "result" /\ inbox'[n][i].task = t
      BY <2>2 DEF IsAnswer
  <2>5. Unclaimed.task = "nobody" /\ t # "nobody"
      BY DEF Unclaimed, Tasks
  <2> QED
    BY <1>3, <2>3, <2>4, <2>5 DEF Forgotten
<1> QED
  BY <1>2, <1>3

LEMMA TypedRefreshFails ==
    ASSUME Typed, RefreshFails
    PROVE  Typed'
<1>1. /\ LinkTypes /\ TaskTypes /\ StoreTypes /\ FlagTypes /\ Awaited /\ Numbered
    BY Parts DEF Typed
<1>2. InboxTypes' /\ Moves /\ ~ Answered("refresh")'
    BY ForgetAnswers DEF RefreshFails, Tasks
<1>3. UNCHANGED <<ha, connection, loop, pending, entries, registry, batch, brought, overlap>>
      /\ lapse' = TRUE /\ task' = [task EXCEPT !["refresh"] = Idle("none")]
    BY DEF RefreshFails
<1>4. LinkTypes' /\ StoreTypes' /\ (link' => conn' # 0)
    BY <1>1, <1>3, PartsKept DEF Numbered, connection
<1>5. FlagTypes'
    BY <1>1, <1>3 DEF FlagTypes
<1>6. "refresh" \in Tasks /\ Idle("none") \in Task
    BY NewTasks DEF Tasks
<1>7. TaskTypes' /\ \A u \in Tasks \ {"refresh"} : task'[u] = task[u]
    BY <1>1, <1>3, <1>6, TaskChanges
<1>8. \A t \in Tasks : Answered(t) /\ Answered(t)' => task'[t].phase = "answered"
    BY <1>1, <1>2, <1>7 DEF Awaited
<1> QED
  BY <1>2, <1>3, <1>4, <1>5, <1>7, <1>8, StillTyped

LEMMA TypedConnectionFails ==
    ASSUME Typed, ConnectionFails
    PROVE  Typed'
<1>1. /\ LinkTypes /\ TaskTypes /\ StoreTypes /\ FlagTypes /\ Awaited /\ Numbered
    BY Parts DEF Typed
<1> DEFINE failed == {"main"} \cup {t \in {"refresh"} : Waiting(t)}
<1>2. /\ Forget(failed)
      /\ task' = [t \in Tasks |-> IF t = "main" THEN Idle("down")
                                  ELSE IF t \in failed THEN Idle("none") ELSE task[t]]
      /\ link' = FALSE /\ subscribed' = {}
      /\ UNCHANGED <<ha, conn, loop, pending, entries, registry, batch, brought, history>>
    BY DEF ConnectionFails
<1>3. "main" \in failed
    OBVIOUS
<1> HIDE DEF failed
<1>4. /\ InboxTypes' /\ Moves
      /\ \A t \in Tasks : t \in failed => ~ Answered(t)'
    BY <1>2, ForgetAnswers
<1>5. LinkTypes' /\ StoreTypes' /\ FlagTypes'
    BY <1>1, <1>2, PartsKept, NumbersKept DEF LinkTypes
<1>6. Idle("none") \in Task /\ Idle("down") \in Task
    BY NewTasks
<1>7. TaskTypes' /\ \A u \in Tasks : u \notin failed => task'[u] = task[u]
    BY <1>1, <1>2, <1>3, <1>6 DEF TaskTypes, Tasks
<1>8. \A t \in Tasks : Answered(t) /\ Answered(t)' => task'[t].phase = "answered"
    BY <1>1, <1>4, <1>7 DEF Awaited
<1> QED
  BY <1>2, <1>4, <1>5, <1>7, <1>8, StillTyped

LEMMA TypedConnect ==
    ASSUME Typed, Connect
    PROVE  Typed'
<1>1. /\ LinkTypes /\ InboxTypes /\ TaskTypes /\ StoreTypes /\ FlagTypes
      /\ Awaited /\ Numbered
    BY Parts DEF Typed
<1>2. /\ conn < MaxConnections /\ conn' = conn + 1 /\ link' = TRUE
      /\ loop' = [loop EXCEPT ![conn + 1] = "reading"]
      /\ task' = [task EXCEPT !["main"] = Asking("listing")]
      /\ task["main"].pc = "down" /\ lapse' = FALSE /\ overlap' \in BOOLEAN
      /\ UNCHANGED <<ha, subscribed, inbox, pending, entries, registry, batch, brought>>
    BY <1>1 DEF Connect, FlagTypes
<1>3. conn + 1 \in Connections /\ conn + 1 # 0 /\ conn + 1 \in 0 .. MaxConnections
    BY <1>1, <1>2, NumbersKept DEF LinkTypes, Connections
<1>4. LinkTypes'
    BY <1>1, <1>2, <1>3, NumbersKept DEF LinkTypes
<1>5. "main" \in Tasks /\ Asking("listing") \in Task
    BY NewTasks DEF Tasks, Requesting
<1>6. TaskTypes' /\ \A u \in Tasks \ {"main"} : task'[u] = task[u]
    BY <1>1, <1>2, <1>5, TaskChanges
<1>7. ~ Answered("main")
    BY <1>2, <1>5, NotAnswered DEF Requesting
<1>8. \A t \in Tasks : Answered(t) => task'[t].phase = "answered"
    BY <1>1, <1>6, <1>7 DEF Awaited
<1>9. StoreTypes' /\ FlagTypes' /\ InboxTypes' /\ Moves
    BY <1>1, <1>2, PartsKept, SameMoves DEF FlagTypes
<1> QED
  BY <1>2, <1>3, <1>4, <1>6, <1>8, <1>9, StillTyped

LEMMA TypedLinkLost ==
    ASSUME Typed, LinkLost
    PROVE  Typed'
<1>1. /\ LinkTypes /\ InboxTypes /\ TaskTypes /\ StoreTypes /\ FlagTypes
      /\ Awaited /\ Numbered
    BY Parts DEF Typed
<1>2. /\ link' = FALSE /\ subscribed' = {}
      /\ UNCHANGED <<ha, conn, loop, task, pending, entries, registry, batch, brought, history>>
    BY DEF LinkLost
<1>3. conn \in Connections
    BY <1>1, NumbersKept DEF LinkLost, Numbered, LinkTypes, Connections
<1>4. InboxTypes' /\ Moves
    BY <1>1, <1>3, LostMoves DEF LinkLost
<1>5. LinkTypes' /\ StoreTypes' /\ FlagTypes' /\ TaskTypes'
    BY <1>1, <1>2, PartsKept, NumbersKept DEF LinkTypes
<1>6. \A t \in Tasks : Answered(t) => task'[t].phase = "answered"
    BY <1>1, <1>2 DEF Awaited
<1> QED
  BY <1>2, <1>4, <1>5, <1>6, StillTyped

LEMMA TypedRestart ==
    ASSUME Typed, Restart
    PROVE  Typed'
<1>1. LinkTypes /\ InboxTypes /\ StoreTypes /\ FlagTypes
    BY Parts DEF Typed
<1>2. /\ link' = FALSE /\ subscribed' = {} /\ pending' = FALSE /\ entries' = {}
      /\ inbox' = [n \in 1 .. MaxConnections |-> <<>>]
      /\ loop' = [n \in 1 .. MaxConnections |-> IF n <= conn THEN "over" ELSE "none"]
      /\ task' = [t \in Tasks |-> Idle(IF t = "main" THEN "down" ELSE "none")]
      /\ mirror' = disk /\ work' = disk /\ disk' = disk /\ batch' = "none"
      /\ told' = Nothing /\ outrun' = {} /\ overlap' = FALSE
      /\ UNCHANGED <<ha, conn, lapse>>
    BY DEF Restart
<1>3. InboxTypes' /\ Moves
    BY <1>1, <1>2, NoMessages
<1>4. \A t \in Tasks : ~ Answered(t)'
  <2>1. \A n \in Connections : inbox'[n] = <<>>
      BY <1>2 DEF Connections
  <2>2. Len(<<>>) = 0 /\ \A i \in 1 .. 0 : FALSE
      OBVIOUS
  <2> QED
    BY <2>1, <2>2, NumbersKept DEF Answered
<1>5. LinkTypes'
    BY <1>1, <1>2, NumbersKept DEF LinkTypes, Connections
<1>6. Idle("none") \in Task /\ Idle("down") \in Task
    BY NewTasks
<1>7. TaskTypes'
    BY <1>2, <1>6 DEF TaskTypes
<1>8. StoreTypes' /\ FlagTypes'
    BY <1>1, <1>2, NumbersKept DEF StoreTypes, FlagTypes
<1> QED
  BY <1>2, <1>3, <1>4, <1>5, <1>7, <1>8, StillTyped

\* A task that does not wait for an answer goes on with something else.
LEMMA TaskGoesOn ==
    ASSUME Typed, NEW t \in Tasks, task[t].phase # "answered", NEW k \in Task,
           task' = [task EXCEPT ![t] = k], StoreTypes', FlagTypes',
           UNCHANGED <<ha, connection, inbox, loop>>
    PROVE  Typed'
<1>1. /\ LinkTypes /\ InboxTypes /\ TaskTypes /\ StoreTypes /\ FlagTypes
      /\ Awaited /\ Numbered
    BY Parts DEF Typed
<1>2. TaskTypes' /\ \A u \in Tasks \ {t} : task'[u] = task[u]
    BY <1>1, TaskChanges
<1>3. \A u \in Tasks : Answered(u) => task'[u].phase = "answered"
    BY <1>1, <1>2 DEF Awaited
<1>4. InboxTypes' /\ Moves /\ LinkTypes' /\ (link' => conn' # 0)
    BY <1>1, SameMoves, PartsKept DEF Numbered, connection
<1> QED
  BY <1>2, <1>3, <1>4, StillTyped

LEMMA TypedApplyList ==
    ASSUME Typed, NEW t \in Tasks, ApplyList(t)
    PROVE  Typed'
<1>1. StoreTypes /\ FlagTypes
    BY Parts DEF Typed
<1>2. /\ task[t].phase = "ready" /\ Remove(Known \ In(task[t].data))
      /\ entries' = In(task[t].data) /\ task' = [task EXCEPT ![t] = Asks(t, "reading")]
      /\ UNCHANGED <<ha, connection, inbox, loop, pending, batch, brought, history>>
    BY DEF ApplyList, Ready
<1>3. mirror' \in States /\ work' \in States /\ disk' \in States
    BY <1>1, <1>2, RemoveTypes
<1>4. StoreTypes'
    BY <1>1, <1>2, <1>3 DEF StoreTypes, In, brought
<1>5. FlagTypes'
    BY <1>1, <1>2, PartsKept
<1>6. Asks(t, "reading") \in Task
    BY NewTasks DEF Requesting
<1> QED
  BY <1>2, <1>4, <1>5, <1>6, TaskGoesOn

\* What Import does, for the set of entities it imports.
ImportsSome(t, S) ==
    /\ Imports(t, S)
    /\ Write([e \in Entities |-> IF e \in S THEN task[t].data[e] ELSE 0], Holder(t))

LEMMA SomeStates ==
    ASSUME NEW data \in States, NEW S
    PROVE  /\ [e \in Entities |-> IF e \in S THEN data[e] ELSE 0] \in States
           /\ [e \in Entities |-> IF e \in S THEN 0 ELSE data[e]] \in States
BY NumbersKept DEF States

LEMMA TypedImport ==
    ASSUME Typed, NEW t \in Tasks, Import(t)
    PROVE  Typed'
<1>1. StoreTypes /\ FlagTypes /\ TaskTypes /\ task[t] \in Task
    BY Parts DEF Typed, TaskTypes
<1>2. Importing(t) /\ \E S \in SUBSET In(task[t].data) : ImportsSome(t, S)
    BY DEF Import, ImportsSome
<1>3. PICK S \in SUBSET In(task[t].data) : ImportsSome(t, S)
    BY <1>2
<1>4. task[t].data \in States /\ task[t].phase # "answered"
    BY <1>1, <1>2, TaskShape DEF Importing, Ready, Requesting
<1>5. PICK data : data = task[t].data
    OBVIOUS
<1>6. /\ batch' = Holder(t)
      /\ Brings([e \in Entities |-> IF e \in S THEN data[e] ELSE 0])
      /\ outrun' \subseteq outrun
      /\ task' = [task EXCEPT ![t] =
           [pc |-> "importing", phase |-> "none",
            data |-> [e \in Entities |-> IF e \in S THEN 0 ELSE data[e]]]]
      /\ UNCHANGED <<ha, connection, inbox, loop, pending, entries, history>>
    BY <1>1, <1>3, <1>5 DEF ImportsSome, Imports, TaskTypes
<1>7. Write([e \in Entities |-> IF e \in S THEN data[e] ELSE 0], Holder(t))
    BY <1>3, <1>5 DEF ImportsSome
<1>8. /\ [e \in Entities |-> IF e \in S THEN data[e] ELSE 0] \in States
      /\ [e \in Entities |-> IF e \in S THEN 0 ELSE data[e]] \in States
    BY <1>4, <1>5, SomeStates
<1>9. mirror' \in States /\ work' \in States /\ disk' \in States
    BY <1>1, <1>7, <1>8, WriteTypes
<1>10. told' \in States /\ outrun' \subseteq Entities /\ batch' \in Tasks \cup {"none"}
    BY <1>1, <1>6, <1>8, BringsTypes DEF StoreTypes, Holder
<1>11. StoreTypes' /\ FlagTypes'
    BY <1>1, <1>6, <1>9, <1>10, PartsKept DEF StoreTypes
<1>12. [pc |-> "importing", phase |-> "none",
        data |-> [e \in Entities |-> IF e \in S THEN 0 ELSE data[e]]] \in Task
    BY <1>8, NewTasks
<1> QED
  BY <1>4, <1>6, <1>11, <1>12, TaskGoesOn

LEMMA TypedImportEnds ==
    ASSUME Typed, NEW t \in Tasks, ImportEnds(t)
    PROVE  Typed'
<1>1. StoreTypes /\ FlagTypes /\ task[t] \in Task
    BY Parts DEF Typed, TaskTypes
<1>2. task[t].phase # "answered"
    BY <1>1, TaskShape DEF ImportEnds, Importing, Ready, Requesting
<1>3. UNCHANGED <<ha, connection, inbox, loop, entries, mirror, work, brought, history>>
      /\ Commits(t)
    BY DEF ImportEnds
<1>4. StoreTypes'
    BY <1>1, <1>3 DEF Commits, StoreTypes, brought
<1>5. FlagTypes'
    BY <1>1, <1>3 DEF ImportEnds, FlagTypes, history
<1>6. PICK k \in Task : task' = [task EXCEPT ![t] = k]
  <2>1. Asking("sub_state") \in Task /\ Asks(t, "listing") \in Task /\ Idle("none") \in Task
      BY NewTasks DEF Requesting
  <2> QED
    BY <2>1 DEF ImportEnds
<1> QED
  BY <1>2, <1>3, <1>4, <1>5, <1>6, TaskGoesOn

LEMMA TypedMain ==
    ASSUME Typed, Subscribed \/ RefreshStarts
    PROVE  Typed'
<1>1. StoreTypes /\ FlagTypes /\ TaskTypes
    BY Parts DEF Typed
<1>2. UNCHANGED <<ha, connection, inbox, loop, entries, registry, batch, brought, history>>
      /\ pending' \in BOOLEAN
    BY <1>1 DEF Subscribed, RefreshStarts, FlagTypes
<1>3. StoreTypes' /\ FlagTypes'
  <2>1. StoreTypes'
      BY <1>1, <1>2, PartsKept
  <2>2. FlagTypes'
      BY <1>1, <1>2 DEF FlagTypes, history
  <2> QED
    BY <2>1, <2>2
<1>4. /\ "main" \in Tasks /\ "refresh" \in Tasks
      /\ Asking("sub_registry") \in Task /\ Idle("watching") \in Task
      /\ Asks("refresh", "listing") \in Task
    BY NewTasks DEF Requesting, Tasks
<1>5. CASE Subscribed
  <2>1. task["main"].phase # "answered"
      BY <1>5 DEF Subscribed, Ready
  <2>2. PICK k \in Task : task' = [task EXCEPT !["main"] = k]
      BY <1>4, <1>5 DEF Subscribed
  <2> QED
    BY <1>2, <1>3, <1>4, <2>1, <2>2, TaskGoesOn
<1>6. CASE RefreshStarts
  <2>1. task["refresh"] \in Task
      BY <1>1, <1>4 DEF TaskTypes
  <2>2. task["refresh"].phase # "answered"
      BY <1>6, <2>1, TaskShape DEF RefreshStarts, Requesting
  <2>3. task' = [task EXCEPT !["refresh"] = Asks("refresh", "listing")]
      BY <1>6 DEF RefreshStarts
  <2> QED
    BY <1>2, <1>3, <1>4, <2>2, <2>3, TaskGoesOn
<1> QED
  BY <1>5, <1>6

LEMMA TypedIdle ==
    ASSUME Typed, UNCHANGED vars
    PROVE  Typed'
<1>1. /\ LinkTypes /\ InboxTypes /\ TaskTypes /\ StoreTypes /\ FlagTypes
      /\ Awaited /\ Numbered
    BY Parts DEF Typed
<1>2. UNCHANGED <<ha, connection, inbox, loop, task, pending, entries, registry, batch,
                  brought, history>>
    BY DEF vars
<1>3. LinkTypes' /\ TaskTypes' /\ StoreTypes' /\ FlagTypes'
    BY <1>1, <1>2, PartsKept
<1>4. InboxTypes' /\ Moves /\ (link' => conn' # 0)
    BY <1>1, <1>2, SameMoves DEF Numbered, connection
<1>5. \A t \in Tasks : Answered(t) => task'[t].phase = "answered"
    BY <1>1, <1>2 DEF Awaited
<1> QED
  BY <1>2, <1>3, <1>4, <1>5, StillTyped

\* The actions.
LEMMA Steps ==
    ASSUME [Next]_vars
    PROVE  \/ HomeChanges
           \/ \E n \in 1 .. conn : LoopStep(n)
           \/ \E t \in Tasks : Answer(t) \/ ApplyList(t) \/ Import(t) \/ ImportEnds(t)
           \/ Subscribed \/ RefreshStarts \/ RefreshFails \/ ConnectionFails
           \/ Connect \/ LinkLost \/ Restart
           \/ UNCHANGED vars
BY Zenon DEF Next, HomeChanges, TaskStep

LEMMA TypedFirst == Init => Typed
<1> SUFFICES ASSUME Init PROVE Typed
    OBVIOUS
<1>1. /\ 0 \in Stamp /\ 1 \in Stamp /\ Nothing \in States /\ MaxConnections \in Nat
    BY NumbersKept
<1>2. HomeTypes
  <2>1. home \in [Entities -> {0, 1}] /\ clock = 1
      BY DEF Init
  <2>2. home \in States
      BY <1>1, <2>1 DEF States
  <2> QED
    BY <1>1, <2>1, <2>2 DEF HomeTypes
<1>3. LinkTypes
  <2>1. conn = 0 /\ link = FALSE /\ subscribed = {}
        /\ loop = [n \in 1 .. MaxConnections |-> "none"]
      BY DEF Init
  <2>2. loop \in [Connections -> {"none", "reading", "sending", "over"}]
      BY <2>1 DEF Connections
  <2>3. conn \in 0 .. MaxConnections
      BY <1>1, <2>1
  <2>5. link \in BOOLEAN
      BY <2>1
  <2>4. subscribed \subseteq {"state", "registry"}
      BY <2>1
  <2> QED
    BY <2>2, <2>3, <2>4, <2>5 DEF LinkTypes
<1>4. \A n \in Connections : inbox[n] = <<>>
    BY DEF Init, Connections
<1>5. <<>> \in Seq(Message) /\ Len(<<>>) = 0 /\ \A i \in 1 .. 0 : FALSE
    OBVIOUS
<1>6. InboxTypes
    BY <1>4, <1>5 DEF Init, InboxTypes, Connections
<1>7. Idle("none") \in Task /\ Idle("down") \in Task
    BY NewTasks
<1>8. TaskTypes
    BY <1>7 DEF Init, TaskTypes
<1>9. StoreTypes /\ FlagTypes
    BY <1>1 DEF Init, StoreTypes, FlagTypes
<1>10. \A t \in Tasks : ~ Answered(t)
    BY <1>4, <1>5 DEF Answered
<1>11. Awaited
    BY <1>10 DEF Awaited
<1>12. Unique
    BY <1>4, <1>5 DEF Unique
<1>13. Numbered
    BY DEF Init, Numbered
<1> QED
  BY <1>2, <1>3, <1>6, <1>8, <1>9, <1>11, <1>12, <1>13, Parts DEF Typed

LEMMA TypedStep ==
    ASSUME Typed, [Next]_vars
    PROVE  Typed'
<1>1. CASE HomeChanges
    BY <1>1, TypedChanges
<1>2. CASE \E n \in 1 .. conn : LoopStep(n)
    BY <1>2, TypedReadResult, TypedReadState, TypedLoopOnly, TypedReadRegistry DEF LoopStep
<1>3. CASE \E t \in Tasks : Answer(t) \/ ApplyList(t) \/ Import(t) \/ ImportEnds(t)
    BY <1>3, TypedAnswer, TypedApplyList, TypedImport, TypedImportEnds
<1>4. CASE Subscribed \/ RefreshStarts \/ RefreshFails \/ ConnectionFails
    BY <1>4, TypedMain, TypedRefreshFails, TypedConnectionFails
<1>5. CASE Connect \/ LinkLost \/ Restart
    BY <1>5, TypedConnect, TypedLinkLost, TypedRestart
<1>6. CASE UNCHANGED vars
    BY <1>6, TypedIdle
<1> QED
  BY <1>1, <1>2, <1>3, <1>4, <1>5, <1>6, Steps

\* What is under way, remembered and stored is what the code can hold; an
\* answer is under way once, to a task that waits for it (the futures of
\* client.py, each set by handle_result).
THEOREM SyncTypes == Spec => []TypeOK
<1>1. Spec => []Typed
    BY TypedFirst, TypedStep, PTL DEF Spec
<1>2. Typed => TypeOK
    BY DEF Typed
<1> QED
  BY <1>1, <1>2, PTL

-----------------------------------------------------------------------------
(* Connections                                                             *)

NoMessage(n, type) == \A i \in 1 .. Len(inbox[n]) : inbox[n][i].type # type

\* What has to do with a connection that is down, is not there yet, or is over.
Linked ==
    /\ link => task["main"].pc # "down"
    /\ ~ link => subscribed = {}
    /\ task["main"].pc # "down" => conn # 0
    /\ task["refresh"].pc # "none" => conn # 0
    /\ \A n \in Connections : n > conn => loop[n] = "none" /\ Len(inbox[n]) = 0
    /\ \A n \in Connections : n <= conn => loop[n] # "none"
    /\ ~ overlap => \A n \in Connections : n < conn => loop[n] = "over"

\* What each task may be doing.
Taken ==
    /\ task["main"].pc \notin {"none", "starting"}
    /\ task["refresh"].pc \notin {"down", "watching", "sub_state", "sub_registry"}

\* Until the main task's connection reports registry events no refresh runs,
\* so that only one of the tasks lists and imports.
MainFirst ==
    \/ task["main"].pc \in {"listing", "reading", "importing", "sub_state"}
    \/ task["main"] = Asking("sub_registry")

Exclusive ==
    ~ overlap /\ MainFirst =>
      /\ task["refresh"].pc = "none"
      /\ "registry" \notin subscribed
      /\ NoMessage(conn, "registry")

Connected == Typed /\ Linked /\ Taken

\* Messages move, or Home Assistant sends some.
LEMMA InboxSteps ==
    ASSUME Typed, [Next]_vars
    PROVE  /\ InboxTypes
           /\ Moves \/ HomeChanges \/ \E t \in Tasks : Answer(t)
<1>1. InboxTypes /\ LinkTypes /\ Numbered
    BY Parts DEF Typed
<1>2. CASE \E n \in 1 .. conn : LoopStep(n)
  <2>1. PICK n \in 1 .. conn : LoopStep(n)
      BY <1>2
  <2>2. n \in Connections
      BY <1>1, LoopNumber
  <2>3. inbox' = inbox \/ \E type : Reads(n, type)
      BY <2>1 DEF LoopStep, ReadResult, ReadState, DashboardSent, ReadRegistry, LoopEnds
  <2> QED
    BY <1>1, <2>2, <2>3, ReadsMoves, SameMoves
<1>3. CASE \E t \in Tasks : ApplyList(t) \/ Import(t) \/ ImportEnds(t)
  <2>1. inbox' = inbox
      BY <1>3 DEF ApplyList, Import, Imports, ImportEnds
  <2> QED
    BY <1>1, <2>1, SameMoves
<1>4. CASE Subscribed \/ RefreshStarts \/ Connect \/ UNCHANGED vars
  <2>1. inbox' = inbox
      BY <1>4 DEF Subscribed, RefreshStarts, Connect, vars
  <2> QED
    BY <1>1, <2>1, SameMoves
<1>5. CASE RefreshFails \/ ConnectionFails
    BY <1>1, <1>5, ForgetMoves DEF RefreshFails, ConnectionFails
<1>6. CASE LinkLost
  <2>1. conn \in Connections
      BY <1>1, <1>6, NumbersKept DEF LinkLost, Numbered, LinkTypes, Connections
  <2> QED
    BY <1>1, <1>6, <2>1, LostMoves DEF LinkLost
<1>7. CASE Restart
    BY <1>1, <1>7, NoMessages DEF Restart
<1> QED
  BY <1>1, <1>2, <1>3, <1>4, <1>5, <1>6, <1>7, Steps

\* The connection a step makes, ends or leaves alone.
LEMMA ConnSteps ==
    ASSUME Typed, [Next]_vars
    PROVE  \/ UNCHANGED <<conn, link, loop, overlap>>
                /\ (subscribed' = subscribed \/ link)
           \/ UNCHANGED <<connection, overlap>> /\ \E n \in 1 .. conn : LoopStep(n)
           \/ UNCHANGED <<conn, loop, overlap>> /\ link' = FALSE /\ subscribed' = {}
           \/ Connect
           \/ Restart
<1>1. CASE HomeChanges
    BY <1>1, ChangeReports DEF connection
<1>2. CASE \E n \in 1 .. conn : LoopStep(n)
  <2>1. PICK n \in 1 .. conn : LoopStep(n)
      BY <1>2
  <2>2. UNCHANGED <<connection, overlap>>
      BY <2>1 DEF LoopStep, ReadResult, ReadState, DashboardSent, ReadRegistry, LoopEnds,
                  history
  <2> QED
    BY <1>2, <2>2
<1>3. CASE \E t \in Tasks : Answer(t) \/ ApplyList(t) \/ Import(t) \/ ImportEnds(t)
    BY <1>3 DEF Answer, ApplyList, Import, Imports, ImportEnds, connection, history
<1>4. CASE Subscribed \/ RefreshStarts \/ UNCHANGED vars
    BY <1>4 DEF Subscribed, RefreshStarts, vars, connection, history
<1>5. CASE RefreshFails
    BY <1>5 DEF RefreshFails, connection
<1>6. CASE ConnectionFails \/ LinkLost
    BY <1>6 DEF ConnectionFails, LinkLost, history
<1> QED
  BY <1>1, <1>2, <1>3, <1>4, <1>5, <1>6, Steps

\* Only an answer subscribes.
LEMMA SubscribedSteps ==
    ASSUME Typed, [Next]_vars
    PROVE  subscribed' \subseteq subscribed \/ \E t \in Tasks : Answer(t)
<1>1. CASE HomeChanges
    BY <1>1, ChangeReports DEF connection
<1>2. CASE \E n \in 1 .. conn : LoopStep(n)
    BY <1>2 DEF LoopStep, ReadResult, ReadState, DashboardSent, ReadRegistry, LoopEnds,
                connection
<1>3. CASE \E t \in Tasks : ApplyList(t) \/ Import(t) \/ ImportEnds(t)
    BY <1>3 DEF ApplyList, Import, Imports, ImportEnds, connection
<1>4. CASE Subscribed \/ RefreshStarts \/ RefreshFails \/ UNCHANGED vars
    BY <1>4 DEF Subscribed, RefreshStarts, RefreshFails, vars, connection
<1>5. CASE ConnectionFails \/ Connect \/ LinkLost \/ Restart
    BY <1>5 DEF ConnectionFails, Connect, LinkLost, Restart
<1> QED
  BY <1>1, <1>2, <1>3, <1>4, <1>5, Steps

\* Loops only run, pause and end.
LEMMA LoopSteps ==
    ASSUME Typed, NEW n \in 1 .. conn, LoopStep(n)
    PROVE  \/ loop' = loop
           \/ /\ loop[n] \in {"reading", "sending"}
              /\ \E pc \in {"reading", "sending", "over"} : loop' = [loop EXCEPT ![n] = pc]
<1>1. CASE ReadResult(n) \/ ReadRegistry(n)
    BY <1>1 DEF ReadResult, ReadRegistry
<1>2. CASE ReadState(n)
  <2>1. loop[n] = "reading"
      BY <1>2 DEF ReadState, Reads
  <2>2. \E pc \in {"reading", "sending", "over"} : loop' = [loop EXCEPT ![n] = pc]
      BY <1>2 DEF ReadState
  <2> QED
    BY <2>1, <2>2
<1>3. CASE DashboardSent(n) \/ LoopEnds(n)
    BY <1>3 DEF DashboardSent, LoopEnds
<1> QED
  BY <1>1, <1>2, <1>3 DEF LoopStep

\* A task has the states it had, or fewer, or those of the answer just read.
Fewer(t) == \A e \in Entities : task'[t].data[e] \in {0, task[t].data[e]}
Received(t) ==
    \E n \in 1 .. conn :
      /\ ReadResult(n) /\ inbox[n][1].type = "result" /\ inbox[n][1].task = t
      /\ task'[t].data = inbox[n][1].data

\* An answer comes, or is read: the task's request goes on.
Progress(t) ==
    /\ task'[t].pc = task[t].pc
    /\ task'[t].phase \in {"answered", "ready"}
    /\ \/ task[t].phase = "asked" /\ Answer(t)
       \/ task[t].phase = "answered"
    /\ Fewer(t) \/ Received(t)
    /\ \A u \in Tasks \ {t} : task'[u] = task[u]

LEMMA ProgressSteps ==
    /\ \A t \in Tasks : Typed /\ Answer(t) => Progress(t)
    /\ \A n \in 1 .. conn : Typed /\ ReadResult(n) =>
         task' = task \/ \E t \in Tasks : Progress(t)
<1>1. ASSUME Typed, NEW t \in Tasks, Answer(t)
      PROVE  Progress(t)
  <2>1. /\ task[t].phase = "asked"
        /\ task'[t] = [pc |-> task[t].pc, phase |-> "answered", data |-> Nothing]
        /\ \A u \in Tasks \ {t} : task'[u] = task[u]
      BY <1>1, AnswerBrings
  <2>2. Fewer(t)
      BY <2>1 DEF Fewer, Nothing
  <2> QED
    BY <1>1, <2>1, <2>2 DEF Progress
<1>2. ASSUME Typed, NEW n \in 1 .. conn, ReadResult(n)
      PROVE  task' = task \/ \E t \in Tasks : Progress(t)
  <2>1. CASE task' # task
    <3>1. PICK m \in Message : /\ m = inbox[n][1] /\ m.data \in States /\ m.type = "result"
                               /\ \E t \in Tasks : m.task = t /\ Takes(t, m)
        BY <1>2, <2>1, ResultRead
    <3>2. PICK t \in Tasks : m.task = t /\ Takes(t, m)
        BY <3>1
    <3>3. /\ \A u \in Tasks \ {t} : task'[u] = task[u]
          /\ task'[t] = [pc |-> task[t].pc, phase |-> "ready", data |-> m.data]
        BY <1>2, <3>1, <3>2, AnswerTaken
    <3>4. task[t].phase = "answered"
        BY <1>2, <3>1, <3>2, LastAnswer
    <3>5. Received(t)
      <4>1. task'[t].data = m.data
          BY <3>3
      <4> QED
        BY <1>2, <3>1, <3>2, <4>1 DEF Received
    <3> QED
      BY <3>3, <3>4, <3>5 DEF Progress
  <2> QED
    BY <2>1
<1> QED
  BY <1>1, <1>2

\* What the steps of a task make of it.
LEMMA OwnSteps ==
    ASSUME Typed, NEW t \in Tasks
    PROVE  /\ ApplyList(t) => /\ task'[t] = Asks(t, "reading")
                              /\ \A u \in Tasks \ {t} : task'[u] = task[u]
           /\ Import(t) => /\ task'[t].pc = "importing" /\ Fewer(t)
                           /\ \A u \in Tasks \ {t} : task'[u] = task[u]
           /\ ImportEnds(t) => /\ \A u \in Tasks \ {t} : task'[u] = task[u]
                               /\ t = "main" => task'[t] = Asking("sub_state")
                               /\ t = "refresh" =>
                                    task'[t] \in {Idle("none"), Asks(t, "listing")}
<1>1. task \in [Tasks -> Task]
    BY Parts DEF Typed, TaskTypes
<1>2. ASSUME ApplyList(t)
      PROVE  /\ task'[t] = Asks(t, "reading")
             /\ \A u \in Tasks \ {t} : task'[u] = task[u]
    BY <1>1, <1>2 DEF ApplyList
<1>3. ASSUME Import(t)
      PROVE  /\ task'[t].pc = "importing" /\ Fewer(t)
             /\ \A u \in Tasks \ {t} : task'[u] = task[u]
  <2>1. PICK S : Imports(t, S)
      BY <1>3 DEF Import
  <2>2. task' = [task EXCEPT ![t] =
           [pc |-> "importing", phase |-> "none",
            data |-> [e \in Entities |-> IF e \in S THEN 0 ELSE task[t].data[e]]]]
      BY <1>1, <2>1 DEF Imports
  <2>3. task'[t] = [pc |-> "importing", phase |-> "none",
            data |-> [e \in Entities |-> IF e \in S THEN 0 ELSE task[t].data[e]]]
      BY <1>1, <2>2
  <2>4. Fewer(t)
      BY <2>3 DEF Fewer
  <2> QED
    BY <1>1, <2>2, <2>3, <2>4
<1>4. ASSUME ImportEnds(t)
      PROVE  /\ \A u \in Tasks \ {t} : task'[u] = task[u]
             /\ t = "main" => task'[t] = Asking("sub_state")
             /\ t = "refresh" => task'[t] \in {Idle("none"), Asks(t, "listing")}
    BY <1>1, <1>4 DEF ImportEnds
<1> QED
  BY <1>2, <1>3, <1>4

\* What becomes of the main task.
LEMMA MainSteps ==
    ASSUME Typed, [Next]_vars
    PROVE  \/ task'["main"] = task["main"]
           \/ Progress("main")
           \/ ApplyList("main") /\ task'["main"] = Asking("reading")
           \/ Import("main") /\ task'["main"].pc = "importing"
           \/ ImportEnds("main") /\ task'["main"] = Asking("sub_state")
           \/ /\ Subscribed /\ task["main"].pc = "sub_state"
              /\ task'["main"] = Asking("sub_registry")
           \/ /\ Subscribed /\ task["main"].pc = "sub_registry"
              /\ task'["main"] = Idle("watching")
           \/ (ConnectionFails \/ Restart) /\ task'["main"] = Idle("down")
           \/ Connect /\ task["main"].pc = "down" /\ task'["main"] = Asking("listing")
<1>1. task \in [Tasks -> Task] /\ "main" \in Tasks /\ "refresh" \in Tasks
    BY Parts DEF Typed, TaskTypes, Tasks
<1>2. CASE HomeChanges \/ LinkLost \/ UNCHANGED vars
    BY <1>2, ChangeReports DEF LinkLost, vars
<1>3. CASE \E n \in 1 .. conn : LoopStep(n)
  <2>1. PICK n \in 1 .. conn : LoopStep(n)
      BY <1>3
  <2>2. CASE ReadResult(n)
      BY <2>2, ProgressSteps DEF Tasks, Progress
  <2>3. CASE ~ ReadResult(n)
      BY <1>1, <2>1, <2>3 DEF LoopStep, ReadState, DashboardSent, ReadRegistry, LoopEnds
  <2> QED
    BY <2>2, <2>3
<1>4. CASE \E t \in Tasks : Answer(t)
    BY <1>4, ProgressSteps DEF Tasks, Progress
<1>5. CASE \E t \in Tasks : ApplyList(t) \/ Import(t) \/ ImportEnds(t)
    BY <1>5, OwnSteps DEF Tasks, Asks
<1>6. CASE Subscribed
    BY <1>1, <1>6 DEF Subscribed, Ready
<1>7. CASE RefreshStarts \/ RefreshFails
    BY <1>1, <1>7 DEF RefreshStarts, RefreshFails
<1>8. CASE ConnectionFails \/ Restart
    BY <1>1, <1>8 DEF ConnectionFails, Restart
<1>9. CASE Connect
    BY <1>1, <1>9 DEF Connect
<1> QED
  BY <1>2, <1>3, <1>4, <1>5, <1>6, <1>7, <1>8, <1>9, Steps

\* What becomes of the refresh.
LEMMA RefreshSteps ==
    ASSUME Typed, [Next]_vars
    PROVE  \/ task'["refresh"] = task["refresh"]
           \/ Progress("refresh")
           \/ /\ \E n \in 1 .. conn : ReadRegistry(n)
              /\ task["refresh"].pc = "none" /\ task'["refresh"] = Idle("starting")
           \/ /\ RefreshStarts /\ task["refresh"].pc = "starting"
              /\ task'["refresh"] = Asks("refresh", "listing")
           \/ ApplyList("refresh") /\ task'["refresh"] = Asks("refresh", "reading")
           \/ Import("refresh") /\ task'["refresh"].pc = "importing"
           \/ /\ ImportEnds("refresh")
              /\ task'["refresh"] \in {Idle("none"), Asks("refresh", "listing")}
           \/ /\ \/ RefreshFails \/ Restart
                 \/ ConnectionFails /\ Waiting("refresh")
              /\ task'["refresh"] = Idle("none")
<1>1. task \in [Tasks -> Task] /\ "main" \in Tasks /\ "refresh" \in Tasks
    BY Parts DEF Typed, TaskTypes, Tasks
<1>2. CASE HomeChanges \/ LinkLost \/ UNCHANGED vars
    BY <1>2, ChangeReports DEF LinkLost, vars
<1>3. CASE \E n \in 1 .. conn : LoopStep(n)
  <2>1. PICK n \in 1 .. conn : LoopStep(n)
      BY <1>3
  <2>2. CASE ReadResult(n)
      BY <2>2, ProgressSteps DEF Tasks, Progress
  <2>3. CASE ReadRegistry(n)
      BY <1>1, <2>3 DEF ReadRegistry
  <2>4. CASE ReadState(n) \/ DashboardSent(n) \/ LoopEnds(n)
      BY <1>1, <2>4 DEF ReadState, DashboardSent, LoopEnds
  <2> QED
    BY <2>1, <2>2, <2>3, <2>4 DEF LoopStep
<1>4. CASE \E t \in Tasks : Answer(t)
    BY <1>4, ProgressSteps DEF Tasks, Progress
<1>5. CASE \E t \in Tasks : ApplyList(t) \/ Import(t) \/ ImportEnds(t)
    BY <1>5, OwnSteps DEF Tasks
<1>6. CASE Subscribed \/ Connect
    BY <1>1, <1>6 DEF Subscribed, Connect
<1>7. CASE RefreshStarts \/ RefreshFails
    BY <1>1, <1>7 DEF RefreshStarts, RefreshFails
<1>8. CASE ConnectionFails \/ Restart
    BY <1>1, <1>8 DEF ConnectionFails, Restart
<1> QED
  BY <1>2, <1>3, <1>4, <1>5, <1>6, <1>7, <1>8, Steps

\* What is not under way and not subscribed does not come.
LEMMA NoneNew ==
    ASSUME Typed, [Next]_vars, conn' = conn, conn \in Connections,
           NEW type \in {"state", "registry"},
           NoMessage(conn, type), type \notin subscribed
    PROVE  NoMessage(conn, type)'
<1>1. InboxTypes /\ Len(inbox[conn]) \in Nat
    BY InboxSteps, MessageTypes
<1>2. ASSUME Moves
      PROVE  NoMessage(conn, type)'
  <2>1. \E d \in {0, 1} : Moved(conn, d)
      BY <1>2 DEF Moves
  <2>2. Unclaimed.type # type
      BY DEF Unclaimed
  <2> QED
    BY <2>1, <2>2 DEF Moved, NoMessage
<1>3. ASSUME NEW ms \in Seq(Message), Arrives(ms),
             \A i \in 1 .. Len(ms) : ms[i].type # type
      PROVE  NoMessage(conn, type)'
  <2> SUFFICES ASSUME NEW i \in 1 .. Len(inbox'[conn])
               PROVE  inbox'[conn][i].type # type
      BY DEF NoMessage
  <2>1. \/ i \in 1 .. Len(inbox[conn]) /\ inbox'[conn][i] = inbox[conn][i]
        \/ \E k \in 1 .. Len(ms) : inbox'[conn][i] = ms[k]
      BY <1>1, <1>3, ArrivedFrom
  <2> QED
    BY <1>3, <2>1 DEF NoMessage
<1>4. CASE HomeChanges
  <2>1. CASE inbox' = inbox
      BY <2>1 DEF NoMessage
  <2>2. CASE \E ms \in Seq(Message) :
               Arrives(ms) /\ \A i \in 1 .. Len(ms) : NewReport(ms[i])
      BY <1>3, <2>2 DEF NewReport
  <2> QED
    BY <1>4, <2>1, <2>2, ChangeReports
<1>5. CASE \E t \in Tasks : Answer(t)
  <2>1. PICK t \in Tasks : Answer(t)
      BY <1>5
  <2>2. PICK m : m = Reply(t)
      OBVIOUS
  <2>3. m \in Message /\ Arrives(<<m>>) /\ m.type = "result"
      BY <2>1, <2>2, AnswerBrings DEF Reply
  <2>4. <<m>> \in Seq(Message) /\ Len(<<m>>) = 1 /\ <<m>>[1] = m /\ \A i \in 1 .. 1 : i = 1
      BY <2>3
  <2> QED
    BY <1>3, <2>3, <2>4
<1> QED
  BY <1>2, <1>4, <1>5, InboxSteps

LEMMA TakenFirst == Init => Taken
BY DEF Init, Taken, Tasks, Idle

LEMMA TakenStep ==
    ASSUME Typed, Taken, [Next]_vars
    PROVE  Taken'
<1>1. task'["main"].pc \notin {"none", "starting"}
    BY MainSteps DEF Taken, Progress, Asking, Idle
<1>2. task'["refresh"].pc \notin {"down", "watching", "sub_state", "sub_registry"}
    BY RefreshSteps DEF Taken, Progress, Asks, Asking, Idle
<1> QED
  BY <1>1, <1>2 DEF Taken

LEMMA LinkedFirst == Init => Linked
BY DEF Init, Linked, Connections, Idle, Tasks

LEMMA LinkedStep ==
    ASSUME Typed, Linked, Taken, [Next]_vars
    PROVE  Linked'
<1>1. /\ LinkTypes /\ InboxTypes /\ Numbered /\ TaskTypes
      /\ conn \in Nat /\ Connections' = Connections
      /\ \A n \in Connections : n \in Nat
    BY Parts, NumbersKept DEF Typed, LinkTypes, Connections
<1>2. link' => task'["main"].pc # "down"
  <2>1. ConnectionFails \/ Restart => ~ link'
      BY DEF ConnectionFails, Restart
  <2>2. Connect => task'["main"].pc # "down"
      BY <1>1 DEF Connect, TaskTypes, Tasks, Asking
  <2>3. ~ (link' => link) => Connect
      BY ConnSteps DEF connection, Restart
  <2>4. task'["main"].pc = "down" =>
          task["main"].pc = "down" \/ ConnectionFails \/ Restart
      BY MainSteps DEF Progress, Asking, Idle
  <2> QED
    BY <2>1, <2>2, <2>3, <2>4 DEF Linked
<1>3. ~ link' => subscribed' = {}
  <2>1. Connect => link'
      BY DEF Connect
  <2>2. Restart => subscribed' = {}
      BY DEF Restart
  <2>3. CASE link' = link /\ (subscribed' = subscribed \/ link)
      BY <2>3 DEF Linked
  <2>4. CASE subscribed' = {}
      BY <2>4
  <2> QED
    BY <2>1, <2>2, <2>3, <2>4, ConnSteps DEF connection
<1>4. /\ task'["main"].pc # "down" => conn' # 0
      /\ task'["refresh"].pc # "none" => conn' # 0
  <2>1. Connect => conn' # 0
      BY <1>1 DEF Connect
  <2>2. ~ Connect => conn' = conn
      BY ConnSteps DEF connection, Restart
  <2>3. ~ Connect /\ task'["main"].pc # "down" => task["main"].pc # "down"
      BY MainSteps DEF Progress, ApplyList, Import, ImportEnds, Importing, Ready, Idle
  <2>4. ASSUME task'["refresh"].pc # "none", task["refresh"].pc = "none"
        PROVE  conn # 0
    <3>1. Idle("none").pc = "none"
        BY DEF Idle
    <3>2. \E n \in 1 .. conn : ReadRegistry(n)
        BY <2>4, <3>1, RefreshSteps DEF Progress, ApplyList, Import, ImportEnds, Importing, Ready
    <3> QED
      BY <1>1, <3>2
  <2> QED
    BY <1>1, <2>1, <2>2, <2>3, <2>4 DEF Linked
<1>5. ASSUME NEW n \in Connections, n > conn
      PROVE  Len(inbox'[n]) = 0
  <2>1. Len(inbox[n]) = 0 /\ InboxTypes'
      BY <1>5, TypedStep, Parts DEF Linked, Typed
  <2>2. Len(inbox'[n]) \in Nat
      BY <2>1, <1>1, NumbersKept DEF InboxTypes
  <2>3. CASE Moves
    <3>1. \A i \in 1 .. Len(inbox'[n]) : FALSE
        BY <2>1, <2>3 DEF Moves, Moved
    <3> QED
      BY <2>2, <3>1
  <2>4. CASE HomeChanges \/ \E t \in Tasks : Answer(t)
    <3>1. inbox' = inbox \/ \E ms : Arrives(ms)
        BY <2>4, ChangeReports, AnswerBrings
    <3> QED
      BY <1>1, <1>5, <2>1, <3>1 DEF Arrives
  <2> QED
    BY <2>3, <2>4, InboxSteps
<1>6. CASE Connect
  <2>1. /\ conn' = conn + 1 /\ loop' = [loop EXCEPT ![conn + 1] = "reading"]
        /\ ~ overlap' => ~ \E n \in 1 .. conn : loop[n] = "sending"
        /\ \A n \in 1 .. conn : loop[n] # "reading"
        /\ inbox' = inbox
      BY <1>6 DEF Connect
  <2>2. /\ \A n \in Connections : n > conn' => loop'[n] = "none" /\ Len(inbox'[n]) = 0
        /\ \A n \in Connections : n <= conn' => loop'[n] # "none"
      BY <1>1, <2>1 DEF Linked, LinkTypes
  <2>3. ASSUME ~ overlap', NEW n \in Connections, n < conn'
        PROVE  loop'[n] = "over"
    <3>1. n \in 1 .. conn /\ loop'[n] = loop[n]
        BY <1>1, <2>1, <2>3 DEF LinkTypes, Connections
    <3>2. loop[n] \in {"none", "reading", "sending", "over"} /\ loop[n] # "none"
        BY <1>1, <2>3, <3>1 DEF LinkTypes, Linked
    <3> QED
      BY <2>1, <2>3, <3>1, <3>2
  <2> QED
    BY <1>1, <1>2, <1>3, <1>4, <2>2, <2>3 DEF Linked
<1>7. CASE Restart
  <2>1. /\ conn' = conn
        /\ loop' = [n \in Connections |-> IF n <= conn THEN "over" ELSE "none"]
      BY <1>7 DEF Restart, Connections
  <2> QED
    BY <1>1, <1>2, <1>3, <1>4, <1>5, <2>1 DEF Linked
<1>8. CASE conn' = conn /\ overlap' = overlap /\ loop' = loop
    BY <1>1, <1>2, <1>3, <1>4, <1>5, <1>8 DEF Linked
<1>9. CASE UNCHANGED <<connection, overlap>> /\ \E n \in 1 .. conn : LoopStep(n)
  <2>1. PICK n \in 1 .. conn : LoopStep(n)
      BY <1>9
  <2>2. n \in Connections
      BY <1>1, LoopNumber
  <2>3. \/ loop' = loop
        \/ /\ loop[n] \in {"reading", "sending"}
           /\ \E pc \in {"reading", "sending", "over"} : loop' = [loop EXCEPT ![n] = pc]
      BY <2>1, LoopSteps
  <2>4. /\ \A k \in Connections : k > conn => loop'[k] = "none"
        /\ \A k \in Connections : k <= conn => loop'[k] # "none"
        /\ ~ overlap => \A k \in Connections : k < conn => loop'[k] = "over"
      BY <1>1, <2>2, <2>3 DEF Linked, LinkTypes
  <2> QED
    BY <1>1, <1>2, <1>3, <1>4, <1>5, <1>9, <2>4 DEF Linked, connection
<1> QED
  BY <1>6, <1>7, <1>8, <1>9, ConnSteps

LEMMA ExclusiveFirst == Init => Exclusive
BY DEF Init, Exclusive, MainFirst, Tasks, Idle, Asking

\* Before the registry is subscribed no event of it is read.
LEMMA NoEventRead ==
    ASSUME Typed, Linked, Exclusive, ~ overlap, MainFirst, NEW n \in 1 .. conn
    PROVE  ~ ReadRegistry(n)
<1>1. LinkTypes /\ InboxTypes /\ n \in Connections /\ conn \in Nat
    BY Parts, LoopNumber DEF Typed, LinkTypes
<1>2. n < conn => loop[n] # "reading"
    BY <1>1 DEF Linked
<1>3. n = conn => ~ ReadRegistry(n)
    BY <1>1, ReadsMoves DEF Exclusive, NoMessage, ReadRegistry
<1> QED
  BY <1>1, <1>2, <1>3 DEF ReadRegistry, Reads

LEMMA ExclusiveStep ==
    ASSUME Connected, Exclusive, [Next]_vars
    PROVE  Exclusive'
<1> SUFFICES ASSUME ~ overlap', MainFirst'
             PROVE  /\ task'["refresh"].pc = "none"
                    /\ "registry" \notin subscribed'
                    /\ NoMessage(conn, "registry")'
    BY DEF Exclusive
<1>1. Typed /\ Linked /\ Taken /\ Typed' /\ Linked' /\ Taken'
    BY TypedStep, LinkedStep, TakenStep DEF Connected
<1>2. CASE Connect
  <2>1. /\ task["refresh"].pc = "none" /\ task' = [task EXCEPT !["main"] = Asking("listing")]
        /\ UNCHANGED <<subscribed, inbox>> /\ conn' = conn + 1 /\ task["main"].pc = "down"
        /\ conn' \in Connections /\ conn' > conn
    <3>1. conn \in Nat /\ conn + 1 \in Connections
        BY <1>1, <1>2, Parts, NumbersKept DEF Typed, LinkTypes, Connections, Connect
    <3>2. task["refresh"].pc = "none"
        BY <1>2 DEF Connect
    <3> QED
      BY <1>2, <3>1, <3>2 DEF Connect
  <2>2. subscribed = {} /\ Len(inbox[conn']) = 0
      BY <1>1, <2>1 DEF Linked
  <2>3. \A i \in 1 .. 0 : FALSE
      OBVIOUS
  <2>4. task'["refresh"].pc = "none"
      BY <1>1, <2>1, Parts DEF Typed, TaskTypes, Tasks
  <2> QED
    BY <2>1, <2>2, <2>3, <2>4 DEF NoMessage
<1>3. CASE Restart
    BY <1>3 DEF MainFirst, Idle, Asking, Restart, Tasks
<1>4. CASE ~ Connect /\ ~ Restart
  <2>1. conn' = conn /\ overlap' = overlap
      BY <1>1, <1>4, ConnSteps DEF connection
  <2>2. MainFirst
      BY <1>1, <1>4, MainSteps
         DEF MainFirst, Progress, Asking, Idle, ApplyList, Import, ImportEnds, Importing, Ready
  <2>3. task["refresh"].pc = "none" /\ "registry" \notin subscribed
        /\ NoMessage(conn, "registry")
      BY <2>1, <2>2 DEF Exclusive
  <2>4. conn \in Connections
      BY <1>1, <2>2, Parts, NumbersKept
         DEF Linked, MainFirst, Typed, LinkTypes, Connections, Asking
  <2>5. NoMessage(conn, "registry")'
      BY <1>1, <2>1, <2>3, <2>4, NoneNew
  <2>6. task'["refresh"].pc = "none"
      BY <1>1, <2>1, <2>2, <2>3, NoEventRead, RefreshSteps
         DEF Progress, ApplyList, Import, ImportEnds, Importing, Ready, Idle
  <2>7. "registry" \notin subscribed'
    <3>1. CASE \E t \in Tasks : Answer(t)
      <4>1. PICK t \in Tasks : Answer(t)
          BY <3>1
      <4>2. t = "main" => task[t].pc # "sub_registry"
        <5>1. task[t].phase = "asked" /\ Progress(t)
            BY <1>1, <4>1, ProgressSteps DEF Answer
        <5> QED
          BY <5>1 DEF MainFirst, Progress, Asking
      <4>3. t = "refresh" => task[t].pc # "sub_registry"
          BY <1>1 DEF Taken
      <4>4. subscribed' \subseteq subscribed \cup {"state"}
          BY <4>1, <4>2, <4>3 DEF Answer, Tasks
      <4> QED
        BY <2>3, <4>4
    <3>2. CASE subscribed' \subseteq subscribed
        BY <2>3, <3>2
    <3> QED
      BY <1>1, <3>1, <3>2, SubscribedSteps
  <2> QED
    BY <2>5, <2>6, <2>7
<1> QED
  BY <1>2, <1>3, <1>4

-----------------------------------------------------------------------------
(* Memory and tables                                                       *)

\* The task that imports holds the batch,
Holders ==
    ~ overlap => \A t \in Tasks : batch = t <=> task[t].pc = "importing"

\* and what is written goes to the tables as it goes to memory.
Agreed ==
    ~ overlap => work = mirror /\ (batch = "none" => disk = mirror)

Tables == Connected /\ Exclusive /\ Holders /\ Agreed

\* The steps that open or close a batch or write.
LEMMA TableSteps ==
    ASSUME [Next]_vars
    PROVE  \/ \E t \in Tasks : ApplyList(t) \/ Import(t) \/ ImportEnds(t)
           \/ \E n \in 1 .. conn : ReadState(n)
           \/ UNCHANGED <<batch, registry>>
           \/ Restart
<1>1. CASE HomeChanges
    BY <1>1 DEF HomeChanges, StateChanges, EntityAdded, EntityRemoved, Changes
<1>2. CASE \E n \in 1 .. conn : LoopStep(n)
    BY <1>2 DEF LoopStep, ReadResult, ReadState, DashboardSent, ReadRegistry, LoopEnds
<1>3. CASE \E t \in Tasks : Answer(t)
    BY <1>3 DEF Answer
<1>4. CASE Subscribed \/ RefreshStarts \/ RefreshFails \/ UNCHANGED vars
    BY <1>4 DEF Subscribed, RefreshStarts, RefreshFails, vars
<1>5. CASE ConnectionFails \/ Connect \/ LinkLost
    BY <1>5 DEF ConnectionFails, Connect, LinkLost
<1> QED
  BY <1>1, <1>2, <1>3, <1>4, <1>5, Steps

\* Only Import and ImportEnds begin or end an import; a restart breaks it off.
LEMMA ImportingSteps ==
    ASSUME Typed, [Next]_vars, NEW t \in Tasks, ~ Restart
    PROVE  (task'[t].pc = "importing" <=> task[t].pc = "importing") \/ Import(t) \/ ImportEnds(t)
<1>1. \A u \in Tasks : task[u] \in Task
    BY Parts DEF Typed, TaskTypes
<1>2. \A u \in Tasks : Waiting(u) => task[u].pc # "importing"
    BY <1>1, TaskShape DEF Waiting, Requesting
<1>3. CASE t = "main"
  <2>1. ConnectionFails => task["main"].pc # "importing"
      BY <1>2 DEF ConnectionFails, Tasks
  <2> QED
    BY <1>3, <2>1, MainSteps DEF Progress, ApplyList, Ready, Asking, Idle
<1>4. CASE t = "refresh"
  <2>1. RefreshFails => task["refresh"].pc # "importing"
      BY <1>2 DEF RefreshFails, Tasks
  <2>2. Waiting("refresh") => task["refresh"].pc # "importing"
      BY <1>2 DEF Tasks
  <2> QED
    BY <1>4, <2>1, <2>2, RefreshSteps DEF Progress, ApplyList, Ready, Asks, Asking, Idle
<1> QED
  BY <1>3, <1>4 DEF Tasks

\* While no task outlives its connection, another task than the one that
\* lists or imports holds no batch.
LEMMA NoOtherHolder ==
    ASSUME Exclusive, Holders, Taken, ~ overlap, batch \in Tasks \cup {"none"},
           NEW t \in Tasks, ApplyList(t) \/ Import(t) \/ ImportEnds(t)
    PROVE  batch = "none" \/ (batch = t /\ task[t].pc = "importing")
<1>1. task[t].pc \in {"listing", "reading", "importing"}
    BY DEF ApplyList, Import, ImportEnds, Importing, Ready
<1>2. ~ (t = "refresh" /\ task["main"].pc = "importing")
    BY <1>1 DEF Exclusive, MainFirst
<1>3. ~ (t = "main" /\ task["refresh"].pc = "importing")
    BY <1>1 DEF Exclusive, MainFirst
<1> QED
  BY <1>2, <1>3 DEF Holders, Tasks

\* Overlap ends with a restart only.
LEMMA OverlapSteps ==
    ASSUME Typed, [Next]_vars, ~ Restart, ~ overlap'
    PROVE  ~ overlap
<1>1. Connect => ~ overlap
    BY DEF Connect
<1> QED
  BY <1>1, ConnSteps

LEMMA TablesFirst == Init => Holders /\ Agreed
BY DEF Init, Holders, Agreed, Tasks, Idle

LEMMA HoldersStep ==
    ASSUME Connected, Exclusive, Holders, [Next]_vars
    PROVE  Holders'
<1> SUFFICES ASSUME ~ overlap', NEW t \in Tasks
             PROVE  batch' = t <=> task'[t].pc = "importing"
    BY DEF Holders, Tasks
<1>1. Typed /\ Taken /\ batch \in Tasks \cup {"none"} /\ "none" \notin Tasks
    BY Parts DEF Connected, Typed, StoreTypes, Tasks
<1>2. CASE Restart
    BY <1>1, <1>2 DEF Restart, Idle
<1>3. CASE ~ Restart /\ \E u \in Tasks : Import(u) \/ ImportEnds(u)
  <2>1. PICK u \in Tasks : Import(u) \/ ImportEnds(u)
      BY <1>3
  <2>2. ~ overlap
      BY <1>1, <1>3, OverlapSteps
  <2>3. batch = "none" \/ (batch = u /\ task[u].pc = "importing")
      BY <1>1, <2>1, <2>2, NoOtherHolder
  <2>4. \A w \in Tasks \ {u} : task'[w] = task[w]
      BY <1>1, <2>1, OwnSteps
  <2>5. \A w \in Tasks \ {u} : task[w].pc # "importing" /\ batch # w
      BY <1>1, <2>2, <2>3 DEF Holders
  <2>6. task[u].pc = "importing" => batch = u
      BY <2>2 DEF Holders
  <2>7. CASE Import(u)
    <3>1. task'[u].pc = "importing"
        BY <1>1, <2>7, OwnSteps
    <3>2. batch' = Holder(u)
        BY <2>7 DEF Import, Imports
    <3>3. Holder(u) = u
        BY <2>3, <2>6, <2>7 DEF Import, Importing, Holder, Ready
    <3> QED
      BY <2>4, <2>5, <3>1, <3>2, <3>3
  <2>8. CASE ImportEnds(u)
    <3>1. task'[u].pc # "importing"
        BY <1>1, <2>8, OwnSteps DEF Tasks, Asks, Asking, Idle
    <3>2. batch' = "none"
        BY <2>3, <2>8, <1>1 DEF ImportEnds, Commits
    <3> QED
      BY <1>1, <2>4, <2>5, <3>1, <3>2
  <2> QED
    BY <2>1, <2>7, <2>8
<1>4. CASE ~ Restart /\ ~ \E u \in Tasks : Import(u) \/ ImportEnds(u)
  <2>1. ~ overlap
      BY <1>1, <1>4, OverlapSteps
  <2>2. task'[t].pc = "importing" <=> task[t].pc = "importing"
      BY <1>1, <1>4, ImportingSteps
  <2>3. batch' = batch
      BY <1>4, TableSteps DEF ApplyList, ReadState
  <2> QED
    BY <2>1, <2>2, <2>3 DEF Holders
<1> QED
  BY <1>2, <1>3, <1>4

LEMMA AgreedStep ==
    ASSUME Connected, Exclusive, Holders, Agreed, [Next]_vars
    PROVE  Agreed'
<1> SUFFICES ASSUME ~ overlap'
             PROVE  work' = mirror' /\ (batch' = "none" => disk' = mirror')
    BY DEF Agreed
<1>1. Typed /\ Taken /\ batch \in Tasks \cup {"none"} /\ "none" \notin Tasks
    BY Parts DEF Connected, Typed, StoreTypes, Tasks
<1>2. CASE Restart
    BY <1>2 DEF Restart
<1>3. ~ Restart => ~ overlap /\ work = mirror /\ (batch = "none" => disk = mirror)
    BY <1>1, OverlapSteps DEF Agreed
<1>4. CASE ~ Restart /\ \E n \in 1 .. conn : ReadState(n)
    BY <1>3, <1>4 DEF Write, ReadState
<1>5. CASE ~ Restart /\ UNCHANGED <<batch, registry>>
    BY <1>3, <1>5 DEF registry
<1>6. CASE ~ Restart /\ \E t \in Tasks : ApplyList(t) \/ Import(t) \/ ImportEnds(t)
  <2>1. PICK t \in Tasks : ApplyList(t) \/ Import(t) \/ ImportEnds(t)
      BY <1>6
  <2>2. batch = "none" \/ (batch = t /\ task[t].pc = "importing")
      BY <1>1, <1>3, <1>6, <2>1, NoOtherHolder
  <2>3. CASE ApplyList(t)
    <3>1. batch = "none" /\ batch' = batch
        BY <2>2, <2>3 DEF ApplyList, Ready
    <3>2. PICK gone : Remove(gone)
        BY <2>3 DEF ApplyList
    <3> QED
      BY <1>3, <1>6, <3>1, <3>2 DEF Remove
  <2>4. CASE Import(t)
    <3>1. PICK states : Write(states, Holder(t)) /\ batch' = Holder(t)
        BY <2>4 DEF Import, Imports
    <3> QED
      BY <1>3, <1>6, <3>1 DEF Write
  <2>5. CASE ImportEnds(t)
    <3>1. UNCHANGED <<mirror, work>> /\ Commits(t)
        BY <2>5 DEF ImportEnds
    <3> QED
      BY <1>1, <1>3, <1>6, <2>2, <3>1 DEF Commits
  <2> QED
    BY <2>1, <2>3, <2>4, <2>5
<1> QED
  BY <1>2, <1>4, <1>5, <1>6, TableSteps

LEMMA ConnectedAlways ==
    /\ Init => Connected /\ Exclusive
    /\ Connected /\ Exclusive /\ [Next]_vars => Connected' /\ Exclusive'
<1>1. Init => Connected /\ Exclusive
    BY TypedFirst, LinkedFirst, TakenFirst, ExclusiveFirst DEF Connected
<1>2. ASSUME Connected, Exclusive, [Next]_vars
      PROVE  Connected' /\ Exclusive'
    BY <1>2, TypedStep, LinkedStep, TakenStep, ExclusiveStep DEF Connected
<1> QED
  BY <1>1, <1>2

\* Memory and the committed tables agree whenever no batch is open, so that a
\* restart loses only the batch it interrupts (persistence_batch and the
\* handlers of entity_registry.py, called by the receive loop, by the main
\* task and by refreshes in any interleaving).
THEOREM TablesMatch == Spec => []DiskMatches
<1>1. Init => Tables
    BY ConnectedAlways, TablesFirst DEF Tables
<1>2. Tables /\ [Next]_vars => Tables'
    BY ConnectedAlways, HoldersStep, AgreedStep DEF Tables
<1>3. Tables => DiskMatches
    BY DEF Tables, Agreed, DiskMatches
<1> QED
  BY <1>1, <1>2, <1>3, PTL DEF Spec

-----------------------------------------------------------------------------
(* What has come is not overwritten by what is older                       *)

\* No state of data is newer than the one in new, if there still is one.
Older(data, new) == \A e \in Entities : new[e] = 0 \/ data[e] <= new[e]

\* All these states were there when the states became h by change number c.
Past(data, h, c) == (\A e \in Entities : data[e] <= c) /\ Older(data, h)

\* The states a message carries.
Carried(m) ==
    IF m.type = "result" THEN m.data
    ELSE IF m.type = "state" THEN [Nothing EXCEPT ![m.entity] = m.stamp] ELSE Nothing

Stamped ==
    /\ Past(home, home, clock) /\ Past(told, home, clock)
    /\ \A t \in Tasks : Past(task[t].data, home, clock)
    /\ \A n \in Connections : \A i \in 1 .. Len(inbox[n]) :
         Past(Carried(inbox[n][i]), home, clock)

\* A state that is reported is not older than that of the entity in data.
Young(m, data) == m.type = "state" /\ m.stamp # 0 => m.stamp >= data[m.entity]

\* No event on its way is older than these states, or than a message before it.
AllYoung(data) == \A i \in 1 .. Len(inbox[conn]) : Young(inbox[conn][i], data)

Sorted ==
    \A i \in 1 .. Len(inbox[conn]) : \A j \in 1 .. i - 1 :
      Young(inbox[conn][i], Carried(inbox[conn][j]))

\* An event under way is not older than what has come, than what a task has
\* received, nor than the messages before it.
NotOlder ==
    ~ overlap /\ conn # 0 =>
      /\ AllYoung(told)
      /\ \A t \in Tasks : AllYoung(task[t].data)
      /\ Sorted

\* The states of an answer are at its place in the inbox, ...
Snapshot(i, t) == i \in 1 .. Len(inbox[conn]) /\ IsAnswer(conn, i, t) /\ task[t].pc = "reading"

\* ... so nothing that came before it is newer, and what is newer than the
\* states a task imports is noted as having outrun them.
Fresh ==
    ~ overlap /\ conn # 0 =>
      /\ \A t \in Tasks, i \in Nat : Snapshot(i, t) =>
           /\ Older(told, inbox[conn][i].data)
           /\ \A j \in 1 .. i - 1 : Older(Carried(inbox[conn][j]), inbox[conn][i].data)
      /\ \A t \in Tasks : Importing(t) =>
           \A e \in Entities \ outrun : task[t].data[e] = 0 \/ told[e] <= task[t].data[e]

LEMMA StateNumbers ==
    ASSUME NEW data \in States, NEW e \in Entities
    PROVE  data[e] \in Nat
BY NumbersKept DEF States

\* The states a task has.
LEMMA DataSteps ==
    ASSUME Typed, [Next]_vars, NEW t \in Tasks
    PROVE  Fewer(t) \/ Received(t)
<1>1. task'[t].data = task[t].data => Fewer(t)
    BY DEF Fewer
<1>2. task'[t].data = Nothing => Fewer(t)
    BY DEF Fewer, Nothing
<1>3. \A pc : Asking(pc).data = Nothing /\ Idle(pc).data = Nothing /\ Asks(t, pc).data = Nothing
    BY DEF Asking, Idle, Asks
<1>4. CASE t = "main"
    BY <1>1, <1>2, <1>3, <1>4, MainSteps, OwnSteps DEF Progress
<1>5. CASE t = "refresh"
    BY <1>1, <1>2, <1>3, <1>5, RefreshSteps, OwnSteps DEF Progress
<1> QED
  BY <1>4, <1>5 DEF Tasks

LEMMA CarriedStates ==
    ASSUME NEW m \in Message
    PROVE  Carried(m) \in States
<1>1. Nothing \in States
    BY NumbersKept
<1> QED
  BY <1>1, MessageShape DEF Carried, Nothing, States

\* What has come is what an event carries or a task imports.
LEMMA ToldSteps ==
    ASSUME Typed, [Next]_vars
    PROVE  \/ UNCHANGED brought
           \/ Restart /\ told' = Nothing /\ outrun' = {}
           \/ \E n \in 1 .. conn :
                /\ ReadState(n)
                /\ \A e \in Entities : told'[e] \in {told[e], Carried(inbox[n][1])[e]}
           \/ \E t \in Tasks : /\ Import(t)
                               /\ \A e \in Entities : told'[e] \in {told[e], task[t].data[e]}
<1>1. CASE HomeChanges
    BY <1>1 DEF HomeChanges, StateChanges, EntityAdded, EntityRemoved, Changes
<1>2. CASE \E n \in 1 .. conn : LoopStep(n)
  <2>1. PICK n \in 1 .. conn : LoopStep(n)
      BY <1>2
  <2>2. CASE ReadState(n)
    <3>1. InboxTypes /\ n \in Connections
        BY Parts, LoopNumber DEF Typed
    <3>2. Head(inbox[n]) = inbox[n][1] /\ inbox[n][1].type = "state"
        BY <2>2, <3>1, ReadsMoves DEF ReadState
    <3>3. Brings(Carried(inbox[n][1]))
        BY <2>2, <3>2 DEF ReadState, Carried
    <3> QED
      BY <2>2, <3>3 DEF Brings
  <2>3. CASE ~ ReadState(n)
      BY <2>1, <2>3 DEF LoopStep, ReadResult, DashboardSent, ReadRegistry, LoopEnds
  <2> QED
    BY <2>2, <2>3
<1>3. CASE \E t \in Tasks : Answer(t) \/ ApplyList(t) \/ ImportEnds(t)
    BY <1>3 DEF Answer, ApplyList, ImportEnds
<1>4. CASE Subscribed \/ RefreshStarts \/ RefreshFails \/ UNCHANGED vars
    BY <1>4 DEF Subscribed, RefreshStarts, RefreshFails, vars
<1>5. CASE ConnectionFails \/ Connect \/ LinkLost \/ Restart
    BY <1>5 DEF ConnectionFails, Connect, LinkLost, Restart
<1>6. CASE \E t \in Tasks : Import(t)
  <2>1. PICK t \in Tasks : Import(t)
      BY <1>6
  <2>2. PICK S \in SUBSET In(task[t].data) :
          Brings([e \in Entities |-> IF e \in S THEN task[t].data[e] ELSE 0])
      BY <2>1 DEF Import, Imports
  <2>3. told \in States
      BY Parts DEF Typed, StoreTypes
  <2>4. \A e \in Entities : told[e] \in Nat
      BY <2>3, StateNumbers
  <2>5. \A e \in Entities : told'[e] \in {told[e], task[t].data[e]}
      BY <2>2, <2>4 DEF Brings
  <2> QED
    BY <2>1, <2>5
<1> QED
  BY <1>1, <1>2, <1>3, <1>4, <1>5, <1>6, Steps

LEMMA StampedFirst == Init => Stamped
<1> SUFFICES ASSUME Init PROVE Stamped
    OBVIOUS
<1>1. \A n \in Connections : Len(inbox[n]) = 0
    BY DEF Init, Connections
<1>2. \A i \in 1 .. 0 : FALSE
    OBVIOUS
<1>3. Past(home, home, clock)
  <2>1. clock = 1 /\ home \in [Entities -> {0, 1}]
      BY DEF Init
  <2>2. \A e \in Entities : home[e] \in {0, 1}
      BY <2>1, Zenon
  <2>3. \A x \in {0, 1} : x <= 1 /\ x <= x
      OBVIOUS
  <2>4. \A e \in Entities : home[e] <= 1 /\ home[e] <= home[e]
      BY <2>2, <2>3, Zenon
  <2>5. Past(home, home, 1)
      BY <2>4 DEF Past, Older
  <2>6. clock = 1
      BY <2>1
  <2> QED
    BY <2>5, <2>6, Zenon
<1>4. Past(Nothing, home, clock)
  <2>1. clock = 1 /\ home \in [Entities -> {0, 1}]
      BY DEF Init
  <2>2. \A e \in Entities : home[e] \in {0, 1}
      BY <2>1, Zenon
  <2>3. Past(Nothing, home, 1)
      BY <2>2 DEF Past, Older, Nothing
  <2> QED
    BY <2>1, <2>3, Zenon
<1>5. told = Nothing /\ \A t \in Tasks : task[t].data = Nothing
    BY DEF Init, Idle
<1> QED
  BY <1>1, <1>2, <1>3, <1>4, <1>5 DEF Stamped

\* Numbers grow.
LEMMA ClockSteps ==
    ASSUME Typed, [Next]_vars
    PROVE  /\ clock \in Nat /\ clock' \in Nat /\ clock <= clock'
           /\ \A e \in Entities : home'[e] = home[e] \/ home'[e] \in {0, clock'}
           /\ \A data \in States : Past(data, home, clock) => Past(data, home', clock')
<1>1. clock \in Nat /\ clock' \in Nat
    BY TypedStep, Parts, NumbersKept DEF Typed, HomeTypes
<1>2. clock <= clock' /\ \A e \in Entities : home'[e] = home[e] \/ home'[e] \in {0, clock'}
  <2>1. CASE HomeChanges
      BY <1>1, <2>1, ChangeReports
  <2>2. CASE UNCHANGED ha
      BY <1>1, <2>2 DEF ha
  <2> QED
    BY <2>1, <2>2, Steps DEF LoopStep, ReadResult, ReadState, DashboardSent, ReadRegistry,
       LoopEnds, Answer, ApplyList, Import, Imports, ImportEnds, Subscribed, RefreshStarts,
       RefreshFails, ConnectionFails, Connect, LinkLost, Restart, vars
<1>3. ASSUME NEW data \in States, Past(data, home, clock)
      PROVE  Past(data, home', clock')
  <2> SUFFICES ASSUME NEW e \in Entities
               PROVE  data[e] <= clock' /\ (home'[e] = 0 \/ data[e] <= home'[e])
      BY DEF Past, Older
  <2>1. data[e] \in Nat /\ data[e] <= clock /\ (home[e] = 0 \/ data[e] <= home[e])
      BY <1>3, StateNumbers DEF Past, Older
  <2> QED
    BY <1>1, <1>2, <2>1
<1> QED
  BY <1>1, <1>2, <1>3

\* A report of a change carries a state that is there now.
LEMMA ReportPast ==
    ASSUME NEW m \in Message, m.type \in {"state", "registry"}, NewReport(m),
           home' \in States, clock' \in Nat, Past(Nothing, home', clock')
    PROVE  Past(Carried(m), home', clock')
<1>1. CASE m.type = "registry"
    BY <1>1 DEF Carried
<1>2. CASE m.type = "state"
  <2>1. /\ m.entity \in Entities /\ m.stamp \in Nat
        /\ m.stamp = 0 \/ (m.stamp = clock' /\ home'[m.entity] = clock')
        /\ Carried(m) = [Nothing EXCEPT ![m.entity] = m.stamp]
      BY <1>2, MessageShape, NumbersKept DEF NewReport, Carried
  <2>2. \A e \in Entities : Carried(m)[e] = IF e = m.entity THEN m.stamp ELSE 0
      BY <2>1 DEF Nothing
  <2> QED
    BY <2>1, <2>2 DEF Past, Older, Nothing
<1> QED
  BY <1>1, <1>2

LEMMA StampedStep ==
    ASSUME Typed, Stamped, [Next]_vars
    PROVE  Stamped'
<1>1. /\ HomeTypes /\ InboxTypes /\ LinkTypes /\ StoreTypes /\ TaskTypes
      /\ HomeTypes' /\ InboxTypes' /\ Numbered /\ Typed' /\ Connections' = Connections
    BY TypedStep, Parts, NumbersKept DEF Typed
<1>2. /\ clock \in Nat /\ clock' \in Nat /\ clock <= clock'
      /\ \A e \in Entities : home'[e] = home[e] \/ home'[e] \in {0, clock'}
      /\ \A data \in States : Past(data, home, clock) => Past(data, home', clock')
    BY ClockSteps
<1>3. /\ home \in States /\ told \in States /\ \A t \in Tasks : task[t].data \in States
    BY <1>1, TaskShape DEF HomeTypes, StoreTypes, TaskTypes
<1>4. /\ Past(home, home', clock') /\ Past(told, home', clock')
      /\ \A t \in Tasks : Past(task[t].data, home', clock')
    BY <1>2, <1>3 DEF Stamped
<1>5. Past(Nothing, home', clock')
  <2>1. \A e \in Entities : home'[e] \in Nat
      BY <1>1, NumbersKept DEF HomeTypes, States
  <2> QED
    BY <1>2, <2>1 DEF Past, Older, Nothing
<1>6. \A n \in Connections : \A i \in 1 .. Len(inbox[n]) :
        Past(Carried(inbox[n][i]), home', clock')
  <2> TAKE n \in Connections
  <2> TAKE i \in 1 .. Len(inbox[n])
  <2>1. Carried(inbox[n][i]) \in States
      BY <1>1, MessageTypes, CarriedStates
  <2> QED
    BY <1>2, <2>1 DEF Stamped
<1>7. Past(home, home, clock)'
  <2>1. ASSUME NEW e \in Entities
        PROVE  home'[e] <= clock' /\ home'[e] <= home'[e]
    <3>1. home'[e] \in Nat
        BY <1>1, NumbersKept DEF HomeTypes, States
    <3>2. home[e] <= clock'
        BY <1>4 DEF Past
    <3> QED
      BY <1>2, <3>1, <3>2
  <2> QED
    BY <2>1 DEF Past, Older
<1>8. Past(told, home, clock)'
  <2>1. CASE told' = told \/ told' = Nothing
      BY <1>4, <1>5, <2>1
  <2>2. ASSUME NEW data, Past(data, home', clock'),
               \A e \in Entities : told'[e] \in {told[e], data[e]}
        PROVE  Past(told', home', clock')
      BY <1>4, <2>2 DEF Past, Older
  <2>3. CASE \E t \in Tasks : \A e \in Entities : told'[e] \in {told[e], task[t].data[e]}
      BY <1>4, <2>2, <2>3
  <2>4. ASSUME NEW n \in 1 .. conn, ReadState(n),
               \A e \in Entities : told'[e] \in {told[e], Carried(inbox[n][1])[e]}
        PROVE  Past(told', home', clock')
    <3>1. n \in Connections /\ 1 \in 1 .. Len(inbox[n])
        BY <1>1, <2>4, LoopNumber, ReadsMoves DEF ReadState
    <3> QED
      BY <1>6, <2>2, <2>4, <3>1
  <2> QED
    BY <2>1, <2>3, <2>4, ToldSteps DEF brought
<1>9. ASSUME NEW t \in Tasks
      PROVE  Past(task[t].data, home, clock)'
  <2>1. CASE Fewer(t)
      BY <1>4, <1>5, <2>1 DEF Past, Older, Fewer, Nothing
  <2>2. CASE Received(t)
    <3>1. PICK n \in 1 .. conn : ReadResult(n) /\ inbox[n][1].type = "result"
                                  /\ task'[t].data = inbox[n][1].data
        BY <2>2 DEF Received
    <3>2. n \in Connections /\ 1 \in 1 .. Len(inbox[n])
        BY <3>1, ResultRead
    <3>3. Carried(inbox[n][1]) = inbox[n][1].data
        BY <3>1 DEF Carried
    <3> QED
      BY <1>6, <3>1, <3>2, <3>3
  <2> QED
    BY <2>1, <2>2, DataSteps
<1>10. ASSUME NEW n \in Connections, NEW i \in 1 .. Len(inbox'[n])
       PROVE  Past(Carried(inbox'[n][i]), home', clock')
  <2>1. CASE Moves
    <3>1. PICK d \in {0, 1} : Moved(n, d)
        BY <2>1 DEF Moves
    <3>2. i + d \in 1 .. Len(inbox[n]) /\ inbox'[n][i] \in {inbox[n][i + d], Unclaimed}
        BY <3>1 DEF Moved
    <3>3. Carried(Unclaimed) = Nothing
        BY DEF Unclaimed, Carried
    <3> QED
      BY <1>5, <1>6, <1>10, <3>2, <3>3
  <2>2. ASSUME conn \in Connections, NEW ms \in Seq(Message), Arrives(ms),
               \A k \in 1 .. Len(ms) : Past(Carried(ms[k]), home', clock')
        PROVE  Past(Carried(inbox'[n][i]), home', clock')
    <3>1. \/ i \in 1 .. Len(inbox[n]) /\ inbox'[n][i] = inbox[n][i]
          \/ \E k \in 1 .. Len(ms) : inbox'[n][i] = ms[k]
        BY <1>1, <2>2, ArrivedFrom
    <3> QED
      BY <1>6, <1>10, <2>2, <3>1
  <2>3. CASE HomeChanges
    <3>1. CASE inbox' = inbox
        BY <1>6, <1>10, <3>1
    <3>2. CASE conn \in Connections /\
               \E ms \in Seq(Message) :
                 /\ Arrives(ms)
                 /\ \A k \in 1 .. Len(ms) :
                      ms[k].type \in {"state", "registry"} /\ NewReport(ms[k])
      <4>1. PICK ms \in Seq(Message) :
              /\ Arrives(ms)
              /\ \A k \in 1 .. Len(ms) :
                   ms[k].type \in {"state", "registry"} /\ NewReport(ms[k])
          BY <3>2
      <4>2. ASSUME NEW k \in 1 .. Len(ms)
            PROVE  Past(Carried(ms[k]), home', clock')
          BY <1>1, <1>2, <1>5, <4>1, ReportPast DEF HomeTypes
      <4> QED
        BY <2>2, <3>2, <4>1, <4>2
    <3> QED
      BY <2>3, <3>1, <3>2, ChangeReports
  <2>4. CASE \E t \in Tasks : Answer(t)
    <3>1. PICK t \in Tasks : Answer(t)
        BY <2>4
    <3>2. PICK m : m = Reply(t)
        OBVIOUS
    <3>3. m \in Message /\ Arrives(<<m>>) /\ conn \in Connections
        BY <3>1, <3>2, AnswerBrings
    <3>4. Carried(m) \in {home, Nothing}
        BY <3>2 DEF Reply, Carried
    <3>5. <<m>> \in Seq(Message) /\ Len(<<m>>) = 1 /\ <<m>>[1] = m /\ \A k \in 1 .. 1 : k = 1
        BY <3>3
    <3> QED
      BY <1>4, <1>5, <2>2, <3>3, <3>4, <3>5
  <2> QED
    BY <2>1, <2>3, <2>4, InboxSteps
<1> QED
  BY <1>1, <1>7, <1>8, <1>9, <1>10 DEF Stamped

\* The receive loop that runs is that of the latest connection.
LEMMA LatestLoop ==
    ASSUME Typed, Linked, ~ overlap, NEW n \in 1 .. conn, NEW type, Reads(n, type)
    PROVE  n = conn /\ conn \in Connections
<1>1. LinkTypes /\ n \in Connections /\ conn \in Nat /\ conn \in Connections
    BY Parts, LoopNumber DEF Typed, LinkTypes
<1>2. n < conn => loop[n] # "reading"
    BY <1>1 DEF Linked
<1> QED
  BY <1>1, <1>2 DEF Reads

LEMMA YoungKept ==
    /\ \A m \in Message : Young(m, Nothing)
    /\ \A m \in Message : m.type # "state" => \A data : Young(m, data)
    /\ \A m \in Message, old \in States : \A new :
         Young(m, old) /\ (\A e \in Entities : new[e] \in {0, old[e]}) => Young(m, new)
    /\ \A data : Young(Unclaimed, data)
    /\ \A m \in Message, a \in States, b \in States : \A new :
         Young(m, a) /\ Young(m, b) /\ (\A e \in Entities : new[e] \in {a[e], b[e]})
           => Young(m, new)
<1>1. ASSUME NEW m \in Message, m.type = "state"
      PROVE  m.entity \in Entities /\ m.stamp \in Nat
    BY <1>1, MessageShape, NumbersKept
<1>2. \A m \in Message : Young(m, Nothing)
    BY <1>1 DEF Young, Nothing
<1>3. \A m \in Message : m.type # "state" => \A data : Young(m, data)
    BY DEF Young
<1>4. ASSUME NEW m \in Message, NEW old \in States, NEW new, Young(m, old),
             \A e \in Entities : new[e] \in {0, old[e]}
      PROVE  Young(m, new)
    BY <1>1, <1>4 DEF Young
<1>5. \A data : Young(Unclaimed, data)
    BY DEF Young, Unclaimed
<1>6. ASSUME NEW m \in Message, NEW a \in States, NEW b \in States, NEW new, Young(m, a),
             Young(m, b), \A e \in Entities : new[e] \in {a[e], b[e]}
      PROVE  Young(m, new)
    BY <1>1, <1>6 DEF Young
<1> QED
  BY <1>2, <1>3, <1>4, <1>5, <1>6

\* Messages that come are younger than what is known already.
LEMMA YoungComes ==
    ASSUME Typed, HomeChanges, conn \in Connections, NEW data \in States,
           Past(data, home', clock'), NEW i \in 1 .. Len(inbox'[conn])
    PROVE  \/ i \in 1 .. Len(inbox[conn]) /\ inbox'[conn][i] = inbox[conn][i]
           \/ /\ i = Len(inbox[conn]) + (i - Len(inbox[conn])) /\ i > Len(inbox[conn])
              /\ Young(inbox'[conn][i], data)
<1>1. InboxTypes /\ Len(inbox[conn]) \in Nat /\ InboxTypes' /\ clock \in Nat
      /\ clock' = clock + 1
    BY Parts, MessageTypes, ChangeReports, NumbersKept DEF Typed, HomeTypes
<1>2. CASE inbox' = inbox
    BY <1>2
<1>3. CASE \E ms \in Seq(Message) :
             /\ Arrives(ms)
             /\ \A k \in 1 .. Len(ms) :
                  ms[k].type \in {"state", "registry"} /\ NewReport(ms[k])
  <2>1. PICK ms \in Seq(Message) :
          /\ Arrives(ms)
          /\ \A k \in 1 .. Len(ms) :
               ms[k].type \in {"state", "registry"} /\ NewReport(ms[k])
      BY <1>3
  <2>2. \/ i \in 1 .. Len(inbox[conn]) /\ inbox'[conn][i] = inbox[conn][i]
        \/ \E k \in 1 .. Len(ms) : i = Len(inbox[conn]) + k /\ inbox'[conn][i] = ms[k]
      BY <1>1, <2>1, ArrivedFrom
  <2>3. ASSUME NEW k \in 1 .. Len(ms), i = Len(inbox[conn]) + k, inbox'[conn][i] = ms[k]
        PROVE  /\ i > Len(inbox[conn]) /\ i = Len(inbox[conn]) + (i - Len(inbox[conn]))
               /\ Young(ms[k], data)
    <3>1. i > Len(inbox[conn]) /\ i = Len(inbox[conn]) + (i - Len(inbox[conn]))
        BY <1>1, <2>3
    <3>3. ms[k] \in Message
        BY <2>1
    <3>4. ms[k].type = "state" => ms[k].entity \in Entities
                                   /\ (ms[k].stamp = 0 \/ ms[k].stamp = clock + 1)
        BY <1>1, <2>1, <3>3, MessageShape DEF NewReport
    <3>5. \A e \in Entities : data[e] \in Nat /\ data[e] <= clock + 1
        BY <1>1, StateNumbers DEF Past
    <3>6. Young(ms[k], data)
        BY <1>1, <3>4, <3>5 DEF Young
    <3> QED
      BY <3>1, <3>6
  <2> QED
    BY <2>2, <2>3
<1> QED
  BY <1>2, <1>3, ChangeReports

LEMMA AllYoungStep ==
    ASSUME Typed, Typed', [Next]_vars, conn \in Connections, conn' = conn,
           NEW data \in States, AllYoung(data), Past(data, home, clock)
    PROVE  AllYoung(data)'
<1> SUFFICES ASSUME NEW i \in 1 .. Len(inbox'[conn])
             PROVE  Young(inbox'[conn][i], data)
    BY DEF AllYoung
<1>1. InboxTypes
    BY Parts DEF Typed
<1>2. CASE Moves
  <2>1. PICK d \in {0, 1} : Moved(conn, d)
      BY <1>2 DEF Moves
  <2>2. i + d \in 1 .. Len(inbox[conn])
        /\ inbox'[conn][i] \in {inbox[conn][i + d], Unclaimed}
      BY <2>1 DEF Moved
  <2> QED
    BY <2>2, YoungKept DEF AllYoung
<1>3. CASE HomeChanges
  <2>1. Past(data, home', clock')
      BY ClockSteps
  <2> QED
    BY <1>3, <2>1, YoungComes DEF AllYoung
<1>4. CASE \E t \in Tasks : Answer(t)
  <2>1. PICK t \in Tasks : Answer(t)
      BY <1>4
  <2>2. PICK m : m = Reply(t)
      OBVIOUS
  <2>3. m \in Message /\ Arrives(<<m>>) /\ m.type = "result"
      BY <2>1, <2>2, AnswerBrings DEF Reply
  <2>4. PICK ms : ms = <<m>>
      OBVIOUS
  <2>5. ms \in Seq(Message) /\ Len(ms) = 1 /\ ms[1] = m /\ \A k \in 1 .. 1 : k = 1
      BY <2>3, <2>4
  <2>6. Arrives(ms)
      BY <2>3, <2>4
  <2>7. PICK n \in Connections : n = conn
      OBVIOUS
  <2>8. i \in 1 .. Len(inbox'[n])
      BY <2>7
  <2>9. \/ i \in 1 .. Len(inbox[n]) /\ inbox'[n][i] = inbox[n][i]
        \/ \E k \in 1 .. Len(ms) : inbox'[n][i] = ms[k]
    <3>1. \/ i \in 1 .. Len(inbox[n]) /\ inbox'[n][i] = inbox[n][i]
          \/ /\ n = conn
             /\ \E k \in 1 .. Len(ms) :
                  i = Len(inbox[conn]) + k /\ inbox'[n][i] = ms[k]
      <4>1. InboxTypes /\ conn \in Connections /\ ms \in Seq(Message) /\ Arrives(ms)
          BY <1>1, <2>5, <2>6
      <4> QED
        BY <2>8, <4>1, ArrivedFrom
    <3> QED
      BY <3>1
  <2> QED
    BY <2>3, <2>5, <2>7, <2>9, YoungKept DEF AllYoung
<1> QED
  BY <1>2, <1>3, <1>4, InboxSteps

LEMMA SortedStep ==
    ASSUME Typed, Stamped, Sorted, [Next]_vars, conn \in Connections, conn' = conn
    PROVE  Sorted'
<1> SUFFICES ASSUME NEW i \in 1 .. Len(inbox'[conn]), NEW j \in 1 .. i - 1
             PROVE  Young(inbox'[conn][i], Carried(inbox'[conn][j]))
    BY DEF Sorted
<1>1. /\ InboxTypes /\ InboxTypes' /\ Len(inbox[conn]) \in Nat /\ Len(inbox'[conn]) \in Nat
      /\ Connections' = Connections
  <2>1. InboxTypes /\ InboxTypes' /\ Connections' = Connections
      BY TypedStep, Parts, NumbersKept DEF Typed
  <2> QED
    BY <2>1, MessageTypes DEF InboxTypes
<1>2. i \in Nat /\ j \in Nat /\ j < i /\ j \in 1 .. Len(inbox'[conn])
    BY <1>1
<1>3. \A k \in 1 .. Len(inbox[conn]) : inbox[conn][k] \in Message
    BY <1>1, MessageTypes
<1>4. CASE Moves
  <2>1. PICK d \in {0, 1} : Moved(conn, d)
      BY <1>4 DEF Moves
  <2>2. /\ i + d \in 1 .. Len(inbox[conn]) /\ j + d \in 1 .. (i + d) - 1
        /\ inbox'[conn][i] \in {inbox[conn][i + d], Unclaimed}
        /\ inbox'[conn][j] \in {inbox[conn][j + d], Unclaimed}
      BY <1>2, <2>1 DEF Moved
  <2>3. Carried(Unclaimed) = Nothing
      BY DEF Unclaimed, Carried
  <2>4. CASE inbox'[conn][i] = Unclaimed
      BY <2>4, YoungKept
  <2>5. CASE inbox'[conn][j] = Unclaimed /\ inbox'[conn][i] = inbox[conn][i + d]
      BY <1>3, <2>2, <2>3, <2>5, YoungKept
  <2>6. CASE inbox'[conn][j] = inbox[conn][j + d] /\ inbox'[conn][i] = inbox[conn][i + d]
      BY <2>2, <2>6 DEF Sorted
  <2> QED
    BY <2>2, <2>4, <2>5, <2>6
<1>5. CASE HomeChanges
  <2>1. PICK data : data = Carried(inbox'[conn][j])
      OBVIOUS
  <2>2. inbox'[conn][j] \in Message
      BY <1>1, <1>2 DEF InboxTypes
  <2>3. data \in States
      BY <2>1, <2>2, CarriedStates
  <2>4. Past(data, home', clock')
    <3>1. Stamped'
        BY StampedStep
    <3> QED
      BY <1>1, <1>2, <2>1, <3>1 DEF Stamped
  <2>5. \/ i \in 1 .. Len(inbox[conn]) /\ inbox'[conn][i] = inbox[conn][i]
        \/ Young(inbox'[conn][i], data)
      BY <1>5, <2>3, <2>4, YoungComes
  <2>6. CASE i \in 1 .. Len(inbox[conn]) /\ inbox'[conn][i] = inbox[conn][i]
    <3>1. j \in 1 .. Len(inbox[conn])
        BY <1>1, <1>2, <2>6
    <3>2. ~ (j > Len(inbox[conn]))
        BY <1>1, <1>2, <3>1
    <3>3. j \in 1 .. Len(inbox'[conn])
        BY <1>2
    <3>4. inbox'[conn][j] = inbox[conn][j]
        BY <1>5, <2>3, <2>4, <3>2, <3>3, YoungComes
    <3> QED
      BY <2>6, <3>1, <3>4 DEF Sorted
  <2> QED
    BY <2>1, <2>5, <2>6
<1>6. CASE \E t \in Tasks : Answer(t)
  <2>1. PICK t \in Tasks : Answer(t)
      BY <1>6
  <2>2. PICK m, ms : m = Reply(t) /\ ms = <<m>>
      OBVIOUS
  <2>3. m \in Message /\ Arrives(ms) /\ m.type = "result"
      BY <2>1, <2>2, AnswerBrings DEF Reply
  <2>4. ms \in Seq(Message) /\ Len(ms) = 1 /\ ms[1] = m /\ \A k \in 1 .. 1 : k = 1
      BY <2>2, <2>3
  <2>5. \/ i \in 1 .. Len(inbox[conn]) /\ inbox'[conn][i] = inbox[conn][i]
        \/ \E k \in 1 .. Len(ms) : inbox'[conn][i] = ms[k]
      BY <1>1, <2>3, <2>4, ArrivedFrom
  <2>6. CASE i \in 1 .. Len(inbox[conn]) /\ inbox'[conn][i] = inbox[conn][i]
    <3>1. j \in 1 .. Len(inbox[conn])
        BY <1>1, <1>2, <2>6
    <3>2. inbox'[conn][j] = inbox[conn][j]
        BY <2>3, <3>1 DEF Arrives
    <3> QED
      BY <2>6, <3>1, <3>2 DEF Sorted
  <2>7. CASE \E k \in 1 .. Len(ms) : inbox'[conn][i] = ms[k]
    <3>1. inbox'[conn][i] = m
        BY <2>4, <2>7
    <3> QED
      BY <2>3, <3>1, YoungKept
  <2> QED
    BY <2>5, <2>6, <2>7
<1> QED
  BY <1>4, <1>5, <1>6, InboxSteps

LEMMA NotOlderStep ==
    ASSUME Connected, Stamped, NotOlder, [Next]_vars
    PROVE  NotOlder'
<1> SUFFICES ASSUME ~ overlap', conn' # 0
             PROVE  /\ \A i \in 1 .. Len(inbox'[conn']) : Young(inbox'[conn'][i], told')
                    /\ \A t \in Tasks : \A i \in 1 .. Len(inbox'[conn']) :
                         Young(inbox'[conn'][i], task'[t].data)
                    /\ Sorted'
    BY DEF NotOlder, AllYoung, Tasks
<1>1. /\ Typed /\ Linked /\ Typed' /\ InboxTypes /\ InboxTypes' /\ LinkTypes
      /\ StoreTypes /\ TaskTypes /\ Connections' = Connections
    BY TypedStep, Parts, NumbersKept DEF Connected, Typed
<1>2. CASE Len(inbox'[conn']) = 0
  <2>1. \A i \in 1 .. 0 : FALSE
      OBVIOUS
  <2> QED
    BY <1>2, <2>1 DEF Sorted
<1>3. Connect => Len(inbox'[conn']) = 0
  <2> SUFFICES ASSUME Connect PROVE Len(inbox'[conn']) = 0
      OBVIOUS
  <2>1. conn' > conn /\ conn' \in Connections /\ inbox' = inbox
      BY <1>1, NumbersKept DEF Connect, LinkTypes, Connections
  <2> QED
    BY <1>1, <2>1 DEF Linked
<1>4. Restart => Len(inbox'[conn']) = 0
  <2> SUFFICES ASSUME Restart PROVE Len(inbox'[conn']) = 0
      OBVIOUS
  <2>1. conn' \in 1 .. MaxConnections
      BY <1>1, NumbersKept DEF Restart, LinkTypes
  <2>2. inbox'[conn'] = <<>>
      BY <2>1 DEF Restart
  <2>3. Len(<<>>) = 0
      OBVIOUS
  <2> QED
    BY <2>2, <2>3
<1>5. CASE ~ Connect /\ ~ Restart
  <2>1. conn' = conn /\ ~ overlap /\ conn \in Connections
    <3>1. conn' = conn
        BY <1>1, <1>5, ConnSteps DEF connection
    <3> QED
      BY <1>1, <1>5, <3>1, OverlapSteps, NumbersKept DEF LinkTypes, Connections
  <2>2. AllYoung(told) /\ (\A t \in Tasks : AllYoung(task[t].data)) /\ Sorted
    <3>1. conn # 0
        BY <2>1
    <3> QED
      BY <2>1, <3>1 DEF NotOlder
  <2>3. Sorted'
      BY <1>1, <2>1, <2>2, SortedStep
  <2>4. ASSUME NEW data \in States, AllYoung(data), Past(data, home, clock)
        PROVE  \A i \in 1 .. Len(inbox'[conn]) : Young(inbox'[conn][i], data)
    <3>1. AllYoung(data)'
        BY <1>1, <2>1, <2>4, AllYoungStep
    <3> QED
      BY <2>1, <3>1 DEF AllYoung
  <2>5. /\ \A i \in 1 .. Len(inbox'[conn]) : Young(inbox'[conn][i], told)
        /\ \A t \in Tasks : \A i \in 1 .. Len(inbox'[conn]) :
             Young(inbox'[conn][i], task[t].data)
    <3>1. told \in States /\ \A t \in Tasks : task[t].data \in States
        BY <1>1, TaskShape DEF StoreTypes, TaskTypes
    <3> QED
      BY <2>2, <2>4, <3>1 DEF Stamped
  <2>6. \A i \in 1 .. Len(inbox'[conn]) : inbox'[conn][i] \in Message
      BY <1>1, <2>1 DEF InboxTypes
  <2>9. ASSUME NEW n \in 1 .. conn, NEW type, Reads(n, type)
        PROVE  /\ n = conn
               /\ \A i \in 1 .. Len(inbox'[conn]) :
                    Young(inbox'[conn][i], Carried(inbox[n][1]))
    <3>1. n = conn
        BY <1>1, <2>1, <2>9, LatestLoop
    <3>2. /\ Len(inbox'[conn]) = Len(inbox[conn]) - 1 /\ Len(inbox[conn]) \in Nat
          /\ \A i \in 1 .. Len(inbox[conn]) - 1 : inbox'[conn][i] = inbox[conn][i + 1]
        BY <1>1, <2>1, <2>9, <3>1, ReadsMoves, MessageTypes
    <3>3. ASSUME NEW i \in 1 .. Len(inbox'[conn])
          PROVE  Young(inbox'[conn][i], Carried(inbox[n][1]))
      <4>1. i + 1 \in 1 .. Len(inbox[conn]) /\ 1 \in 1 .. (i + 1) - 1
            /\ inbox'[conn][i] = inbox[conn][i + 1]
          BY <3>2
      <4> QED
        BY <2>2, <3>1, <4>1 DEF Sorted
    <3> QED
      BY <3>1, <3>3
  <2>7. \A i \in 1 .. Len(inbox'[conn]) : Young(inbox'[conn][i], told')
    <3>0. told \in States
        BY <1>1 DEF StoreTypes
    <3>1. CASE told' = told
        BY <2>5, <3>1
    <3>2. ASSUME NEW data \in States,
                 \A e \in Entities : told'[e] \in {told[e], data[e]},
                 \A i \in 1 .. Len(inbox'[conn]) : Young(inbox'[conn][i], data)
          PROVE  \A i \in 1 .. Len(inbox'[conn]) : Young(inbox'[conn][i], told')
        BY <2>5, <2>6, <3>0, <3>2, YoungKept
    <3>3. CASE \E t \in Tasks :
                 \A e \in Entities : told'[e] \in {told[e], task[t].data[e]}
      <4>1. PICK t \in Tasks :
              \A e \in Entities : told'[e] \in {told[e], task[t].data[e]}
          BY <3>3
      <4>2. task[t].data \in States
          BY <1>1, TaskShape DEF TaskTypes
      <4> QED
        BY <2>5, <3>2, <4>1, <4>2
    <3>4. ASSUME NEW n \in 1 .. conn, ReadState(n),
                 \A e \in Entities : told'[e] \in {told[e], Carried(inbox[n][1])[e]}
          PROVE  \A i \in 1 .. Len(inbox'[conn]) : Young(inbox'[conn][i], told')
      <4>1. Reads(n, "state") /\ n \in Connections
          BY <1>1, <3>4, LoopNumber DEF ReadState
      <4>2. Carried(inbox[n][1]) \in States
          BY <1>1, <4>1, ReadsMoves, CarriedStates
      <4> QED
        BY <2>9, <3>2, <3>4, <4>1, <4>2
    <3> QED
      BY <1>1, <1>5, <3>1, <3>3, <3>4, ToldSteps DEF brought
  <2>8. ASSUME NEW t \in Tasks
        PROVE  \A i \in 1 .. Len(inbox'[conn]) : Young(inbox'[conn][i], task'[t].data)
    <3>1. CASE Fewer(t)
      <4>1. task[t].data \in States
          BY <1>1, TaskShape DEF TaskTypes
      <4> QED
        BY <2>5, <2>6, <3>1, <4>1, YoungKept DEF Fewer
    <3>2. CASE Received(t)
      <4>1. PICK n \in 1 .. conn : ReadResult(n) /\ inbox[n][1].type = "result"
                                    /\ task'[t].data = inbox[n][1].data
          BY <3>2 DEF Received
      <4>2. Carried(inbox[n][1]) = inbox[n][1].data
          BY <4>1 DEF Carried
      <4> QED
        BY <2>9, <4>1, <4>2 DEF ReadResult
    <3> QED
      BY <1>1, <3>1, <3>2, DataSteps
  <2> QED
    BY <2>1, <2>3, <2>7, <2>8
<1> QED
  BY <1>2, <1>3, <1>4, <1>5

\* While one task imports, the other neither imports nor waits for states.
LEMMA OneImports ==
    ASSUME Exclusive, Taken, ~ overlap, NEW t \in Tasks, Importing(t), NEW u \in Tasks \ {t}
    PROVE  task[u].pc \notin {"reading", "importing"}
<1>1. task[t].pc \in {"reading", "importing"}
    BY DEF Importing, Ready
<1>2. CASE t = "main"
    BY <1>1, <1>2 DEF Exclusive, MainFirst, Tasks
<1>3. CASE t = "refresh"
    BY <1>1, <1>3 DEF Exclusive, MainFirst, Tasks
<1> QED
  BY <1>2, <1>3 DEF Tasks

\* What an event or an import leaves of what has come.
LEMMA BroughtEvent ==
    ASSUME Typed, NEW n \in 1 .. conn, ReadState(n), NEW e \in Entities
    PROVE  /\ \/ told'[e] = told[e] /\ mirror'[e] = mirror[e] /\ (e \in outrun' <=> e \in outrun)
              \/ /\ inbox[n][1].type = "state" /\ inbox[n][1].entity = e
                 /\ inbox[n][1].stamp # 0 /\ mirror'[e] = inbox[n][1].stamp
                 /\ told'[e] = IF inbox[n][1].stamp > told[e] THEN inbox[n][1].stamp ELSE told[e]
                 /\ e \in outrun' <=> Outrun(e, inbox[n][1].stamp)
           /\ inbox[n][1].type = "state" /\ UNCHANGED task
<1>1. InboxTypes /\ StoreTypes /\ n \in Connections
    BY Parts, LoopNumber DEF Typed
<1> DEFINE m == inbox[n][1]
<1>2. Head(inbox[n]) = m /\ m.type = "state" /\ m \in Message
    BY <1>1, ReadsMoves DEF ReadState
<1>3. m.entity \in Entities /\ m.stamp \in Nat /\ told[e] \in Nat
    BY <1>1, <1>2, MessageShape, NumbersKept, StateNumbers DEF StoreTypes
<1>4. /\ Write([Nothing EXCEPT ![m.entity] = m.stamp], batch)
      /\ Brings([Nothing EXCEPT ![m.entity] = m.stamp])
      /\ outrun' = IF m.stamp = 0 THEN outrun
                   ELSE IF Outrun(m.entity, m.stamp) THEN outrun \cup {m.entity}
                   ELSE outrun \ {m.entity}
      /\ UNCHANGED task
    BY <1>2 DEF ReadState
<1>5. \A f \in Entities :
        [Nothing EXCEPT ![m.entity] = m.stamp][f] = IF f = m.entity THEN m.stamp ELSE 0
    BY <1>3 DEF Nothing
<1> HIDE DEF m
<1>6. /\ mirror'[e] = IF e = m.entity /\ m.stamp # 0 THEN m.stamp ELSE mirror[e]
      /\ told'[e] = IF e = m.entity /\ m.stamp > told[e] THEN m.stamp ELSE told[e]
    BY <1>3, <1>4, <1>5 DEF Write, Brings
<1>7. CASE e # m.entity \/ m.stamp = 0
  <2>1. told'[e] = told[e] /\ mirror'[e] = mirror[e]
      BY <1>3, <1>6, <1>7
  <2>2. e \in outrun' <=> e \in outrun
      BY <1>4, <1>7
  <2> QED
    BY <1>2, <1>4, <2>1, <2>2 DEF m
<1>8. CASE e = m.entity /\ m.stamp # 0
  <2>1. e \in outrun' <=> Outrun(e, m.stamp)
      BY <1>4, <1>8
  <2> QED
    BY <1>2, <1>3, <1>4, <1>6, <1>8, <2>1 DEF m
<1> QED
  BY <1>7, <1>8

LEMMA BroughtImport ==
    ASSUME Typed, NEW t \in Tasks, Import(t)
    PROVE  /\ Importing(t) /\ Importing(t)'
           /\ \A u \in Tasks \ {t} : task'[u] = task[u]
           /\ \A e \in Entities :
                \/ /\ UNCHANGED <<told[e], mirror[e], task[t].data[e]>>
                   /\ e \in outrun' <=> e \in outrun
                \/ /\ task[t].data[e] # 0 /\ mirror'[e] = task[t].data[e]
                   /\ told'[e] = IF task[t].data[e] > told[e] THEN task[t].data[e] ELSE told[e]
                   /\ task'[t].data[e] = 0
                   /\ e \in outrun' <=> e \in outrun /\ task[t].data[e] < told[e]
<1>1. StoreTypes /\ TaskTypes
    BY Parts DEF Typed
<1>2. PICK S \in SUBSET In(task[t].data) : ImportsSome(t, S)
    BY DEF Import, ImportsSome
<1>3. PICK data : data = task[t].data
    OBVIOUS
<1>4. /\ data \in States /\ S \subseteq In(data) /\ outrun \subseteq Entities
      /\ told \in States
    BY <1>1, <1>2, <1>3, TaskShape DEF TaskTypes, StoreTypes
<1>5. /\ Brings([f \in Entities |-> IF f \in S THEN data[f] ELSE 0])
      /\ Write([f \in Entities |-> IF f \in S THEN data[f] ELSE 0], Holder(t))
      /\ outrun' = {f \in outrun : f \in S => data[f] < told[f]}
      /\ task' = [task EXCEPT ![t] =
           [pc |-> "importing", phase |-> "none",
            data |-> [f \in Entities |-> IF f \in S THEN 0 ELSE data[f]]]]
    BY <1>1, <1>2, <1>3 DEF ImportsSome, Imports, TaskTypes
<1>6. /\ task'[t] = [pc |-> "importing", phase |-> "none",
                     data |-> [f \in Entities |-> IF f \in S THEN 0 ELSE data[f]]]
      /\ \A u \in Tasks \ {t} : task'[u] = task[u]
    BY <1>1, <1>5 DEF TaskTypes
<1>7. Importing(t) /\ Importing(t)'
    BY <1>6 DEF Import, Importing
<1>8. ASSUME NEW e \in Entities
      PROVE  \/ /\ UNCHANGED <<told[e], mirror[e], task[t].data[e]>>
                /\ e \in outrun' <=> e \in outrun
             \/ /\ data[e] # 0 /\ mirror'[e] = data[e]
                /\ told'[e] = IF data[e] > told[e] THEN data[e] ELSE told[e]
                /\ task'[t].data[e] = 0
                /\ e \in outrun' <=> e \in outrun /\ data[e] < told[e]
  <2>1. data[e] \in Nat /\ told[e] \in Nat
      BY <1>4, StateNumbers
  <2>2. /\ mirror'[e] = IF e \in S THEN data[e] ELSE mirror[e]
        /\ told'[e] = IF e \in S /\ data[e] > told[e] THEN data[e] ELSE told[e]
      BY <1>4, <1>5, <2>1 DEF Write, Brings, In
  <2>3. task'[t].data[e] = IF e \in S THEN 0 ELSE task[t].data[e]
      BY <1>3, <1>6
  <2>4. e \in outrun' <=> e \in outrun /\ (e \in S => data[e] < told[e])
      BY <1>5
  <2>5. e \in S => data[e] # 0
      BY <1>4 DEF In
  <2> QED
    BY <2>2, <2>3, <2>4, <2>5
<1> QED
  BY <1>3, <1>6, <1>7, <1>8

\* A task that waits for its answer after a step waited before, or asked.
LEMMA AnsweredSteps ==
    ASSUME Typed, [Next]_vars, NEW t \in Tasks, task'[t].phase = "answered"
    PROVE  task'[t].pc = task[t].pc
<1>1. \A pc : /\ Asking(pc).phase # "answered" /\ Idle(pc).phase # "answered"
              /\ Asks(t, pc).phase # "answered"
    BY DEF Asking, Idle, Asks
<1>2. Import(t) => task'[t].phase # "answered"
  <2>1. Typed' /\ TaskTypes'
      BY TypedStep, Parts DEF Typed
  <2>2. task'[t] \in Task
      BY <2>1 DEF TaskTypes
  <2> QED
    BY <2>2, OwnSteps, TaskShape DEF Requesting
<1>3. CASE t = "main"
    BY <1>1, <1>2, <1>3, MainSteps DEF Progress
<1>4. CASE t = "refresh"
    BY <1>1, <1>2, <1>4, RefreshSteps DEF Progress
<1> QED
  BY <1>3, <1>4 DEF Tasks

\* A task that imports after a step did so before, or has read its answer.
LEMMA ImportersSteps ==
    ASSUME Typed, [Next]_vars, NEW t \in Tasks, Importing(t)'
    PROVE  \/ task'[t] = task[t]
           \/ task[t].pc = "reading" /\ (Received(t) \/ \A e \in Entities : task'[t].data[e] = 0)
           \/ Import(t)
<1>1. \A pc \in {"listing", "sub_state", "sub_registry", "down", "watching", "none",
                 "starting", "reading"} :
        /\ Asking(pc).phase = "asked" /\ Idle(pc).phase = "none"
        /\ Asking(pc).pc = pc /\ Idle(pc).pc = pc /\ Asks(t, pc) \in {Asking(pc), Idle("none")}
    BY DEF Asking, Idle, Asks
<1>2. Progress(t) =>
        task[t].pc = "reading" /\ (Received(t) \/ \A e \in Entities : task'[t].data[e] = 0)
  <2> SUFFICES ASSUME Progress(t)
               PROVE  /\ task[t].pc = "reading"
                      /\ Fewer(t) => \A e \in Entities : task'[t].data[e] = 0
      BY DEF Progress
  <2>1. task[t] \in Task /\ task'[t] \in Task
      BY TypedStep, Parts DEF Typed, TaskTypes
  <2>2. task[t].data = Nothing /\ task[t].pc \in Requesting
      BY <2>1, TaskShape DEF Progress
  <2>3. task[t].pc = "reading"
      BY <2>2 DEF Progress, Importing, Ready, Requesting
  <2> QED
    BY <2>2, <2>3 DEF Fewer, Nothing
<1>3. CASE t = "main"
    BY <1>1, <1>2, <1>3, MainSteps DEF Importing, Ready
<1>4. CASE t = "refresh"
    BY <1>1, <1>2, <1>4, RefreshSteps DEF Importing, Ready
<1> QED
  BY <1>3, <1>4 DEF Tasks

\* An answer that is under way was, or is given now.
LEMMA SnapshotSteps ==
    ASSUME Typed, Stamped, [Next]_vars, conn \in Connections, conn' = conn,
           NEW t \in Tasks, NEW i \in Nat, Snapshot(i, t)'
    PROVE  \/ \E d \in {0, 1} :
                /\ Snapshot(i + d, t) /\ inbox'[conn][i] = inbox[conn][i + d]
                /\ (\E n \in 1 .. conn : ReadState(n)) /\ Linked /\ ~ overlap => d = 1
                /\ \A j \in 1 .. i - 1 :
                     /\ inbox'[conn][j] \in {inbox[conn][j + d], Unclaimed}
                     /\ j + d \in 1 .. (i + d) - 1
           \/ /\ Answer(t) /\ inbox'[conn][i].data = home
              /\ \A j \in 1 .. i - 1 :
                   j \in 1 .. Len(inbox[conn]) /\ inbox'[conn][j] = inbox[conn][j]
<1>1. /\ InboxTypes /\ InboxTypes' /\ Typed'
      /\ Len(inbox[conn]) \in Nat /\ Len(inbox'[conn]) \in Nat /\ Connections' = Connections
  <2>1. InboxTypes /\ InboxTypes' /\ Connections' = Connections /\ Typed'
      BY TypedStep, Parts, NumbersKept DEF Typed
  <2> QED
    BY <2>1, MessageTypes DEF InboxTypes
<1>2. /\ i \in 1 .. Len(inbox'[conn]) /\ inbox'[conn][i].type = "result"
      /\ inbox'[conn][i].task = t /\ task'[t].pc = "reading"
    BY DEF Snapshot, IsAnswer
<1>3. task[t].pc = "reading"
  <2>1. Answered(t)'
      BY <1>1, <1>2 DEF Answered, IsAnswer
  <2>2. task'[t].phase = "answered"
      BY <1>1, <2>1 DEF Typed, Awaited
  <2> QED
    BY <1>2, <2>2, AnsweredSteps
<1>4. \A j \in 1 .. i - 1 : j \in 1 .. Len(inbox'[conn]) /\ j < i
    BY <1>1, <1>2
<1>5. ASSUME NEW d \in {0, 1}, Moved(conn, d),
             (\E n \in 1 .. conn : ReadState(n)) /\ Linked /\ ~ overlap => d = 1
      PROVE  \E c \in {0, 1} :
                /\ Snapshot(i + c, t) /\ inbox'[conn][i] = inbox[conn][i + c]
                /\ (\E n \in 1 .. conn : ReadState(n)) /\ Linked /\ ~ overlap => c = 1
                /\ \A j \in 1 .. i - 1 :
                     /\ inbox'[conn][j] \in {inbox[conn][j + c], Unclaimed}
                     /\ j + c \in 1 .. (i + c) - 1
  <2>1. i + d \in 1 .. Len(inbox[conn]) /\ inbox'[conn][i] \in {inbox[conn][i + d], Unclaimed}
      BY <1>2, <1>5 DEF Moved
  <2>2. inbox'[conn][i] = inbox[conn][i + d]
      BY <1>2, <2>1 DEF Unclaimed, Tasks
  <2>3. Snapshot(i + d, t)
      BY <1>2, <1>3, <2>1, <2>2 DEF Snapshot, IsAnswer
  <2>4. \A j \in 1 .. i - 1 :
          /\ inbox'[conn][j] \in {inbox[conn][j + d], Unclaimed}
          /\ j + d \in 1 .. (i + d) - 1
      BY <1>4, <1>5 DEF Moved
  <2> QED
    BY <1>5, <2>2, <2>3, <2>4
<1>6. CASE \E n \in 1 .. conn : ReadState(n) /\ Linked /\ ~ overlap
  <2>1. PICK n \in 1 .. conn : ReadState(n) /\ Reads(n, "state")
      BY <1>6 DEF ReadState
  <2>2. n = conn
      BY <1>6, <2>1, LatestLoop
  <2>3. Moved(conn, 1)
      BY <1>1, <2>1, <2>2, ReadsMoves
  <2> QED
    BY <1>5, <2>3
<1>7. CASE Moves /\ ~ \E n \in 1 .. conn : ReadState(n) /\ Linked /\ ~ overlap
  <2>1. PICK d \in {0, 1} : Moved(conn, d)
      BY <1>7 DEF Moves
  <2> QED
    BY <1>5, <1>7, <2>1
<1> DEFINE Stays(k) == k \in 1 .. Len(inbox[conn]) /\ inbox'[conn][k] = inbox[conn][k]
<1>8. ASSUME ~ \E n \in 1 .. conn : ReadState(n), Stays(i), \A j \in 1 .. i - 1 : Stays(j)
      PROVE  /\ Snapshot(i + 0, t) /\ inbox'[conn][i] = inbox[conn][i + 0]
             /\ \A j \in 1 .. i - 1 :
                  /\ inbox'[conn][j] \in {inbox[conn][j + 0], Unclaimed}
                  /\ j + 0 \in 1 .. (i + 0) - 1
  <2>1. i + 0 = i /\ \A j \in 1 .. i - 1 : j + 0 = j
      OBVIOUS
  <2>2. Snapshot(i, t)
      BY <1>2, <1>3, <1>8 DEF Snapshot, IsAnswer
  <2> QED
    BY <1>8, <2>1, <2>2
<1>9. CASE HomeChanges
  <2>1. ~ \E n \in 1 .. conn : ReadState(n)
    <3>1. clock \in Nat /\ clock' = clock + 1
        BY <1>9, ChangeReports, ClockSteps
    <3>2. clock' # clock
        BY <3>1
    <3> QED
      BY <3>2 DEF ReadState, ha
  <2>2. ASSUME NEW ms \in Seq(Message), Arrives(ms),
               \A k \in 1 .. Len(ms) : ms[k].type # "result"
        PROVE  Stays(i) /\ \A j \in 1 .. i - 1 : Stays(j)
    <3>1. \/ Stays(i)
          \/ \E k \in 1 .. Len(ms) : inbox'[conn][i] = ms[k]
        BY <1>1, <1>2, <2>2, ArrivedFrom
    <3>2. Stays(i)
        BY <1>2, <2>2, <3>1
    <3>3. \A j \in 1 .. i - 1 : j \in 1 .. Len(inbox[conn])
        BY <1>1, <3>2
    <3> QED
      BY <2>2, <3>2, <3>3 DEF Arrives
  <2>3. CASE inbox' = inbox
      BY <1>2, <1>4, <1>8, <2>1, <2>3
  <2>4. CASE \E ms \in Seq(Message) :
               Arrives(ms) /\ \A k \in 1 .. Len(ms) : ms[k].type \in {"state", "registry"}
    <3>1. PICK ms \in Seq(Message) :
               Arrives(ms) /\ \A k \in 1 .. Len(ms) : ms[k].type # "result"
        BY <2>4
    <3>2. Stays(i) /\ \A j \in 1 .. i - 1 : Stays(j)
        BY <2>2, <3>1
    <3> QED
      BY <1>8, <2>1, <3>2
  <2> QED
    BY <1>9, <2>3, <2>4, ChangeReports
<1>10. CASE \E u \in Tasks : Answer(u)
  <2>1. PICK u \in Tasks : Answer(u)
      BY <1>10
  <2>2. PICK m, ms : m = Reply(u) /\ ms = <<m>>
      OBVIOUS
  <2>3. m \in Message /\ Arrives(ms) /\ task[u].phase = "asked"
      BY <2>1, <2>2, AnswerBrings
  <2>4. ms \in Seq(Message) /\ Len(ms) = 1 /\ ms[1] = m /\ \A k \in 1 .. 1 : k = 1
      BY <2>2, <2>3
  <2>5. \A j \in 1 .. Len(inbox[conn]) : inbox'[conn][j] = inbox[conn][j]
      BY <2>3 DEF Arrives
  <2>6. \/ Stays(i)
        \/ \E k \in 1 .. Len(ms) : i = Len(inbox[conn]) + k /\ inbox'[conn][i] = ms[k]
      BY <1>1, <1>2, <2>3, <2>4, ArrivedFrom
  <2>7. CASE Stays(i)
    <3>1. \A j \in 1 .. i - 1 : Stays(j)
        BY <1>1, <2>5, <2>7
    <3>2. task'[u] # task[u]
      <4>1. task'[u] = [pc |-> task[u].pc, phase |-> "answered", data |-> Nothing]
          BY <2>1, AnswerBrings
      <4>2. task'[u].phase = "answered"
          BY <4>1
      <4> QED
        BY <2>3, <4>2
    <3>3. ~ \E n \in 1 .. conn : ReadState(n)
        BY <3>2 DEF ReadState
    <3> QED
      BY <1>8, <2>7, <3>1, <3>3
  <2>8. CASE i = Len(inbox[conn]) + 1 /\ inbox'[conn][i] = m
    <3>1. u = t /\ m.data = home
        BY <1>2, <1>3, <2>2, <2>8 DEF Reply
    <3>2. \A j \in 1 .. i - 1 : Stays(j)
        BY <1>1, <2>5, <2>8
    <3> QED
      BY <2>1, <2>8, <3>1, <3>2
  <2> QED
    BY <2>4, <2>6, <2>7, <2>8
<1> QED
  BY <1>6, <1>7, <1>9, <1>10, InboxSteps

LEMMA FreshStep ==
    ASSUME Connected, Connected', Exclusive, Stamped, Stamped', NotOlder, Fresh, [Next]_vars
    PROVE  Fresh'
<1> SUFFICES ASSUME ~ overlap', conn' # 0, NEW t \in Tasks
             PROVE  /\ \A i \in Nat : Snapshot(i, t)' =>
                         /\ Older(told', inbox'[conn'][i].data)
                         /\ \A j \in 1 .. i - 1 :
                              Older(Carried(inbox'[conn'][j]), inbox'[conn'][i].data)
                    /\ Importing(t)' =>
                         \A e \in Entities \ outrun' :
                           task'[t].data[e] = 0 \/ told'[e] <= task'[t].data[e]
    BY DEF Fresh, Tasks
<1>1. /\ Typed /\ Linked /\ Taken /\ Typed' /\ InboxTypes /\ InboxTypes' /\ LinkTypes
      /\ StoreTypes /\ TaskTypes /\ Connections' = Connections
    BY TypedStep, Parts, NumbersKept DEF Connected, Typed
<1>2. ASSUME Len(inbox'[conn']) = 0, ~ Importing(t)'
      PROVE  /\ \A i \in Nat : ~ Snapshot(i, t)'
             /\ ~ Importing(t)'
  <2>1. \A i \in 1 .. 0 : FALSE
      OBVIOUS
  <2> QED
    BY <1>2, <2>1 DEF Snapshot
<1>3. CASE Connect
  <2>1. conn' > conn /\ conn' \in Connections /\ inbox' = inbox
      BY <1>1, <1>3, NumbersKept DEF Connect, LinkTypes, Connections
  <2>2. Len(inbox'[conn']) = 0
      BY <1>1, <2>1 DEF Linked
  <2>3. task["refresh"].pc = "none" /\ task' = [task EXCEPT !["main"] = Asking("listing")]
      BY <1>3 DEF Connect
  <2>4. ~ Importing(t)'
      BY <1>1, <2>3 DEF Importing, Ready, Tasks, TaskTypes, Asking
  <2> QED
    BY <1>2, <2>2, <2>4
<1>4. CASE Restart
  <2>1. conn' \in 1 .. MaxConnections
      BY <1>1, <1>4, NumbersKept DEF Restart, LinkTypes
  <2>2. inbox'[conn'] = <<>>
      BY <1>4, <2>1 DEF Restart
  <2>3. Len(<<>>) = 0
      OBVIOUS
  <2>4. ~ Importing(t)'
      BY <1>4 DEF Restart, Importing, Ready, Idle, Tasks
  <2> QED
    BY <1>2, <2>2, <2>3, <2>4
<1>5. CASE ~ Connect /\ ~ Restart
  <2>1. conn' = conn /\ ~ overlap /\ conn \in Connections /\ conn # 0
    <3>1. conn' = conn
        BY <1>1, <1>5, ConnSteps DEF connection
    <3> QED
      BY <1>1, <1>5, <3>1, OverlapSteps, NumbersKept DEF LinkTypes, Connections
  <2>2. /\ \A i \in Nat : Snapshot(i, t) =>
             /\ Older(told, inbox[conn][i].data)
             /\ \A j \in 1 .. i - 1 : Older(Carried(inbox[conn][j]), inbox[conn][i].data)
        /\ Importing(t) =>
             \A e \in Entities \ outrun : task[t].data[e] = 0 \/ told[e] <= task[t].data[e]
      BY <2>1 DEF Fresh
  <2>3. told \in States
      BY <1>1 DEF StoreTypes
  <2>4. ASSUME NEW i \in Nat, Snapshot(i, t)'
        PROVE  /\ Older(told', inbox'[conn][i].data)
               /\ \A j \in 1 .. i - 1 :
                    Older(Carried(inbox'[conn][j]), inbox'[conn][i].data)
    <3>1. CASE \E d \in {0, 1} :
                 /\ Snapshot(i + d, t) /\ inbox'[conn][i] = inbox[conn][i + d]
                 /\ (\E n \in 1 .. conn : ReadState(n)) => d = 1
                 /\ \A j \in 1 .. i - 1 :
                      /\ inbox'[conn][j] \in {inbox[conn][j + d], Unclaimed}
                      /\ j + d \in 1 .. (i + d) - 1
      <4>1. PICK d \in {0, 1} :
                 /\ Snapshot(i + d, t) /\ inbox'[conn][i] = inbox[conn][i + d]
                 /\ (\E n \in 1 .. conn : ReadState(n)) => d = 1
                 /\ \A j \in 1 .. i - 1 :
                      /\ inbox'[conn][j] \in {inbox[conn][j + d], Unclaimed}
                      /\ j + d \in 1 .. (i + d) - 1
          BY <3>1
      <4> DEFINE data == inbox[conn][i + d].data
      <4>2. /\ Older(told, data)
            /\ \A j \in 1 .. (i + d) - 1 : Older(Carried(inbox[conn][j]), data)
        <5>1. i + d \in Nat
            OBVIOUS
        <5> QED
          BY <2>2, <4>1, <5>1
      <4>3. data \in States
        <5>1. i + d \in 1 .. Len(inbox[conn]) /\ inbox[conn][i + d].type = "result"
            BY <4>1 DEF Snapshot, IsAnswer
        <5>2. inbox[conn][i + d] \in Message
            BY <1>1, <2>1, <5>1, MessageTypes
        <5> QED
          BY <5>1, <5>2, MessageShape
      <4>4. Older(Nothing, data)
        <5>1. \A e \in Entities : data[e] \in Nat
            BY <4>3, StateNumbers
        <5> HIDE DEF data
        <5> QED
          BY <5>1 DEF Older, Nothing
      <4> HIDE DEF data
      <4>5. \A j \in 1 .. i - 1 : Older(Carried(inbox'[conn][j]), data)
        <5>1. Carried(Unclaimed) = Nothing
            BY DEF Unclaimed, Carried
        <5> QED
          BY <4>1, <4>2, <4>4, <5>1
      <4>6. Older(told', data)
        <5>1. CASE UNCHANGED brought
            BY <4>2, <5>1 DEF brought
        <5>2. ASSUME NEW n \in 1 .. conn, ReadState(n),
                     \A e \in Entities : told'[e] \in {told[e], Carried(inbox[n][1])[e]}
              PROVE  Older(told', data)
          <6>1. n = conn
              BY <1>1, <2>1, <5>2, LatestLoop DEF ReadState
          <6>2. d = 1 /\ 1 \in 1 .. (i + d) - 1
            <7>1. d = 1
                BY <4>1, <5>2
            <7>2. i \in 1 .. Len(inbox'[conn])
                BY <2>1, <2>4 DEF Snapshot
            <7> QED
              BY <7>1, <7>2
          <6>3. Older(Carried(inbox[n][1]), data)
              BY <4>2, <6>1, <6>2
          <6> QED
            BY <4>2, <5>2, <6>3 DEF Older
        <5>3. ~ \E u \in Tasks : Import(u)
          <6> SUFFICES ASSUME NEW u \in Tasks, Import(u) PROVE FALSE
              OBVIOUS
          <6>1. Importing(u) /\ task'[u].pc = "importing"
              BY <1>1, OwnSteps DEF Import
          <6>2. u # t
              BY <2>4, <6>1 DEF Snapshot
          <6>3. task[t].pc = "reading"
              BY <4>1 DEF Snapshot
          <6> QED
            BY <1>1, <2>1, <6>1, <6>2, <6>3, OneImports
        <5> QED
          BY <1>1, <1>5, <5>1, <5>2, <5>3, ToldSteps
      <4> QED
        BY <4>1, <4>5, <4>6 DEF data
    <3>2. CASE /\ Answer(t) /\ inbox'[conn][i].data = home
               /\ \A j \in 1 .. i - 1 :
                    j \in 1 .. Len(inbox[conn]) /\ inbox'[conn][j] = inbox[conn][j]
      <4>1. told' = told
          BY <3>2 DEF Answer, brought
      <4>2. /\ Older(told, home)
            /\ \A j \in 1 .. Len(inbox[conn]) : Older(Carried(inbox[conn][j]), home)
          BY <2>1 DEF Stamped, Past
      <4> QED
        BY <3>2, <4>1, <4>2
    <3> QED
      BY <1>1, <2>1, <2>4, <3>1, <3>2, SnapshotSteps
  <2>5. ASSUME Importing(t)', NEW e \in Entities \ outrun'
        PROVE  task'[t].data[e] = 0 \/ told'[e] <= task'[t].data[e]
    <3>0. e \in Entities /\ e \notin outrun' /\ told[e] \in Nat
        BY <2>3, <2>5, StateNumbers
    <3>1. CASE Import(t)
      <4>1. \/ told'[e] = told[e] /\ task'[t].data[e] = task[t].data[e] /\ e \notin outrun
            \/ task'[t].data[e] = 0
          BY <1>1, <3>0, <3>1, BroughtImport
      <4>2. Importing(t)
          BY <3>1 DEF Import
      <4> QED
        BY <2>2, <3>0, <4>1, <4>2
    <3>2. ASSUME NEW u \in Tasks \ {t}, Import(u)
          PROVE  FALSE
      <4>1. Importing(u) /\ task'[t] = task[t]
          BY <1>1, <3>2, BroughtImport
      <4>2. task[t].pc \notin {"reading", "importing"}
          BY <1>1, <2>1, <4>1, OneImports
      <4> QED
        BY <2>5, <4>1, <4>2 DEF Importing, Ready
    <3>3. CASE \E n \in 1 .. conn : ReadState(n)
      <4>1. PICK n \in 1 .. conn : ReadState(n)
          BY <3>3
      <4>2. /\ \/ told'[e] = told[e] /\ (e \in outrun' <=> e \in outrun)
               \/ /\ inbox[n][1].type = "state" /\ inbox[n][1].entity = e
                  /\ inbox[n][1].stamp # 0
                  /\ told'[e] = IF inbox[n][1].stamp > told[e] THEN inbox[n][1].stamp
                                ELSE told[e]
                  /\ e \in outrun' <=> Outrun(e, inbox[n][1].stamp)
            /\ UNCHANGED task
          BY <1>1, <3>0, <4>1, BroughtEvent
      <4>3. Importing(t)
          BY <2>5, <4>2 DEF Importing, Ready
      <4>4. CASE told'[e] = told[e] /\ (e \in outrun' <=> e \in outrun)
          BY <2>2, <3>0, <4>2, <4>3, <4>4
      <4>5. CASE /\ inbox[n][1].type = "state" /\ inbox[n][1].entity = e
                 /\ inbox[n][1].stamp # 0
                 /\ told'[e] = IF inbox[n][1].stamp > told[e] THEN inbox[n][1].stamp
                               ELSE told[e]
                 /\ ~ Outrun(e, inbox[n][1].stamp)
        <5>1. n = conn /\ 1 \in 1 .. Len(inbox[n]) /\ inbox[n][1] \in Message
          <6>1. n = conn
              BY <1>1, <2>1, <4>1, LatestLoop DEF ReadState
          <6> QED
            BY <1>1, <2>1, <4>1, <6>1, ReadsMoves DEF ReadState
        <5>2. AllYoung(told)
            BY <2>1 DEF NotOlder
        <5>3. inbox[n][1].stamp \in Nat /\ inbox[n][1].stamp >= told[e]
            BY <4>5, <5>1, <5>2, MessageShape, NumbersKept DEF AllYoung, Young
        <5>4. task[t].data[e] \in Nat
            BY <1>1, <3>0, TaskShape, StateNumbers DEF TaskTypes
        <5>5. ~ (task[t].data[e] \in 1 .. inbox[n][1].stamp - 1)
            BY <4>3, <4>5 DEF Outrun
        <5> QED
          BY <3>0, <4>2, <4>5, <5>3, <5>4, <5>5
      <4> QED
        BY <2>5, <4>2, <4>4, <4>5
    <3>4. CASE UNCHANGED brought /\ ~ Import(t)
      <4>1. told' = told /\ outrun' = outrun
          BY <3>4 DEF brought
      <4>2. CASE task'[t] = task[t]
        <5>1. Importing(t)
            BY <2>5, <4>2 DEF Importing, Ready
        <5> QED
          BY <2>2, <3>0, <4>1, <4>2, <5>1
      <4>3. CASE task[t].pc = "reading" /\ Received(t)
        <5>1. PICK n \in 1 .. conn : /\ ReadResult(n) /\ inbox[n][1].type = "result"
                                     /\ inbox[n][1].task = t
                                     /\ task'[t].data = inbox[n][1].data
            BY <4>3 DEF Received
        <5>2. n = conn /\ 1 \in 1 .. Len(inbox[conn])
          <6>1. n = conn
              BY <1>1, <2>1, <5>1, LatestLoop DEF ReadResult
          <6> QED
            BY <1>1, <5>1, <6>1, ResultRead
        <5>3. Snapshot(1, t)
            BY <4>3, <5>1, <5>2 DEF Snapshot, IsAnswer
        <5>4. Older(told, task'[t].data)
            BY <2>2, <5>1, <5>2, <5>3
        <5> QED
          BY <3>0, <4>1, <5>4 DEF Older
      <4> QED
        BY <1>1, <2>5, <3>0, <3>4, <4>2, <4>3, ImportersSteps
    <3> QED
      BY <1>1, <1>5, <3>1, <3>2, <3>3, <3>4, ToldSteps
  <2> QED
    BY <2>1, <2>4, <2>5
<1> QED
  BY <1>3, <1>4, <1>5

LEMMA NewestStep ==
    ASSUME Connected, Stamped, NotOlder, Fresh, NewestKept, [Next]_vars
    PROVE  NewestKept'
<1> SUFFICES ASSUME ~ overlap', NEW e \in Entities, e \notin outrun', mirror'[e] # 0
             PROVE  mirror'[e] >= told'[e]
    BY DEF NewestKept
<1>1. /\ Typed /\ Typed' /\ Linked /\ Taken /\ StoreTypes /\ StoreTypes' /\ InboxTypes
      /\ LinkTypes
    BY TypedStep, Parts DEF Connected, Typed
<1>2. mirror'[e] \in Nat /\ told'[e] \in Nat /\ told[e] \in Nat
    BY <1>1, StateNumbers DEF StoreTypes
<1>3. CASE Restart
  <2>1. told' = Nothing
      BY <1>3 DEF Restart
  <2> QED
    BY <1>2, <2>1 DEF Nothing
<1>4. CASE ~ Restart
  <2>1. ~ overlap
      BY <1>1, <1>4, OverlapSteps
  <2>2. e \notin outrun /\ mirror[e] # 0 => mirror[e] >= told[e]
      BY <2>1 DEF NewestKept
  <2>3. CASE \E n \in 1 .. conn : ReadState(n)
    <3>1. PICK n \in 1 .. conn : ReadState(n)
        BY <2>3
    <3>2. n = conn /\ conn \in Connections
        BY <1>1, <2>1, <3>1, LatestLoop DEF ReadState
    <3>3. 1 \in 1 .. Len(inbox[conn]) /\ inbox[conn][1] \in Message
        BY <1>1, <3>1, <3>2, ReadsMoves DEF ReadState
    <3>4. AllYoung(told)
        BY <1>1, <2>1, <3>2, NumbersKept DEF NotOlder, Connections
    <3>5. \/ told'[e] = told[e] /\ mirror'[e] = mirror[e] /\ e \notin outrun
          \/ /\ inbox[n][1].type = "state" /\ inbox[n][1].entity = e
             /\ inbox[n][1].stamp # 0 /\ mirror'[e] = inbox[n][1].stamp
             /\ told'[e] = IF inbox[n][1].stamp > told[e] THEN inbox[n][1].stamp ELSE told[e]
        BY <1>1, <3>1, BroughtEvent
    <3>6. Young(inbox[conn][1], told)
        BY <3>3, <3>4 DEF AllYoung
    <3> QED
      BY <1>2, <2>2, <3>2, <3>5, <3>6 DEF Young
  <2>4. CASE \E t \in Tasks : Import(t)
    <3>1. PICK t \in Tasks : Import(t)
        BY <2>4
    <3>2. Importing(t)
        BY <3>1 DEF Import
    <3>3. conn # 0
      <4>1. task[t].pc \in {"reading", "importing"}
          BY <3>2 DEF Importing, Ready
      <4> QED
        BY <4>1, <1>1, <2>1 DEF Linked, Taken, Tasks
    <3>4. e \notin outrun => task[t].data[e] = 0 \/ told[e] <= task[t].data[e]
        BY <2>1, <3>2, <3>3 DEF Fresh
    <3>5. \/ told'[e] = told[e] /\ mirror'[e] = mirror[e] /\ e \notin outrun
          \/ /\ task[t].data[e] # 0 /\ mirror'[e] = task[t].data[e]
             /\ told'[e] = IF task[t].data[e] > told[e] THEN task[t].data[e] ELSE told[e]
             /\ ~ (e \in outrun /\ task[t].data[e] < told[e])
        BY <1>1, <3>1, BroughtImport
    <3> QED
      BY <1>2, <2>2, <3>4, <3>5
  <2>5. CASE /\ UNCHANGED brought
             /\ ~ (\E n \in 1 .. conn : ReadState(n)) /\ ~ (\E t \in Tasks : Import(t))
    <3>1. mirror'[e] = mirror[e]
      <4>1. CASE \E t \in Tasks : ApplyList(t)
        <5>1. mirror'[e] \in {0, mirror[e]}
            BY <4>1 DEF ApplyList, Remove
        <5> QED
          BY <5>1
      <4>2. CASE \E t \in Tasks : ImportEnds(t)
          BY <4>2 DEF ImportEnds
      <4>3. \/ \E t \in Tasks : ApplyList(t)
            \/ \E t \in Tasks : Import(t)
            \/ \E t \in Tasks : ImportEnds(t)
            \/ \E n \in 1 .. conn : ReadState(n)
            \/ mirror' = mirror
            \/ Restart
          BY TableSteps DEF registry
      <4> QED
        BY <1>4, <2>5, <4>1, <4>2, <4>3
    <3> QED
      BY <2>2, <2>5, <3>1 DEF brought
  <2> QED
    BY <1>1, <1>4, <2>3, <2>4, <2>5, ToldSteps
<1> QED
  BY <1>3, <1>4

Ordered == Connected /\ Exclusive /\ Stamped /\ NotOlder /\ Fresh /\ NewestKept

\* The mirror never falls behind the newest state that has come, whatever
\* events, refreshes and reconnections interleave: an answer holds what was
\* true at its place among the events, and what an event then brings is younger
\* (_receive_loop and import_states of connector.py).  Excepted are entities
\* of which an event was read while a task held an older snapshot.
THEOREM NothingOlder == Spec => []NewestKept
<1>1. Init => Ordered
  <2> SUFFICES ASSUME Init PROVE Ordered
      OBVIOUS
  <2>1. Connected /\ Exclusive /\ Stamped
      BY ConnectedAlways, StampedFirst
  <2>2. NotOlder /\ Fresh
      BY DEF Init, NotOlder, Fresh
  <2>3. NewestKept
      BY DEF Init, NewestKept, Nothing
  <2> QED
    BY <2>1, <2>2, <2>3 DEF Ordered
<1>2. Ordered /\ [Next]_vars => Ordered'
  <2> SUFFICES ASSUME Ordered, [Next]_vars PROVE Ordered'
      OBVIOUS
  <2>1. Connected /\ Exclusive /\ Stamped /\ NotOlder /\ Fresh /\ NewestKept
      BY DEF Ordered
  <2>2. Connected' /\ Exclusive'
      BY <2>1, ConnectedAlways
  <2>3. Stamped' /\ NotOlder'
      BY <2>1, StampedStep, NotOlderStep DEF Connected
  <2>4. Fresh' /\ NewestKept'
      BY <2>1, <2>2, <2>3, FreshStep, NewestStep
  <2> QED
    BY <2>2, <2>3, <2>4 DEF Ordered
<1>3. Ordered => NewestKept
    BY DEF Ordered
<1> QED
  BY <1>1, <1>2, <1>3, PTL DEF Spec

-----------------------------------------------------------------------------
(* Registry events are followed                                            *)

\* A registry event that a refresh will still look at.
Noted ==
    \/ task["refresh"].pc # "none" /\ pending
    \/ task["refresh"].pc = "starting"
    \/ task["refresh"] = Asking("listing")
    \/ ~ NoMessage(conn, "registry")

\* The last list that was asked for is that of Home Assistant's entities.
Attentive ==
    link /\ ~ lapse /\ ~ overlap /\ task["main"] # Asking("listing") /\ ~ Noted

\* The answers to task t that are under way.
Answers(t) == {inbox[conn][i].data : i \in {k \in 1 .. Len(inbox[conn]) : IsAnswer(conn, k, t)}}

Listed(states) == In(states) = In(home)

ListNow ==
    /\ \A t \in Tasks : task[t].pc = "listing" =>
         /\ task[t].phase = "ready" => Listed(task[t].data)
         /\ \A d \in Answers(t) : Listed(d)
    /\ (\A t \in Tasks : task[t].pc # "listing") => entries = In(home)

\* Task t is going to import a state of entity e.
Covers(t, e) ==
    \/ task[t].pc = "listing"
    \/ task[t].pc = "reading" /\ task[t].phase = "asked"
    \/ /\ task[t].pc = "reading" /\ task[t].phase = "answered"
       /\ \A d \in Answers(t) : d[e] # 0
    \/ Importing(t) /\ task[t].data[e] # 0

CoverNow == \A e \in entries : mirror[e] # 0 \/ \E t \in Tasks : Covers(t, e)

Followed == Attentive => ListNow /\ CoverNow

\* What no step but this one does to a request that was sent,
LEMMA AskedSteps ==
    ASSUME Typed, [Next]_vars, NEW t \in Tasks, task[t].phase = "asked", ~ Answer(t)
    PROVE  task'[t] = task[t] \/ RefreshFails \/ ConnectionFails \/ Restart
<1>1. CASE t = "main"
  <2>1. task["main"].pc \in Requesting /\ task["main"] \in Task
      BY <1>1, Parts, TaskShape DEF Typed, TaskTypes
  <2> QED
    BY <1>1, <2>1, MainSteps DEF Progress, ApplyList, Import, ImportEnds, Importing, Ready,
       Subscribed, Requesting
<1>2. CASE t = "refresh"
  <2>1. task["refresh"].pc \in Requesting /\ task["refresh"] \in Task
      BY <1>2, Parts, TaskShape DEF Typed, TaskTypes
  <2> QED
    BY <1>2, <2>1, RefreshSteps DEF Progress, ApplyList, Import, ImportEnds, Importing, Ready,
       Requesting
<1> QED
  BY <1>1, <1>2 DEF Tasks

\* to the note of an event,
LEMMA PendingSteps ==
    ASSUME Typed, [Next]_vars, pending
    PROVE  pending' \/ RefreshStarts \/ ImportEnds("refresh") \/ Restart
<1>1. CASE HomeChanges
    BY <1>1 DEF HomeChanges, StateChanges, EntityAdded, EntityRemoved, Changes
<1>2. CASE \E n \in 1 .. conn : LoopStep(n)
    BY <1>2 DEF LoopStep, ReadResult, ReadState, DashboardSent, ReadRegistry, LoopEnds
<1>3. CASE \E t \in Tasks : Answer(t) \/ ApplyList(t) \/ Import(t)
    BY <1>3 DEF Answer, ApplyList, Import, Imports
<1>4. CASE \E t \in Tasks : ImportEnds(t)
    BY <1>4 DEF ImportEnds, Tasks
<1>5. CASE Subscribed \/ RefreshFails \/ UNCHANGED vars
    BY <1>5 DEF Subscribed, RefreshFails, vars
<1>6. CASE ConnectionFails \/ Connect \/ LinkLost
    BY <1>6 DEF ConnectionFails, Connect, LinkLost
<1> QED
  BY <1>1, <1>2, <1>3, <1>4, <1>5, <1>6, Steps

\* to an event that is under way,
LEMMA EventSteps ==
    ASSUME Typed, Linked, [Next]_vars, ~ overlap, conn \in Connections, conn' = conn,
           ~ NoMessage(conn, "registry")
    PROVE  \/ ~ NoMessage(conn, "registry")'
           \/ \E n \in 1 .. conn : ReadRegistry(n)
           \/ LinkLost \/ Restart
<1>1. PICK i \in 1 .. Len(inbox[conn]) : inbox[conn][i].type = "registry"
    BY DEF NoMessage
<1>2. InboxTypes /\ Len(inbox[conn]) \in Nat
    BY Parts, MessageTypes DEF Typed
<1>3. ASSUME inbox' = inbox
      PROVE  ~ NoMessage(conn, "registry")'
    BY <1>1, <1>3 DEF NoMessage
<1>4. ASSUME NEW ms \in Seq(Message), Arrives(ms)
      PROVE  ~ NoMessage(conn, "registry")'
  <2>1. Len(inbox'[conn]) = Len(inbox[conn]) + Len(ms) /\ Len(ms) \in Nat
        /\ inbox'[conn][i] = inbox[conn][i]
      BY <1>1, <1>4 DEF Arrives
  <2>2. i \in 1 .. Len(inbox'[conn])
      BY <1>2, <2>1
  <2> QED
    BY <1>1, <2>1, <2>2 DEF NoMessage
<1>5. ASSUME NEW failed, Forget(failed)
      PROVE  ~ NoMessage(conn, "registry")'
  <2>1. /\ Len(inbox'[conn]) = Len(inbox[conn])
        /\ inbox'[conn][i] = IF Forgotten(inbox[conn][i], failed) THEN Unclaimed
                             ELSE inbox[conn][i]
      BY <1>1, <1>2, <1>5, ForgetMoves
  <2> QED
    BY <1>1, <2>1 DEF Forgotten, NoMessage
<1>6. ASSUME NEW n \in 1 .. conn, NEW type, type # "registry", Reads(n, type)
      PROVE  ~ NoMessage(conn, "registry")'
  <2>1. n = conn
      BY <1>6, LatestLoop
  <2>2. /\ inbox[conn][1].type = type
        /\ Len(inbox'[conn]) = Len(inbox[conn]) - 1
        /\ \A k \in 1 .. Len(inbox[conn]) - 1 : inbox'[conn][k] = inbox[conn][k + 1]
      BY <1>2, <1>6, <2>1, ReadsMoves
  <2>3. i # 1
      BY <1>1, <1>6, <2>2
  <2>4. i - 1 \in 1 .. Len(inbox[conn]) - 1 /\ (i - 1) + 1 = i
      BY <1>2, <2>3
  <2>5. i - 1 \in 1 .. Len(inbox'[conn]) /\ inbox'[conn][i - 1] = inbox[conn][i]
      BY <2>2, <2>4
  <2> QED
    BY <1>1, <2>5 DEF NoMessage
<1>7. CASE HomeChanges
    BY <1>3, <1>4, <1>7, ChangeReports
<1>8. CASE \E n \in 1 .. conn : LoopStep(n)
  <2>1. PICK n \in 1 .. conn : LoopStep(n)
      BY <1>8
  <2> QED
    BY <1>3, <1>6, <2>1
       DEF LoopStep, ReadResult, ReadState, DashboardSent, LoopEnds
<1>9. CASE \E t \in Tasks : Answer(t)
  <2>1. PICK t \in Tasks : Answer(t)
      BY <1>9
  <2>2. PICK m, ms : m = Reply(t) /\ ms = <<m>>
      OBVIOUS
  <2>3. m \in Message /\ Arrives(ms)
      BY <2>1, <2>2, AnswerBrings
  <2>4. ms \in Seq(Message)
      BY <2>2, <2>3
  <2> QED
    BY <1>4, <2>3, <2>4
<1>10. CASE RefreshFails \/ ConnectionFails
    BY <1>5, <1>10 DEF RefreshFails, ConnectionFails
<1>11. CASE \/ \E t \in Tasks : ApplyList(t) \/ Import(t) \/ ImportEnds(t)
            \/ Subscribed \/ RefreshStarts \/ Connect \/ UNCHANGED vars
    BY <1>3, <1>11 DEF ApplyList, Import, Imports, ImportEnds, Subscribed, RefreshStarts,
                       Connect, vars
<1> QED
  BY <1>7, <1>8, <1>9, <1>10, <1>11, Steps

\* and to the history.
LEMMA LapseSteps ==
    ASSUME Typed, [Next]_vars, lapse
    PROVE  lapse' \/ Connect
<1>1. CASE HomeChanges
    BY <1>1 DEF HomeChanges, StateChanges, EntityAdded, EntityRemoved
<1>2. CASE \E n \in 1 .. conn : LoopStep(n)
    BY <1>2 DEF LoopStep, ReadResult, ReadState, DashboardSent, ReadRegistry, LoopEnds,
                history
<1>3. CASE \E t \in Tasks : Answer(t) \/ ApplyList(t) \/ Import(t) \/ ImportEnds(t)
    BY <1>3 DEF Answer, ApplyList, Import, Imports, ImportEnds, history
<1>4. CASE Subscribed \/ RefreshStarts \/ RefreshFails \/ UNCHANGED vars
    BY <1>4 DEF Subscribed, RefreshStarts, RefreshFails, vars, history
<1>5. CASE ConnectionFails \/ LinkLost \/ Restart
    BY <1>5 DEF ConnectionFails, LinkLost, Restart, history
<1> QED
  BY <1>1, <1>2, <1>3, <1>4, <1>5, Steps

\* The steps after which the last list is still current.
LEMMA AttentiveSteps ==
    ASSUME Connected, Exclusive, [Next]_vars, Attentive'
    PROVE  /\ conn' = conn /\ conn \in Connections /\ link /\ ~ overlap
           /\ task["main"].pc # "down"
           /\ ~ \E n \in 1 .. conn : ReadRegistry(n)
           /\ ~ RefreshStarts /\ ~ RefreshFails /\ ~ ConnectionFails
           /\ ~ Connect /\ ~ LinkLost /\ ~ Restart
           /\ Attentive \/ \E t \in Tasks : Answer(t) /\ task[t].pc = "listing"
<1>1. Typed /\ Linked /\ Taken /\ LinkTypes /\ Numbered /\ TaskTypes
    BY Parts DEF Connected, Typed
<1>2. link' /\ ~ lapse' /\ ~ overlap' /\ task'["main"] # Asking("listing") /\ ~ Noted'
    BY DEF Attentive
<1>3. ~ ConnectionFails /\ ~ LinkLost /\ ~ Restart
    BY <1>2 DEF ConnectionFails, LinkLost, Restart
<1>4. ~ RefreshFails
    BY <1>2 DEF RefreshFails
<1>5. ~ Connect
    BY <1>1, <1>2 DEF Connect, TaskTypes, Tasks
<1>6. conn' = conn /\ link /\ ~ overlap
  <2>1. conn' = conn /\ link' = link
    <3>1. link' = FALSE => FALSE
        BY <1>2
    <3> QED
      BY <1>1, <1>3, <1>5, <3>1, ConnSteps DEF connection
  <2>2. link
      BY <1>2, <2>1
  <2> QED
    BY <1>1, <1>2, <1>3, <2>1, <2>2, OverlapSteps
<1>7. conn \in Connections
    BY <1>1, <1>6, NumbersKept DEF Numbered, LinkTypes, Connections
<1>8. task["main"].pc # "down"
    BY <1>1, <1>6 DEF Linked
<1>9. Asks("refresh", "listing") = Asking("listing")
    BY <1>8 DEF Asks
<1>10. ~ RefreshStarts
    BY <1>1, <1>2, <1>9 DEF RefreshStarts, TaskTypes, Tasks, Noted
<1>11. ~ \E n \in 1 .. conn : ReadRegistry(n)
  <2> SUFFICES ASSUME NEW n \in 1 .. conn, ReadRegistry(n) PROVE FALSE
      OBVIOUS
  <2>1. pending' /\ task'["refresh"].pc # "none"
      BY <1>1 DEF ReadRegistry, TaskTypes, Tasks, Idle
  <2> QED
    BY <1>2, <2>1 DEF Noted
<1>12. SUFFICES ASSUME ~ \E t \in Tasks : Answer(t) /\ task[t].pc = "listing"
                PROVE  Attentive
    BY <1>3, <1>4, <1>5, <1>6, <1>7, <1>8, <1>10, <1>11
<1>13. ~ lapse
    BY <1>1, <1>2, <1>5, LapseSteps
<1>14. \A t \in Tasks : task[t] = Asking("listing") => task'[t] = task[t]
    BY <1>1, <1>3, <1>4, <1>12, AskedSteps DEF Asking
<1>15. task["main"] # Asking("listing")
    BY <1>2, <1>14 DEF Tasks
<1>16. ~ (task["refresh"].pc # "none" /\ pending)
  <2> SUFFICES ASSUME task["refresh"].pc # "none", pending PROVE FALSE
      OBVIOUS
  <2>1. CASE ImportEnds("refresh")
    <3>1. task'["refresh"] = Asking("listing")
        BY <1>1, <1>9, <2>1 DEF ImportEnds, TaskTypes, Tasks
    <3> QED
      BY <1>2, <3>1 DEF Noted
  <2>2. CASE ~ ImportEnds("refresh")
    <3>1. pending'
        BY <1>1, <1>3, <1>10, <2>2, PendingSteps
    <3>2. task'["refresh"].pc # "none"
        BY <1>1, <1>3, <1>4, <1>8, <1>10, <2>2, RefreshSteps
           DEF Progress, Idle, Asks, Asking
    <3> QED
      BY <1>2, <3>1, <3>2 DEF Noted
  <2> QED
    BY <2>1, <2>2
<1>17. task["refresh"].pc # "starting"
    BY <1>1, <1>2, <1>3, <1>4, <1>10, RefreshSteps
       DEF Noted, Progress, ApplyList, Import, ImportEnds, Importing, Ready
<1>18. task["refresh"] # Asking("listing")
    BY <1>2, <1>14 DEF Noted, Tasks
<1>19. NoMessage(conn, "registry")
    BY <1>1, <1>2, <1>3, <1>6, <1>7, <1>11, EventSteps DEF Noted
<1> QED
  BY <1>6, <1>13, <1>15, <1>16, <1>17, <1>18, <1>19 DEF Attentive, Noted

\* The answers to a task that are under way only get fewer, until there is one
\* to what it has just asked.
LEMMA AnswersSteps ==
    ASSUME Typed, [Next]_vars, conn \in Connections, conn' = conn, NEW t \in Tasks
    PROVE  \/ Answers(t)' \subseteq Answers(t)
           \/ Answer(t) /\ Answers(t)' \subseteq {Reply(t).data}
<1>1. InboxTypes /\ Awaited
    BY Parts DEF Typed
<1>2. ASSUME ~ Answer(t), NEW i \in 1 .. Len(inbox'[conn]), IsAnswer(conn, i, t)'
      PROVE  \E k \in 1 .. Len(inbox[conn]) :
               IsAnswer(conn, k, t) /\ inbox[conn][k].data = inbox'[conn][i].data
  <2>1. inbox'[conn][i].type = "result" /\ inbox'[conn][i].task = t
      BY <1>2 DEF IsAnswer
  <2>2. CASE Moves
    <3>1. PICK d \in {0, 1} : Moved(conn, d)
        BY <2>2 DEF Moves
    <3>2. i + d \in 1 .. Len(inbox[conn])
          /\ inbox'[conn][i] \in {inbox[conn][i + d], Unclaimed}
        BY <3>1 DEF Moved
    <3>3. Unclaimed.task # t
        BY DEF Unclaimed, Tasks
    <3> QED
      BY <2>1, <3>2, <3>3 DEF IsAnswer
  <2>3. ASSUME NEW ms \in Seq(Message), Arrives(ms),
               \A k \in 1 .. Len(ms) : ~ (ms[k].type = "result" /\ ms[k].task = t)
        PROVE  i \in 1 .. Len(inbox[conn]) /\ inbox'[conn][i] = inbox[conn][i]
    <3>1. \/ i \in 1 .. Len(inbox[conn]) /\ inbox'[conn][i] = inbox[conn][i]
          \/ \E k \in 1 .. Len(ms) : inbox'[conn][i] = ms[k]
        BY <1>1, <2>3, ArrivedFrom
    <3> QED
      BY <2>1, <2>3, <3>1
  <2>4. CASE HomeChanges
    <3>1. CASE inbox' = inbox
        BY <2>1, <3>1 DEF IsAnswer
    <3>2. CASE \E ms \in Seq(Message) :
                 Arrives(ms) /\ \A k \in 1 .. Len(ms) : ms[k].type \in {"state", "registry"}
      <4>1. PICK ms \in Seq(Message) :
              Arrives(ms) /\ \A k \in 1 .. Len(ms) : ms[k].type \in {"state", "registry"}
          BY <3>2
      <4> QED
        BY <2>1, <2>3, <4>1 DEF IsAnswer
    <3> QED
      BY <2>4, <3>1, <3>2, ChangeReports
  <2>5. CASE \E u \in Tasks : Answer(u)
    <3>1. PICK u \in Tasks : Answer(u)
        BY <2>5
    <3>2. PICK m, ms : m = Reply(u) /\ ms = <<m>>
        OBVIOUS
    <3>3. m \in Message /\ Arrives(ms) /\ m.task = u /\ u # t
        BY <1>2, <3>1, <3>2, AnswerBrings DEF Reply
    <3>4. ms \in Seq(Message) /\ \A k \in 1 .. Len(ms) : ms[k] = m
      <4>1. Len(ms) = 1 /\ ms[1] = m /\ \A k \in 1 .. 1 : k = 1
          BY <3>2
      <4> QED
        BY <3>2, <3>3, <4>1
    <3> QED
      BY <2>1, <2>3, <3>3, <3>4 DEF IsAnswer
  <2> QED
    BY <2>2, <2>4, <2>5, InboxSteps
<1>3. CASE ~ Answer(t)
  <2>1. Answers(t)' = {inbox'[conn][i].data :
          i \in {k \in 1 .. Len(inbox'[conn]) : IsAnswer(conn, k, t)'}}
      BY DEF Answers, IsAnswer
  <2> QED
    BY <1>2, <1>3, <2>1 DEF Answers
<1>4. CASE Answer(t)
  <2>1. task[t].phase = "asked" /\ ~ Answered(t)
      BY <1>4, AnswerBrings DEF Answer
  <2>2. PICK m, ms : m = Reply(t) /\ ms = <<m>>
      OBVIOUS
  <2>3. m \in Message /\ Arrives(ms)
      BY <1>4, <2>2, AnswerBrings
  <2>4. ms \in Seq(Message) /\ \A k \in 1 .. Len(ms) : ms[k] = m
    <3>1. Len(ms) = 1 /\ ms[1] = m /\ \A k \in 1 .. 1 : k = 1
        BY <2>2
    <3> QED
      BY <2>2, <2>3, <3>1
  <2>5. ASSUME NEW i \in 1 .. Len(inbox'[conn]), IsAnswer(conn, i, t)'
        PROVE  inbox'[conn][i].data = m.data
    <3>1. \/ i \in 1 .. Len(inbox[conn]) /\ inbox'[conn][i] = inbox[conn][i]
          \/ \E k \in 1 .. Len(ms) : inbox'[conn][i] = ms[k]
        BY <1>1, <2>3, <2>4, ArrivedFrom
    <3>2. ~ (i \in 1 .. Len(inbox[conn]) /\ inbox'[conn][i] = inbox[conn][i])
        BY <2>1, <2>5 DEF IsAnswer, Answered
    <3> QED
      BY <2>4, <3>1, <3>2
  <2>6. Answers(t)' = {inbox'[conn][i].data :
          i \in {k \in 1 .. Len(inbox'[conn]) : IsAnswer(conn, k, t)'}}
      BY DEF Answers, IsAnswer
  <2> QED
    BY <1>4, <2>2, <2>5, <2>6
<1> QED
  BY <1>3, <1>4

\* Only one of the tasks lists or imports.
LEMMA Alone ==
    ASSUME Exclusive, Taken, ~ overlap, NEW t \in Tasks, NEW u \in Tasks, t # u,
           task[t].pc \in {"listing", "reading", "importing"}
    PROVE  task[u].pc \notin {"listing", "reading", "importing"}
BY DEF Exclusive, Taken, MainFirst, Tasks

\* A step in which no task does anything.
LEMMA FollowedIdle ==
    ASSUME ListNow, CoverNow, In(home') = In(home), entries' = entries,
           \A e \in Entities : mirror[e] # 0 => mirror'[e] # 0,
           entries \subseteq Entities,
           task' = task, \A t \in Tasks : Answers(t)' \subseteq Answers(t)
    PROVE  ListNow' /\ CoverNow'
<1>1. Tasks' = Tasks
    BY DEF Tasks
<1>2. ListNow'
    BY <1>1 DEF ListNow, Listed
<1>3. CoverNow'
    BY <1>1 DEF CoverNow, Covers, Importing, Ready
<1> QED
  BY <1>2, <1>3

\* An answer is on its way.
LEMMA AnswerOf ==
    ASSUME Typed, NEW t \in Tasks, Answer(t)
    PROVE  /\ task'[t].pc = task[t].pc /\ task'[t].phase = "answered"
           /\ \A u \in Tasks \ {t} : task'[u] = task[u]
           /\ task[t].phase = "asked" /\ task[t].pc \in Requesting /\ ~ Answered(t)
<1>1. /\ task[t].phase = "asked" /\ task[t].pc \in Requesting /\ ~ Answered(t)
      /\ task'[t] = [pc |-> task[t].pc, phase |-> "answered", data |-> Nothing]
      /\ \A u \in Tasks \ {t} : task'[u] = task[u]
    BY AnswerBrings
<1>2. task'[t].pc = task[t].pc /\ task'[t].phase = "answered"
    BY <1>1
<1> QED
  BY <1>1, <1>2

\* What stays the same in a step of task t.
Besides(t) ==
    /\ In(home') = In(home)
    /\ \A u \in Tasks \ {t} : task'[u] = task[u]
    /\ \A u \in Tasks : Answers(u)' \subseteq Answers(u) \/ Answer(u)

LEMMA CoversKept ==
    ASSUME NEW t \in Tasks, Besides(t), NEW u \in Tasks \ {t}, ~ Answer(u),
           NEW e \in Entities, Covers(u, e)
    PROVE  Covers(u, e)'
<1>1. task'[u] = task[u] /\ Answers(u)' \subseteq Answers(u)
    BY DEF Besides
<1> QED
  BY <1>1 DEF Covers, Importing, Ready

\* A task reads its answer.
LEMMA FollowedReceived ==
    ASSUME ListNow, CoverNow, NEW t \in Tasks, Besides(t), ~ \E u \in Tasks : Answer(u),
           entries' = entries, mirror' = mirror, entries \subseteq Entities,
           task[t].phase = "answered", task[t].pc \in Requesting, NEW data \in Answers(t),
           task'[t] = [pc |-> task[t].pc, phase |-> "ready", data |-> data]
    PROVE  ListNow' /\ CoverNow'
<1>1. /\ Tasks' = Tasks /\ task'[t].pc = task[t].pc /\ task'[t].phase = "ready"
      /\ task'[t].data = data
    BY DEF Tasks
<1>2. \A u \in Tasks : task'[u].pc = task[u].pc /\ Answers(u)' \subseteq Answers(u)
    BY <1>1 DEF Besides
<1>3. ASSUME NEW u \in Tasks, task'[u].pc = "listing"
      PROVE  /\ task'[u].phase = "ready" => Listed(task'[u].data)
             /\ \A d \in Answers(u)' : Listed(d)
    BY <1>1, <1>2, <1>3 DEF ListNow, Besides
<1>4. ListNow'
    BY <1>1, <1>2, <1>3 DEF ListNow, Listed, Besides
<1>5. ASSUME NEW e \in Entities, Covers(t, e)
      PROVE  Covers(t, e)'
    BY <1>1, <1>5 DEF Covers, Importing, Ready, Requesting
<1>6. CoverNow'
    BY <1>1, <1>5, CoversKept DEF CoverNow
<1> QED
  BY <1>4, <1>6

\* The list is answered: it is current.
LEMMA FollowedListing ==
    ASSUME Typed, Typed', Exclusive, Taken, ~ overlap, link, NEW t \in Tasks, Answer(t),
           task[t].pc = "listing", conn \in Connections, conn' = conn, [Next]_vars
    PROVE  ListNow' /\ CoverNow'
<1>1. /\ task'[t].pc = "listing" /\ task'[t].phase = "answered"
      /\ \A u \in Tasks \ {t} : task'[u] = task[u]
    BY AnswerOf
<1>2. Answers(t)' \subseteq {home} /\ home' = home /\ Tasks' = Tasks
  <2>1. Reply(t).data = home
      BY DEF Reply
  <2>2. ~ Answered(t)
      BY AnswerBrings
  <2>3. Answers(t) = {}
      BY <2>2 DEF Answers, Answered
  <2> QED
    BY <2>1, <2>3, AnswersSteps DEF Answer, ha, Tasks
<1>3. \A u \in Tasks \ {t} : task'[u].pc # "listing"
    BY <1>1, Alone
<1>4. ListNow'
    BY <1>1, <1>2, <1>3 DEF ListNow, Listed
<1>5. CoverNow'
    BY <1>1, <1>2 DEF CoverNow, Covers
<1> QED
  BY <1>4, <1>5

\* The states, or a subscription, are answered.
LEMMA FollowedAnswer ==
    ASSUME Typed, Typed', Exclusive, Taken, ~ overlap, NEW t \in Tasks, Answer(t),
           task[t].pc # "listing", conn \in Connections, conn' = conn, [Next]_vars,
           ListNow, CoverNow
    PROVE  ListNow' /\ CoverNow'
<1>1. /\ task'[t].pc = task[t].pc /\ task'[t].phase = "answered"
      /\ \A u \in Tasks \ {t} : task'[u] = task[u]
      /\ task[t].phase = "asked" /\ task[t].pc \in Requesting /\ ~ Answered(t)
    BY AnswerOf
<1>2. home' = home /\ entries' = entries /\ mirror' = mirror /\ Tasks' = Tasks
      /\ entries \subseteq Entities
    BY Parts DEF Answer, ha, registry, Tasks, Typed, StoreTypes
<1>3. \A u \in Tasks \ {t} : Answers(u)' \subseteq Answers(u)
  <2> TAKE u \in Tasks \ {t}
  <2>1. ~ Answer(u)
    <3> SUFFICES ASSUME Answer(u) PROVE FALSE
        OBVIOUS
    <3>1. task'[u].phase = "answered" /\ task[u].phase = "asked"
        BY AnswerOf
    <3> QED
      BY <1>1, <3>1
  <2> QED
    BY <2>1, AnswersSteps
<1>4. ListNow'
  <2>1. ASSUME NEW u \in Tasks, task'[u].pc = "listing"
        PROVE  /\ task'[u].phase = "ready" => Listed(task'[u].data)
               /\ \A d \in Answers(u)' : Listed(d)
      BY <1>1, <1>3, <2>1 DEF ListNow
  <2>2. \A u \in Tasks : task'[u].pc = task[u].pc
      BY <1>1
  <2> QED
    BY <1>2, <2>1, <2>2 DEF ListNow, Listed
<1>5. ASSUME NEW e \in entries, Covers(t, e)
      PROVE  Covers(t, e)'
  <2>1. task[t].pc = "reading"
      BY <1>1, <1>5 DEF Covers, Importing, Ready, Requesting
  <2>2. Answers(t)' \subseteq {home}
    <3>1. Reply(t).data = home
        BY <2>1 DEF Reply
    <3>2. Answers(t) = {}
        BY <1>1 DEF Answers, Answered
    <3> QED
      BY <3>1, <3>2, AnswersSteps
  <2>3. \A u \in Tasks : task[u].pc # "listing"
      BY <2>1, Alone
  <2>4. home[e] # 0
      BY <1>5, <2>3 DEF ListNow, In
  <2> QED
    BY <1>1, <2>1, <2>2, <2>4 DEF Covers
<1>6. ASSUME NEW u \in Tasks \ {t}, NEW e \in entries, Covers(u, e)
      PROVE  Covers(u, e)'
    BY <1>1, <1>3, <1>6 DEF Covers, Importing, Ready
<1>7. CoverNow'
    BY <1>2, <1>5, <1>6 DEF CoverNow
<1> QED
  BY <1>4, <1>7

\* The list is taken up, and the states asked for.
LEMMA FollowedApply ==
    ASSUME Typed, Exclusive, Taken, ~ overlap, NEW t \in Tasks, ApplyList(t), Besides(t),
           Asks(t, "reading") = Asking("reading"), ListNow, CoverNow
    PROVE  ListNow' /\ CoverNow'
<1>1. task'[t].pc = "reading" /\ task'[t].phase = "asked"
    BY OwnSteps DEF Asking
<1>2. /\ task[t].pc = "listing" /\ task[t].phase = "ready"
      /\ entries' = In(task[t].data) /\ Tasks' = Tasks /\ home' = home
    BY DEF ApplyList, Ready, Tasks, ha
<1>3. entries' = In(home')
    BY <1>2 DEF ListNow, Listed
<1>4. \A u \in Tasks : task'[u].pc # "listing"
    BY <1>1, <1>2, Alone DEF Besides
<1>5. ListNow'
    BY <1>2, <1>3, <1>4 DEF ListNow
<1>6. CoverNow'
    BY <1>1, <1>2 DEF CoverNow, Covers
<1> QED
  BY <1>5, <1>6

LEMMA FollowedImport ==
    ASSUME Typed, NEW t \in Tasks, Import(t), Besides(t), ~ \E u \in Tasks : Answer(u),
           ListNow, CoverNow
    PROVE  ListNow' /\ CoverNow'
<1>1. TaskTypes /\ StoreTypes
    BY Parts DEF Typed
<1>2. PICK S \in SUBSET In(task[t].data) : ImportsSome(t, S)
    BY DEF Import, ImportsSome
<1>3. PICK data : data = task[t].data
    OBVIOUS
<1>4. /\ task' = [task EXCEPT ![t] =
           [pc |-> "importing", phase |-> "none",
            data |-> [e \in Entities |-> IF e \in S THEN 0 ELSE data[e]]]]
      /\ mirror' = [e \in Entities |->
           IF (IF e \in S THEN data[e] ELSE 0) # 0 THEN (IF e \in S THEN data[e] ELSE 0)
           ELSE mirror[e]]
      /\ entries' = entries /\ S \subseteq In(data)
    BY <1>1, <1>2, <1>3 DEF ImportsSome, Imports, TaskTypes, Write
<1>5. /\ task'[t].pc = "importing"
      /\ \A e \in Entities : e \notin S => task'[t].data[e] = data[e]
  <2>1. task'[t] = [pc |-> "importing", phase |-> "none",
            data |-> [e \in Entities |-> IF e \in S THEN 0 ELSE data[e]]]
      BY <1>1, <1>4 DEF TaskTypes
  <2> QED
    BY <2>1
<1>6. task[t].pc # "listing" /\ Tasks' = Tasks
    BY DEF Import, Importing, Ready, Tasks
<1>7. \A u \in Tasks : Answers(u)' \subseteq Answers(u)
    BY DEF Besides
<1>8. ListNow'
  <2>1. \A u \in Tasks : task'[u].pc = "listing" => u # t
      BY <1>5
  <2>2. \A u \in Tasks : task'[u].pc = "listing" <=> task[u].pc = "listing"
      BY <1>5, <1>6 DEF Besides
  <2>3. ASSUME NEW u \in Tasks, task'[u].pc = "listing"
        PROVE  /\ task'[u].phase = "ready" => Listed(task'[u].data)
               /\ \A d \in Answers(u)' : Listed(d)
      BY <1>7, <2>1, <2>2, <2>3 DEF ListNow, Besides
  <2> QED
    BY <1>4, <1>6, <2>2, <2>3 DEF ListNow, Listed, Besides
<1>9. ASSUME NEW e \in entries
      PROVE  mirror'[e] # 0 \/ \E u \in Tasks : Covers(u, e)'
  <2>1. e \in Entities
      BY <1>1 DEF StoreTypes
  <2>2. CASE e \in S \/ mirror[e] # 0
    <3>1. e \in S => data[e] # 0
        BY <1>4 DEF In
    <3> QED
      BY <1>4, <2>1, <2>2, <3>1
  <2>3. CASE e \notin S /\ Covers(t, e)
    <3>1. data[e] # 0
        BY <1>3, <1>6, <2>3 DEF Covers, Import, Importing, Ready
    <3>2. Covers(t, e)'
        BY <1>5, <2>1, <2>3, <3>1 DEF Covers, Importing
    <3> QED
      BY <3>2
  <2>4. CASE \E u \in Tasks \ {t} : Covers(u, e)
      BY <2>1, <2>4, CoversKept
  <2> QED
    BY <2>2, <2>3, <2>4 DEF CoverNow
<1> QED
  BY <1>4, <1>6, <1>8, <1>9 DEF CoverNow

\* A task that covers nothing does something else than to list.
LEMMA FollowedElse ==
    ASSUME NEW t \in Tasks, Besides(t), ~ \E u \in Tasks : Answer(u),
           entries' = entries, mirror' = mirror, entries \subseteq Entities,
           task[t].pc # "listing", task'[t].pc # "listing",
           \A e \in Entities : ~ Covers(t, e), ListNow, CoverNow
    PROVE  ListNow' /\ CoverNow'
<1>1. Tasks' = Tasks /\ \A u \in Tasks : Answers(u)' \subseteq Answers(u)
    BY DEF Tasks, Besides
<1>2. ListNow'
  <2>1. \A u \in Tasks : task'[u].pc = "listing" => u # t
      OBVIOUS
  <2>2. \A u \in Tasks : task'[u].pc = "listing" <=> task[u].pc = "listing"
      BY DEF Besides
  <2>3. ASSUME NEW u \in Tasks, task'[u].pc = "listing"
        PROVE  /\ task'[u].phase = "ready" => Listed(task'[u].data)
               /\ \A d \in Answers(u)' : Listed(d)
      BY <1>1, <2>1, <2>2, <2>3 DEF ListNow, Besides
  <2> QED
    BY <1>1, <2>2, <2>3 DEF ListNow, Listed, Besides
<1>3. CoverNow'
    BY <1>1, CoversKept DEF CoverNow
<1> QED
  BY <1>2, <1>3

LEMMA FollowedStep ==
    ASSUME Connected, Exclusive, Followed, [Next]_vars
    PROVE  Followed'
<1> SUFFICES ASSUME Attentive' PROVE ListNow' /\ CoverNow'
    BY DEF Followed
<1>1. /\ Typed /\ Linked /\ Taken /\ InboxTypes /\ TaskTypes /\ StoreTypes /\ Typed'
    BY TypedStep, Parts DEF Connected, Typed
<1>2. /\ conn' = conn /\ conn \in Connections /\ link /\ ~ overlap
      /\ task["main"].pc # "down"
      /\ ~ \E n \in 1 .. conn : ReadRegistry(n)
      /\ ~ RefreshStarts /\ ~ RefreshFails /\ ~ ConnectionFails
      /\ ~ Connect /\ ~ LinkLost /\ ~ Restart
      /\ Attentive \/ \E t \in Tasks : Answer(t) /\ task[t].pc = "listing"
    BY AttentiveSteps
<1>3. CASE \E t \in Tasks : Answer(t) /\ task[t].pc = "listing"
    BY <1>1, <1>2, <1>3, FollowedListing
<1>4. SUFFICES ASSUME ~ \E t \in Tasks : Answer(t) /\ task[t].pc = "listing"
               PROVE  ListNow' /\ CoverNow'
    BY <1>3
<1>5. Attentive /\ ListNow /\ CoverNow
    BY <1>2, <1>4 DEF Followed
<1>6. entries \subseteq Entities
    BY <1>1 DEF StoreTypes
<1>7. \A t \in Tasks : Answers(t)' \subseteq Answers(t) \/ Answer(t)
    BY <1>1, <1>2, AnswersSteps
<1>8. \A t, pc : t \in Tasks => Asks(t, pc) = Asking(pc)
    BY <1>2 DEF Asks
<1>9. CASE \E t \in Tasks : Answer(t)
    BY <1>1, <1>2, <1>4, <1>5, <1>9, FollowedAnswer
<1>10. SUFFICES ASSUME ~ \E t \in Tasks : Answer(t)
                PROVE  ListNow' /\ CoverNow'
    BY <1>9
<1>11. \A t \in Tasks : Answers(t)' \subseteq Answers(t)
    BY <1>7, <1>10
<1>12. CASE HomeChanges
  <2>1. UNCHANGED <<connection, loop, task, entries, registry>>
      BY <1>1, <1>12, ChangeReports
  <2>2. In(home') = In(home)
    <3>1. CASE In(home') = In(home) /\ lapse' = lapse
        BY <3>1
    <3>2. CASE \E ms \in Seq(Message) :
                 /\ Arrives(ms) /\ lapse' = (lapse \/ Unreported)
                 /\ "registry" \in subscribed =>
                      \E i \in 1 .. Len(ms) : ms[i].type = "registry"
      <4>1. "registry" \in subscribed
        <5>1. ~ lapse'
            BY DEF Attentive
        <5>2. ~ Unreported
          <6>1. lapse' = (lapse \/ Unreported)
              BY <3>2, Zenon
          <6> QED
            BY <5>1, <6>1, Zenon
        <5>3. link /\ task["main"] # Asking("listing")
            BY <1>5 DEF Attentive
        <5> QED
          BY <5>2, <5>3 DEF Unreported
      <4>2. PICK ms \in Seq(Message) :
              Arrives(ms) /\ \E i \in 1 .. Len(ms) : ms[i].type = "registry"
          BY <3>2, <4>1
      <4>3. PICK i \in 1 .. Len(ms) : ms[i].type = "registry"
          BY <4>2
      <4>4. /\ Len(inbox'[conn]) = Len(inbox[conn]) + Len(ms)
            /\ inbox'[conn][Len(inbox[conn]) + i] = ms[i]
            /\ Len(inbox[conn]) \in Nat /\ Len(ms) \in Nat
        <5>1. inbox[conn] \in Seq(Message) /\ ms \in Seq(Message)
            BY <1>1, <1>2, <4>2 DEF InboxTypes
        <5>2. Len(inbox[conn]) \in Nat /\ Len(ms) \in Nat
            BY <5>1, LenProperties
        <5>3. Arrives(ms)
            BY <4>2
        <5> HIDE <4>2
        <5> QED
          BY <4>3, <5>2, <5>3 DEF Arrives
      <4>5. Len(inbox[conn]) + i \in 1 .. Len(inbox'[conn])
          BY <4>4
      <4>6. ~ NoMessage(conn, "registry")'
          BY <1>2, <4>3, <4>4, <4>5 DEF NoMessage
      <4> QED
        BY <4>6 DEF Attentive, Noted
    <3> QED
      BY <1>1, <1>2, <1>12, <3>1, <3>2, ChangeReports
  <2> QED
    BY <1>5, <1>6, <1>11, <2>1, <2>2, FollowedIdle DEF registry
<1>13. CASE \E n \in 1 .. conn : LoopStep(n)
  <2>1. PICK n \in 1 .. conn : ReadResult(n) \/ ReadState(n) \/ DashboardSent(n) \/ LoopEnds(n)
      BY <1>2, <1>13 DEF LoopStep
  <2>2. UNCHANGED <<ha, entries>>
      BY <2>1 DEF ReadResult, ReadState, DashboardSent, LoopEnds
  <2>3. In(home') = In(home)
      BY <2>2 DEF ha
  <2>4. CASE ReadState(n)
    <3>1. task' = task /\ \E states, holder : Write(states, holder)
        BY <2>4 DEF ReadState
    <3>2. \A e \in Entities : mirror[e] # 0 => mirror'[e] # 0
        BY <3>1 DEF Write
    <3> QED
      BY <1>5, <1>6, <1>11, <2>2, <2>3, <3>1, <3>2, FollowedIdle
  <2>5. CASE DashboardSent(n) \/ LoopEnds(n)
    <3>1. task' = task /\ mirror' = mirror
        BY <2>5 DEF DashboardSent, LoopEnds, registry
    <3> QED
      BY <1>5, <1>6, <1>11, <2>2, <2>3, <3>1, FollowedIdle
  <2>6. CASE ReadResult(n)
    <3>1. mirror' = mirror
        BY <2>6 DEF ReadResult, registry
    <3>2. CASE task' = task
        BY <1>5, <1>6, <1>11, <2>2, <2>3, <3>1, <3>2, FollowedIdle
    <3>3. CASE \E m \in Message :
                 /\ m = inbox[n][1] /\ m.type = "result" /\ m.data \in States
                 /\ \E t \in Tasks : m.task = t /\ Takes(t, m)
      <4>1. PICK m \in Message :
              /\ m = inbox[n][1] /\ m.type = "result" /\ m.data \in States
              /\ \E t \in Tasks : m.task = t /\ Takes(t, m)
          BY <3>3
      <4>2. PICK t \in Tasks : m.task = t /\ Takes(t, m)
          BY <4>1
      <4>3. /\ task'[t] = [pc |-> task[t].pc, phase |-> "ready", data |-> m.data]
            /\ \A u \in Tasks \ {t} : task'[u] = task[u]
          BY <1>1, <2>6, <4>1, <4>2, AnswerTaken
      <4>4. task[t].phase = "answered" /\ task[t].pc \in Requesting
          BY <1>1, <2>6, <4>1, <4>2, LastAnswer
      <4>5. n = conn /\ 1 \in 1 .. Len(inbox[n])
          BY <1>1, <1>2, <2>6, LatestLoop, ResultRead DEF ReadResult
      <4>6. PICK data : data = m.data
          OBVIOUS
      <4>7. data \in Answers(t)
          BY <4>1, <4>2, <4>5, <4>6 DEF Answers, IsAnswer
      <4>8. Besides(t)
          BY <1>11, <2>3, <4>3 DEF Besides
      <4>9. task'[t] = [pc |-> task[t].pc, phase |-> "ready", data |-> data]
          BY <4>3, <4>6
      <4> QED
        BY <1>5, <1>6, <1>10, <2>2, <3>1, <4>4, <4>7, <4>8, <4>9, FollowedReceived
    <3> QED
      BY <1>1, <2>6, <3>2, <3>3, ResultRead
  <2> QED
    BY <2>1, <2>4, <2>5, <2>6
<1>14. CASE \E t \in Tasks : ApplyList(t) \/ Import(t) \/ ImportEnds(t)
  <2>1. PICK t \in Tasks : ApplyList(t) \/ Import(t) \/ ImportEnds(t)
      BY <1>14
  <2>2. Besides(t)
    <3>1. home' = home
        BY <2>1 DEF ApplyList, Import, Imports, ImportEnds, ha
    <3> QED
      BY <1>1, <1>7, <2>1, <3>1, OwnSteps DEF Besides
  <2>3. CASE ApplyList(t)
      BY <1>1, <1>2, <1>5, <1>8, <2>2, <2>3, FollowedApply
  <2>4. CASE Import(t)
      BY <1>1, <1>5, <1>10, <2>2, <2>4, FollowedImport
  <2>5. CASE ImportEnds(t)
    <3>1. entries' = entries /\ mirror' = mirror /\ Importing(t) /\ In(task[t].data) = {}
        BY <2>5 DEF ImportEnds
    <3>2. task[t].pc # "listing" /\ \A e \in Entities : ~ Covers(t, e)
        BY <3>1 DEF Covers, Importing, Ready, In
    <3>3. task'[t].pc # "listing"
      <4>1. t = "main" => task'[t].pc # "listing"
          BY <1>1, <2>5, OwnSteps DEF Asking
      <4>2. t = "refresh" => task'[t] # Asking("listing")
          BY DEF Attentive, Noted
      <4>3. t = "refresh" => task'[t] \in {Idle("none"), Asking("listing")}
          BY <1>1, <1>8, <2>5, OwnSteps
      <4> QED
        BY <4>1, <4>2, <4>3 DEF Tasks, Idle
    <3> QED
      BY <1>5, <1>6, <1>10, <2>2, <3>1, <3>2, <3>3, FollowedElse
  <2> QED
    BY <2>1, <2>3, <2>4, <2>5
<1>15. CASE Subscribed
  <2>1. /\ task["main"].pc \in {"sub_state", "sub_registry"}
        /\ task'["main"] \in {Asking("sub_registry"), Idle("watching")}
        /\ task'["refresh"] = task["refresh"]
        /\ UNCHANGED <<ha, entries, registry>>
      BY <1>1, <1>15 DEF Subscribed, Ready, TaskTypes, Tasks
  <2>2. Besides("main") /\ "main" \in Tasks
      BY <1>7, <2>1 DEF Besides, Tasks, ha
  <2>3. task["main"].pc # "listing" /\ task'["main"].pc # "listing"
      BY <2>1 DEF Asking, Idle
  <2>4. \A e \in Entities : ~ Covers("main", e)
      BY <2>1 DEF Covers, Importing, Ready
  <2>5. entries' = entries /\ mirror' = mirror
      BY <2>1 DEF registry
  <2> QED
    BY <1>5, <1>6, <1>10, <2>2, <2>3, <2>4, <2>5, FollowedElse
<1>16. CASE UNCHANGED vars
  <2>1. UNCHANGED <<home, entries, mirror, task>>
      BY <1>16 DEF vars, ha, registry
  <2> QED
    BY <1>5, <1>6, <1>11, <2>1, FollowedIdle
<1> QED
  BY <1>2, <1>10, <1>12, <1>13, <1>14, <1>15, <1>16, Steps

\* No registry event is lost between the receive loop, the main task and the
\* refreshes: when all is quiet, the provider's copy of the registry is Home
\* Assistant's and every entity in it is mirrored (schedule_registry_refresh,
\* _refresh_pending, sync_registry and _initial_state_sync, interleaved).
THEOREM EventsFollowed == Spec => []RegistryFollowed
<1>1. Init => Followed
    BY DEF Init, Followed, Attentive
<1>2. Init => Connected /\ Exclusive
    BY ConnectedAlways
<1>3. Connected /\ Exclusive /\ Followed /\ [Next]_vars => (Connected /\ Exclusive /\ Followed)'
    BY ConnectedAlways, FollowedStep
<1>4. ASSUME Connected, Followed
      PROVE  RegistryFollowed
  <2> SUFFICES ASSUME Quiet, ~ lapse, ~ overlap
               PROVE  entries = In(home) /\ entries \subseteq In(mirror)
      BY DEF RegistryFollowed
  <2>1. /\ task["main"].pc = "watching" /\ task["refresh"].pc = "none" /\ link
        /\ inbox[conn] = <<>>
      BY DEF Quiet
  <2>2. NoMessage(conn, "registry")
    <3>1. Len(<<>>) = 0 /\ \A i \in 1 .. 0 : FALSE
        OBVIOUS
    <3> QED
      BY <2>1, <3>1 DEF NoMessage
  <2>3. Attentive
      BY <2>1, <2>2 DEF Attentive, Noted, Asking
  <2>4. \A t \in Tasks : task[t].pc \in {"watching", "none"}
      BY <2>1 DEF Tasks
  <2>5. entries = In(home)
      BY <1>4, <2>3, <2>4 DEF Followed, ListNow
  <2>6. \A t \in Tasks, e \in entries : ~ Covers(t, e)
      BY <2>4 DEF Covers, Importing, Ready
  <2>7. entries \subseteq Entities
      BY <1>4, Parts DEF Connected, Typed, StoreTypes
  <2> QED
    BY <1>4, <2>3, <2>5, <2>6, <2>7 DEF Followed, CoverNow, In
<1> QED
  BY <1>1, <1>2, <1>3, <1>4, PTL DEF Spec

=============================================================================
