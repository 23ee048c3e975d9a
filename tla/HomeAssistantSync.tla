-------------------------- MODULE HomeAssistantSync --------------------------
(***************************************************************************)
(* How the server follows Home Assistant: the connector with its main task *)
(* and receive loop (integrations/homeassistant/connector.py), the refresh *)
(* task (providers/registry_updates.py), the entity provider's copy of the *)
(* registry, and the mirror in memory and in SQLite that                   *)
(* core/entity_registry.py keeps.                                          *)
(*                                                                         *)
(* A step is what runs between two awaits.  Tasks suspend in requests and, *)
(* while they publish a state, in the dashboard that one of the event's    *)
(* subscribers sends.  Home Assistant is external: it answers requests and *)
(* reports changes in order.  The four kinds of registry are one, and each *)
(* state is the number of the change that made it (0: no such entity).     *)
(***************************************************************************)
EXTENDS Naturals, Sequences

CONSTANTS
    Entities,
    MaxConnections,  \* bound: connections in a behaviour
    MaxChanges,      \* bound: changes in Home Assistant
    RequestsFail     \* do requests fail on a connection that holds?

ASSUME SyncKnobs ==
    /\ MaxConnections \in Nat
    /\ MaxChanges \in Nat
    /\ RequestsFail \in BOOLEAN

VARIABLES
    home,        \* Home Assistant's entities
    clock,       \* the number of the latest change
    conn,        \* the number of the latest connection
    link,        \* is it up?
    subscribed,  \* the events Home Assistant reports on it
    inbox,       \* messages the receive loop of a connection has not read
    loop,        \* where the receive loop of each connection stands
    task,        \* where _run_connection and _refresh_pending stand
    pending,     \* _pending_event_types is not empty
    entries,     \* _registry_entries
    mirror,      \* EntityRegistry.entities and states
    disk,        \* the committed tables
    work,        \* the tables as the batch's connection sees them
    batch,       \* the task whose persistence_batch is open
    told,        \* history: the newest state events and imports have brought
    outrun,      \* history: entities with an event newer than a held snapshot
    overlap,     \* history: a task has outlived its connection
    lapse        \* history: a registry change this connection did not report

ha == <<home, clock>>
connection == <<conn, link, subscribed>>
registry == <<mirror, disk, work>>
brought == <<told, outrun>>
history == <<overlap, lapse>>
vars == <<ha, connection, inbox, loop, task, pending, entries, registry, batch,
          brought, history>>

-----------------------------------------------------------------------------
(* State                                                                   *)

Stamp == 0 .. MaxChanges + 1
States == [Entities -> Stamp]
Nothing == [e \in Entities |-> 0]
In(states) == {e \in Entities : states[e] # 0}

Tasks == {"main", "refresh"}

\* A request was sent, answered, or its future is set.
Requesting == {"listing", "reading", "sub_state", "sub_registry"}
Task ==
    [pc : {"down", "watching", "none", "starting"}, phase : {"none"},
     data : {Nothing}]
        \cup [pc : {"importing"}, phase : {"none"}, data : States]
        \cup [pc : Requesting, phase : {"asked", "answered"}, data : {Nothing}]
        \cup [pc : Requesting, phase : {"ready"}, data : States]

Message ==
    [type : {"result"}, task : Tasks \cup {"nobody"}, data : States]
        \cup [type : {"state"}, entity : Entities, stamp : Stamp]
        \cup [type : {"registry"}]

TypeOK ==
    /\ home \in States /\ clock \in Stamp
    /\ conn \in 0 .. MaxConnections
    /\ link \in BOOLEAN
    /\ subscribed \subseteq {"state", "registry"}
    /\ inbox \in [1 .. MaxConnections -> Seq(Message)]
    /\ loop \in [1 .. MaxConnections -> {"none", "reading", "sending", "over"}]
    /\ task \in [Tasks -> Task]
    /\ pending \in BOOLEAN
    /\ entries \subseteq Entities
    /\ mirror \in States /\ disk \in States /\ work \in States
    /\ batch \in Tasks \cup {"none"}
    /\ told \in States /\ outrun \subseteq Entities
    /\ overlap \in BOOLEAN /\ lapse \in BOOLEAN

Idle(pc) == [pc |-> pc, phase |-> "none", data |-> Nothing]
Asking(pc) == [pc |-> pc, phase |-> "asked", data |-> Nothing]

Init ==
    /\ home \in [Entities -> {0, 1}] /\ clock = 1
    /\ conn = 0 /\ link = FALSE /\ subscribed = {}
    /\ inbox = [n \in 1 .. MaxConnections |-> <<>>]
    /\ loop = [n \in 1 .. MaxConnections |-> "none"]
    /\ task = [t \in Tasks |-> Idle(IF t = "main" THEN "down" ELSE "none")]
    /\ pending = FALSE
    /\ entries = {}
    /\ mirror = Nothing /\ disk = Nothing /\ work = Nothing
    /\ batch = "none"
    /\ told = Nothing /\ outrun = {}
    /\ overlap = FALSE /\ lapse = FALSE

-----------------------------------------------------------------------------
(* Home Assistant                                                          *)

\* What is subscribed is sent.
Report(m) == IF m.type \in subscribed THEN <<m>> ELSE <<>>

Reports(messages) ==
    inbox' = IF link THEN [inbox EXCEPT ![conn] = @ \o messages] ELSE inbox

\* The main task's list was taken, but registry events are not subscribed.
Unreported ==
    /\ link
    /\ "registry" \notin subscribed
    /\ task["main"] # Asking("listing")

Changes(messages) ==
    /\ Reports(messages)
    /\ UNCHANGED <<connection, loop, task, pending, entries, registry, batch,
                   brought, overlap>>

StateChanges(e) ==
    /\ home[e] # 0
    /\ clock <= MaxChanges
    /\ clock' = clock + 1
    /\ home' = [home EXCEPT ![e] = clock + 1]
    /\ Changes(Report([type |-> "state", entity |-> e, stamp |-> clock + 1]))
    /\ UNCHANGED lapse

EntityAdded(e) ==
    /\ home[e] = 0
    /\ clock <= MaxChanges
    /\ clock' = clock + 1
    /\ home' = [home EXCEPT ![e] = clock + 1]
    /\ Changes(Report([type |-> "registry"])
                 \o Report([type |-> "state", entity |-> e, stamp |-> clock + 1]))
    /\ lapse' = (lapse \/ Unreported)

EntityRemoved(e) ==
    /\ home[e] # 0
    /\ clock <= MaxChanges
    /\ clock' = clock + 1
    /\ home' = [home EXCEPT ![e] = 0]
    /\ Changes(Report([type |-> "registry"])
                 \o Report([type |-> "state", entity |-> e, stamp |-> 0]))
    /\ lapse' = (lapse \/ Unreported)

\* A request is answered with what is true at that moment.
Answer(t) ==
    LET pc == task[t].pc IN
    /\ link
    /\ task[t].phase = "asked"
    /\ task' = [task EXCEPT ![t].phase = "answered"]
    /\ inbox' = [inbox EXCEPT ![conn] =
         Append(@, [type |-> "result", task |-> t,
                    data |-> IF pc \in {"listing", "reading"} THEN home ELSE Nothing])]
    /\ subscribed' = subscribed \cup (CASE pc = "sub_state" -> {"state"}
                                        [] pc = "sub_registry" -> {"registry"}
                                        [] OTHER -> {})
    /\ UNCHANGED <<ha, conn, link, loop, pending, entries, registry, batch,
                   brought, history>>

-----------------------------------------------------------------------------
(* Memory and tables                                                       *)

\* publish_state: EntityDiscoveredEvent and EntityStateChangedEvent; the
\* tables are written through the batch of holder, if there is one.
Write(states, holder) ==
    /\ mirror' = [e \in Entities |-> IF states[e] # 0 THEN states[e] ELSE mirror[e]]
    /\ work' = [e \in Entities |-> IF states[e] # 0 THEN states[e] ELSE work[e]]
    /\ disk' = IF holder = "none" THEN work' ELSE disk

\* handle_entity_removed: the tables through a connection of its own, which
\* finds the database locked as long as a batch is open (the event bus logs
\* the error).
Remove(gone) ==
    /\ mirror' = [e \in Entities |-> IF e \in gone THEN 0 ELSE mirror[e]]
    /\ \/ /\ batch = "none"
          /\ work' = [e \in Entities |-> IF e \in gone THEN 0 ELSE work[e]]
          /\ disk' = work'
       \/ /\ batch # "none"
          /\ UNCHANGED <<work, disk>>

-----------------------------------------------------------------------------
(* The receive loop                                                        *)

Reads(n, type) ==
    /\ loop[n] = "reading"
    /\ inbox[n] # <<>>
    /\ Head(inbox[n]).type = type
    /\ inbox' = [inbox EXCEPT ![n] = Tail(@)]

\* handle_result: the future is set and its task runs later, unless the
\* request has been forgotten.
ReadResult(n) ==
    LET m == Head(inbox[n]) IN
    /\ Reads(n, "result")
    /\ task' = IF m.task = "nobody" THEN task
               ELSE [task EXCEPT ![m.task].phase = "ready", ![m.task].data = m.data]
    /\ UNCHANGED <<ha, connection, loop, pending, entries, registry, batch,
                   brought, history>>

Ready(t, pc) == task[t].pc = pc /\ task[t].phase = "ready"

\* The states are here, or some of them are imported.
Importing(t) == Ready(t, "reading") \/ task[t].pc = "importing"

\* What has come, by an event or an import.
Brings(states) ==
    told' = [e \in Entities |-> IF states[e] > told[e] THEN states[e] ELSE told[e]]

\* A task holds an older state of e, to be imported yet.
Outrun(e, stamp) ==
    \E t \in Tasks : Importing(t) /\ task[t].data[e] \in 1 .. stamp - 1

\* state_changed: published, whatever imports are under way; a removal is
\* only logged.
ReadState(n) ==
    LET m == Head(inbox[n]) IN
    /\ Reads(n, "state")
    /\ Write([Nothing EXCEPT ![m.entity] = m.stamp], batch)
    /\ Brings([Nothing EXCEPT ![m.entity] = m.stamp])
    /\ outrun' = IF m.stamp = 0 THEN outrun
                 ELSE IF Outrun(m.entity, m.stamp) THEN outrun \cup {m.entity}
                 ELSE outrun \ {m.entity}
    /\ \E pc \in IF m.stamp = 0 THEN {"reading"} ELSE {"reading", "sending"} :
         loop' = [loop EXCEPT ![n] = pc]
    /\ UNCHANGED <<ha, connection, task, pending, entries, batch, history>>

DashboardSent(n) ==
    /\ loop[n] = "sending"
    /\ loop' = [loop EXCEPT ![n] = "reading"]
    /\ UNCHANGED <<ha, connection, inbox, task, pending, entries, registry, batch,
                   brought, history>>

\* Registry event: noted, and a refresh is started unless one is running.
ReadRegistry(n) ==
    /\ Reads(n, "registry")
    /\ pending' = TRUE
    /\ IF task["refresh"].pc = "none"
         THEN task' = [task EXCEPT !["refresh"] = Idle("starting")]
         ELSE UNCHANGED task
    /\ UNCHANGED <<ha, connection, loop, entries, registry, batch, brought, history>>

\* ConnectionClosed, once what was received is read.
LoopEnds(n) ==
    /\ loop[n] = "reading"
    /\ inbox[n] = <<>>
    /\ n # conn \/ ~ link
    /\ loop' = [loop EXCEPT ![n] = "over"]
    /\ UNCHANGED <<ha, connection, inbox, task, pending, entries, registry, batch,
                   brought, history>>

-----------------------------------------------------------------------------
(* Requests of a task                                                      *)

\* send_request of task t; without a connection it raises at once.  (On a
\* link that is down it is never answered.)
Asks(t, pc) ==
    IF t = "refresh" /\ task["main"].pc = "down" THEN Idle("none") ELSE Asking(pc)

\* The results of failed requests are nobody's.
Unclaimed == [type |-> "result", task |-> "nobody", data |-> Nothing]
Forgotten(m, failed) == m.type = "result" /\ m.task \in failed

Forget(failed) ==
    inbox' = [n \in 1 .. MaxConnections |->
                [i \in 1 .. Len(inbox[n]) |->
                   IF Forgotten(inbox[n][i], failed) THEN Unclaimed ELSE inbox[n][i]]]

Waiting(t) == task[t].phase \in {"asked", "answered"}

\* The refresh ends with an exception; what it had taken up is not put back.
RefreshFails ==
    /\ Waiting("refresh")
    /\ RequestsFail \/ ~ link
    /\ task' = [task EXCEPT !["refresh"] = Idle("none")]
    /\ Forget({"refresh"})
    /\ lapse' = TRUE
    /\ UNCHANGED <<ha, connection, loop, pending, entries, registry, batch, brought,
                   overlap>>

\* A request of the main task times out or fails, or its receive loop is
\* over: the socket is closed and all outstanding requests fail.
ConnectionFails ==
    LET failed == {"main"} \cup {t \in {"refresh"} : Waiting(t)} IN
    /\ \/ Waiting("main") /\ (RequestsFail \/ ~ link)
       \/ task["main"].pc = "watching" /\ loop[conn] = "over"
    /\ link' = FALSE
    /\ subscribed' = {}
    /\ task' = [t \in Tasks |->
                  IF t = "main" THEN Idle("down")
                  ELSE IF t \in failed THEN Idle("none") ELSE task[t]]
    /\ Forget(failed)
    /\ UNCHANGED <<ha, conn, loop, pending, entries, registry, batch, brought, history>>

-----------------------------------------------------------------------------
(* The life of the connection                                              *)

\* The moment authenticate returns; until then, and it may wait for ever, the
\* connector is as if down (connected is not set, nobody reads).  Everything
\* that could run has run since the last connection, and what is left of it
\* waits for a dashboard to be sent.
Connect ==
    /\ task["main"].pc = "down"
    /\ conn < MaxConnections
    /\ task["refresh"].pc \in {"none", "importing"}
    /\ \A n \in 1 .. conn : loop[n] # "reading"
    /\ conn' = conn + 1
    /\ link' = TRUE
    /\ loop' = [loop EXCEPT ![conn + 1] = "reading"]
    /\ task' = [task EXCEPT !["main"] = Asking("listing")]
    /\ overlap' = (overlap \/ task["refresh"].pc # "none"
                     \/ \E n \in 1 .. conn : loop[n] = "sending")
    /\ lapse' = FALSE
    /\ UNCHANGED <<ha, subscribed, inbox, pending, entries, registry, batch, brought>>

\* Some of the messages under way arrive.
LinkLost ==
    /\ link
    /\ link' = FALSE
    /\ subscribed' = {}
    /\ \E k \in 0 .. Len(inbox[conn]) :
         inbox' = [inbox EXCEPT ![conn] = SubSeq(@, 1, k)]
    /\ UNCHANGED <<ha, conn, loop, task, pending, entries, registry, batch, brought,
                   history>>

\* The server stops, in whatever it does, and loads its tables: load.
Restart ==
    /\ conn \in 1 .. MaxConnections - 1
    /\ link' = FALSE
    /\ subscribed' = {}
    /\ inbox' = [n \in 1 .. MaxConnections |-> <<>>]
    /\ loop' = [n \in 1 .. MaxConnections |-> IF n <= conn THEN "over" ELSE "none"]
    /\ task' = [t \in Tasks |-> Idle(IF t = "main" THEN "down" ELSE "none")]
    /\ pending' = FALSE
    /\ entries' = {}
    /\ mirror' = disk
    /\ work' = disk
    /\ batch' = "none"
    /\ told' = Nothing /\ outrun' = {}
    /\ overlap' = FALSE
    /\ UNCHANGED <<ha, conn, disk, lapse>>

-----------------------------------------------------------------------------
(* Synchronisation                                                         *)

\* The entities the list is compared with.
Known == IF entries = {} THEN In(mirror) ELSE entries

\* sync_registry: what is not listed any more is removed; then the states
\* are asked for.
ApplyList(t) ==
    LET listed == In(task[t].data) IN
    /\ Ready(t, "listing")
    /\ Remove(Known \ listed)
    /\ entries' = listed
    /\ task' = [task EXCEPT ![t] = Asks(t, "reading")]
    /\ UNCHANGED <<ha, connection, inbox, loop, pending, batch, brought, history>>

\* persistence_batch joins the batch that is open.
Holder(t) == IF Ready(t, "reading") /\ batch = "none" THEN t ELSE batch

\* Mutant: the list of what is imported is kept.
ImportsKeepList(t, S) ==
    /\ batch' = Holder(t)
    /\ Brings([e \in Entities |-> IF e \in S THEN task[t].data[e] ELSE 0])
    /\ outrun' = {e \in outrun : e \in S => task[t].data[e] < told[e]}
    /\ task' = [task EXCEPT ![t].pc = "importing"]
    /\ UNCHANGED <<ha, connection, inbox, loop, pending, entries, history>>

\* import_states imports those of S, and a dashboard's sending suspends.
Imports(t, S) ==
    /\ batch' = Holder(t)
    /\ Brings([e \in Entities |-> IF e \in S THEN task[t].data[e] ELSE 0])
    /\ outrun' = {e \in outrun : e \in S => task[t].data[e] < told[e]}
    /\ task' = [task EXCEPT ![t] =
         [pc |-> "importing", phase |-> "none",
          data |-> [e \in Entities |-> IF e \in S THEN 0 ELSE @.data[e]]]]
    /\ UNCHANGED <<ha, connection, inbox, loop, pending, entries, history>>

\* Mutant: entities that are known already keep their state.
ImportNew(t) ==
    /\ Importing(t)
    /\ \E S \in SUBSET In(task[t].data) \ {{}} :
         /\ Imports(t, S)
         /\ Write([e \in Entities |-> IF e \in S /\ mirror[e] = 0
                                        THEN task[t].data[e] ELSE 0], Holder(t))

Import(t) ==
    /\ Importing(t)
    /\ \E S \in SUBSET In(task[t].data) \ {{}} :
         /\ Imports(t, S)
         /\ Write([e \in Entities |-> IF e \in S THEN task[t].data[e] ELSE 0],
                  Holder(t))

\* Mutant: the batch is closed without a commit.
CommitsNot(t) ==
    IF batch = t
      THEN batch' = "none" /\ UNCHANGED disk
      ELSE UNCHANGED <<batch, disk>>

\* The batch is committed by the task that opened it.
Commits(t) ==
    IF batch = t
      THEN batch' = "none" /\ disk' = work
      ELSE UNCHANGED <<batch, disk>>

\* Mutant: the refresh looks at the events it started with only.
ImportEndsOnce(t) ==
    /\ Importing(t)
    /\ In(task[t].data) = {}
    /\ Commits(t)
    /\ task' = [task EXCEPT ![t] = IF t = "main" THEN Asking("sub_state") ELSE Idle("none")]
    /\ pending' = (t = "main" /\ pending)
    /\ UNCHANGED <<ha, connection, inbox, loop, entries, mirror, work, brought, history>>

\* Mutant: the pending events are not swapped out.
ImportEndsAgain(t) ==
    /\ Importing(t)
    /\ In(task[t].data) = {}
    /\ Commits(t)
    /\ task' = [task EXCEPT ![t] = IF t = "main" THEN Asking("sub_state")
                                    ELSE IF pending THEN Asks(t, "listing") ELSE Idle("none")]
    /\ UNCHANGED <<ha, connection, inbox, loop, pending, entries, mirror, work, brought, history>>

\* _initial_state_sync returns: the main task subscribes, the refresh looks
\* for events that came meanwhile.
ImportEnds(t) ==
    /\ Importing(t)
    /\ In(task[t].data) = {}
    /\ Commits(t)
    /\ \/ /\ t = "main"
          /\ task' = [task EXCEPT ![t] = Asking("sub_state")]
          /\ UNCHANGED pending
       \/ /\ t = "refresh"
          /\ task' = [task EXCEPT ![t] =
                        IF pending THEN Asks(t, "listing") ELSE Idle("none")]
          /\ pending' = FALSE
    /\ UNCHANGED <<ha, connection, inbox, loop, entries, mirror, work, brought, history>>

Subscribed ==
    /\ Ready("main", "sub_state") \/ Ready("main", "sub_registry")
    /\ task' = [task EXCEPT !["main"] =
         IF Ready("main", "sub_state") THEN Asking("sub_registry") ELSE Idle("watching")]
    /\ UNCHANGED <<ha, connection, inbox, loop, pending, entries, registry, batch,
                   brought, history>>

RefreshStarts ==
    /\ task["refresh"].pc = "starting"
    /\ pending' = FALSE
    /\ task' = [task EXCEPT !["refresh"] = Asks("refresh", "listing")]
    /\ UNCHANGED <<ha, connection, inbox, loop, entries, registry, batch, brought,
                   history>>

-----------------------------------------------------------------------------
(* The specification                                                       *)

LoopStep(n) ==
    \/ ReadResult(n) \/ ReadState(n) \/ DashboardSent(n) \/ ReadRegistry(n)
    \/ LoopEnds(n)

TaskStep(t) ==
    ApplyList(t) \/ Import(t) \/ ImportEnds(t)

Next ==
    \/ \E e \in Entities : StateChanges(e) \/ EntityAdded(e) \/ EntityRemoved(e)
    \/ \E n \in 1 .. conn : LoopStep(n)
    \/ \E t \in Tasks : Answer(t) \/ TaskStep(t)
    \/ Subscribed \/ RefreshStarts \/ RefreshFails \/ ConnectionFails
    \/ Connect \/ LinkLost \/ Restart

\* Home Assistant answers, the loop serves every ready task, dashboards are
\* sent or fail, and requests on a lost link time out.  Nothing has to
\* change, and no link has to fail.
Fairness ==
    /\ \A n \in 1 .. MaxConnections : WF_vars(n <= conn /\ LoopStep(n))
    /\ \A t \in Tasks : WF_vars(Answer(t)) /\ WF_vars(TaskStep(t))
    /\ WF_vars(Subscribed) /\ WF_vars(RefreshStarts)
    /\ WF_vars(~ link /\ RefreshFails)
    /\ WF_vars((~ link \/ task["main"].pc = "watching") /\ ConnectionFails)

Spec == Init /\ [][Next]_vars

FairSpec == Spec /\ Fairness

-----------------------------------------------------------------------------
(* Properties                                                              *)

\* The connection is watched and nothing is under way.
Quiet ==
    /\ task["main"].pc = "watching"
    /\ task["refresh"].pc = "none"
    /\ link
    /\ loop[conn] = "reading"
    /\ inbox[conn] = <<>>

\* No registry event is lost between the tasks: when all is quiet the copy of
\* the registry is Home Assistant's and everything in it is mirrored, however
\* events, refreshes and imports interleaved.
RegistryFollowed ==
    Quiet /\ ~ lapse /\ ~ overlap =>
      /\ entries = In(home)
      /\ entries \subseteq In(mirror)

\* The mirror keeps the newest state of an entity that events and imports have
\* brought: neither an event that was under way nor the snapshot of a refresh
\* takes it back.  There is one exception, an event read while a task holds an
\* older snapshot of its entity (in import_states, or about to begin): that
\* import comes last.  It lasts until the next event or import of the entity.
NewestKept ==
    overlap \/ \A e \in Entities \ outrun : mirror[e] = 0 \/ mirror[e] >= told[e]

\* Memory and tables agree whenever no batch is open, so that a restart loses
\* only the batch it interrupts.
DiskMatches == batch = "none" /\ ~ overlap => disk = mirror

\* The initial synchronisation and every refresh come to an end: no task waits
\* for an answer that only another waiting task could read, and a refresh does
\* not go on for the events it has dealt with.
SyncEnds ==
    /\ task["main"].pc \notin {"down", "watching"}
         ~> task["main"].pc \in {"down", "watching"}
    /\ task["refresh"].pc # "none" ~> task["refresh"].pc = "none"
=============================================================================
