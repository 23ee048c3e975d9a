------------------------- MODULE FirmwareDeployment -------------------------
(***************************************************************************)
(* Over-the-air updates of an endpoint: the deployments of the server      *)
(* (services/firmware_deployment_service.py and what app_factory.py calls  *)
(* of it), the registration that completes or retries them, and the        *)
(* updater of the endpoint (main/endpoint_ota.cpp, app_main.cpp).          *)
(*                                                                         *)
(* Deployments of different endpoints share only the published image, so   *)
(* there is one endpoint.  Deployment r is the r-th; the newest is the one *)
(* the server keeps in deployments[endpoint_id].  Versions are numbers:    *)
(* is_upgrade compares them and 0 stands for "none".                       *)
(***************************************************************************)
EXTENDS ConnectionManager, Sequences

CONSTANTS
    Panel,        \* the one endpoint
    Versions,     \* the versions images are built for
    Factory,      \* the version the endpoint was flashed with
    MaxRequests,  \* bound: deployments in a behaviour
    SlowSends     \* can an awaited send to the panel suspend?

ASSUME PanelAssumption == Endpoints = {Panel}
ASSUME VersionsAssumption ==
    Versions \subseteq Nat \ {0} /\ Factory \in Versions
ASSUME DeploymentKnobs == MaxRequests \in Nat /\ SlowSends \in BOOLEAN

VARIABLES
    online,      \* Endpoint.connected in the registry
    published,   \* the version firmware_service serves
    log,         \* the deployments, oldest first
    timer,       \* the deployment whose _mark_unacknowledged sleeps
    handler,     \* where websocket_endpoint stands for each socket
    down,        \* firmware.update commands on their way to the endpoint
    up,          \* messages of the endpoint the handler has not read yet
    image,       \* the two application slots of the endpoint
    ota,         \* update_active and the update task
    status,      \* the one firmware status waiting to be flushed
    started      \* history: deployments the endpoint has started

server == <<connections, online, published, log, timer, handler>>
endpoint == <<image, ota, status, started>>
vars == <<server, endpoint, ws, down, up>>

-----------------------------------------------------------------------------
(* State                                                                   *)

Deployment ==
    [version : Versions, attempts : 1 .. MaxRequests,
     status : {"sent", "unacknowledged", "accepted", "restarting", "failed",
               "completed"},
     via : Sockets \cup {NoSocket}]

Handler ==
    [pc : {"unregistered", "connecting", "greeting", "idle", "closing", "done"},
     running : Versions \cup {0}, request : {0}]
        \cup [pc : {"waiting"}, running : Versions, request : {0}]
        \cup [pc : {"deploying"}, running : {0}, request : 1 .. MaxRequests]

Status == [request : 0 .. MaxRequests,
           status : {"accepted", "restarting", "failed", "none"}]
NoStatus == [request |-> 0, status |-> "none"]

TypeOK ==
    /\ ConnectionTypeOK
    /\ online \in BOOLEAN
    /\ published \in Versions \cup {0}
    /\ log \in Seq(Deployment) /\ Len(log) <= MaxRequests
    /\ timer \in 0 .. MaxRequests
    /\ handler \in [Sockets -> Handler]
    /\ down \in [Sockets -> Seq([request : 1 .. MaxRequests,
                                 version : Versions])]
    /\ up \in [Sockets -> Seq([register : Versions]
                                \cup Status)]
    /\ image \in [running : Versions, fallback : Versions \cup {0},
                  booted : BOOLEAN]
    /\ ota \in [phase : {"idle", "leaked", "creating", "settling", "installing",
                         "restarting", "failing"},
                request : 0 .. MaxRequests, version : Versions \cup {0},
                fetched : Versions \cup {0}]
    /\ status \in Status
    /\ started \subseteq 1 .. MaxRequests

At(pc) == [pc |-> pc, running |-> 0, request |-> 0]
NoUpdate(phase) == [phase |-> phase, request |-> 0, version |-> 0, fetched |-> 0]

Init ==
    /\ ConnectionInit
    /\ online = FALSE
    /\ published = 0
    /\ log = <<>>
    /\ timer = 0
    /\ handler = [s \in Sockets |-> At("unregistered")]
    /\ down = [s \in Sockets |-> <<>>]
    /\ up = [s \in Sockets |-> <<>>]
    /\ image = [running |-> Factory, fallback |-> 0, booted |-> FALSE]
    /\ ota = NoUpdate("idle")
    /\ status = NoStatus
    /\ started = {}

-----------------------------------------------------------------------------
(* Helpers                                                                 *)

Last == Len(log)
Sending == {r \in 1 .. Last : log[r].via # NoSocket}

\* When a new event is served (see Intercom): unless sends can suspend, a
\* task that called one runs on first, and the tasks a dead link wakes run
\* before what comes after it.
MayBegin ==
    /\ \/ SlowSends
       \/ Sending = {} /\ \A s \in Sockets : handler[s].pc # "greeting"
    /\ \A r \in Sending : ws[log[r].via] # "dead"

\* deploy's first condition
Deployable == online /\ Reachable(Panel)

\* deploy up to its await: the newest deployment, and the command on the wire.
Deploy(v) ==
    LET s == connections[Panel]
        r == Last + 1 IN
    /\ Deployable
    /\ log' = Append(log, [version |-> v, status |-> "sent", via |-> s,
                           attempts |-> IF log = <<>> THEN 1
                                        ELSE log[Last].attempts + 1])
    /\ down' = IF ws[s] = "open"
                 THEN [down EXCEPT ![s] = Append(@, [request |-> r, version |-> v])]
                 ELSE down

\* send_firmware_status: lost if the mutex is not had within 100 ms.
Report(r, what) == status' \in {status, [request |-> r, status |-> what]}

-----------------------------------------------------------------------------
(* The administrator                                                       *)

Publish(v) ==
    /\ MayBegin
    /\ published # v
    /\ published' = v
    /\ UNCHANGED <<connections, online, log, timer, handler, endpoint, ws, down, up>>

\* POST /firmware/endpoint/deploy
AdminDeploys ==
    /\ MayBegin
    /\ published # 0
    /\ Last < MaxRequests
    /\ Deploy(published)
    /\ UNCHANGED <<connections, online, published, timer, handler, endpoint, ws, up>>

-----------------------------------------------------------------------------
(* deploy after its await                                                  *)

\* The per-socket lock keeps the sends of a socket in order.
FirstOnSocket(r) ==
    /\ r \in Sending
    /\ \A q \in Sending : log[q].via = log[r].via => q >= r

\* Mutant: the handler keeps the finished deployment.
HandlerKeepsRequest(r, pc) ==
    handler' = [s \in Sockets |->
                  IF handler[s].request = r
                    THEN [handler[s] EXCEPT !.pc = pc] ELSE handler[s]]

\* The handler that waits for deployment r, if one does, goes on to pc.
HandlerGoesOn(r, pc) ==
    handler' = [s \in Sockets |->
                  IF handler[s].request = r THEN At(pc) ELSE handler[s]]

\* Mutant: the acknowledgement timer is not restarted.
DeployReturnsUntimed(r) ==
    /\ FirstOnSocket(r)
    /\ Delivered(log[r].via)
    /\ log' = [log EXCEPT ![r].via = NoSocket]
    /\ HandlerGoesOn(r, "idle")
    /\ timer' = 0
    /\ UNCHANGED <<online, published, endpoint, ws, down, up>>

\* The command was sent: whatever timer runs is cancelled, r's starts.
DeployReturns(r) ==
    /\ FirstOnSocket(r)
    /\ Delivered(log[r].via)
    /\ log' = [log EXCEPT ![r].via = NoSocket]
    /\ timer' = r
    /\ HandlerGoesOn(r, "idle")
    /\ UNCHANGED <<online, published, endpoint, ws, down, up>>

\* It was not: deploy raises ConnectionError; websocket_endpoint does not
\* catch it and its connection is no longer current.
DeployFails(r) ==
    /\ FirstOnSocket(r)
    /\ Raised(log[r].via)
    /\ log' = [log EXCEPT ![r].via = NoSocket, ![r].status = "failed"]
    /\ HandlerGoesOn(r, "done")
    /\ UNCHANGED <<online, published, timer, endpoint, ws, down, up>>

\* Mutant: the missing acknowledgement is not recorded.
AcknowledgementTimeoutSilent ==
    /\ MayBegin
    /\ timer # 0
    /\ timer' = 0
    /\ UNCHANGED <<connections, online, published, log, handler, endpoint, ws, down, up>>

\* _mark_unacknowledged
AcknowledgementTimeout ==
    /\ MayBegin
    /\ timer # 0
    /\ log' = IF timer = Last /\ log[Last].status = "sent"
                THEN [log EXCEPT ![Last].status = "unacknowledged"]
                ELSE log
    /\ timer' = 0
    /\ UNCHANGED <<connections, online, published, handler, endpoint, ws, down, up>>

-----------------------------------------------------------------------------
(* A registration                                                          *)

\* mark_running
MarkRunning(v) ==
    IF log # <<>> /\ log[Last].version = v
      THEN /\ log' = [log EXCEPT ![Last].status = "completed"]
           /\ timer' = 0
      ELSE UNCHANGED <<log, timer>>

\* dispatch registers the endpoint, mark_running looks at its version, and
\* the handler awaits the send of endpoint.registered.
Greet(s, v) ==
    /\ online' = TRUE
    /\ MarkRunning(v)
    /\ handler' = [handler EXCEPT ![s] = [pc |-> "greeting", running |-> v,
                                          request |-> 0]]

\* A socket that is replaced is closed first, which is awaited.
Register(s) ==
    LET v == Head(up[s]).register IN
    /\ MayBegin
    /\ handler[s].pc = "unregistered"
    /\ up[s] # <<>>
    /\ Connect(s)
    /\ up' = [up EXCEPT ![s] = Tail(@)]
    /\ \/ /\ Reachable(Panel)
          /\ handler' = [handler EXCEPT ![s] = [pc |-> "connecting", running |-> v,
                                                request |-> 0]]
          /\ UNCHANGED <<online, log, timer>>
       \/ /\ ~ Reachable(Panel)
          /\ Greet(s, v)
    /\ UNCHANGED <<published, endpoint, ws, down>>

PreviousClosed(s) ==
    /\ MayBegin
    /\ handler[s].pc = "connecting"
    /\ Greet(s, handler[s].running)
    /\ UNCHANGED <<connections, published, endpoint, ws, down, up>>

\* retry_after_registration's condition
Retries(running) ==
    /\ log # <<>> /\ published # 0
    /\ running # log[Last].version
    /\ published = log[Last].version
    /\ log[Last].status \in {"unacknowledged", "failed"}
    /\ log[Last].attempts < 3

\* Registered: nothing to retry, or a quarter of a second's wait before it.
Greeted(s) ==
    /\ handler[s].pc = "greeting"
    /\ ws[s] # "dead"
    /\ \/ /\ ~ Retries(handler[s].running)
          /\ handler' = [handler EXCEPT ![s] = At("idle")]
       \/ /\ Retries(handler[s].running)
          /\ handler' = [handler EXCEPT ![s].pc = "waiting", ![s].running = published]
    /\ UNCHANGED <<connections, online, published, log, timer, endpoint, ws, down, up>>

\* The wait is over; nothing is looked at again but deploy's own condition.
Retry(s) ==
    /\ MayBegin
    /\ handler[s].pc = "waiting"
    /\ \/ /\ Last < MaxRequests
          /\ Deploy(handler[s].running)
          /\ handler' = [handler EXCEPT ![s] = [pc |-> "deploying", running |-> 0,
                                                request |-> Last + 1]]
          /\ UNCHANGED <<connections, online>>
       \/ /\ ~ Deployable
          /\ handler' = [handler EXCEPT ![s] = At("done")]
          /\ UNCHANGED <<connections, online, log, down>>
    /\ UNCHANGED <<published, timer, endpoint, ws, up>>

\* The receive loop ends, or the greeting cannot be sent; finally.  The handler
\* of the current socket goes on to close_endpoint, which tells the other party
\* of a call, however long that send takes.
HandlerEnds(s) ==
    /\ MayBegin \/ handler[s].pc = "greeting"
    /\ \/ handler[s].pc \in {"unregistered", "idle"} /\ up[s] = <<>> /\ ws[s] = "dead"
       \/ handler[s].pc = "idle" /\ up[s] # <<>> /\ ~ IsCurrent(s)
       \/ handler[s].pc = "greeting" /\ ws[s] = "dead"
    /\ handler' = [handler EXCEPT ![s] = At(IF IsCurrent(s) THEN "closing" ELSE "done")]
    /\ Disconnect(s)
    /\ UNCHANGED <<online, published, log, timer, endpoint, ws, down, up>>

\* The endpoint is marked offline, even if it has registered anew meanwhile.
MarkOffline(s) ==
    /\ handler[s].pc = "closing"
    /\ handler' = [handler EXCEPT ![s] = At("done")]
    /\ online' = FALSE
    /\ UNCHANGED <<connections, published, log, timer, endpoint, ws, down, up>>

LossNoticed(s) ==
    /\ MayBegin
    /\ NoticeLoss(s)
    /\ UNCHANGED <<server, endpoint, down, up>>

\* Mutant: the request id is not compared.
UpdateAny(m) ==
    /\ log # <<>>
    /\ log' = [log EXCEPT ![Last].status = m.status]
    /\ timer' = 0

\* firmware.status: update, which ignores a request that is not the newest.
Update(m) ==
    IF m.request = Last
      THEN /\ log' = [log EXCEPT ![Last].status = m.status]
           /\ timer' = 0
      ELSE UNCHANGED <<log, timer>>

\* Mutant: a socket that was replaced is still listened to.
ReceiveStatusStale(s) ==
    /\ MayBegin
    /\ handler[s].pc = "idle"
    /\ up[s] # <<>>
    /\ Update(Head(up[s]))
    /\ up' = [up EXCEPT ![s] = Tail(@)]
    /\ UNCHANGED <<connections, online, published, handler, endpoint, ws, down>>

ReceiveStatus(s) ==
    /\ MayBegin
    /\ handler[s].pc = "idle"
    /\ up[s] # <<>>
    /\ IsCurrent(s)
    /\ Update(Head(up[s]))
    /\ up' = [up EXCEPT ![s] = Tail(@)]
    /\ UNCHANGED <<connections, online, published, handler, endpoint, ws, down>>

-----------------------------------------------------------------------------
(* The endpoint                                                            *)

\* app_main: with Wi-Fi in time the image is confirmed; without, the
\* endpoint runs on and connects later.
Boots ==
    /\ MayBegin
    /\ ~ image.booted
    /\ \E confirmed \in BOOLEAN :
         image' = [image EXCEPT !.booted = TRUE,
                                !.fallback = IF confirmed THEN 0 ELSE @]
    /\ UNCHANGED <<server, ota, status, started, ws, down, up>>

PanelConnects(s) ==
    /\ MayBegin
    /\ image.booted
    /\ OpenSocket(s)
    /\ up' = [up EXCEPT ![s] = <<[register |-> image.running]>>]
    /\ UNCHANGED <<server, endpoint, down>>

LinkLost(s) ==
    /\ MayBegin
    /\ LoseSocket(s)
    /\ down' = [down EXCEPT ![s] = <<>>]
    /\ UNCHANGED <<server, endpoint, up>>

\* Mutant: any version is installed.
IsUpgradeAlways(v) == TRUE

\* version_policy: is_upgrade(running, candidate)
IsUpgrade(v) == v > image.running

\* firmware.update: ota::start up to the creation of its task.  The claim of
\* update_active is not taken back when the version is no upgrade; it is when
\* there is no memory.
ReceiveCommand(s) ==
    LET c == Head(down[s]) IN
    /\ MayBegin
    /\ ws[s] = "open"
    /\ down[s] # <<>>
    /\ ota.phase # "creating"
    /\ down' = [down EXCEPT ![s] = Tail(@)]
    /\ \/ /\ ota.phase = "idle"
          /\ IsUpgrade(c.version)
          /\ ota' = [phase |-> "creating", request |-> c.request,
                     version |-> c.version, fetched |-> 0]
          /\ started' = started \cup {c.request}
          /\ Report(c.request, "accepted")
       \/ /\ ota.phase = "idle"
          /\ ota' \in {NoUpdate(p) :
                         p \in IF IsUpgrade(c.version) THEN {"idle"} ELSE {"leaked"}}
          /\ Report(c.request, "failed")
          /\ UNCHANGED started
       \/ /\ ota.phase # "idle"
          /\ Report(c.request, "failed")
          /\ UNCHANGED <<ota, started>>
    /\ UNCHANGED <<server, image, ws, up>>

\* xTaskCreate
TaskCreated ==
    /\ MayBegin
    /\ ota.phase = "creating"
    /\ ota' = [ota EXCEPT !.phase = "settling"]
    /\ UNCHANGED <<server, image, status, started, ws, down, up>>

\* It fails after the command was reported accepted: command_rejected.
TaskRefused ==
    /\ MayBegin
    /\ ota.phase = "creating"
    /\ ota' = NoUpdate("idle")
    /\ Report(ota.request, "failed")
    /\ UNCHANGED <<server, image, started, ws, down, up>>

\* heartbeat_task: a registered endpoint flushes the waiting status unless
\* the update is downloading.
FlushStatus(s) ==
    /\ MayBegin
    /\ ws[s] = "open"
    /\ handler[s].pc \notin {"unregistered", "connecting", "done"}
    /\ status # NoStatus
    /\ ota.phase # "installing"
    /\ up' = [up EXCEPT ![s] = Append(@, status)]
    /\ status' = NoStatus
    /\ UNCHANGED <<server, image, ota, started, ws, down>>

\* update_task opens the image of that moment.
InstallBegins ==
    /\ MayBegin
    /\ ota.phase = "settling"
    /\ ota' = [ota EXCEPT !.phase = "installing", !.fetched = published]
    /\ UNCHANGED <<server, image, status, started, ws, down, up>>

InstallFails ==
    /\ MayBegin
    /\ ota.phase = "installing"
    /\ ota' = NoUpdate("failing")
    /\ Report(ota.request, "failed")
    /\ UNCHANGED <<server, image, started, ws, down, up>>

\* update_active is cleared last.
UpdateOver ==
    /\ MayBegin
    /\ ota.phase = "failing"
    /\ ota' = NoUpdate("idle")
    /\ UNCHANGED <<server, image, status, started, ws, down, up>>

\* Mutant: size and digest are not checked against the command.
VerifiedAny == TRUE

\* Size, digest and version are those of the command; esp_ota_begin refuses
\* as long as the running image is not confirmed.
Verified == ota.fetched = ota.version /\ image.fallback = 0

InstallVerified ==
    /\ MayBegin
    /\ ota.phase = "installing"
    /\ Verified
    /\ ota.fetched # 0
    /\ IsUpgrade(ota.fetched)
    /\ ota' = [ota EXCEPT !.phase = "restarting"]
    /\ Report(ota.request, "restarting")
    /\ UNCHANGED <<server, image, started, ws, down, up>>

\* A restart after an update, a crash or a loss of power.  The boot loader
\* starts the selected image, and goes back from one that was never confirmed.
Restarts ==
    /\ MayBegin
    /\ image' =
         IF ota.phase = "restarting"
           THEN [running |-> ota.fetched, fallback |-> image.running, booted |-> FALSE]
         ELSE IF image.fallback # 0
           THEN [running |-> image.fallback, fallback |-> 0, booted |-> FALSE]
         ELSE [image EXCEPT !.booted = FALSE]
    /\ ota' = NoUpdate("idle")
    /\ status' = NoStatus
    /\ ws' = [s \in Sockets |-> IF ws[s] = "open" THEN "lost" ELSE ws[s]]
    /\ down' = [s \in Sockets |-> <<>>]
    /\ UNCHANGED <<server, started, up>>

-----------------------------------------------------------------------------
(* The specification                                                       *)

HandlerStep(s) ==
    \/ Register(s) \/ PreviousClosed(s) \/ Greeted(s) \/ Retry(s)
    \/ HandlerEnds(s) \/ MarkOffline(s) \/ LossNoticed(s) \/ ReceiveStatus(s)

DeployStep(r) == DeployReturns(r) \/ DeployFails(r)

PanelStep ==
    \/ Boots \/ TaskCreated \/ TaskRefused \/ Restarts
    \/ InstallBegins \/ InstallFails \/ InstallVerified \/ UpdateOver
    \/ \E s \in Sockets :
         PanelConnects(s) \/ LinkLost(s) \/ ReceiveCommand(s) \/ FlushStatus(s)

Next ==
    \/ \E v \in Versions : Publish(v)
    \/ AdminDeploys
    \/ \E r \in 1 .. MaxRequests : DeployStep(r)
    \/ AcknowledgementTimeout
    \/ \E s \in Sockets : HandlerStep(s)
    \/ PanelStep

\* Sends come back, a sleep ends and the loop serves its tasks; endpoints and
\* administrators owe nothing.
Fairness ==
    /\ \A r \in 1 .. MaxRequests : WF_vars(DeployStep(r))
    /\ WF_vars(AcknowledgementTimeout)
    /\ \A s \in Sockets : WF_vars(HandlerStep(s))

Spec == Init /\ [][Next]_vars

FairSpec == Spec /\ Fairness

-----------------------------------------------------------------------------
(* Properties                                                              *)

\* The page shows a deployment as accepted or restarting only if the endpoint
\* took up that very command: reports of older deployments are not mixed in.
AcceptedWasStarted ==
    \A r \in 1 .. Last :
      log[r].status \in {"accepted", "restarting"} => r \in started

\* The endpoint starts another image only to go back from one that was never
\* confirmed, or forward to the version of a command it took up, whatever was
\* published while it downloaded.
BootsWhatWasCommanded ==
    [][image'.running # image.running =>
         \/ image'.running = image.fallback
         \/ /\ image'.running > image.running
            /\ \E r \in started : log[r].version = image'.running]_vars

\* How far a deployment has come.
Stage(state) ==
    CASE state = "sent" -> 0
      [] state = "unacknowledged" -> 1
      [] state = "accepted" -> 2
      [] state = "restarting" -> 3
      [] state \in {"failed", "completed"} -> 4

\* Statuses of a deployment that is under way are applied in order, across
\* reconnects and restarts of the endpoint.  (One that is over may come back:
\* a report revives a deployment whose send was found to have failed, and one
\* that a superseded socket's late mark_running completed.)
NoStepBack ==
    [][\A r \in 1 .. Last :
         log[r].status \notin {"failed", "completed"} =>
           Stage(log'[r].status) >= Stage(log[r].status)]_vars

\* The phases in which the endpoint has an update.
Busy == {"creating", "settling", "installing", "restarting"}

UpdateBook == INSTANCE UpdateBook WITH
    orders <- [r \in 1 .. Last |->
                 [version |-> log[r].version, status |-> log[r].status]],
    taken <- started,
    update <- IF ota.phase \in Busy THEN ota.request ELSE 0,
    image <- [running |-> image.running, fallback |-> image.fallback]

\* Reports and commands that wait, cross or come late, sends that fail late,
\* restarts and superseded sockets leave the updates in order.  In particular
\* a deployment is completed only if its version is one the endpoint was
\* flashed with or took up, though mark_running compares versions and the
\* registration may be that of a socket long replaced.
KeepsUpdateBook == UpdateBook!Spec

\* A deployment that waits for its acknowledgement has a task that will give
\* up on it: the one that sends the command, or the timer.
SentIsWatched ==
    log # <<>> /\ log[Last].status = "sent" => Last \in Sending \/ timer = Last

\* No deployment stays "sent" for good: it is acknowledged, found
\* unacknowledged, or superseded by one of which the same is true.
SentSettles == []<> (log # <<>> => log[Last].status # "sent")
=============================================================================
