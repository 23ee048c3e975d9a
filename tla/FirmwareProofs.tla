--------------------------- MODULE FirmwareProofs ---------------------------
(***************************************************************************)
(* Theorems about FirmwareDeployment, for every set of versions, any       *)
(* number of deployments, reconnects and restarts, whether sends can       *)
(* suspend or not.                                                         *)
(***************************************************************************)
EXTENDS FirmwareDeployment, TLAPS, SequenceTheorems

-----------------------------------------------------------------------------
(* The invariants                                                          *)

\* What the endpoint can report.
Reports == [request : 1 .. MaxRequests,
            status : {"accepted", "restarting", "failed"}]
Commands == [request : 1 .. MaxRequests, version : Versions]
Messages == [register : Versions] \cup Status
Taken == {"accepted", "restarting"}
Phases == {"idle", "leaked", "creating", "settling", "installing", "restarting", "failing"}

\* A socket speaks first of its registration, and only then of updates.
RegistersFirst ==
    /\ \A s \in Sockets :
         /\ handler[s].pc = "unregistered" =>
              up[s] = <<>> \/ \E v \in Versions : up[s] = <<[register |-> v]>>
         /\ handler[s].pc # "unregistered" => up[s] \in Seq(Reports)
         /\ ws[s] = "unopened" => handler[s].pc = "unregistered" /\ up[s] = <<>>
    /\ status \in Reports \cup {NoStatus}

\* Deployments count on from one another; an update has a request and a
\* version, and one that was verified has an image.
Numbered ==
    /\ \A r \in 1 .. Last : log[r].attempts = r
    /\ ota.phase \in Busy =>
         ota.request \in 1 .. MaxRequests /\ ota.version \in Versions
    /\ ota.phase = "restarting" => ota.fetched \in Versions

Typed == TypeOK /\ RegistersFirst /\ Numbered

\* Whatever says that a deployment was taken up is about one that was: the
\* status that waits, the ones on their way, and the record.
ReportsStarted ==
    /\ status.status \in Taken => status.request \in started
    /\ \A s \in Sockets :
         handler[s].pc # "unregistered" =>
           \A i \in 1 .. Len(up[s]) :
             up[s][i].status \in Taken => up[s][i].request \in started
    /\ ota.phase \in Busy => ota.request \in started
    /\ AcceptedWasStarted

\* A command on the wire is that of a deployment on record, and so is the one
\* the endpoint is busy with; the image it has verified is a newer one.
Commanded ==
    /\ \A s \in Sockets : \A i \in 1 .. Len(down[s]) :
         /\ down[s][i].request <= Last
         /\ log[down[s][i].request].version = down[s][i].version
    /\ ota.phase \in Busy =>
         /\ ota.request <= Last
         /\ log[ota.request].version = ota.version
    /\ ota.phase = "restarting" =>
         ota.fetched = ota.version /\ ota.fetched > image.running

\* Sends finish in the order of their deployments.
SendsInOrder ==
    /\ \A q \in Sending : \A r \in q .. Last : r \in Sending
    /\ ~ SlowSends => Sending \subseteq {Last}

-----------------------------------------------------------------------------
(* Lemmas                                                                  *)

USE DEF ConnectionTypeOK

\* There is one endpoint, and every socket is its own.
LEMMA OnePanel ==
    /\ Panel \in Endpoints
    /\ \A s \in Sockets : Owner(s) = Panel
BY PanelAssumption DEF Sockets, Owner

\* A message joins one queue and leaves the others alone.
LEMMA QueueAppended ==
    ASSUME NEW S, NEW q \in [Sockets -> Seq(S)], NEW s \in Sockets, NEW m \in S
    PROVE  LET p == [q EXCEPT ![s] = Append(@, m)] IN
           /\ p \in [Sockets -> Seq(S)]
           /\ Len(p[s]) = Len(q[s]) + 1 /\ p[s][Len(q[s]) + 1] = m
           /\ \A i \in 1 .. Len(q[s]) : p[s][i] = q[s][i]
           /\ \A t \in Sockets : t # s => p[t] = q[t]
OBVIOUS

\* A message leaves the head of one queue.
LEMMA QueueShortened ==
    ASSUME NEW S, NEW q \in [Sockets -> Seq(S)], NEW s \in Sockets, q[s] # <<>>
    PROVE  LET p == [q EXCEPT ![s] = Tail(@)] IN
           /\ p \in [Sockets -> Seq(S)]
           /\ Head(q[s]) = q[s][1] /\ 1 \in 1 .. Len(q[s]) /\ q[s][1] \in S
           /\ Len(p[s]) = Len(q[s]) - 1
           /\ \A i \in 1 .. Len(q[s]) - 1 : i + 1 \in 1 .. Len(q[s]) /\ p[s][i] = q[s][i + 1]
           /\ \A t \in Sockets : t # s => p[t] = q[t]
OBVIOUS

\* A deployment whose status or send changes is a deployment.
LEMMA LogUpdated ==
    ASSUME TypeOK, NEW r \in 1 .. Last, NEW d \in Deployment, log' = [log EXCEPT ![r] = d]
    PROVE  /\ log' \in Seq(Deployment)
           /\ Len(log') = Len(log) /\ Len(log) \in Nat
           /\ log'[r] = d
           /\ \A q \in 1 .. Last : q # r => log'[q] = log[q]
BY DEF TypeOK, Last

\* What any step may do to the record of deployments.
LogKept ==
    /\ log' \in Seq(Deployment)
    /\ Len(log') >= Len(log) /\ Len(log') <= MaxRequests
    /\ \A r \in 1 .. Len(log) :
         log'[r].version = log[r].version /\ log'[r].attempts = log[r].attempts
    /\ \A r \in 1 .. Len(log') : r > Len(log) => log'[r].attempts = r

Statuses == {"sent", "unacknowledged", "accepted", "restarting", "failed", "completed"}

\* Its version, its attempts and where it is sent do not change with it.
LEMMA StatusUpdated ==
    ASSUME TypeOK, NEW r \in 1 .. Last, NEW x \in Statuses,
           log' = [log EXCEPT ![r].status = x]
    PROVE  /\ LogKept /\ Len(log') = Len(log)
           /\ log'[r].status = x
           /\ log'[r].via = log[r].via
           /\ \A q \in 1 .. Last : q # r => log'[q] = log[q]
<1> DEFINE d == [log[r] EXCEPT !.status = x]
<1>1. log[r] \in Deployment
    BY DEF TypeOK, Last
<1>2. d \in Deployment /\ d.version = log[r].version /\ d.attempts = log[r].attempts
      /\ d.status = x /\ d.via = log[r].via
    BY <1>1 DEF Deployment, Statuses
<1>3. log' = [log EXCEPT ![r] = d]
    OBVIOUS
<1> HIDE DEF d
<1>4. /\ log' \in Seq(Deployment) /\ Len(log') = Len(log) /\ Len(log) \in Nat
      /\ log'[r] = d
      /\ \A q \in 1 .. Last : q # r => log'[q] = log[q]
    BY <1>2, <1>3, LogUpdated
<1>5. \A q \in 1 .. Len(log) :
        log'[q].version = log[q].version /\ log'[q].attempts = log[q].attempts
    BY <1>2, <1>4 DEF Last
<1>6. Len(log) <= MaxRequests
    BY DEF TypeOK
<1>7. LogKept
    BY <1>4, <1>5, <1>6, DeploymentKnobs DEF LogKept
<1> QED
  BY <1>2, <1>4, <1>7

\* A send that ends is no longer under way; it may have failed.
LEMMA SendUpdated ==
    ASSUME TypeOK, NEW r \in 1 .. Last,
           \/ log' = [log EXCEPT ![r].via = NoSocket]
           \/ log' = [log EXCEPT ![r].via = NoSocket, ![r].status = "failed"]
    PROVE  /\ LogKept /\ Len(log') = Len(log)
           /\ log'[r].via = NoSocket
           /\ log'[r].status \in {log[r].status, "failed"}
           /\ log' = [log EXCEPT ![r].via = NoSocket] => log'[r].status = log[r].status
           /\ log' = [log EXCEPT ![r].via = NoSocket, ![r].status = "failed"] =>
                log'[r].status = "failed"
           /\ \A q \in 1 .. Last : q # r => log'[q] = log[q]
<1>1. log[r] \in Deployment /\ log \in Seq(Deployment) /\ r \in DOMAIN log
    BY DEF TypeOK, Last
<1>2. PICK d : /\ log' = [log EXCEPT ![r] = d]
               /\ d \in Deployment
               /\ d.version = log[r].version /\ d.attempts = log[r].attempts
               /\ d.via = NoSocket
               /\ d.status \in {log[r].status, "failed"}
  <2>1. CASE log' = [log EXCEPT ![r].via = NoSocket]
    <3> DEFINE d == [log[r] EXCEPT !.via = NoSocket]
    <3>1. d \in Deployment /\ d.version = log[r].version /\ d.attempts = log[r].attempts
          /\ d.via = NoSocket /\ d.status = log[r].status
        BY <1>1 DEF Deployment
    <3>2. log' = [log EXCEPT ![r] = d]
        BY <2>1
    <3> QED
      BY <3>1, <3>2
  <2>2. CASE log' = [log EXCEPT ![r].via = NoSocket, ![r].status = "failed"]
    <3> DEFINE d == [log[r] EXCEPT !.via = NoSocket, !.status = "failed"]
    <3>1. d \in Deployment /\ d.version = log[r].version /\ d.attempts = log[r].attempts
          /\ d.via = NoSocket /\ d.status = "failed"
        BY <1>1 DEF Deployment
    <3>2. log' = [log EXCEPT ![r] = d]
        BY <1>1, <2>2
    <3> QED
      BY <3>1, <3>2
  <2> QED
    BY <2>1, <2>2
<1>4. /\ Len(log') = Len(log) /\ Len(log) \in Nat /\ log' \in Seq(Deployment)
      /\ log'[r] = d
      /\ \A q \in 1 .. Last : q # r => log'[q] = log[q]
    BY <1>2, LogUpdated
<1>5. \A q \in 1 .. Len(log) :
        log'[q].version = log[q].version /\ log'[q].attempts = log[q].attempts
    BY <1>2, <1>4 DEF Last
<1>6. Len(log) <= MaxRequests
    BY DEF TypeOK
<1>7. LogKept
    BY <1>4, <1>5, <1>6, DeploymentKnobs DEF LogKept
<1>8. log' = [log EXCEPT ![r].via = NoSocket] => log'[r].status = log[r].status
    BY <1>1 DEF Deployment
<1>9. log' = [log EXCEPT ![r].via = NoSocket, ![r].status = "failed"] =>
        log'[r].status = "failed"
    BY <1>1 DEF Deployment
<1> QED
  BY <1>2, <1>4, <1>7, <1>8, <1>9

LEMMA LogStays ==
    ASSUME TypeOK, log' = log
    PROVE  LogKept
BY DeploymentKnobs DEF TypeOK, LogKept

LEMMA UpdateKeeps ==
    ASSUME TypeOK, NEW m \in Reports, Update(m)
    PROVE  LogKept /\ timer' \in 0 .. MaxRequests
<1>1. CASE m.request = Last
  <2>1. Last \in 1 .. Last /\ m.status \in Statuses
      BY <1>1 DEF TypeOK, Last, Reports, Statuses
  <2>2. LogKept
      BY <1>1, <2>1, StatusUpdated DEF Update
  <2> QED
    BY <1>1, <2>2, DeploymentKnobs DEF Update
<1>2. CASE m.request # Last
    BY <1>2, LogStays DEF Update, TypeOK
<1> QED
  BY <1>1, <1>2

LEMMA MarkKeeps ==
    ASSUME TypeOK, NEW v, MarkRunning(v)
    PROVE  LogKept /\ timer' \in 0 .. MaxRequests
<1>1. CASE log # <<>> /\ log[Last].version = v
  <2>1. Last \in 1 .. Last /\ "completed" \in Statuses
      BY <1>1 DEF TypeOK, Last, Statuses
  <2>2. LogKept
      BY <1>1, <2>1, StatusUpdated DEF MarkRunning
  <2> QED
    BY <1>1, <2>2, DeploymentKnobs DEF MarkRunning
<1>2. CASE ~ (log # <<>> /\ log[Last].version = v)
    BY <1>2, LogStays DEF MarkRunning, TypeOK
<1> QED
  BY <1>1, <1>2

LEMMA DeployKeeps ==
    ASSUME Typed, NEW v \in Versions, Last < MaxRequests, Deploy(v)
    PROVE  /\ LogKept
           /\ Len(log') = Last + 1
           /\ log'[Last + 1].version = v
           /\ \A r \in 1 .. Last : log'[r] = log[r]
           /\ down' \in [Sockets -> Seq(Commands)]
           /\ \A t \in Sockets : \A i \in 1 .. Len(down'[t]) :
                \/ i \in 1 .. Len(down[t]) /\ down'[t][i] = down[t][i]
                \/ /\ down'[t][i] = [request |-> Last + 1, version |-> v]
                   /\ t = connections[Panel] /\ i = Len(down[t]) + 1
<1> DEFINE s == connections[Panel]
           d == [version |-> v, status |-> "sent", via |-> s,
                 attempts |-> IF log = <<>> THEN 1 ELSE log[Last].attempts + 1]
<1>1. s \in Sockets /\ Last \in Nat /\ MaxRequests \in Nat /\ log \in Seq(Deployment)
    BY OnePanel, DeploymentKnobs DEF Deploy, Deployable, Reachable, Typed, TypeOK, Last
<1>2. d.attempts = Last + 1
  <2>1. CASE log = <<>>
      BY <2>1, <1>1 DEF Last
  <2>2. CASE log # <<>>
      BY <2>2, <1>1 DEF Last, Typed, Numbered
  <2> QED
    BY <2>1, <2>2
<1>3. d \in Deployment
    BY <1>1, <1>2 DEF Deployment
<1>4. log' = Append(log, d)
    BY DEF Deploy
<1> HIDE DEF d
<1>5. /\ log' \in Seq(Deployment) /\ Len(log') = Last + 1
      /\ log'[Last + 1] = d
      /\ \A r \in 1 .. Last : log'[r] = log[r]
    BY <1>1, <1>3, <1>4 DEF Last
<1>6. LogKept
    BY <1>1, <1>2, <1>3, <1>5 DEF LogKept, Last, Deployment
<1>7. log'[Last + 1].version = v
    BY <1>5 DEF d
<1> DEFINE c == [request |-> Last + 1, version |-> v]
<1>8. c \in Commands
    BY <1>1 DEF Commands
<1>9. down \in [Sockets -> Seq(Commands)]
    BY DEF Typed, TypeOK, Commands
<1>10. down' = down \/ down' = [down EXCEPT ![s] = Append(@, c)]
    BY Zenon DEF Deploy
<1> HIDE DEF s, c
<1>11. CASE down' = down
    BY <1>5, <1>6, <1>7, <1>9, <1>11
<1>12. CASE down' = [down EXCEPT ![s] = Append(@, c)]
  <2>1. /\ down' \in [Sockets -> Seq(Commands)]
        /\ Len(down'[s]) = Len(down[s]) + 1 /\ down'[s][Len(down[s]) + 1] = c
        /\ \A i \in 1 .. Len(down[s]) : down'[s][i] = down[s][i]
        /\ \A t \in Sockets : t # s => down'[t] = down[t]
      BY <1>1, <1>8, <1>9, <1>12, QueueAppended
  <2>2. ASSUME NEW t \in Sockets, NEW i \in 1 .. Len(down'[t])
        PROVE  \/ i \in 1 .. Len(down[t]) /\ down'[t][i] = down[t][i]
               \/ down'[t][i] = c /\ t = s /\ i = Len(down[t]) + 1
    <3>1. CASE t = s
      <4>1. i \in 1 .. Len(down[s]) + 1 /\ Len(down[s]) \in Nat
          BY <1>1, <1>9, <2>1, <2>2, <3>1
      <4> QED
        BY <2>1, <3>1, <4>1
    <3>2. CASE t # s
        BY <2>1, <2>2, <3>2
    <3> QED
      BY <3>1, <3>2
  <2> QED
    BY <1>5, <1>6, <1>7, <2>1, <2>2 DEF c, s
<1> QED
  BY <1>10, <1>11, <1>12

\* A finished deployment lets go of the handler that waits for it.
LEMMA HandlerFreed ==
    ASSUME Typed, NEW r \in 1 .. Last, NEW pc \in {"idle", "done"}, HandlerGoesOn(r, pc)
    PROVE  /\ handler' \in [Sockets -> Handler]
           /\ \A s \in Sockets : handler'[s].pc = "unregistered" <=> handler[s].pc = "unregistered"
<1>1. \A s \in Sockets : handler[s].request = r => handler[s].pc # "unregistered"
  <2> SUFFICES ASSUME NEW s \in Sockets, handler[s].pc = "unregistered"
               PROVE  handler[s].request # r
      OBVIOUS
  <2>1. handler[s] \in Handler
      BY DEF Typed, TypeOK
  <2>2. handler[s].request = 0 /\ Last \in Nat
      BY <2>1 DEF Handler, Typed, TypeOK, Last
  <2> QED
    BY <2>2
<1>2. At(pc) \in Handler /\ At(pc).pc = pc
    BY DEF At, Handler
<1> QED
  BY <1>1, <1>2 DEF HandlerGoesOn, Typed, TypeOK

LEMMA NumberedKept ==
    ASSUME Typed, LogKept,
           ota' = ota \/ ota'.phase \notin Busy
    PROVE  Numbered'
<1>1. \A r \in 1 .. Len(log') : log'[r].attempts = r
  <2> SUFFICES ASSUME NEW r \in 1 .. Len(log') PROVE log'[r].attempts = r
      OBVIOUS
  <2>1. Len(log') \in Nat /\ Len(log) \in Nat
      BY DEF LogKept, Typed, TypeOK
  <2>2. CASE r > Len(log)
      BY <2>2 DEF LogKept
  <2>3. CASE r <= Len(log)
    <3>1. r \in 1 .. Len(log)
        BY <2>1, <2>3
    <3> QED
      BY <3>1 DEF LogKept, Typed, Numbered, Last
  <2> QED
    BY <2>1, <2>2, <2>3
<1> QED
  BY <1>1 DEF Typed, Numbered, Last, Busy

-----------------------------------------------------------------------------
(* Types                                                                   *)

LEMMA TypedInit == Init => Typed
<1> SUFFICES ASSUME Init PROVE Typed
    OBVIOUS
<1>1. TypeOK
  <2>1. ConnectionTypeOK
      BY DEF Init, ConnectionInit, LinkStates
  <2>2. At("unregistered") \in Handler /\ NoStatus \in Status
      BY DeploymentKnobs DEF At, Handler, NoStatus, Status
  <2>3. /\ log \in Seq(Deployment) /\ Len(log) <= MaxRequests
        /\ timer \in 0 .. MaxRequests /\ started \subseteq 1 .. MaxRequests
      BY DeploymentKnobs DEF Init
  <2>6. \A S : <<>> \in Seq(S)
      OBVIOUS
  <2>5. /\ down \in [Sockets -> Seq([request : 1 .. MaxRequests, version : Versions])]
        /\ up \in [Sockets -> Seq([register : Versions] \cup Status)]
      BY <2>6, Zenon DEF Init
  <2>4. /\ image \in [running : Versions, fallback : Versions \cup {0}, booted : BOOLEAN]
        /\ ota \in [phase : Phases,
                    request : 0 .. MaxRequests, version : Versions \cup {0},
                    fetched : Versions \cup {0}]
      BY DeploymentKnobs, VersionsAssumption DEF Init, NoUpdate, Phases
  <2> QED
    BY <2>1, <2>2, <2>3, <2>4, <2>5 DEF Init, TypeOK, Phases
<1>2. RegistersFirst
    BY DEF Init, RegistersFirst, At, NoStatus
<1>3. Numbered
    BY DEF Init, Numbered, Last, NoUpdate, Busy
<1> QED
  BY <1>1, <1>2, <1>3 DEF Typed

\* The administrator and the timer.
LEMMA TypedAdmin ==
    ASSUME Typed, (\E v \in Versions : Publish(v)) \/ AdminDeploys \/ AcknowledgementTimeout
    PROVE  Typed' /\ LogKept
<1>1. CASE \E v \in Versions : Publish(v)
    BY <1>1, LogStays DEF Typed, TypeOK, Publish, endpoint, RegistersFirst, Numbered, Last
<1>2. CASE AdminDeploys
  <2>1. published \in Versions /\ Last < MaxRequests /\ Deploy(published)
      BY <1>2 DEF AdminDeploys, Typed, TypeOK
  <2>2. LogKept /\ down' \in [Sockets -> Seq(Commands)]
      BY <2>1, DeployKeeps
  <2>3. UNCHANGED <<connections, online, published, timer, handler, image, ota, status,
                    started, ws, up>>
      BY <1>2 DEF AdminDeploys, endpoint
  <2>4. TypeOK'
      BY <2>2, <2>3 DEF Typed, TypeOK, LogKept, Commands
  <2>5. RegistersFirst'
      BY <2>3 DEF Typed, RegistersFirst, Reports, NoStatus
  <2>6. Numbered'
      BY <2>2, <2>3, NumberedKept
  <2> QED
    BY <2>2, <2>4, <2>5, <2>6 DEF Typed
<1>3. CASE AcknowledgementTimeout
  <2>1. LogKept
    <3>1. CASE timer = Last /\ log[Last].status = "sent"
      <4>1. Last \in 1 .. Last /\ "unacknowledged" \in Statuses
          BY <1>3, <3>1 DEF AcknowledgementTimeout, Typed, TypeOK, Statuses, Last
      <4> QED
        BY <1>3, <3>1, <4>1, StatusUpdated DEF AcknowledgementTimeout, Typed
    <3>2. CASE ~ (timer = Last /\ log[Last].status = "sent")
        BY <1>3, <3>2, LogStays DEF AcknowledgementTimeout, Typed
    <3> QED
      BY <3>1, <3>2
  <2>2. UNCHANGED <<connections, online, published, handler, image, ota, status, started,
                    ws, down, up>> /\ timer' \in 0 .. MaxRequests
      BY <1>3, DeploymentKnobs DEF AcknowledgementTimeout, endpoint
  <2>4. TypeOK'
      BY <2>1, <2>2 DEF Typed, TypeOK, LogKept
  <2>5. RegistersFirst'
      BY <2>2 DEF Typed, RegistersFirst, Reports, NoStatus
  <2>6. Numbered'
      BY <2>1, <2>2, NumberedKept
  <2> QED
    BY <2>1, <2>4, <2>5, <2>6 DEF Typed
<1> QED
  BY <1>1, <1>2, <1>3

\* A handler that is past the registration moves on.
LEMMA HandlerMoves ==
    ASSUME Typed, NEW s \in Sockets, NEW h \in Handler, h.pc # "unregistered",
           \/ handler[s].pc # "unregistered"
           \/ up[s] = <<>> /\ ws[s] # "unopened",
           handler' = [handler EXCEPT ![s] = h],
           UNCHANGED <<up, ws, status>>
    PROVE  /\ handler' \in [Sockets -> Handler]
           /\ RegistersFirst'
<1>1. handler' \in [Sockets -> Handler] /\ handler'[s] = h
      /\ \A t \in Sockets : t # s => handler'[t] = handler[t]
    BY DEF Typed, TypeOK
<1>2. ASSUME NEW t \in Sockets
      PROVE  /\ handler'[t].pc = "unregistered" =>
                  up'[t] = <<>> \/ \E v \in Versions : up'[t] = <<[register |-> v]>>
             /\ handler'[t].pc # "unregistered" => up'[t] \in Seq(Reports)
             /\ ws'[t] = "unopened" => handler'[t].pc = "unregistered" /\ up'[t] = <<>>
  <2>1. CASE t = s
    <3>1. up[s] \in Seq(Reports)
      <4>1. \A S : <<>> \in Seq(S)
          OBVIOUS
      <4> QED
        BY <4>1, Zenon DEF Typed, RegistersFirst
    <3>2. ws[s] # "unopened"
        BY DEF Typed, RegistersFirst
    <3> QED
      BY <1>1, <2>1, <3>1, <3>2
  <2>2. CASE t # s
      BY <1>1, <2>2 DEF Typed, RegistersFirst
  <2> QED
    BY <2>1, <2>2
<1> QED
  BY <1>1, <1>2 DEF Typed, RegistersFirst, Reports, NoStatus

LEMMA TypedRegister ==
    ASSUME Typed, NEW s \in Sockets, Register(s)
    PROVE  Typed' /\ LogKept
<1>1. Owner(s) = Panel /\ Panel \in Endpoints
    BY OnePanel
<1>2. PICK v \in Versions : up[s] = <<[register |-> v]>>
    BY DEF Register, Typed, RegistersFirst
<1>3. Head(up[s]).register = v /\ Tail(up[s]) = <<>> /\ ws[s] # "unopened"
  <2>1. Head(up[s]) = [register |-> v] /\ Tail(up[s]) = <<>> /\ up[s] # <<>>
      BY <1>2
  <2> QED
    BY <2>1 DEF Typed, RegistersFirst
<1>4. PICK h \in Handler : h.pc # "unregistered" /\ handler' = [handler EXCEPT ![s] = h]
  <2>1. [pc |-> "connecting", running |-> v, request |-> 0] \in Handler
      /\ [pc |-> "greeting", running |-> v, request |-> 0] \in Handler
      BY DEF Handler
  <2> QED
    BY <1>3, <2>1 DEF Register, Greet
<1>5. up' = [up EXCEPT ![s] = <<>>]
    BY <1>3 DEF Register
<1>6. LogKept /\ timer' \in 0 .. MaxRequests /\ online' \in BOOLEAN
  <2>1. CASE Reachable(Panel)
      BY <2>1, LogStays DEF Register, Typed, TypeOK
  <2>2. CASE ~ Reachable(Panel)
      BY <1>3, <2>2, MarkKeeps DEF Register, Greet, Typed
  <2> QED
    BY <2>1, <2>2
<1>7. connections' \in [Endpoints -> Sockets \cup {NoSocket}]
    BY <1>1 DEF Register, Connect, Typed, TypeOK
<1>8. UNCHANGED <<published, image, ota, status, started, ws, down>>
    BY DEF Register, endpoint
<1>9. \A S : <<>> \in Seq(S)
    OBVIOUS
<1>10. /\ up' \in [Sockets -> Seq(Messages)] /\ up'[s] = <<>>
       /\ \A t \in Sockets : t # s => up'[t] = up[t]
    BY <1>5, <1>9 DEF Typed, TypeOK, Messages
<1>11. /\ handler' \in [Sockets -> Handler] /\ handler'[s] = h
       /\ \A t \in Sockets : t # s => handler'[t] = handler[t]
    BY <1>4 DEF Typed, TypeOK
<1>12. TypeOK'
    BY <1>6, <1>7, <1>8, <1>10, <1>11 DEF Typed, TypeOK, LogKept, Messages
<1>13. RegistersFirst'
  <2>1. ASSUME NEW t \in Sockets
        PROVE  /\ handler'[t].pc = "unregistered" =>
                    up'[t] = <<>> \/ \E w \in Versions : up'[t] = <<[register |-> w]>>
               /\ handler'[t].pc # "unregistered" => up'[t] \in Seq(Reports)
               /\ ws'[t] = "unopened" => handler'[t].pc = "unregistered" /\ up'[t] = <<>>
    <3>1. CASE t = s
        BY <1>3, <1>4, <1>8, <1>9, <1>10, <1>11, <3>1
    <3>2. CASE t # s
        BY <1>8, <1>10, <1>11, <3>2 DEF Typed, RegistersFirst
    <3> QED
      BY <3>1, <3>2
  <2> QED
    BY <1>8, <2>1 DEF Typed, RegistersFirst, Reports, NoStatus
<1> QED
  BY <1>6, <1>8, <1>12, <1>13, NumberedKept DEF Typed

LEMMA TypedHandler ==
    ASSUME Typed, NEW s \in Sockets,
           \/ PreviousClosed(s) \/ Greeted(s) \/ Retry(s) \/ HandlerEnds(s)
           \/ MarkOffline(s)
    PROVE  Typed' /\ LogKept
<1>1. Owner(s) = Panel /\ Panel \in Endpoints /\ handler[s] \in Handler
    BY OnePanel DEF Typed, TypeOK
<1>2. At("idle") \in Handler /\ At("idle").pc # "unregistered"
      /\ At("done") \in Handler /\ At("done").pc # "unregistered"
    BY DEF At, Handler
<1>3. CASE PreviousClosed(s)
  <2>1. LogKept /\ timer' \in 0 .. MaxRequests /\ online' \in BOOLEAN
      BY <1>3, MarkKeeps DEF PreviousClosed, Greet, Typed
  <2>2. UNCHANGED <<connections, published, image, ota, status, started, ws, down, up>>
      BY <1>3 DEF PreviousClosed, endpoint
  <2>3. PICK h \in Handler : h.pc # "unregistered" /\ handler' = [handler EXCEPT ![s] = h]
    <3>1. handler[s].running \in Versions \cup {0}
        BY <1>1 DEF Handler
    <3>2. [pc |-> "greeting", running |-> handler[s].running, request |-> 0] \in Handler
        BY <3>1 DEF Handler
    <3> QED
      BY <1>3, <3>2 DEF PreviousClosed, Greet
  <2>4. handler' \in [Sockets -> Handler] /\ RegistersFirst'
      BY <1>3, <2>2, <2>3, HandlerMoves DEF PreviousClosed
  <2>5. TypeOK'
      BY <2>1, <2>2, <2>4 DEF Typed, TypeOK, LogKept
  <2> QED
    BY <2>1, <2>2, <2>4, <2>5, NumberedKept DEF Typed
<1>4. CASE Greeted(s)
  <2>1. UNCHANGED <<connections, online, published, log, timer, image, ota, status, started, ws, down, up>>
      BY <1>4 DEF Greeted, endpoint
  <2>2. PICK h \in Handler : h.pc # "unregistered" /\ handler' = [handler EXCEPT ![s] = h]
    <3>1. CASE ~ Retries(handler[s].running)
        BY <1>2, <1>4, <3>1 DEF Greeted
    <3>2. CASE Retries(handler[s].running)
      <4>1. /\ published \in Versions
            /\ handler[s] \in [pc : {"greeting"}, running : Versions \cup {0}, request : {0}]
          BY <1>1, <1>4, <3>2 DEF Retries, Typed, TypeOK, Greeted, Handler
      <4>3. handler' = [handler EXCEPT ![s] = [handler[s] EXCEPT !.pc = "waiting", !.running = published]]
        <5>1. handler' = [handler EXCEPT ![s].pc = "waiting", ![s].running = published]
            BY <1>4, <3>2, Zenon DEF Greeted
        <5>2. s \in DOMAIN handler
            BY DEF Typed, TypeOK
        <5> QED
          BY <1>1, <5>1, <5>2
      <4>4. [handler[s] EXCEPT !.pc = "waiting", !.running = published]
              \in [pc : {"waiting"}, running : Versions, request : {0}]
          BY <4>1
      <4>5. [handler[s] EXCEPT !.pc = "waiting", !.running = published].pc = "waiting"
          BY <4>1
      <4> QED
        BY <4>3, <4>4, <4>5 DEF Handler
    <3> QED
      BY <3>1, <3>2
  <2>3. handler' \in [Sockets -> Handler] /\ RegistersFirst'
      BY <1>4, <2>1, <2>2, HandlerMoves DEF Greeted
  <2>4. LogKept
      BY <2>1, LogStays DEF Typed
  <2>5. TypeOK'
      BY <2>1, <2>3 DEF Typed, TypeOK
  <2> QED
    BY <2>1, <2>3, <2>4, <2>5, NumberedKept DEF Typed
<1>5. CASE Retry(s)
  <2>1. UNCHANGED <<connections, online, published, timer, image, ota, status, started, ws, up>>
      BY <1>5 DEF Retry, endpoint
  <2>2. LogKept /\ down' \in [Sockets -> Seq(Commands)]
        /\ \E h \in Handler : h.pc # "unregistered" /\ handler' = [handler EXCEPT ![s] = h]
    <3>1. CASE /\ Last < MaxRequests
               /\ Deploy(handler[s].running)
               /\ handler' = [handler EXCEPT ![s] = [pc |-> "deploying", running |-> 0,
                                                     request |-> Last + 1]]
      <4>1. handler[s].running \in Versions
          BY <1>1, <1>5 DEF Retry, Handler
      <4>2. Last + 1 \in 1 .. MaxRequests
          BY <3>1, DeploymentKnobs DEF Typed, TypeOK, Last
      <4>3. [pc |-> "deploying", running |-> 0, request |-> Last + 1] \in Handler
          BY <4>2 DEF Handler
      <4> QED
        BY <3>1, <4>1, <4>3, DeployKeeps
    <3>2. CASE handler' = [handler EXCEPT ![s] = At("done")] /\ UNCHANGED <<log, down>>
        BY <1>2, <3>2, LogStays DEF Typed, TypeOK, Commands
    <3> QED
      BY <1>5, <3>1, <3>2 DEF Retry
  <2>3. handler' \in [Sockets -> Handler] /\ RegistersFirst'
      BY <1>5, <2>1, <2>2, HandlerMoves DEF Retry
  <2>5. TypeOK'
      BY <2>1, <2>2, <2>3 DEF Typed, TypeOK, LogKept, Commands
  <2> QED
    BY <2>1, <2>2, <2>3, <2>5, NumberedKept DEF Typed
<1>6. CASE HandlerEnds(s) \/ MarkOffline(s)
  <2>1. UNCHANGED <<published, log, timer, image, ota, status, started, ws, down, up>>
        /\ \E pc \in {"closing", "done"} : handler' = [handler EXCEPT ![s] = At(pc)]
      BY <1>6, Zenon DEF HandlerEnds, MarkOffline, endpoint
  <2>2. connections' \in [Endpoints -> Sockets \cup {NoSocket}] /\ online' \in BOOLEAN
      BY <1>1, <1>6 DEF HandlerEnds, MarkOffline, Disconnect, Without, Typed, TypeOK
  <2>3. \/ handler[s].pc # "unregistered"
        \/ up[s] = <<>> /\ ws[s] # "unopened"
    <3>1. \/ handler[s].pc \in {"unregistered", "idle"} /\ up[s] = <<>> /\ ws[s] = "dead"
          \/ handler[s].pc \in {"idle", "greeting", "closing"}
        BY <1>6, Zenon DEF HandlerEnds, MarkOffline
    <3> QED
      BY <3>1
  <2>7. \A pc \in {"closing", "done"} : At(pc) \in Handler /\ At(pc).pc # "unregistered"
      BY DEF At, Handler
  <2>4. handler' \in [Sockets -> Handler] /\ RegistersFirst'
      BY <2>1, <2>3, <2>7, HandlerMoves
  <2>5. LogKept
      BY <2>1, LogStays DEF Typed
  <2>6. TypeOK'
      BY <2>1, <2>2, <2>4 DEF Typed, TypeOK
  <2> QED
    BY <2>1, <2>4, <2>5, <2>6, NumberedKept DEF Typed
<1> QED
  BY <1>3, <1>4, <1>5, <1>6

\* A send of a command comes back.
LEMMA TypedSend ==
    ASSUME Typed, NEW r \in 1 .. MaxRequests, DeployStep(r)
    PROVE  Typed' /\ LogKept
<1>1. r \in 1 .. Last /\ log[r].via \in Sockets
  <2>1. r \in 1 .. Last /\ log[r] \in Deployment /\ log[r].via # NoSocket
      BY DEF DeployStep, DeployReturns, DeployFails, FirstOnSocket, Sending, Typed, TypeOK, Last
  <2> QED
    BY <2>1 DEF Deployment
<1>2. LogKept
    BY <1>1, SendUpdated DEF DeployStep, DeployReturns, DeployFails, Typed
<1>3. \/ HandlerGoesOn(r, "idle")
      \/ HandlerGoesOn(r, "done")
    BY DEF DeployStep, DeployReturns, DeployFails
<1>4. /\ handler' \in [Sockets -> Handler]
      /\ \A s \in Sockets : handler'[s].pc = "unregistered" <=> handler[s].pc = "unregistered"
    BY <1>1, <1>3, HandlerFreed
<1>5. /\ connections' \in [Endpoints -> Sockets \cup {NoSocket}]
      /\ timer' \in 0 .. MaxRequests
      /\ UNCHANGED <<online, published, image, ota, status, started, ws, down, up>>
  <2>1. UNCHANGED <<online, published, image, ota, status, started, ws, down, up>>
      BY DEF DeployStep, DeployReturns, DeployFails, endpoint
  <2>2. timer' \in 0 .. MaxRequests
      BY DEF DeployStep, DeployReturns, DeployFails, Typed, TypeOK
  <2>3. connections' \in [Endpoints -> Sockets \cup {NoSocket}]
      BY <1>1, OnePanel DEF DeployStep, DeployReturns, DeployFails, Delivered, Raised, Disconnect,
              Without, Typed, TypeOK
  <2> QED
    BY <2>1, <2>2, <2>3
<1>6. TypeOK'
    BY <1>2, <1>4, <1>5 DEF Typed, TypeOK, LogKept
<1>7. RegistersFirst'
    BY <1>4, <1>5 DEF Typed, RegistersFirst, Reports, NoStatus
<1>8. Numbered'
    BY <1>2, <1>5, NumberedKept
<1> QED
  BY <1>2, <1>6, <1>7, <1>8 DEF Typed

LEMMA TypedReceive ==
    ASSUME Typed, NEW s \in Sockets, ReceiveStatus(s)
    PROVE  Typed' /\ LogKept
<1>1. /\ up[s] \in Seq(Reports) /\ up[s] # <<>> /\ handler[s].pc = "idle"
      /\ up \in [Sockets -> Seq(Messages)]
    BY DEF ReceiveStatus, Typed, TypeOK, RegistersFirst, Messages
<1>2. LogKept /\ timer' \in 0 .. MaxRequests
  <2>1. Head(up[s]) \in Reports
      BY <1>1
  <2> QED
    BY <2>1, UpdateKeeps DEF ReceiveStatus, Typed
<1>3. UNCHANGED <<connections, online, published, handler, image, ota, status, started, ws, down>>
    BY DEF ReceiveStatus, endpoint
<1>4. up' = [up EXCEPT ![s] = Tail(@)]
    BY DEF ReceiveStatus
<1>5. /\ up' \in [Sockets -> Seq(Messages)]
      /\ \A t \in Sockets : t # s => up'[t] = up[t]
    BY <1>1, <1>4, QueueShortened
<1>6. up'[s] \in Seq(Reports)
  <2>1. up'[s] = Tail(up[s])
      BY <1>1, <1>4
  <2> QED
    BY <1>1, <2>1
<1>7. TypeOK'
    BY <1>2, <1>3, <1>5 DEF Typed, TypeOK, LogKept, Messages
<1>8. RegistersFirst'
  <2>1. ASSUME NEW t \in Sockets
        PROVE  /\ handler'[t].pc = "unregistered" =>
                    up'[t] = <<>> \/ \E v \in Versions : up'[t] = <<[register |-> v]>>
               /\ handler'[t].pc # "unregistered" => up'[t] \in Seq(Reports)
               /\ ws'[t] = "unopened" => handler'[t].pc = "unregistered" /\ up'[t] = <<>>
    <3>1. CASE t = s
        BY <1>1, <1>3, <1>6, <3>1 DEF Typed, RegistersFirst
    <3>2. CASE t # s
        BY <1>3, <1>5, <3>2 DEF Typed, RegistersFirst
    <3> QED
      BY <3>1, <3>2
  <2> QED
    BY <1>3, <2>1 DEF Typed, RegistersFirst, Reports, NoStatus
<1> QED
  BY <1>2, <1>3, <1>7, <1>8, NumberedKept DEF Typed

\* The endpoint and its link.
LEMMA TypedLink ==
    ASSUME Typed, NEW s \in Sockets,
           \/ PanelConnects(s) \/ LinkLost(s) \/ FlushStatus(s) \/ LossNoticed(s)
    PROVE  Typed' /\ LogKept
<1>1. up \in [Sockets -> Seq(Messages)] /\ down \in [Sockets -> Seq(Commands)]
    BY DEF Typed, TypeOK, Messages, Commands
<1>2. UNCHANGED <<connections, online, published, log, timer, handler, image, ota, started>>
    BY DEF PanelConnects, LinkLost, FlushStatus, LossNoticed, server, endpoint
<1>3. LogKept
    BY <1>2, LogStays DEF Typed
<1>4. Numbered'
    BY <1>2, <1>3, NumberedKept
<1>5. \A S : <<>> \in Seq(S)
    OBVIOUS
<1>6. CASE LinkLost(s) \/ LossNoticed(s)
  <2>1. /\ UNCHANGED <<up, status>>
        /\ ws' \in [Sockets -> LinkStates]
        /\ \A t \in Sockets : ws'[t] = "unopened" => ws[t] = "unopened"
      BY <1>6 DEF LinkLost, LossNoticed, LoseSocket, NoticeLoss, endpoint, Typed,
              TypeOK, LinkStates
  <2>4. down' = down \/ down' = [down EXCEPT ![s] = <<>>]
      BY <1>6 DEF LinkLost, LossNoticed
  <2>5. down' \in [Sockets -> Seq(Commands)]
      BY <1>1, <1>5, <2>4
  <2>2. TypeOK'
      BY <1>2, <2>1, <2>5 DEF Typed, TypeOK, LinkStates, Commands
  <2>3. RegistersFirst'
      BY <1>2, <2>1 DEF Typed, RegistersFirst, Reports, NoStatus
  <2> QED
    BY <1>3, <1>4, <2>2, <2>3 DEF Typed
<1>7. CASE PanelConnects(s)
  <2> DEFINE m == [register |-> image.running]
  <2>1. /\ ws[s] = "unopened" /\ ws' = [ws EXCEPT ![s] = "open"]
        /\ up' = [up EXCEPT ![s] = <<m>>]
        /\ UNCHANGED <<status, down>>
      BY <1>7 DEF PanelConnects, OpenSocket, endpoint
  <2>2. image.running \in Versions /\ m \in Messages
      BY DEF Typed, TypeOK, Messages
  <2>3. \A S : \A x \in S : <<x>> \in Seq(S)
      OBVIOUS
  <2>4. <<m>> \in Seq(Messages)
      BY <2>2, <2>3, Zenon
  <2>5. /\ up' \in [Sockets -> Seq(Messages)] /\ up'[s] = <<m>>
        /\ \A t \in Sockets : t # s => up'[t] = up[t]
        /\ ws' \in [Sockets -> LinkStates] /\ ws'[s] = "open"
        /\ \A t \in Sockets : t # s => ws'[t] = ws[t]
      BY <1>1, <2>1, <2>4 DEF Typed, TypeOK, LinkStates
  <2>6. TypeOK'
      BY <1>2, <2>1, <2>5 DEF Typed, TypeOK, Messages, LinkStates
  <2>7. RegistersFirst'
    <3>1. ASSUME NEW t \in Sockets
          PROVE  /\ handler'[t].pc = "unregistered" =>
                      up'[t] = <<>> \/ \E v \in Versions : up'[t] = <<[register |-> v]>>
                 /\ handler'[t].pc # "unregistered" => up'[t] \in Seq(Reports)
                 /\ ws'[t] = "unopened" => handler'[t].pc = "unregistered" /\ up'[t] = <<>>
      <4>1. CASE t = s
          BY <1>2, <2>1, <2>2, <2>5, <4>1 DEF Typed, RegistersFirst
      <4>2. CASE t # s
          BY <1>2, <2>5, <4>2 DEF Typed, RegistersFirst
      <4> QED
        BY <4>1, <4>2
    <3> QED
      BY <2>1, <3>1 DEF Typed, RegistersFirst, Reports, NoStatus
  <2> QED
    BY <1>3, <1>4, <2>6, <2>7 DEF Typed
<1>8. CASE FlushStatus(s)
  <2>1. /\ handler[s].pc # "unregistered" /\ status # NoStatus
        /\ up' = [up EXCEPT ![s] = Append(@, status)] /\ status' = NoStatus
        /\ UNCHANGED <<ws, down>>
      BY <1>8 DEF FlushStatus
  <2>2. status \in Reports /\ status \in Messages /\ up[s] \in Seq(Reports)
      BY <2>1 DEF Typed, TypeOK, RegistersFirst, Messages
  <2>3. /\ up' \in [Sockets -> Seq(Messages)]
        /\ \A t \in Sockets : t # s => up'[t] = up[t]
      BY <1>1, <2>1, <2>2, QueueAppended
  <2>4. up'[s] \in Seq(Reports)
    <3>1. up'[s] = Append(up[s], status)
        BY <1>1, <2>1
    <3> QED
      BY <2>2, <3>1
  <2>5. status' \in Status
      BY <2>1, DeploymentKnobs DEF Status, NoStatus
  <2>6. TypeOK'
      BY <1>2, <2>1, <2>3, <2>5 DEF Typed, TypeOK, Messages
  <2>7. RegistersFirst'
    <3>1. ASSUME NEW t \in Sockets
          PROVE  /\ handler'[t].pc = "unregistered" =>
                      up'[t] = <<>> \/ \E v \in Versions : up'[t] = <<[register |-> v]>>
                 /\ handler'[t].pc # "unregistered" => up'[t] \in Seq(Reports)
                 /\ ws'[t] = "unopened" => handler'[t].pc = "unregistered" /\ up'[t] = <<>>
      <4>1. CASE t = s
          BY <1>2, <2>1, <2>4, <4>1 DEF Typed, RegistersFirst
      <4>2. CASE t # s
          BY <1>2, <2>1, <2>3, <4>2 DEF Typed, RegistersFirst
      <4> QED
        BY <4>1, <4>2
    <3> QED
      BY <2>1, <3>1 DEF Typed, RegistersFirst, Reports, NoStatus
  <2> QED
    BY <1>3, <1>4, <2>6, <2>7 DEF Typed
<1> QED
  BY <1>6, <1>7, <1>8

\* The endpoint and its update.
LEMMA TypedUpdate ==
    ASSUME Typed,
           \/ Boots \/ TaskCreated \/ TaskRefused \/ Restarts
           \/ InstallBegins \/ InstallFails \/ InstallVerified \/ UpdateOver
           \/ \E s \in Sockets : ReceiveCommand(s)
    PROVE  Typed' /\ LogKept
<1>0. down \in [Sockets -> Seq(Commands)]
    BY DEF Typed, TypeOK, Commands
<1>1. 0 \in 0 .. MaxRequests /\ 1 .. MaxRequests \subseteq 0 .. MaxRequests
    BY DeploymentKnobs
<1>2. UNCHANGED <<connections, online, published, log, timer, handler, up>>
    BY DEF Boots, TaskCreated, TaskRefused, InstallBegins, InstallFails, InstallVerified,
           UpdateOver, Restarts, ReceiveCommand, server
<1>3. LogKept
    BY <1>2, LogStays DEF Typed
<1>4. \A p \in {"idle", "leaked", "failing"} : NoUpdate(p).phase = p /\
        NoUpdate(p) \in [phase : Phases,
                         request : 0 .. MaxRequests, version : Versions \cup {0},
                         fetched : Versions \cup {0}]
    BY <1>1 DEF NoUpdate, Phases
<1>5. Reports \subseteq Status /\ NoStatus \in Status
    BY <1>1 DEF Reports, Status, NoStatus
<1>6. CASE Boots
  <2>1. UNCHANGED <<ota, status, started, ws, down>>
        /\ image' \in [running : Versions, fallback : Versions \cup {0}, booted : BOOLEAN]
      BY <1>6 DEF Boots, Typed, TypeOK
  <2>2. TypeOK'
      BY <1>2, <2>1 DEF Typed, TypeOK
  <2>3. RegistersFirst'
      BY <1>2, <2>1 DEF Typed, RegistersFirst, Reports, NoStatus
  <2> QED
    BY <1>3, <2>1, <2>2, <2>3, NumberedKept DEF Typed
<1>7. ASSUME ota' \in [phase : Phases,
                       request : 0 .. MaxRequests, version : Versions \cup {0},
                       fetched : Versions \cup {0}],
             \/ ota'.phase \notin Busy
             \/ /\ ota.phase \in Busy
                /\ ota'.request = ota.request /\ ota'.version = ota.version
                /\ ota'.phase = "restarting" => ota'.fetched \in Versions,
             status' = status \/ status' \in Reports,
             UNCHANGED <<image, started, ws, down>>
      PROVE  Typed' /\ LogKept
  <2>1. TypeOK'
      BY <1>2, <1>5, <1>7 DEF Typed, TypeOK, Phases
  <2>2. RegistersFirst'
      BY <1>2, <1>7 DEF Typed, RegistersFirst, Reports, NoStatus
  <2>3. Numbered'
    <3>1. CASE ota'.phase \notin Busy
        BY <1>3, <3>1, NumberedKept
    <3>2. CASE ota'.phase \in Busy
        BY <1>2, <1>7, <3>2 DEF Typed, Numbered, Last, Busy
    <3> QED
      BY <3>1, <3>2
  <2> QED
    BY <1>3, <2>1, <2>2, <2>3 DEF Typed
<1>8. CASE TaskCreated \/ InstallBegins
  <2>1. /\ ota.phase \in {"creating", "settling"} /\ UNCHANGED <<image, started, ws, down, status>>
        /\ \/ ota' = [ota EXCEPT !.phase = "settling"]
           \/ ota' = [ota EXCEPT !.phase = "installing", !.fetched = published]
      BY <1>8 DEF TaskCreated, InstallBegins
  <2>2. /\ ota' \in [phase : Phases,
                    request : 0 .. MaxRequests, version : Versions \cup {0},
                    fetched : Versions \cup {0}]
        /\ ota'.request = ota.request /\ ota'.version = ota.version
        /\ ota'.phase # "restarting" /\ ota.phase \in Busy
      BY <2>1 DEF Typed, TypeOK, Busy, Phases
  <2> QED
    BY <1>7, <2>1, <2>2
<1>9. CASE TaskRefused \/ InstallFails
  <2>1. /\ ota.phase \in Busy /\ UNCHANGED <<image, started, ws, down>>
        /\ ota' = NoUpdate("idle") \/ ota' = NoUpdate("failing")
        /\ status' \in {status, [request |-> ota.request, status |-> "failed"]}
      BY <1>9 DEF TaskRefused, InstallFails, Report, Busy
  <2>2. status' = status \/ status' \in Reports
      BY <2>1 DEF Typed, Numbered, Busy, Reports
  <2> QED
    BY <1>4, <1>7, <2>1, <2>2 DEF Busy
<1>13. CASE UpdateOver
  <2>1. ota' = NoUpdate("idle") /\ UNCHANGED <<image, started, ws, down, status>>
      BY <1>13 DEF UpdateOver
  <2> QED
    BY <1>4, <1>7, <2>1 DEF Busy
<1>10. CASE InstallVerified
  <2>1. /\ ota.phase = "installing" /\ ota.fetched # 0 /\ UNCHANGED <<image, started, ws, down>>
        /\ ota' = [ota EXCEPT !.phase = "restarting"]
        /\ status' \in {status, [request |-> ota.request, status |-> "restarting"]}
      BY <1>10 DEF InstallVerified, Report
  <2>2. (status' = status \/ status' \in Reports) /\ ota.phase \in Busy
      BY <2>1 DEF Typed, Numbered, Busy, Reports
  <2> QED
    BY <1>7, <2>1, <2>2 DEF Typed, TypeOK, Phases
<1>11. CASE Restarts
  <2>1. image' \in [running : Versions, fallback : Versions \cup {0}, booted : BOOLEAN]
    <3>1. image \in [running : Versions, fallback : Versions \cup {0}, booted : BOOLEAN]
          /\ (ota.phase = "restarting" => ota.fetched \in Versions)
        BY DEF Typed, TypeOK, Numbered
    <3>2. \/ ota.phase = "restarting" /\ image' = [running |-> ota.fetched, fallback |-> image.running, booted |-> FALSE]
          \/ image.fallback # 0 /\ image' = [running |-> image.fallback, fallback |-> 0, booted |-> FALSE]
          \/ image' = [image EXCEPT !.booted = FALSE]
        BY <1>11, Zenon DEF Restarts
    <3>3. CASE ota.phase = "restarting" /\ image' = [running |-> ota.fetched, fallback |-> image.running, booted |-> FALSE]
        BY <3>1, <3>3
    <3>4. CASE image.fallback # 0 /\ image' = [running |-> image.fallback, fallback |-> 0, booted |-> FALSE]
        BY <3>1, <3>4
    <3>5. CASE image' = [image EXCEPT !.booted = FALSE]
        BY <3>1, <3>5
    <3> QED
      BY <3>2, <3>3, <3>4, <3>5
  <2>2. /\ ota' = NoUpdate("idle") /\ status' = NoStatus
        /\ UNCHANGED started
        /\ ws' = [s \in Sockets |-> IF ws[s] = "open" THEN "lost" ELSE ws[s]]
        /\ down' = [s \in Sockets |-> <<>>]
      BY <1>11 DEF Restarts
  <2>3. /\ ws' \in [Sockets -> LinkStates]
        /\ \A t \in Sockets : ws'[t] = "unopened" => ws[t] = "unopened"
      BY <2>2 DEF Typed, TypeOK, LinkStates
  <2>4. \A S : <<>> \in Seq(S)
      OBVIOUS
  <2>5. down' \in [Sockets -> Seq(Commands)]
      BY <2>2, <2>4, Zenon
  <2>6. TypeOK'
      BY <1>2, <1>4, <1>5, <2>1, <2>2, <2>3, <2>5 DEF Typed, TypeOK, LinkStates, Commands
  <2>7. RegistersFirst'
      BY <1>2, <2>2, <2>3 DEF Typed, RegistersFirst, Reports, NoStatus
  <2>8. Numbered'
      BY <1>3, <1>4, <2>2, NumberedKept DEF Busy
  <2> QED
    BY <1>3, <2>6, <2>7, <2>8 DEF Typed
<1>12. ASSUME NEW s \in Sockets, ReceiveCommand(s)
       PROVE  Typed' /\ LogKept
  <2> DEFINE c == Head(down[s])
  <2>1. /\ c \in Commands /\ down' \in [Sockets -> Seq(Commands)]
        /\ UNCHANGED <<image, ws>>
      BY <1>0, <1>12, QueueShortened DEF ReceiveCommand
  <2>2. PICK what \in {"accepted", "failed"} :
          status' \in {status, [request |-> c.request, status |-> what]}
      BY <1>12 DEF ReceiveCommand, Report
  <2>3. /\ status' \in Reports \cup {NoStatus}
        /\ c.request \in 1 .. MaxRequests /\ c.version \in Versions
      BY <2>1, <2>2 DEF Reports, Commands, Typed, RegistersFirst
  <2>4. started' = started \/ started' = started \cup {c.request}
      BY <1>12, Zenon DEF ReceiveCommand
  <2>5. \/ ota' = [phase |-> "creating", request |-> c.request, version |-> c.version, fetched |-> 0]
        \/ \E p \in {"idle", "leaked"} : ota' = NoUpdate(p)
        \/ ota' = ota
      BY <1>12 DEF ReceiveCommand
  <2> HIDE DEF c
  <2>6. ota' \in [phase : Phases,
                  request : 0 .. MaxRequests, version : Versions \cup {0},
                  fetched : Versions \cup {0}]
      BY <1>1, <1>4, <2>3, <2>5 DEF Typed, TypeOK, Phases
  <2>7. TypeOK'
      BY <1>2, <1>5, <2>1, <2>3, <2>4, <2>6 DEF Typed, TypeOK, Commands, Phases
  <2>8. RegistersFirst'
      BY <1>2, <2>1, <2>3 DEF Typed, RegistersFirst, Reports, NoStatus
  <2>9. Numbered'
    <3>1. CASE ota' = [phase |-> "creating", request |-> c.request, version |-> c.version, fetched |-> 0]
        BY <1>2, <2>3, <3>1 DEF Typed, Numbered, Last, Busy
    <3>2. CASE \E p \in {"idle", "leaked"} : ota' = NoUpdate(p)
        BY <1>3, <1>4, <3>2, NumberedKept DEF Busy
    <3>3. CASE ota' = ota
        BY <1>3, <3>3, NumberedKept
    <3> QED
      BY <2>5, <3>1, <3>2, <3>3
  <2> QED
    BY <1>3, <2>7, <2>8, <2>9 DEF Typed
<1> QED
  BY <1>6, <1>8, <1>9, <1>10, <1>11, <1>12, <1>13

LEMMA TypedStep ==
    ASSUME Typed, [Next]_vars
    PROVE  Typed' /\ LogKept
<1>1. CASE UNCHANGED vars
  <2>1. UNCHANGED <<connections, online, published, log, timer, handler, image, ota, status,
                    started, ws, down, up>>
      BY <1>1 DEF vars, server, endpoint
  <2>2. LogKept
      BY <2>1, LogStays DEF Typed
  <2>3. TypeOK'
      BY <2>1 DEF Typed, TypeOK
  <2>4. RegistersFirst'
      BY <2>1 DEF Typed, RegistersFirst, Reports, NoStatus
  <2> QED
    BY <2>1, <2>2, <2>3, <2>4, NumberedKept DEF Typed
<1>2. CASE Next
  <2>1. ASSUME NEW s \in Sockets, HandlerStep(s)
        PROVE  Typed' /\ LogKept
      BY <2>1, TypedRegister, TypedHandler, TypedLink, TypedReceive DEF HandlerStep
  <2>2. CASE PanelStep
      BY <2>2, TypedLink, TypedUpdate DEF PanelStep
  <2> QED
    BY <1>2, <2>1, <2>2, TypedAdmin, TypedSend DEF Next
<1> QED
  BY <1>1, <1>2

\* Deployments, the socket handlers, what is on the wire in either direction
\* and the state of the updater keep their types, for any number of requests
\* and reconnects: a message is never read for one of another kind.
THEOREM DeploymentTypes == Spec => []TypeOK
<1>1. Typed /\ [Next]_vars => Typed'
    BY TypedStep
<1>2. Typed => TypeOK
    BY DEF Typed
<1> QED
  BY <1>1, <1>2, TypedInit, PTL DEF Spec

-----------------------------------------------------------------------------
(* Only a deployment that was taken up is shown as such                    *)

\* MarkRunning, deploy and the timer never show a deployment as taken up.
NoneTaken ==
    \A r \in 1 .. Len(log') :
      log'[r].status \in Taken => r \in 1 .. Last /\ log[r].status = log'[r].status

LEMMA MarkTakesNone ==
    ASSUME Typed, NEW v, MarkRunning(v)
    PROVE  NoneTaken
<1>1. CASE log # <<>> /\ log[Last].version = v
  <2>1. Last \in 1 .. Last /\ "completed" \in Statuses
      BY <1>1 DEF Typed, TypeOK, Last, Statuses
  <2>2. /\ Len(log') = Len(log) /\ log'[Last].status = "completed"
        /\ \A q \in 1 .. Last : q # Last => log'[q] = log[q]
      BY <1>1, <2>1, StatusUpdated DEF MarkRunning, Typed
  <2> QED
    BY <2>2 DEF NoneTaken, Last, Taken
<1>2. CASE ~ (log # <<>> /\ log[Last].version = v)
    BY <1>2 DEF MarkRunning, NoneTaken, Last
<1> QED
  BY <1>1, <1>2

LEMMA DeployTakesNone ==
    ASSUME Typed, NEW v \in Versions, Last < MaxRequests, Deploy(v)
    PROVE  NoneTaken
<1>0. Last \in Nat
    BY DEF Typed, TypeOK, Last
<1>1. Len(log') = Last + 1 /\ \A r \in 1 .. Last : log'[r] = log[r]
    BY DeployKeeps
<1>2. log'[Last + 1].status = "sent"
  <2>1. PICK d : log' = Append(log, d) /\ d.status = "sent"
      BY DEF Deploy
  <2> QED
    BY <2>1 DEF Typed, TypeOK, Last
<1>3. \A r \in 1 .. Len(log') : r \in 1 .. Last \/ r = Last + 1
    BY <1>0, <1>1
<1> QED
  BY <1>1, <1>2, <1>3 DEF NoneTaken, Taken

LEMMA SendTakesNone ==
    ASSUME Typed, NEW r \in 1 .. MaxRequests, DeployStep(r)
    PROVE  NoneTaken
<1>1. r \in 1 .. Last
    BY DEF DeployStep, DeployReturns, DeployFails, FirstOnSocket, Sending
<1>2. /\ Len(log') = Len(log)
      /\ log'[r].status \in {log[r].status, "failed"}
      /\ \A q \in 1 .. Last : q # r => log'[q] = log[q]
    BY <1>1, SendUpdated DEF DeployStep, DeployReturns, DeployFails, Typed
<1> QED
  BY <1>1, <1>2 DEF NoneTaken, Last, Taken

\* So a step that is no report and no step of the endpoint shows nothing new,
\* adds nothing to the queues, and listens to no socket that has some waiting.
ServerOnly ==
    /\ NoneTaken
    /\ UNCHANGED <<status, ota, started>>
    /\ \A s \in Sockets :
         \/ handler[s].pc # "unregistered" /\ up'[s] = up[s]
         \/ up'[s] = <<>>
         \/ handler'[s].pc = "unregistered"
    /\ \A s \in Sockets : connections'[Panel] = s => connections[Panel] = s \/ up'[s] = <<>>

LEMMA ServerKeepsStarted ==
    ASSUME Typed, ReportsStarted, ServerOnly
    PROVE  ReportsStarted'
<1>1. AcceptedWasStarted'
    BY DEF ServerOnly, NoneTaken, ReportsStarted, AcceptedWasStarted, Last, Taken
<1>2. ASSUME NEW s \in Sockets, handler'[s].pc # "unregistered", NEW i \in 1 .. Len(up'[s]),
             up'[s][i].status \in Taken
      PROVE  up'[s][i].request \in started'
  <2>1. up'[s] # <<>>
      BY <1>2
  <2> QED
    BY <1>2, <2>1 DEF ServerOnly, ReportsStarted
<1> QED
  BY <1>1, <1>2 DEF ServerOnly, ReportsStarted, Taken, Busy

\* A socket is current only after it was; or it registers.
LEMMA CurrentKept ==
    ASSUME Typed, NEW t \in Sockets, UNCHANGED connections \/ Disconnect(t)
    PROVE  \A s \in Sockets : connections'[Panel] = s => connections[Panel] = s
BY OnePanel, NoSocketAssumption DEF Disconnect, Without, Typed, TypeOK

LEMMA ServerSteps ==
    ASSUME Typed,
           \/ \E v \in Versions : Publish(v)
           \/ AdminDeploys
           \/ \E r \in 1 .. MaxRequests : DeployStep(r)
           \/ AcknowledgementTimeout
           \/ \E s \in Sockets : \/ Register(s) \/ PreviousClosed(s) \/ Greeted(s) \/ Retry(s)
                                 \/ HandlerEnds(s) \/ MarkOffline(s) \/ LossNoticed(s)
    PROVE  ServerOnly
<1>0. log' = log => NoneTaken
    BY DEF NoneTaken, Last
<1>1. ASSUME UNCHANGED <<status, ota, started, up>>, NoneTaken,
             \A s \in Sockets : handler[s].pc = "unregistered" =>
                handler'[s].pc = "unregistered" \/ up[s] = <<>>,
             \E t \in Sockets : UNCHANGED connections \/ Disconnect(t)
      PROVE  ServerOnly
    BY <1>1, CurrentKept DEF ServerOnly
<1>9. <<Panel, 1>> \in Sockets
    BY PanelAssumption, MaxReconnectsAssumption DEF Sockets
<1>2. CASE \E v \in Versions : Publish(v)
    BY <1>0, <1>1, <1>9, <1>2 DEF Publish, endpoint
<1>3. CASE AdminDeploys
  <2>1. published \in Versions /\ Last < MaxRequests /\ Deploy(published)
      BY <1>3 DEF AdminDeploys, Typed, TypeOK
  <2> QED
    BY <1>1, <1>9, <1>3, <2>1, DeployTakesNone DEF AdminDeploys, endpoint
<1>4. ASSUME NEW r \in 1 .. MaxRequests, DeployStep(r)
      PROVE  ServerOnly
  <2>1. r \in 1 .. Last
      BY <1>4 DEF DeployStep, DeployReturns, DeployFails, FirstOnSocket, Sending
  <2>2. \A s \in Sockets : handler'[s].pc = "unregistered" <=> handler[s].pc = "unregistered"
      BY <1>4, <2>1, HandlerFreed DEF DeployStep, DeployReturns, DeployFails
  <2>3. UNCHANGED <<status, ota, started, up>>
      BY <1>4 DEF DeployStep, DeployReturns, DeployFails, endpoint
  <2>4. log[r].via \in Sockets
    <3>1. log[r] \in Deployment /\ log[r].via # NoSocket
        BY <1>4, <2>1 DEF DeployStep, DeployReturns, DeployFails, FirstOnSocket, Sending,
                          Typed, TypeOK, Last
    <3> QED
      BY <3>1 DEF Deployment
  <2>5. UNCHANGED connections \/ Disconnect(log[r].via)
      BY <1>4 DEF DeployStep, DeployReturns, DeployFails, Delivered, Raised
  <2> QED
    BY <1>1, <1>4, <2>2, <2>3, <2>4, <2>5, SendTakesNone
<1>5. CASE AcknowledgementTimeout
  <2>1. NoneTaken
    <3>1. CASE timer = Last /\ log[Last].status = "sent"
      <4>1. Last \in 1 .. Last /\ "unacknowledged" \in Statuses
          BY <1>5, <3>1 DEF AcknowledgementTimeout, Typed, TypeOK, Statuses, Last
      <4>2. /\ Len(log') = Len(log) /\ log'[Last].status = "unacknowledged"
            /\ \A q \in 1 .. Last : q # Last => log'[q] = log[q]
          BY <1>5, <3>1, <4>1, StatusUpdated DEF AcknowledgementTimeout, Typed
      <4> QED
        BY <4>2 DEF NoneTaken, Last, Taken
    <3>2. CASE ~ (timer = Last /\ log[Last].status = "sent")
        BY <1>0, <1>5, <3>2 DEF AcknowledgementTimeout
    <3> QED
      BY <3>1, <3>2
  <2> QED
    BY <1>1, <1>9, <1>5, <2>1 DEF AcknowledgementTimeout, endpoint
<1>6. ASSUME NEW s \in Sockets, Register(s)
      PROVE  ServerOnly
  <2>1. PICK v \in Versions : up[s] = <<[register |-> v]>>
      BY <1>6 DEF Register, Typed, RegistersFirst
  <2>2. up' = [up EXCEPT ![s] = <<>>]
    <3>1. Tail(up[s]) = <<>>
        BY <2>1
    <3> QED
      BY <1>6, <3>1 DEF Register
  <2>3. up'[s] = <<>> /\ \A t \in Sockets : t # s => up'[t] = up[t] /\ handler'[t] = handler[t]
      BY <1>6, <2>2 DEF Register, Greet, Typed, TypeOK
  <2>4. NoneTaken
      BY <1>0, <1>6, MarkTakesNone DEF Register, Greet
  <2>5. UNCHANGED <<status, ota, started>>
      BY <1>6 DEF Register, endpoint
  <2>6. \A t \in Sockets : connections'[Panel] = t => t = s
      BY <1>6, OnePanel DEF Register, Connect, Typed, TypeOK
  <2>7. \A t \in Sockets :
             \/ handler[t].pc # "unregistered" /\ up'[t] = up[t]
             \/ up'[t] = <<>>
             \/ handler'[t].pc = "unregistered"
      BY <2>3
  <2> QED
    BY <2>3, <2>4, <2>5, <2>6, <2>7 DEF ServerOnly
<1>7. ASSUME NEW s \in Sockets,
             \/ PreviousClosed(s) \/ Greeted(s) \/ Retry(s) \/ HandlerEnds(s)
             \/ MarkOffline(s) \/ LossNoticed(s)
      PROVE  ServerOnly
  <2>1. UNCHANGED <<status, ota, started, up>>
      BY <1>7 DEF PreviousClosed, Greeted, Retry, HandlerEnds, MarkOffline, LossNoticed, endpoint
  <2>2. /\ \A t \in Sockets : t # s => handler'[t] = handler[t]
        /\ \/ handler'[s] = handler[s]
           \/ handler[s].pc # "unregistered"
           \/ up[s] = <<>>
      BY <1>7 DEF PreviousClosed, Greet, Greeted, Retry, HandlerEnds, MarkOffline, LossNoticed,
                  server,
                  Typed, TypeOK
  <2>3. NoneTaken
    <3>1. CASE PreviousClosed(s)
        BY <3>1, MarkTakesNone DEF PreviousClosed, Greet
    <3>2. CASE Retry(s)
      <4>1. handler[s].pc = "waiting" => handler[s].running \in Versions
        <5>1. handler[s] \in Handler
            BY DEF Typed, TypeOK
        <5> QED
          BY <5>1 DEF Handler
      <4> QED
        BY <1>0, <3>2, <4>1, DeployTakesNone DEF Retry
    <3>3. CASE Greeted(s) \/ HandlerEnds(s) \/ MarkOffline(s) \/ LossNoticed(s)
        BY <1>0, <3>3 DEF Greeted, HandlerEnds, MarkOffline, LossNoticed, server
    <3> QED
      BY <1>7, <3>1, <3>2, <3>3
  <2>4. UNCHANGED connections \/ Disconnect(s)
      BY <1>7 DEF PreviousClosed, Greeted, Retry, HandlerEnds, MarkOffline, LossNoticed, server
  <2> QED
    BY <1>1, <1>7, <2>1, <2>2, <2>3, <2>4
<1> QED
  BY <1>2, <1>3, <1>4, <1>5, <1>6, <1>7

\* A report that is applied is about the newest deployment, which it says was
\* taken up; the endpoint says so of the command it starts on and no other.
LEMMA StartedReceive ==
    ASSUME Typed, ReportsStarted, NEW s \in Sockets, ReceiveStatus(s)
    PROVE  ReportsStarted'
<1> DEFINE m == Head(up[s])
<1>1. /\ up[s] \in Seq(Reports) /\ up[s] # <<>> /\ handler[s].pc = "idle"
      /\ up \in [Sockets -> Seq(Messages)]
    BY DEF ReceiveStatus, Typed, TypeOK, RegistersFirst, Messages
<1>2. /\ m \in Reports /\ m = up[s][1] /\ 1 \in 1 .. Len(up[s])
      /\ Len(up'[s]) = Len(up[s]) - 1
      /\ \A i \in 1 .. Len(up[s]) - 1 : i + 1 \in 1 .. Len(up[s]) /\ up'[s][i] = up[s][i + 1]
      /\ \A t \in Sockets : t # s => up'[t] = up[t]
    BY <1>1, QueueShortened DEF ReceiveStatus
<1>3. m.status \in Taken => m.request \in started
    BY <1>1, <1>2 DEF ReportsStarted
<1>4. Update(m) /\ UNCHANGED <<handler, ota, status, started>>
    BY DEF ReceiveStatus, endpoint
<1> HIDE DEF m
<1>5. AcceptedWasStarted'
  <2>1. CASE m.request = Last
    <3>1. Last \in 1 .. Last /\ m.status \in Statuses
        BY <1>2, <2>1 DEF Reports, Statuses, Typed, TypeOK, Last
    <3>2. /\ Len(log') = Len(log) /\ log'[Last].status = m.status
          /\ \A q \in 1 .. Last : q # Last => log'[q] = log[q]
        BY <1>4, <2>1, <3>1, StatusUpdated DEF Update, Typed
    <3> QED
      BY <1>3, <1>4, <2>1, <3>2 DEF ReportsStarted, AcceptedWasStarted, Last, Taken
  <2>2. CASE m.request # Last
      BY <1>4, <2>2 DEF Update, ReportsStarted, AcceptedWasStarted, Last
  <2> QED
    BY <2>1, <2>2
<1>6. ASSUME NEW t \in Sockets, handler'[t].pc # "unregistered", NEW i \in 1 .. Len(up'[t]),
             up'[t][i].status \in Taken
      PROVE  up'[t][i].request \in started'
    BY <1>1, <1>2, <1>4, <1>6 DEF ReportsStarted
<1> QED
  BY <1>4, <1>5, <1>6 DEF ReportsStarted, Taken, Busy

LEMMA StartedPanel ==
    ASSUME Typed, ReportsStarted, PanelStep
    PROVE  ReportsStarted'
<1>1. UNCHANGED <<log, handler>>
    BY DEF PanelStep, Boots, TaskCreated, TaskRefused, InstallBegins, InstallFails,
           InstallVerified, UpdateOver, Restarts,
           PanelConnects, LinkLost, ReceiveCommand, FlushStatus, server
<1>2. ASSUME UNCHANGED up, started \subseteq started',
             status'.status \in Taken => status'.request \in started',
             ota'.phase \in Busy => ota'.request \in started'
      PROVE  ReportsStarted'
  <2>1. AcceptedWasStarted'
      BY <1>1, <1>2 DEF ReportsStarted, AcceptedWasStarted, Last
  <2>2. \A s \in Sockets : handler'[s].pc # "unregistered" =>
          \A i \in 1 .. Len(up'[s]) : up'[s][i].status \in Taken => up'[s][i].request \in started'
      BY <1>1, <1>2 DEF ReportsStarted
  <2> QED
    BY <1>2, <2>1, <2>2 DEF ReportsStarted, Taken, Busy
<1>3. CASE Boots \/ TaskCreated \/ InstallBegins \/ UpdateOver
  <2>1. /\ UNCHANGED <<up, started, status>>
        /\ \/ ota' = ota
           \/ ota' = NoUpdate("idle")
           \/ /\ ota.phase = "creating"
              /\ ota' = [ota EXCEPT !.phase = "settling"]
           \/ /\ ota.phase = "settling"
              /\ ota' = [ota EXCEPT !.phase = "installing", !.fetched = published]
      BY <1>3 DEF Boots, TaskCreated, InstallBegins, UpdateOver
  <2>2. ota'.phase \in Busy => ota.phase \in Busy /\ ota'.request = ota.request
    <3>1. CASE ota' = ota
        BY <3>1
    <3>2. CASE ota' = NoUpdate("idle")
        BY <3>2 DEF Busy, NoUpdate
    <3>3. CASE ota' # ota /\ ota' # NoUpdate("idle")
        BY <2>1, <3>3 DEF Busy, Typed, TypeOK
    <3> QED
      BY <3>1, <3>2, <3>3
  <2> QED
    BY <1>2, <2>1, <2>2 DEF ReportsStarted
<1>8. CASE TaskRefused \/ InstallFails \/ InstallVerified \/ Restarts
  <2>1. /\ UNCHANGED <<up, started>>
        /\ \/ /\ ota.phase \in {"creating", "installing"}
              /\ status' = status \/ status'.request = ota.request
              /\ \/ ota' = NoUpdate("idle")
                 \/ ota' = NoUpdate("failing")
                 \/ ota' = [ota EXCEPT !.phase = "restarting"]
           \/ /\ status' = NoStatus
              /\ ota' = NoUpdate("idle")
      BY <1>8 DEF TaskRefused, InstallFails, InstallVerified, Restarts, Report
  <2>2. ota'.phase \in Busy => ota.phase \in Busy /\ ota'.request = ota.request
      BY <2>1 DEF Busy, NoUpdate, Typed, TypeOK
  <2>3. status'.status \in Taken =>
          \/ status' = status
          \/ ota.phase \in Busy /\ status'.request = ota.request
      BY <2>1 DEF Busy, NoStatus, Taken
  <2> QED
    BY <1>2, <2>1, <2>2, <2>3 DEF ReportsStarted
<1>4. ASSUME NEW s \in Sockets, LinkLost(s)
      PROVE  ReportsStarted'
    BY <1>2, <1>4 DEF LinkLost, endpoint, ReportsStarted
<1>5. ASSUME NEW s \in Sockets, ReceiveCommand(s)
      PROVE  ReportsStarted'
  <2> DEFINE c == Head(down[s])
  <2>1. UNCHANGED up
      BY <1>5 DEF ReceiveCommand
  <2>2. \/ /\ started' = started \cup {c.request}
           /\ ota' = [phase |-> "creating", request |-> c.request, version |-> c.version, fetched |-> 0]
           /\ status' \in {status, [request |-> c.request, status |-> "accepted"]}
        \/ /\ started' = started
           /\ ota' = ota \/ \E p \in {"idle", "leaked"} : ota' = NoUpdate(p)
           /\ status' \in {status, [request |-> c.request, status |-> "failed"]}
      BY <1>5 DEF ReceiveCommand, Report
  <2> HIDE DEF c
  <2> QED
    BY <1>2, <2>1, <2>2 DEF Taken, Busy, NoUpdate, ReportsStarted
<1>6. ASSUME NEW s \in Sockets, PanelConnects(s)
      PROVE  ReportsStarted'
  <2>1. /\ handler[s].pc = "unregistered" /\ UNCHANGED <<ota, status, started>>
        /\ \A t \in Sockets : t # s => up'[t] = up[t]
      BY <1>6 DEF PanelConnects, OpenSocket, endpoint, Typed, TypeOK, RegistersFirst
  <2>2. AcceptedWasStarted'
      BY <1>1, <2>1 DEF ReportsStarted, AcceptedWasStarted, Last
  <2>3. \A t \in Sockets : handler'[t].pc # "unregistered" =>
          \A i \in 1 .. Len(up'[t]) : up'[t][i].status \in Taken => up'[t][i].request \in started'
      BY <1>1, <2>1 DEF ReportsStarted
  <2> QED
    BY <2>1, <2>2, <2>3 DEF ReportsStarted, Taken, Busy
<1>7. ASSUME NEW s \in Sockets, FlushStatus(s)
      PROVE  ReportsStarted'
  <2>1. /\ handler[s].pc # "unregistered" /\ status # NoStatus /\ UNCHANGED <<ota, started>>
        /\ up' = [up EXCEPT ![s] = Append(@, status)] /\ status' = NoStatus
      BY <1>7 DEF FlushStatus
  <2>2. up \in [Sockets -> Seq(Messages)] /\ status \in Messages
      BY DEF Typed, TypeOK, Messages
  <2>3. /\ Len(up'[s]) = Len(up[s]) + 1 /\ up'[s][Len(up[s]) + 1] = status
        /\ \A i \in 1 .. Len(up[s]) : up'[s][i] = up[s][i]
        /\ \A t \in Sockets : t # s => up'[t] = up[t]
        /\ Len(up[s]) \in Nat
      BY <2>1, <2>2, QueueAppended
  <2>4. AcceptedWasStarted'
      BY <1>1, <2>1 DEF ReportsStarted, AcceptedWasStarted, Last
  <2>5. ASSUME NEW t \in Sockets, handler'[t].pc # "unregistered", NEW i \in 1 .. Len(up'[t]),
               up'[t][i].status \in Taken
        PROVE  up'[t][i].request \in started'
    <3>1. CASE t = s
      <4>1. i \in 1 .. Len(up[s]) \/ i = Len(up[s]) + 1
          BY <2>3, <3>1
      <4> QED
        BY <1>1, <2>1, <2>3, <2>5, <3>1, <4>1 DEF ReportsStarted
    <3>2. CASE t # s
        BY <1>1, <2>1, <2>3, <2>5, <3>2 DEF ReportsStarted
    <3> QED
      BY <3>1, <3>2
  <2>6. status'.status \notin Taken
      BY <2>1 DEF NoStatus, Taken
  <2> QED
    BY <2>1, <2>4, <2>5, <2>6 DEF ReportsStarted, Taken, Busy
<1> QED
  BY <1>3, <1>4, <1>5, <1>6, <1>7, <1>8 DEF PanelStep

LEMMA StartedStep ==
    ASSUME Typed, ReportsStarted, [Next]_vars
    PROVE  ReportsStarted'
<1>1. CASE UNCHANGED vars
  <2>1. UNCHANGED <<log, handler, ota, status, started, up>>
      BY <1>1 DEF vars, server, endpoint
  <2>2. AcceptedWasStarted'
      BY <2>1 DEF ReportsStarted, AcceptedWasStarted, Last
  <2> QED
    BY <2>1, <2>2 DEF ReportsStarted, Taken, Busy
<1>2. CASE Next
  <2>1. ASSUME NEW s \in Sockets, HandlerStep(s)
        PROVE  ReportsStarted'
      BY <2>1, ServerSteps, ServerKeepsStarted, StartedReceive DEF HandlerStep
  <2> QED
    BY <1>2, <2>1, ServerSteps, ServerKeepsStarted, StartedPanel DEF Next
<1> QED
  BY <1>1, <1>2

LEMMA InitStarted == Init => Typed /\ ReportsStarted
<1> SUFFICES ASSUME Init PROVE Typed /\ ReportsStarted
    OBVIOUS
<1>1. AcceptedWasStarted
    BY DEF Init, AcceptedWasStarted, Last
<1>2. \A s \in Sockets : handler[s].pc = "unregistered"
    BY DEF Init, At
<1> QED
  BY <1>1, <1>2, TypedInit DEF Init, ReportsStarted, NoStatus, NoUpdate, Taken, Busy

\* The record never shows a deployment as accepted or restarting that the
\* endpoint did not take up, however many were sent, on however many sockets,
\* and whatever reports of older ones arrive late (update's comparison).
THEOREM AcceptedOnlyIfStarted == Spec => []AcceptedWasStarted
<1>1. Init => Typed /\ ReportsStarted
    BY InitStarted
<1>2. Typed /\ ReportsStarted /\ [Next]_vars => Typed' /\ ReportsStarted'
    BY TypedStep, StartedStep
<1>3. ReportsStarted => AcceptedWasStarted
    BY DEF ReportsStarted
<1> QED
  BY <1>1, <1>2, <1>3, PTL DEF Spec

-----------------------------------------------------------------------------
(* The endpoint goes where a command sent it                               *)

\* A command on the wire keeps naming a deployment on record.
LEMMA CommandKept ==
    ASSUME Typed, Commanded, LogKept, NEW s \in Sockets, NEW i \in 1 .. Len(down[s])
    PROVE  /\ down[s][i].request <= Len(log')
           /\ log'[down[s][i].request].version = down[s][i].version
<1>1. down[s][i] \in Commands /\ Len(log) \in Nat /\ Len(log') \in Nat
  <2>1. down[s] \in Seq(Commands)
      BY DEF Typed, TypeOK, Commands
  <2> QED
    BY <2>1 DEF Typed, TypeOK, LogKept
<1>2. down[s][i].request \in 1 .. Len(log)
    BY <1>1 DEF Commanded, Commands, Last
<1> QED
  BY <1>1, <1>2 DEF Commanded, LogKept, Last

LEMMA UpdateKept ==
    ASSUME Typed, Commanded, LogKept,
           \/ ota' = ota
           \/ ota'.phase \notin Busy
           \/ /\ ota.phase \in Busy
              /\ ota'.request = ota.request /\ ota'.version = ota.version
              /\ ota'.phase = "restarting" =>
                   ota'.fetched = ota.version /\ ota'.fetched > image.running,
           ota'.phase = "restarting" => image'.running = image.running
    PROVE  /\ ota'.phase \in Busy =>
                /\ ota'.request <= Len(log')
                /\ log'[ota'.request].version = ota'.version
           /\ ota'.phase = "restarting" =>
                ota'.fetched = ota'.version /\ ota'.fetched > image'.running
<1>1. ASSUME ota.phase \in Busy
      PROVE  /\ ota.request <= Len(log')
             /\ log'[ota.request].version = ota.version
  <2>1. ota.request \in 1 .. Len(log) /\ Len(log) \in Nat /\ Len(log') \in Nat
      BY <1>1, DeploymentKnobs DEF Typed, TypeOK, LogKept, Commanded, Numbered, Last
  <2> QED
    BY <1>1, <2>1 DEF Commanded, LogKept, Last
<1> QED
  BY <1>1 DEF Commanded, Busy

LEMMA CommandedStep ==
    ASSUME Typed, Commanded, [Next]_vars
    PROVE  Commanded'
<1>1. LogKept /\ down \in [Sockets -> Seq(Commands)]
    BY TypedStep DEF Typed, TypeOK, Commands
<1>2. ASSUME \A s \in Sockets : \A i \in 1 .. Len(down'[s]) :
               \/ i \in 1 .. Len(down[s]) /\ down'[s][i] = down[s][i]
               \/ i + 1 \in 1 .. Len(down[s]) /\ down'[s][i] = down[s][i + 1]
               \/ /\ down'[s][i].request <= Len(log')
                  /\ log'[down'[s][i].request].version = down'[s][i].version,
             \/ ota' = ota
             \/ ota'.phase \notin Busy
             \/ /\ ota.phase \in Busy
                /\ ota'.request = ota.request /\ ota'.version = ota.version
                /\ ota'.phase = "restarting" =>
                     ota'.fetched = ota.version /\ ota'.fetched > image.running,
             ota'.phase = "restarting" => image'.running = image.running
      PROVE  Commanded'
  <2>1. \A s \in Sockets : \A i \in 1 .. Len(down'[s]) :
           /\ down'[s][i].request <= Len(log')
           /\ log'[down'[s][i].request].version = down'[s][i].version
      BY <1>1, <1>2, CommandKept
  <2>2. /\ ota'.phase \in Busy =>
             /\ ota'.request <= Len(log')
             /\ log'[ota'.request].version = ota'.version
        /\ ota'.phase = "restarting" =>
             ota'.fetched = ota'.version /\ ota'.fetched > image'.running
      BY <1>1, <1>2, UpdateKept
  <2> QED
    BY <2>1, <2>2 DEF Commanded, Last, Busy
<1>3. ASSUME NEW v \in Versions, Last < MaxRequests, Deploy(v), UNCHANGED <<ota, image>>
      PROVE  Commanded'
  <2>1. /\ Len(log') = Last + 1 /\ log'[Last + 1].version = v
        /\ \A t \in Sockets : \A i \in 1 .. Len(down'[t]) :
             \/ i \in 1 .. Len(down[t]) /\ down'[t][i] = down[t][i]
             \/ down'[t][i] = [request |-> Last + 1, version |-> v]
      BY <1>3, DeployKeeps, Zenon
  <2>2. Last + 1 \in Nat
      BY DEF Typed, TypeOK, Last
  <2> DEFINE c == [request |-> Last + 1, version |-> v]
  <2>3. c.request <= Len(log') /\ log'[c.request].version = c.version
      BY <2>1, <2>2
  <2> HIDE DEF c
  <2> QED
    BY <1>2, <1>3, <2>1, <2>3 DEF c
<1>4. ASSUME UNCHANGED <<ota, image, down>>
      PROVE  Commanded'
    BY <1>2, <1>4
<1>5. CASE UNCHANGED vars
    BY <1>4, <1>5 DEF vars, server, endpoint
<1>6. CASE (\E v \in Versions : Publish(v)) \/ AcknowledgementTimeout
           \/ \E r \in 1 .. MaxRequests : DeployStep(r)
    BY <1>4, <1>6 DEF Publish, AcknowledgementTimeout, DeployStep, DeployReturns, DeployFails,
                      endpoint
<1>7. CASE AdminDeploys
  <2>1. published \in Versions /\ Last < MaxRequests /\ Deploy(published)
        /\ UNCHANGED <<ota, image>>
      BY <1>7 DEF AdminDeploys, Typed, TypeOK, endpoint
  <2> QED
    BY <1>3, <2>1
<1>8. ASSUME NEW s \in Sockets, HandlerStep(s)
      PROVE  Commanded'
  <2>1. CASE Retry(s)
    <3>1. handler[s] \in Handler /\ handler[s].pc = "waiting" /\ UNCHANGED <<ota, image>>
        BY <2>1 DEF Retry, Typed, TypeOK, endpoint
    <3>2. handler[s].running \in Versions
        BY <3>1 DEF Handler
    <3> QED
      BY <1>3, <1>4, <2>1, <3>1, <3>2 DEF Retry
  <2>2. CASE ~ Retry(s)
      BY <1>4, <1>8, <2>2 DEF HandlerStep, Register, PreviousClosed, Greeted, HandlerEnds,
                              MarkOffline,
                       LossNoticed, ReceiveStatus, server, endpoint
  <2> QED
    BY <2>1, <2>2
<1>9. CASE \/ Boots \/ TaskCreated \/ TaskRefused
           \/ InstallBegins \/ InstallFails \/ InstallVerified \/ UpdateOver
  <2>1. UNCHANGED down /\ image'.running = image.running
      BY <1>9 DEF Boots, TaskCreated, TaskRefused, InstallBegins, InstallFails, InstallVerified,
                  UpdateOver, Typed, TypeOK
  <2>2. \/ ota' = ota
        \/ ota'.phase \notin Busy
        \/ /\ ota.phase \in Busy
           /\ ota'.request = ota.request /\ ota'.version = ota.version
           /\ ota'.phase = "restarting" =>
                ota'.fetched = ota.version /\ ota'.fetched > image.running
    <3>1. CASE Boots
        BY <3>1 DEF Boots
    <3>2. CASE TaskRefused \/ InstallFails \/ UpdateOver
        BY <3>2 DEF TaskRefused, InstallFails, UpdateOver, NoUpdate, Busy
    <3>3. CASE TaskCreated \/ InstallBegins
        BY <3>3 DEF TaskCreated, InstallBegins, Busy, Typed, TypeOK
    <3>4. CASE InstallVerified
        BY <3>4 DEF InstallVerified, Verified, IsUpgrade, Busy, Typed, TypeOK
    <3> QED
      BY <1>9, <3>1, <3>2, <3>3, <3>4
  <2> QED
    BY <1>2, <2>1, <2>2
<1>10. CASE Restarts
  <2>1. ota'.phase = "idle" /\ \A s \in Sockets : Len(down'[s]) = 0
      BY <1>10 DEF Restarts, NoUpdate
  <2> QED
    BY <1>2, <2>1 DEF Busy
<1>11. ASSUME NEW s \in Sockets, PanelConnects(s) \/ FlushStatus(s)
       PROVE  Commanded'
    BY <1>4, <1>11 DEF PanelConnects, FlushStatus, endpoint
<1>12. ASSUME NEW s \in Sockets, LinkLost(s)
       PROVE  Commanded'
  <2>1. UNCHANGED <<ota, image>> /\ Len(down'[s]) = 0
        /\ \A t \in Sockets : t # s => down'[t] = down[t]
      BY <1>1, <1>12 DEF LinkLost, endpoint
  <2> QED
    BY <1>2, <2>1
<1>13. ASSUME NEW s \in Sockets, ReceiveCommand(s)
       PROVE  Commanded'
  <2> DEFINE c == Head(down[s])
  <2>1. /\ c = down[s][1] /\ 1 \in 1 .. Len(down[s]) /\ UNCHANGED <<image, log>>
        /\ \A i \in 1 .. Len(down'[s]) : i + 1 \in 1 .. Len(down[s]) /\ down'[s][i] = down[s][i + 1]
        /\ \A t \in Sockets : t # s => down'[t] = down[t]
      BY <1>1, <1>13, QueueShortened DEF ReceiveCommand, server
  <2>2. c.request <= Len(log') /\ log'[c.request].version = c.version
      BY <1>1, <2>1, CommandKept
  <2>3. \/ ota' = [phase |-> "creating", request |-> c.request, version |-> c.version, fetched |-> 0]
        \/ \E p \in {"idle", "leaked"} : ota' = NoUpdate(p)
        \/ ota' = ota
      BY <1>13 DEF ReceiveCommand
  <2> HIDE DEF c
  <2>4. CASE ota' = [phase |-> "creating", request |-> c.request, version |-> c.version, fetched |-> 0]
    <3>1. \A t \in Sockets : \A i \in 1 .. Len(down'[t]) :
            /\ down'[t][i].request <= Len(log')
            /\ log'[down'[t][i].request].version = down'[t][i].version
        BY <1>1, <2>1, CommandKept
    <3> QED
      BY <2>2, <2>4, <3>1 DEF Commanded, Last, Busy
  <2>5. CASE \E p \in {"idle", "leaked"} : ota' = NoUpdate(p)
      BY <1>2, <2>1, <2>5 DEF NoUpdate, Busy
  <2>6. CASE ota' = ota
      BY <1>2, <2>1, <2>6
  <2> QED
    BY <2>3, <2>4, <2>5, <2>6
<1> QED
  BY <1>5, <1>6, <1>7, <1>8, <1>9, <1>10, <1>11, <1>12, <1>13 DEF Next, PanelStep

\* The image an endpoint starts is its fallback or a newer one that a command
\* it took up named: not what happened to be published, not an older one, and
\* not that of a command of somebody else.
THEOREM BootsAsCommanded == Spec => BootsWhatWasCommanded
<1> DEFINE Boot == image'.running # image.running =>
                     \/ image'.running = image.fallback
                     \/ /\ image'.running > image.running
                        /\ \E r \in started : log[r].version = image'.running
<1>1. Init => Typed /\ ReportsStarted /\ Commanded
  <2>1. Init => Typed /\ ReportsStarted
      BY InitStarted
  <2>2. Init => Commanded
      BY DEF Init, Commanded, NoUpdate, Busy
  <2> QED
    BY <2>1, <2>2
<1>2. Typed /\ ReportsStarted /\ Commanded /\ [Next]_vars =>
        Typed' /\ ReportsStarted' /\ Commanded'
    BY TypedStep, StartedStep, CommandedStep
<1>3. Typed /\ ReportsStarted /\ Commanded /\ [Next]_vars => [Boot]_vars
  <2> SUFFICES ASSUME Typed, ReportsStarted, Commanded, Next, image'.running # image.running
               PROVE  \/ image'.running = image.fallback
                      \/ /\ image'.running > image.running
                         /\ \E r \in started : log[r].version = image'.running
      BY DEF vars, endpoint
  <2>1. Boots \/ Restarts
      BY DEF Next, Publish, AdminDeploys, DeployStep, DeployReturns, DeployFails,
             AcknowledgementTimeout, HandlerStep, Register, PreviousClosed, Greeted, Retry,
             HandlerEnds, MarkOffline, LossNoticed, ReceiveStatus, PanelStep, TaskCreated,
             TaskRefused, InstallBegins,
             InstallFails, InstallVerified, UpdateOver, PanelConnects, LinkLost, ReceiveCommand,
             FlushStatus, endpoint,
             server
  <2>2. CASE Boots
      BY <2>2 DEF Boots, Typed, TypeOK
  <2>3. CASE Restarts /\ ota.phase = "restarting"
    <3>1. image'.running = ota.fetched
        BY <2>3 DEF Restarts
    <3>2. ota.request \in started /\ log[ota.request].version = ota.fetched
          /\ ota.fetched > image.running
        BY <2>3 DEF Commanded, ReportsStarted, Busy
    <3> QED
      BY <3>1, <3>2
  <2>4. CASE Restarts /\ ota.phase # "restarting"
      BY <2>4 DEF Restarts, Typed, TypeOK
  <2> QED
    BY <2>1, <2>2, <2>3, <2>4
<1> QED
  BY <1>1, <1>2, <1>3, PTL DEF Spec, BootsWhatWasCommanded

-----------------------------------------------------------------------------
(* Somebody watches a command that was sent                                *)

\* Sends finish in order when they cannot suspend, or when the endpoint has
\* but one socket; a later one on a second socket may overtake otherwise.
SendsQueue == ~ SlowSends \/ MaxReconnects = 0

Watched == SendsInOrder /\ SentIsWatched

\* What changes the newest deployment's status, or nothing of the log, leaves
\* the sends alone.
LEMMA WatchedStatus ==
    ASSUME Typed, Watched,
           \/ log' = log /\ timer' = timer
           \/ /\ Last \in 1 .. Last
              /\ \E x \in Statuses : x # "sent" /\ log' = [log EXCEPT ![Last].status = x]
           \/ log' = log /\ log # <<>> /\ log[Last].status # "sent"
           \/ log' = log /\ timer # Last
    PROVE  Watched'
<1>1. CASE log' = log
  <2>1. Sending' = Sending /\ Last' = Last
      BY <1>1 DEF Sending, Last
  <2>2. SentIsWatched'
    <3>1. CASE timer' = timer
        BY <1>1, <2>1, <3>1 DEF Watched, SentIsWatched
    <3>2. CASE log # <<>> /\ log[Last].status # "sent"
        BY <1>1, <2>1, <3>2 DEF SentIsWatched, Watched
    <3>3. CASE timer # Last
        BY <1>1, <2>1, <3>3 DEF Watched, SentIsWatched
    <3>4. CASE Last \in 1 .. Last /\ \E x \in Statuses : x # "sent" /\ log' = [log EXCEPT ![Last].status = x]
      <4>1. log'[Last].status # "sent"
          BY <3>4, StatusUpdated DEF Typed
      <4> QED
        BY <1>1, <2>1, <4>1 DEF SentIsWatched
    <3> QED
      BY <3>1, <3>2, <3>3, <3>4
  <2> QED
    BY <1>1, <2>1, <2>2 DEF Watched, SendsInOrder
<1>2. CASE /\ Last \in 1 .. Last
           /\ \E x \in Statuses : x # "sent" /\ log' = [log EXCEPT ![Last].status = x]
  <2>1. PICK x \in Statuses : x # "sent" /\ log' = [log EXCEPT ![Last].status = x]
      BY <1>2
  <2>2. /\ Len(log') = Len(log) /\ log'[Last].status = x /\ log'[Last].via = log[Last].via
        /\ \A q \in 1 .. Last : q # Last => log'[q] = log[q]
      BY <1>2, <2>1, StatusUpdated DEF Typed
  <2>3. Sending' = Sending /\ Last' = Last
      BY <2>2 DEF Sending, Last
  <2>4. SentIsWatched'
      BY <2>1, <2>2, <2>3 DEF SentIsWatched
  <2> QED
    BY <2>3, <2>4 DEF Watched, SendsInOrder
<1> QED
  BY <1>1, <1>2

LEMMA WatchedDeploy ==
    ASSUME Typed, Watched, NEW v \in Versions, Last < MaxRequests, Deploy(v), MayBegin
    PROVE  Watched'
<1>0. Last \in Nat
    BY DEF Typed, TypeOK, Last
<1>1. Len(log') = Last + 1 /\ \A r \in 1 .. Last : log'[r] = log[r]
    BY DeployKeeps
<1>2. log'[Last + 1].via # NoSocket
  <2>1. PICK d : log' = Append(log, d) /\ d.via # NoSocket
      BY DEF Deploy, Deployable, Reachable
  <2> QED
    BY <2>1 DEF Typed, TypeOK, Last
<1>3. Last' = Last + 1 /\ Sending' = Sending \cup {Last + 1}
  <2>1. Last' = Last + 1
      BY <1>1 DEF Last
  <2>2. \A r : r \in Sending' <=> r \in Sending \/ r = Last + 1
      BY <1>0, <1>1, <1>2, <2>1 DEF Sending
  <2> QED
    BY <2>1, <2>2
<1>4. Sending \subseteq 1 .. Last
    BY DEF Sending
<1>5. ASSUME NEW q \in Sending', NEW r \in q .. Last'
      PROVE  r \in Sending'
    BY <1>0, <1>3, <1>4, <1>5 DEF Watched, SendsInOrder
<1>6. ~ SlowSends => Sending' \subseteq {Last'}
    BY <1>3 DEF MayBegin
<1> QED
  BY <1>3, <1>5, <1>6 DEF Watched, SendsInOrder, SentIsWatched

LEMMA WatchedSend ==
    ASSUME Typed, Watched, SendsQueue, NEW r \in 1 .. MaxRequests, DeployStep(r)
    PROVE  Watched'
<1>1. r \in Sending /\ r \in 1 .. Last /\ Last \in Nat /\ Last \in 1 .. Last /\ log # <<>>
    BY DEF DeployStep, DeployReturns, DeployFails, FirstOnSocket, Sending, Typed, TypeOK, Last
<1>2. \A q \in Sending : q >= r
  <2>1. CASE ~ SlowSends
      BY <1>1, <2>1 DEF Watched, SendsInOrder
  <2>2. CASE MaxReconnects = 0
    <3>1. \A q \in Sending : log[q].via = <<Panel, 1>>
      <4> SUFFICES ASSUME NEW q \in Sending PROVE log[q].via = <<Panel, 1>>
          OBVIOUS
      <4>1. log[q] \in Deployment /\ log[q].via # NoSocket
          BY DEF Sending, Typed, TypeOK, Last
      <4>2. log[q].via \in Endpoints \X (1 .. 1)
          BY <2>2, <4>1 DEF Deployment, Sockets
      <4> QED
        BY <4>2, PanelAssumption
    <3>2. \A q \in Sending : log[q].via = log[r].via => q >= r
        BY DEF DeployStep, DeployReturns, DeployFails, FirstOnSocket
    <3> QED
      BY <1>1, <3>1, <3>2
  <2> QED
    BY <2>1, <2>2 DEF SendsQueue
<1>3. /\ Len(log') = Len(log) /\ log'[r].via = NoSocket
      /\ \A q \in 1 .. Last : q # r => log'[q] = log[q]
      /\ \/ log'[r].status = log[r].status /\ timer' = r
         \/ log'[r].status = "failed" /\ timer' = timer
  <2>1. CASE DeployReturns(r)
      BY <1>1, <2>1, SendUpdated DEF DeployReturns, Typed
  <2>2. CASE DeployFails(r)
      BY <1>1, <2>2, SendUpdated DEF DeployFails, Typed
  <2> QED
    BY <2>1, <2>2 DEF DeployStep
<1>4. Last' = Last /\ Sending' = Sending \ {r}
  <2>1. Last' = Last
      BY <1>3 DEF Last
  <2>2. \A q : q \in Sending' <=> q \in Sending /\ q # r
      BY <1>1, <1>3, <2>1 DEF Sending
  <2> QED
    BY <2>1, <2>2
<1>5. Last \in Sending
    BY <1>1 DEF Watched, SendsInOrder
<1>6. SendsInOrder'
  <2>1. ASSUME NEW q \in Sending \ {r}, NEW t \in q .. Last
        PROVE  t \in Sending \ {r}
    <3>1. q \in 1 .. Last /\ q > r
        BY <1>1, <1>2 DEF Sending
    <3> QED
      BY <1>1, <2>1, <3>1 DEF Watched, SendsInOrder
  <2> QED
    BY <1>4, <2>1 DEF Watched, SendsInOrder
<1>7. SentIsWatched'
  <2>1. CASE r = Last
      BY <1>3, <1>4, <2>1 DEF SentIsWatched
  <2>2. CASE r # Last
      BY <1>4, <1>5, <2>2 DEF SentIsWatched
  <2> QED
    BY <2>1, <2>2
<1> QED
  BY <1>6, <1>7 DEF Watched

LEMMA WatchedStep ==
    ASSUME Typed, Watched, SendsQueue, [Next]_vars
    PROVE  Watched'
<1>0. log # <<>> => Last \in 1 .. Last
    BY DEF Typed, TypeOK, Last
<1>1. ASSUME UNCHANGED <<log, timer>>
      PROVE  Watched'
    BY <1>1, WatchedStatus
<1>2. ASSUME NEW v, MarkRunning(v)
      PROVE  Watched'
    BY <1>0, <1>2, WatchedStatus DEF MarkRunning, Statuses
<1>3. CASE UNCHANGED vars
    BY <1>1, <1>3 DEF vars, server
<1>4. CASE \E v \in Versions : Publish(v)
    BY <1>1, <1>4 DEF Publish
<1>5. CASE AdminDeploys
  <2>1. published \in Versions /\ Last < MaxRequests /\ Deploy(published) /\ MayBegin
      BY <1>5 DEF AdminDeploys, Typed, TypeOK
  <2> QED
    BY <2>1, WatchedDeploy
<1>6. CASE AcknowledgementTimeout
  <2>1. CASE timer = Last /\ log[Last].status = "sent"
    <3>1. Last \in 1 .. Last
        BY <1>6, <2>1 DEF AcknowledgementTimeout, Typed, TypeOK, Last
    <3> QED
      BY <1>6, <2>1, <3>1, WatchedStatus DEF AcknowledgementTimeout, Statuses
  <2>2. CASE timer # Last
      BY <1>6, <2>2, WatchedStatus DEF AcknowledgementTimeout
  <2>3. CASE timer = Last /\ log[Last].status # "sent"
    <3>1. log # <<>>
        BY <1>6, <2>3 DEF AcknowledgementTimeout, Last
    <3> QED
      BY <1>6, <2>3, <3>1, WatchedStatus DEF AcknowledgementTimeout
  <2> QED
    BY <2>1, <2>2, <2>3
<1>7. ASSUME NEW s \in Sockets, HandlerStep(s)
      PROVE  Watched'
  <2>1. CASE Register(s)
      BY <1>1, <1>2, <2>1 DEF Register, Greet
  <2>2. CASE PreviousClosed(s)
      BY <1>2, <2>2 DEF PreviousClosed, Greet
  <2>3. CASE Retry(s)
    <3>1. handler[s] \in Handler /\ handler[s].pc = "waiting" /\ MayBegin
        BY <2>3 DEF Retry, Typed, TypeOK
    <3>2. handler[s].running \in Versions
        BY <3>1 DEF Handler
    <3>3. CASE Last < MaxRequests /\ Deploy(handler[s].running)
        BY <3>1, <3>2, <3>3, WatchedDeploy
    <3>4. CASE UNCHANGED <<log, timer>>
        BY <1>1, <3>4
    <3> QED
      BY <2>3, <3>3, <3>4 DEF Retry
  <2>4. CASE ReceiveStatus(s)
    <3> DEFINE m == Head(up[s])
    <3>1. m \in Reports
      <4>1. up[s] \in Seq(Reports) /\ up[s] # <<>>
          BY <2>4 DEF ReceiveStatus, Typed, RegistersFirst
      <4> QED
        BY <4>1
    <3>2. Update(m)
        BY <2>4 DEF ReceiveStatus
    <3> HIDE DEF m
    <3>3. CASE m.request = Last
      <4>1. Last \in 1 .. Last /\ m.status \in Statuses /\ m.status # "sent"
          BY <3>1, <3>3 DEF Reports, Statuses, Typed, TypeOK, Last
      <4> QED
        BY <3>2, <3>3, <4>1, WatchedStatus DEF Update
    <3>4. CASE m.request # Last
        BY <1>1, <3>2, <3>4 DEF Update
    <3> QED
      BY <3>3, <3>4
  <2>5. CASE Greeted(s) \/ HandlerEnds(s) \/ MarkOffline(s) \/ LossNoticed(s)
      BY <1>1, <2>5 DEF Greeted, HandlerEnds, MarkOffline, LossNoticed, server
  <2> QED
    BY <1>7, <2>1, <2>2, <2>3, <2>4, <2>5 DEF HandlerStep
<1>8. CASE PanelStep
  <2>1. UNCHANGED <<log, timer>>
      BY <1>8 DEF PanelStep, Boots, TaskCreated, TaskRefused, InstallBegins, InstallFails,
                  InstallVerified, UpdateOver, Restarts,
                  PanelConnects, LinkLost, ReceiveCommand, FlushStatus, server
  <2> QED
    BY <1>1, <2>1
<1> QED
  BY <1>3, <1>4, <1>5, <1>6, <1>7, <1>8, WatchedSend DEF Next

\* As long as sends are not overtaken, a command that is neither acknowledged
\* nor given up always has a task that will do one of the two: the timer that
\* runs is never that of an older deployment (deploy cancels and restarts it).
THEOREM SentWatched ==
    ASSUME SendsQueue
    PROVE  Spec => []SentIsWatched
<1>1. Init => Typed /\ Watched
  <2>1. Init => Watched
      BY DEF Init, Watched, SendsInOrder, SentIsWatched, Sending, Last
  <2> QED
    BY <2>1, TypedInit
<1>2. Typed /\ Watched /\ [Next]_vars => Typed' /\ Watched'
    BY TypedStep, WatchedStep
<1>3. Watched => SentIsWatched
    BY DEF Watched
<1> QED
  BY <1>1, <1>2, <1>3, PTL DEF Spec

-----------------------------------------------------------------------------
(* Statuses come in order                                                  *)

\* The queue of socket s holds a report that says this of deployment r.
Says(s, r, what) ==
    /\ handler[s].pc # "unregistered"
    /\ \E i \in 1 .. Len(up[s]) :
         up[s][i].request = r /\ up[s][i].status = what

\* A command is on the wire once, and not any more when it was taken up.
CommandedOnce ==
    /\ started \subseteq 1 .. Last
    /\ \A s \in Sockets : \A i \in 1 .. Len(down[s]) :
         /\ down[s][i].request \notin started
         /\ \A t \in Sockets : \A j \in 1 .. Len(down[t]) :
              down[s][i].request = down[t][j].request => s = t /\ i = j

\* The endpoint has taken up a command and not come to the end of it.
Underway == {"creating", "settling", "installing"}

\* It is too early for deployment r to be restarting: the endpoint has not
\* verified its image.
TooEarly(r) ==
    /\ r \in 1 .. Last => log[r].status # "restarting"
    /\ \A s \in Sockets : ~ Says(s, r, "restarting")

\* Reports of a deployment stay in the order in which the endpoint makes them:
\* "accepted" is on its way, if at all, ahead of "restarting", and not on the
\* socket the server listens to once that was applied.
UpdateEarly ==
    ota.phase \in Underway =>
      TooEarly(ota.request) /\ ~ (status.request = ota.request /\ status.status = "restarting")

StatusEarly ==
    status.status = "accepted" => TooEarly(status.request)

QueueInStages ==
    \A s \in Sockets : handler[s].pc # "unregistered" =>
      \A i, j \in 1 .. Len(up[s]) :
        i < j /\ up[s][i].status = "restarting" /\ up[s][j].status = "accepted" =>
          up[s][i].request # up[s][j].request

LogInStages ==
    \A s \in Sockets : connections[Panel] = s =>
      \A r \in 1 .. Last : log[r].status = "restarting" => ~ Says(s, r, "accepted")

InStages == UpdateEarly /\ StatusEarly /\ QueueInStages /\ LogInStages

OrderInv == Typed /\ ReportsStarted /\ Commanded /\ CommandedOnce /\ InStages

LEMMA StartedStays ==
    ASSUME Typed, started' = started, started \subseteq 1 .. Last, LogKept
    PROVE  started' \subseteq 1 .. Len(log')
<1>1. Len(log) \in Nat /\ Len(log') \in Nat /\ Len(log') >= Len(log)
    BY DEF Typed, TypeOK, LogKept
<1> QED
  BY <1>1 DEF Last

\* Commands only leave the wire, but for the one that deploy puts there.
LEMMA OnceKept ==
    ASSUME Typed, CommandedOnce, started' = started, LogKept,
           \A s \in Sockets :
             \/ down'[s] = down[s] \/ Len(down'[s]) = 0
             \/ /\ Len(down'[s]) = Len(down[s]) - 1
                /\ \A i \in 1 .. Len(down[s]) - 1 :
                     i + 1 \in 1 .. Len(down[s]) /\ down'[s][i] = down[s][i + 1]
    PROVE  CommandedOnce'
<1>1. \A s \in Sockets : \A i \in 1 .. Len(down'[s]) :
        \/ down'[s] = down[s]
        \/ /\ Len(down'[s]) = Len(down[s]) - 1
           /\ i + 1 \in 1 .. Len(down[s]) /\ down'[s][i] = down[s][i + 1]
  <2> SUFFICES ASSUME NEW s \in Sockets, NEW i \in 1 .. Len(down'[s]), down'[s] # down[s]
               PROVE  /\ Len(down'[s]) = Len(down[s]) - 1
                      /\ i + 1 \in 1 .. Len(down[s]) /\ down'[s][i] = down[s][i + 1]
      OBVIOUS
  <2>1. Len(down'[s]) # 0
      OBVIOUS
  <2>2. /\ Len(down'[s]) = Len(down[s]) - 1
        /\ \A k \in 1 .. Len(down[s]) - 1 :
             k + 1 \in 1 .. Len(down[s]) /\ down'[s][k] = down[s][k + 1]
      BY <2>1
  <2> QED
    BY <2>2
<1>2. ASSUME NEW s \in Sockets, NEW i \in 1 .. Len(down'[s]),
             NEW t \in Sockets, NEW j \in 1 .. Len(down'[t]),
             down'[s][i].request = down'[t][j].request
      PROVE  s = t /\ i = j
  <2>1. PICK k \in 1 .. Len(down[s]) : /\ down'[s][i] = down[s][k]
                                       /\ k = IF down'[s] = down[s] THEN i ELSE i + 1
      BY <1>1
  <2>2. PICK l \in 1 .. Len(down[t]) : /\ down'[t][j] = down[t][l]
                                       /\ l = IF down'[t] = down[t] THEN j ELSE j + 1
      BY <1>1
  <2>3. s = t /\ k = l
    <3>1. down[s][k].request = down[t][l].request
        BY <1>2, <2>1, <2>2
    <3>2. \A q \in Sockets : \A n \in 1 .. Len(down[q]) :
            \A u \in Sockets : \A m \in 1 .. Len(down[u]) :
              down[q][n].request = down[u][m].request => q = u /\ n = m
        BY DEF CommandedOnce
    <3> QED
      BY <3>1, <3>2
  <2> QED
    BY <2>1, <2>2, <2>3
<1>3. ASSUME NEW s \in Sockets, NEW i \in 1 .. Len(down'[s])
      PROVE  down'[s][i].request \notin started'
  <2>1. PICK k \in 1 .. Len(down[s]) : down'[s][i] = down[s][k]
      BY <1>1
  <2>2. down[s][k].request \notin started
      BY Zenon DEF CommandedOnce
  <2> QED
    BY <2>1, <2>2
<1>4. started' \subseteq 1 .. Len(log')
    BY StartedStays DEF CommandedOnce
<1> QED
  BY <1>2, <1>3, <1>4 DEF CommandedOnce, Last

LEMMA OnceDeployed ==
    ASSUME Typed, Commanded, CommandedOnce, started' = started,
           NEW v \in Versions, Last < MaxRequests, Deploy(v)
    PROVE  CommandedOnce'
<1>1. \A t \in Sockets : \A i \in 1 .. Len(down'[t]) :
        \/ i \in 1 .. Len(down[t]) /\ down'[t][i] = down[t][i]
        \/ /\ down'[t][i] = [request |-> Last + 1, version |-> v]
           /\ t = connections[Panel] /\ i = Len(down[t]) + 1
    BY DeployKeeps, Zenon
<1>2. Last \in Nat
    BY DEF Typed, TypeOK, Last
<1>3. \A t \in Sockets : \A i \in 1 .. Len(down[t]) : down[t][i].request # Last + 1
  <2> SUFFICES ASSUME NEW t \in Sockets, NEW i \in 1 .. Len(down[t])
               PROVE  down[t][i].request # Last + 1
      OBVIOUS
  <2>1. down[t][i].request \in 1 .. MaxRequests
    <3>1. down[t] \in Seq(Commands)
        BY DEF Typed, TypeOK, Commands
    <3>2. down[t][i] \in Commands
        BY <3>1
    <3> QED
      BY <3>2 DEF Commands
  <2>2. down[t][i].request <= Last
      BY DEF Commanded
  <2> QED
    BY <1>2, <2>1, <2>2
<1>4. \A t \in Sockets : \A i \in 1 .. Len(down'[t]) :
        \/ /\ i \in 1 .. Len(down[t]) /\ down'[t][i].request = down[t][i].request
           /\ down'[t][i].request # Last + 1
        \/ down'[t][i].request = Last + 1 /\ t = connections[Panel] /\ i = Len(down[t]) + 1
    BY <1>1, <1>3
<1>5. ASSUME NEW s \in Sockets, NEW i \in 1 .. Len(down'[s]),
             NEW t \in Sockets, NEW j \in 1 .. Len(down'[t]),
             down'[s][i].request = down'[t][j].request
      PROVE  s = t /\ i = j
    BY <1>4, <1>5 DEF CommandedOnce
<1>6. \A s \in Sockets : \A i \in 1 .. Len(down'[s]) : down'[s][i].request \notin started'
    BY <1>2, <1>4 DEF CommandedOnce
<1>7. started' \subseteq 1 .. Len(log')
    BY StartedStays, DeployKeeps DEF CommandedOnce
<1> QED
  BY <1>5, <1>6, <1>7 DEF CommandedOnce, Last

LEMMA OnceStep ==
    ASSUME Typed, ReportsStarted, Commanded, CommandedOnce, [Next]_vars
    PROVE  CommandedOnce'
<1>1. LogKept /\ down \in [Sockets -> Seq(Commands)]
    BY TypedStep DEF Typed, TypeOK, Commands
<1>2. ASSUME UNCHANGED <<started, down>>
      PROVE  CommandedOnce'
    BY <1>1, <1>2, OnceKept
<1>3. CASE UNCHANGED vars
    BY <1>2, <1>3 DEF vars, endpoint
<1>4. CASE \/ \E v \in Versions : Publish(v)
           \/ AcknowledgementTimeout
           \/ \E r \in 1 .. MaxRequests : DeployStep(r)
    BY <1>2, <1>4 DEF Publish, AcknowledgementTimeout, DeployStep, DeployReturns, DeployFails,
                      endpoint
<1>5. CASE AdminDeploys
  <2>1. published \in Versions /\ Last < MaxRequests /\ Deploy(published) /\ UNCHANGED started
      BY <1>5 DEF AdminDeploys, Typed, TypeOK, endpoint
  <2> QED
    BY <1>1, <2>1, OnceDeployed
<1>6. ASSUME NEW s \in Sockets, HandlerStep(s)
      PROVE  CommandedOnce'
  <2>1. CASE Retry(s)
    <3>1. handler[s] \in Handler /\ handler[s].pc = "waiting" /\ UNCHANGED started
        BY <2>1 DEF Retry, Typed, TypeOK, endpoint
    <3>2. handler[s].running \in Versions
        BY <3>1 DEF Handler
    <3> QED
      BY <1>1, <1>2, <2>1, <3>1, <3>2, OnceDeployed DEF Retry
  <2>2. CASE ~ Retry(s)
      BY <1>2, <1>6, <2>2 DEF HandlerStep, Register, PreviousClosed, Greeted, HandlerEnds,
                              MarkOffline,
                       LossNoticed, ReceiveStatus, server, endpoint
  <2> QED
    BY <2>1, <2>2
<1>7. CASE \/ Boots \/ TaskCreated \/ TaskRefused
           \/ InstallBegins \/ InstallFails \/ InstallVerified \/ UpdateOver
    BY <1>2, <1>7 DEF Boots, TaskCreated, TaskRefused, InstallBegins, InstallFails,
                      InstallVerified, UpdateOver
<1>8. CASE Restarts
  <2>1. UNCHANGED started /\ \A s \in Sockets : Len(down'[s]) = 0
      BY <1>8 DEF Restarts
  <2> QED
    BY <1>1, <2>1, OnceKept
<1>9. ASSUME NEW s \in Sockets, PanelConnects(s) \/ FlushStatus(s)
      PROVE  CommandedOnce'
    BY <1>2, <1>9 DEF PanelConnects, FlushStatus, endpoint
<1>10. ASSUME NEW s \in Sockets, LinkLost(s)
       PROVE  CommandedOnce'
  <2>1. /\ UNCHANGED started /\ Len(down'[s]) = 0
        /\ \A t \in Sockets : t # s => down'[t] = down[t]
      BY <1>1, <1>10 DEF LinkLost, endpoint
  <2> QED
    BY <1>1, <2>1, OnceKept
<1>11. ASSUME NEW s \in Sockets, ReceiveCommand(s)
       PROVE  CommandedOnce'
  <2> DEFINE c == Head(down[s])
  <2>1. /\ c = down[s][1] /\ 1 \in 1 .. Len(down[s]) /\ UNCHANGED log
        /\ c \in Commands
        /\ Len(down'[s]) = Len(down[s]) - 1
        /\ \A i \in 1 .. Len(down[s]) - 1 : i + 1 \in 1 .. Len(down[s]) /\ down'[s][i] = down[s][i + 1]
        /\ \A t \in Sockets : t # s => down'[t] = down[t]
      BY <1>1, <1>11, QueueShortened DEF ReceiveCommand, server
  <2>2. CASE started' = started
      BY <1>1, <2>1, <2>2, OnceKept
  <2>3. CASE started' = started \cup {c.request}
    <3>1. \A t \in Sockets : \A i \in 1 .. Len(down'[t]) :
             \E k \in 1 .. Len(down[t]) :
               /\ down'[t][i] = down[t][k]
               /\ t = s => k = i + 1
               /\ t # s => k = i
      <4> SUFFICES ASSUME NEW t \in Sockets, NEW i \in 1 .. Len(down'[t])
                   PROVE  \E k \in 1 .. Len(down[t]) :
                            /\ down'[t][i] = down[t][k]
                            /\ t = s => k = i + 1
                            /\ t # s => k = i
          OBVIOUS
      <4>1. CASE t = s
        <5>1. i + 1 \in 1 .. Len(down[t]) /\ down'[t][i] = down[t][i + 1]
            BY <2>1, <4>1
        <5> QED
          BY <4>1, <5>1
      <4>2. CASE t # s
          BY <2>1, <4>2
      <4> QED
        BY <4>1, <4>2
    <3>2. ASSUME NEW t \in Sockets, NEW i \in 1 .. Len(down'[t]),
                 NEW u \in Sockets, NEW j \in 1 .. Len(down'[u]),
                 down'[t][i].request = down'[u][j].request
          PROVE  t = u /\ i = j
      <4>1. PICK k \in 1 .. Len(down[t]) : /\ down'[t][i] = down[t][k]
                                           /\ t = s => k = i + 1
                                           /\ t # s => k = i
          BY <3>1
      <4>2. PICK l \in 1 .. Len(down[u]) : /\ down'[u][j] = down[u][l]
                                           /\ u = s => l = j + 1
                                           /\ u # s => l = j
          BY <3>1
      <4>3. t = u /\ k = l
        <5>1. down[t][k].request = down[u][l].request
            BY <3>2, <4>1, <4>2
        <5> QED
          BY <5>1 DEF CommandedOnce
      <4> QED
        BY <4>1, <4>2, <4>3
    <3>3. ASSUME NEW t \in Sockets, NEW i \in 1 .. Len(down'[t])
          PROVE  down'[t][i].request \notin started'
      <4>1. PICK k \in 1 .. Len(down[t]) : /\ down'[t][i] = down[t][k]
                                           /\ t = s => k = i + 1
                                           /\ t # s => k = i
          BY <3>1
      <4>2. down[t][k].request \notin started
          BY DEF CommandedOnce
      <4>3. down[t][k].request # c.request
        <5>1. t = s => k # 1
            BY <4>1
        <5>2. down[t][k].request = down[s][1].request => t = s /\ k = 1
            BY <2>1 DEF CommandedOnce
        <5> QED
          BY <2>1, <5>1, <5>2
      <4> QED
        BY <2>3, <4>1, <4>2, <4>3
    <3>4. c.request \in 1 .. Last
      <4>1. c.request \in 1 .. MaxRequests /\ c.request <= Last
          BY <2>1 DEF Commands, Commanded
      <4> QED
        BY <4>1
    <3>5. started' \subseteq 1 .. Last'
        BY <2>1, <2>3, <3>4 DEF CommandedOnce, Last
    <3> QED
      BY <3>2, <3>3, <3>5 DEF CommandedOnce
  <2> QED
    BY <1>11, <2>2, <2>3 DEF ReceiveCommand
<1> QED
  BY <1>3, <1>4, <1>5, <1>6, <1>7, <1>8, <1>9, <1>10, <1>11 DEF Next, PanelStep

-----------------------------------------------------------------------------
(* Reports stay in order                                                   *)

\* Nothing that the server does by itself says anything of a deployment.
LEMMA ServerSays ==
    ASSUME Typed, ServerOnly, NEW s \in Sockets, NEW r, NEW what, Says(s, r, what)'
    PROVE  Says(s, r, what) /\ up'[s] = up[s] /\ handler[s].pc # "unregistered"
<1>1. handler'[s].pc # "unregistered" /\ Len(up'[s]) # 0
    BY DEF Says
<1>2. up'[s] # <<>>
    BY <1>1
<1>3. handler[s].pc # "unregistered" /\ up'[s] = up[s]
    BY <1>1, <1>2 DEF ServerOnly
<1> QED
  BY <1>3 DEF Says

LEMMA ServerEarly ==
    ASSUME Typed, ServerOnly, NEW r, TooEarly(r)
    PROVE  TooEarly(r)'
<1>1. ASSUME r \in 1 .. Last', log'[r].status = "restarting"
      PROVE  FALSE
    BY <1>1 DEF ServerOnly, NoneTaken, Taken, TooEarly, Last
<1> QED
  BY <1>1, ServerSays DEF TooEarly

LEMMA ServerInStages ==
    ASSUME Typed, InStages, ServerOnly
    PROVE  InStages'
<1>1. UpdateEarly' /\ StatusEarly'
    BY ServerEarly DEF ServerOnly, InStages, UpdateEarly, StatusEarly
<1>2. QueueInStages'
  <2> SUFFICES ASSUME NEW s \in Sockets, handler'[s].pc # "unregistered",
                      NEW i \in 1 .. Len(up'[s]), NEW j \in 1 .. Len(up'[s]), i < j,
                      up'[s][i].status = "restarting", up'[s][j].status = "accepted"
               PROVE  up'[s][i].request # up'[s][j].request
      BY DEF QueueInStages
  <2>1. up'[s] # <<>>
      OBVIOUS
  <2>2. handler[s].pc # "unregistered" /\ up'[s] = up[s]
      BY <2>1 DEF ServerOnly
  <2> QED
    BY <2>2 DEF InStages, QueueInStages
<1>3. LogInStages'
  <2> SUFFICES ASSUME NEW s \in Sockets, connections'[Panel] = s, NEW r \in 1 .. Last',
                      log'[r].status = "restarting", Says(s, r, "accepted")'
               PROVE  FALSE
      BY DEF LogInStages
  <2>1. Says(s, r, "accepted") /\ up'[s] = up[s] /\ handler[s].pc # "unregistered"
      BY ServerSays
  <2>2. r \in 1 .. Last /\ log[r].status = "restarting"
      BY DEF ServerOnly, NoneTaken, Taken, Last
  <2>3. up[s] # <<>>
      BY <2>1 DEF Says
  <2>4. connections[Panel] = s
      BY <2>1, <2>3 DEF ServerOnly
  <2> QED
    BY <2>1, <2>2, <2>4 DEF InStages, LogInStages
<1> QED
  BY <1>1, <1>2, <1>3 DEF InStages

LEMMA ReceiveInStages ==
    ASSUME OrderInv, NEW s \in Sockets, ReceiveStatus(s)
    PROVE  InStages'
<1> DEFINE m == Head(up[s])
<1>1. /\ up[s] \in Seq(Reports) /\ up[s] # <<>> /\ handler[s].pc = "idle"
      /\ up \in [Sockets -> Seq(Messages)] /\ connections[Panel] = s
    BY OnePanel DEF ReceiveStatus, IsCurrent, OrderInv, Typed, TypeOK, RegistersFirst, Messages
<1>2. /\ m \in Reports /\ m = up[s][1] /\ 1 \in 1 .. Len(up[s])
      /\ Len(up'[s]) = Len(up[s]) - 1
      /\ \A i \in 1 .. Len(up[s]) - 1 : i + 1 \in 1 .. Len(up[s]) /\ up'[s][i] = up[s][i + 1]
      /\ \A t \in Sockets : t # s => up'[t] = up[t]
    BY <1>1, QueueShortened DEF ReceiveStatus
<1>3. Update(m) /\ UNCHANGED <<connections, handler, ota, status, started>>
    BY DEF ReceiveStatus, endpoint
<1> HIDE DEF m
<1>4. \A t \in Sockets : \A i \in 1 .. Len(up'[t]) :
         IF t = s THEN i + 1 \in 1 .. Len(up[t]) /\ up'[t][i] = up[t][i + 1]
                  ELSE i \in 1 .. Len(up[t]) /\ up'[t][i] = up[t][i]
    BY <1>2
<1>5. ASSUME NEW t \in Sockets, NEW r, NEW what, Says(t, r, what)'
      PROVE  Says(t, r, what)
  <2>1. PICK i \in 1 .. Len(up'[t]) : up'[t][i].request = r /\ up'[t][i].status = what
      BY <1>5 DEF Says
  <2>2. \E k \in 1 .. Len(up[t]) : up'[t][i] = up[t][k]
      BY <1>4
  <2>3. handler[t].pc # "unregistered"
      BY <1>3, <1>5 DEF Says
  <2> QED
    BY <2>1, <2>2, <2>3 DEF Says
<1>6. ASSUME NEW r \in 1 .. Last', log'[r].status = "restarting"
      PROVE  /\ r \in 1 .. Last
             /\ \/ log[r].status = "restarting"
                \/ m.request = r /\ m.status = "restarting" /\ Says(s, r, "restarting")
  <2>1. CASE m.request = Last
    <3>1. Last \in 1 .. Last /\ m.status \in Statuses
        BY <1>2, <2>1 DEF Reports, Statuses, OrderInv, Typed, TypeOK, Last
    <3>2. /\ Len(log') = Len(log) /\ log'[Last].status = m.status
          /\ \A q \in 1 .. Last : q # Last => log'[q] = log[q]
        BY <1>3, <2>1, <3>1, StatusUpdated DEF Update, OrderInv, Typed
    <3>3. Says(s, m.request, m.status)
        BY <1>1, <1>2 DEF Says
    <3> QED
      BY <1>6, <2>1, <3>2, <3>3 DEF Last
  <2>2. CASE m.request # Last
      BY <1>3, <1>6, <2>2 DEF Update, Last
  <2> QED
    BY <2>1, <2>2
<1>7. ASSUME NEW r, TooEarly(r)
      PROVE  TooEarly(r)'
    BY <1>5, <1>6, <1>7 DEF TooEarly
<1>8. UpdateEarly' /\ StatusEarly'
    BY <1>3, <1>7 DEF OrderInv, InStages, UpdateEarly, StatusEarly
<1>9. QueueInStages'
  <2> SUFFICES ASSUME NEW t \in Sockets, handler'[t].pc # "unregistered",
                      NEW i \in 1 .. Len(up'[t]), NEW j \in 1 .. Len(up'[t]), i < j,
                      up'[t][i].status = "restarting", up'[t][j].status = "accepted"
               PROVE  up'[t][i].request # up'[t][j].request
      BY DEF QueueInStages
  <2>1. PICK k \in 1 .. Len(up[t]), l \in 1 .. Len(up[t]) :
          k < l /\ up'[t][i] = up[t][k] /\ up'[t][j] = up[t][l]
    <3>1. CASE t = s
      <4>1. /\ i + 1 \in 1 .. Len(up[t]) /\ up'[t][i] = up[t][i + 1]
            /\ j + 1 \in 1 .. Len(up[t]) /\ up'[t][j] = up[t][j + 1]
          BY <1>4, <3>1
      <4>2. i + 1 < j + 1
          OBVIOUS
      <4> QED
        BY <4>1, <4>2
    <3>2. CASE t # s
        BY <1>4, <3>2
    <3> QED
      BY <3>1, <3>2
  <2>2. handler[t].pc # "unregistered"
      BY <1>3
  <2> QED
    BY <2>1, <2>2 DEF OrderInv, InStages, QueueInStages
<1>10. LogInStages'
  <2> SUFFICES ASSUME NEW r \in 1 .. Last', log'[r].status = "restarting",
                      Says(s, r, "accepted")'
               PROVE  FALSE
      BY <1>1, <1>3 DEF LogInStages
  <2>1. r \in 1 .. Last /\ Says(s, r, "accepted")
      BY <1>5, <1>6
  <2>2. CASE log[r].status = "restarting"
      BY <1>1, <2>1, <2>2 DEF OrderInv, InStages, LogInStages
  <2>3. CASE m.request = r /\ m.status = "restarting"
    <3>1. PICK i \in 1 .. Len(up'[s]) : up'[s][i].request = r /\ up'[s][i].status = "accepted"
        BY DEF Says
    <3>2. i + 1 \in 1 .. Len(up[s]) /\ up'[s][i] = up[s][i + 1] /\ 1 < i + 1
        BY <1>4
    <3> QED
      BY <1>1, <1>2, <2>3, <3>1, <3>2 DEF OrderInv, InStages, QueueInStages
  <2> QED
    BY <1>6, <2>2, <2>3
<1> QED
  BY <1>8, <1>9, <1>10 DEF InStages

\* A step of the endpoint that flushes no status adds nothing to the queues.
LEMMA PanelInStages ==
    ASSUME OrderInv, PanelStep, \A s \in Sockets : ~ FlushStatus(s)
    PROVE  InStages'
<1>1. UNCHANGED <<log, handler, connections>>
    BY DEF PanelStep, Boots, TaskCreated, TaskRefused, InstallBegins, InstallFails,
           InstallVerified, UpdateOver, Restarts,
           PanelConnects, LinkLost, ReceiveCommand, server
<1>2. \A s \in Sockets : handler[s].pc # "unregistered" => up'[s] = up[s]
  <2>1. ASSUME NEW s \in Sockets, PanelConnects(s)
        PROVE  /\ handler[s].pc = "unregistered"
               /\ \A t \in Sockets : t # s => up'[t] = up[t]
      BY <2>1 DEF PanelConnects, OpenSocket, OrderInv, Typed, TypeOK, RegistersFirst
  <2>2. CASE \A s \in Sockets : ~ PanelConnects(s)
    <3>1. up' = up
        BY <2>2 DEF PanelStep, Boots, TaskCreated, TaskRefused, InstallBegins, InstallFails,
                    InstallVerified, UpdateOver, Restarts,
               LinkLost, ReceiveCommand
    <3> QED
      BY <3>1
  <2> QED
    BY <2>1, <2>2
<1>3. \A r, what : \A s \in Sockets : Says(s, r, what)' <=> Says(s, r, what)
    BY <1>1, <1>2 DEF Says
<1>4. \A r : TooEarly(r) => TooEarly(r)'
    BY <1>1, <1>3 DEF TooEarly, Last
<1>5. QueueInStages' /\ LogInStages'
    BY <1>1, <1>2, <1>3 DEF OrderInv, InStages, QueueInStages, LogInStages, Last
<1>6. ASSUME UNCHANGED <<ota, status>>
      PROVE  UpdateEarly' /\ StatusEarly'
    BY <1>4, <1>6 DEF OrderInv, InStages, UpdateEarly, StatusEarly
<1>7. CASE Boots \/ \E s \in Sockets : PanelConnects(s) \/ LinkLost(s)
    BY <1>5, <1>6, <1>7 DEF Boots, PanelConnects, LinkLost, endpoint, InStages
<1>8. CASE TaskCreated \/ InstallBegins
  <2>1. /\ ota.phase \in Underway /\ status' = status
        /\ ota'.phase \in Underway /\ ota'.request = ota.request
      BY <1>8 DEF TaskCreated, InstallBegins, OrderInv, Typed, TypeOK, Underway
  <2> QED
    BY <1>4, <1>5, <2>1 DEF OrderInv, InStages, UpdateEarly, StatusEarly
<1>9. CASE TaskRefused \/ InstallFails \/ InstallVerified \/ UpdateOver \/ Restarts
  <2>1. ota'.phase \notin Underway /\ (status' = status \/ status'.status # "accepted")
      BY <1>9 DEF TaskRefused, InstallFails, InstallVerified, UpdateOver, Restarts,
                  NoUpdate, NoStatus, Report, OrderInv, Typed, TypeOK, Underway
  <2> QED
    BY <1>4, <1>5, <2>1 DEF OrderInv, UpdateEarly, StatusEarly, InStages
<1>10. ASSUME NEW s \in Sockets, ReceiveCommand(s)
       PROVE  UpdateEarly' /\ StatusEarly'
  <2> DEFINE c == Head(down[s])
  <2>1. c.request \notin started
    <3>1. down \in [Sockets -> Seq(Commands)] /\ down[s] # <<>>
        BY <1>10 DEF ReceiveCommand, OrderInv, Typed, TypeOK, Commands
    <3>2. c = down[s][1] /\ 1 \in 1 .. Len(down[s])
        BY <3>1, QueueShortened
    <3> QED
      BY <3>2 DEF OrderInv, CommandedOnce
  <2>2. \/ /\ ota' = [phase |-> "creating", request |-> c.request, version |-> c.version, fetched |-> 0]
           /\ status' \in {status, [request |-> c.request, status |-> "accepted"]}
        \/ /\ ota' = ota \/ \E p \in {"idle", "leaked"} : ota' = NoUpdate(p)
           /\ status' \in {status, [request |-> c.request, status |-> "failed"]}
      BY <1>10 DEF ReceiveCommand, Report
  <2> HIDE DEF c
  <2>3. /\ TooEarly(c.request)
        /\ ~ (status.request = c.request /\ status.status = "restarting")
      BY <2>1 DEF OrderInv, ReportsStarted, AcceptedWasStarted, TooEarly, Says, Taken
  <2>4. CASE /\ ota' = [phase |-> "creating", request |-> c.request, version |-> c.version, fetched |-> 0]
             /\ status' \in {status, [request |-> c.request, status |-> "accepted"]}
      BY <1>4, <2>3, <2>4 DEF UpdateEarly, StatusEarly, OrderInv, InStages
  <2>5. CASE /\ ota' = ota \/ \E p \in {"idle", "leaked"} : ota' = NoUpdate(p)
             /\ status' \in {status, [request |-> c.request, status |-> "failed"]}
      BY <1>4, <2>5 DEF UpdateEarly, StatusEarly, NoUpdate, Underway, OrderInv, InStages
  <2> QED
    BY <2>2, <2>4, <2>5
<1> QED
  BY <1>5, <1>7, <1>8, <1>9, <1>10 DEF PanelStep, InStages, OrderInv, UpdateEarly, StatusEarly

\* The status that waits joins the queue: it is not out of order there.
LEMMA FlushInStages ==
    ASSUME OrderInv, NEW s \in Sockets, FlushStatus(s)
    PROVE  InStages'
<1>1. /\ handler[s].pc # "unregistered" /\ status # NoStatus
      /\ UNCHANGED <<log, handler, connections, ota, started>>
      /\ up' = [up EXCEPT ![s] = Append(@, status)] /\ status' = NoStatus
    BY DEF FlushStatus, server
<1>2. up \in [Sockets -> Seq(Messages)] /\ status \in Messages
    BY DEF OrderInv, Typed, TypeOK, Messages
<1>3. /\ Len(up'[s]) = Len(up[s]) + 1 /\ up'[s][Len(up[s]) + 1] = status
      /\ \A i \in 1 .. Len(up[s]) : up'[s][i] = up[s][i]
      /\ \A t \in Sockets : t # s => up'[t] = up[t]
      /\ Len(up[s]) \in Nat
    BY <1>1, <1>2, QueueAppended
<1>4. ASSUME NEW t \in Sockets, NEW i \in 1 .. Len(up'[t])
      PROVE  \/ i \in 1 .. Len(up[t]) /\ up'[t][i] = up[t][i]
             \/ t = s /\ i = Len(up[s]) + 1 /\ up'[t][i] = status
  <2>1. CASE t = s
    <3>1. i \in 1 .. Len(up[s]) \/ i = Len(up[s]) + 1
        BY <1>3, <2>1
    <3> QED
      BY <1>3, <2>1, <3>1
  <2>2. CASE t # s
      BY <1>3, <2>2
  <2> QED
    BY <2>1, <2>2
<1>5. ASSUME NEW t \in Sockets, NEW r, NEW what, Says(t, r, what)'
      PROVE  \/ Says(t, r, what)
             \/ t = s /\ status.request = r /\ status.status = what
  <2>1. PICK i \in 1 .. Len(up'[t]) : up'[t][i].request = r /\ up'[t][i].status = what
      BY <1>5 DEF Says
  <2>2. handler[t].pc # "unregistered"
      BY <1>1, <1>5 DEF Says
  <2>3. CASE i \in 1 .. Len(up[t]) /\ up'[t][i] = up[t][i]
    <3>1. up[t][i].request = r /\ up[t][i].status = what
        BY <2>1, <2>3
    <3> QED
      BY <2>2, <2>3, <3>1 DEF Says
  <2>4. CASE t = s /\ up'[t][i] = status
      BY <2>1, <2>4
  <2> QED
    BY <1>4, <2>1, <2>3, <2>4
<1>6. UpdateEarly'
  <2> SUFFICES ASSUME ota.phase \in Underway
               PROVE  TooEarly(ota.request)'
      BY <1>1 DEF UpdateEarly, NoStatus
  <2>1. TooEarly(ota.request) /\ ~ (status.request = ota.request /\ status.status = "restarting")
      BY DEF OrderInv, InStages, UpdateEarly
  <2> QED
    BY <1>1, <1>5, <2>1 DEF TooEarly, Last
<1>7. StatusEarly'
    BY <1>1 DEF StatusEarly, NoStatus
<1>8. QueueInStages'
  <2> SUFFICES ASSUME NEW t \in Sockets, handler'[t].pc # "unregistered",
                      NEW i \in 1 .. Len(up'[t]), NEW j \in 1 .. Len(up'[t]), i < j,
                      up'[t][i].status = "restarting", up'[t][j].status = "accepted",
                      up'[t][i].request = up'[t][j].request
               PROVE  FALSE
      BY DEF QueueInStages
  <2>1. handler[t].pc # "unregistered"
      BY <1>1
  <2>2. CASE j \in 1 .. Len(up[t]) /\ up'[t][j] = up[t][j]
    <3>1. i \in 1 .. Len(up[t]) /\ up'[t][i] = up[t][i]
      <4>1. i # Len(up[t]) + 1
          BY <2>2
      <4> QED
        BY <1>4, <4>1
    <3> QED
      BY <2>1, <2>2, <3>1 DEF OrderInv, InStages, QueueInStages
  <2>3. CASE t = s /\ j = Len(up[s]) + 1 /\ up'[t][j] = status
    <3>1. i \in 1 .. Len(up[t]) /\ up'[t][i] = up[t][i]
        BY <1>4, <2>3
    <3>2. Says(t, status.request, "restarting")
        BY <2>1, <2>3, <3>1 DEF Says
    <3> QED
      BY <2>3, <3>2 DEF OrderInv, InStages, StatusEarly, TooEarly
  <2> QED
    BY <1>4, <2>2, <2>3
<1>9. LogInStages'
  <2> SUFFICES ASSUME NEW t \in Sockets, connections[Panel] = t, NEW r \in 1 .. Last,
                      log[r].status = "restarting", Says(t, r, "accepted")'
               PROVE  FALSE
      BY <1>1 DEF LogInStages, Last
  <2>1. CASE Says(t, r, "accepted")
      BY <2>1 DEF OrderInv, InStages, LogInStages
  <2>2. CASE status.request = r /\ status.status = "accepted"
      BY <2>2 DEF OrderInv, InStages, StatusEarly, TooEarly
  <2> QED
    BY <1>5, <2>1, <2>2
<1> QED
  BY <1>6, <1>7, <1>8, <1>9 DEF InStages

LEMMA OrderStep ==
    ASSUME OrderInv, [Next]_vars
    PROVE  OrderInv'
<1>1. Typed' /\ ReportsStarted' /\ Commanded' /\ CommandedOnce'
    BY TypedStep, StartedStep, CommandedStep, OnceStep DEF OrderInv
<1>2. InStages'
  <2>1. CASE UNCHANGED vars
    <3>1. UNCHANGED <<log, handler, connections, ota, status, up>>
        BY <2>1 DEF vars, server, endpoint
    <3>2. \A r, what : \A s \in Sockets : Says(s, r, what)' <=> Says(s, r, what)
        BY <3>1 DEF Says
    <3>3. \A r : TooEarly(r) => TooEarly(r)'
        BY <3>1, <3>2 DEF TooEarly, Last
    <3>4. UpdateEarly' /\ StatusEarly'
        BY <3>1, <3>3 DEF OrderInv, InStages, UpdateEarly, StatusEarly
    <3>5. QueueInStages' /\ LogInStages'
        BY <3>1, <3>2 DEF OrderInv, InStages, QueueInStages, LogInStages, Last
    <3> QED
      BY <3>4, <3>5 DEF InStages
  <2>2. CASE PanelStep
      BY <2>2, PanelInStages, FlushInStages
  <2>3. ASSUME NEW s \in Sockets, HandlerStep(s)
        PROVE  InStages'
      BY <2>3, ServerSteps, ServerInStages, ReceiveInStages DEF HandlerStep, OrderInv
  <2> QED
    BY <2>1, <2>2, <2>3, ServerSteps, ServerInStages DEF Next, OrderInv
<1> QED
  BY <1>1, <1>2 DEF OrderInv

\* A step takes the status of a deployment forward, or finds it over.
Forward ==
    \A r \in 1 .. Last :
      log[r].status \notin {"failed", "completed"} =>
        Stage(log'[r].status) >= Stage(log[r].status)

\* How the status of the newest deployment may change.
LEMMA StatusForward ==
    ASSUME Typed, Last \in 1 .. Last, NEW x \in Statuses,
           log' = [log EXCEPT ![Last].status = x],
           \/ x \in {"failed", "completed", "restarting"}
           \/ x = "unacknowledged" /\ log[Last].status = "sent"
           \/ x = "accepted" /\ log[Last].status # "restarting"
    PROVE  Forward
<1>1. /\ log'[Last].status = x
      /\ \A q \in 1 .. Last : q # Last => log'[q] = log[q]
    BY StatusUpdated DEF Typed
<1>2. \A r \in 1 .. Last : log[r].status \in Statuses
  <2> SUFFICES ASSUME NEW r \in 1 .. Last PROVE log[r].status \in Statuses
      OBVIOUS
  <2>1. log[r] \in Deployment
      BY DEF Typed, TypeOK, Last
  <2> QED
    BY <2>1 DEF Deployment, Statuses
<1> QED
  BY <1>1, <1>2 DEF Forward, Stage, Statuses

LEMMA SameForward ==
    ASSUME Typed, \A r \in 1 .. Last : log'[r].status \in {log[r].status, "failed"}
    PROVE  Forward
<1> SUFFICES ASSUME NEW r \in 1 .. Last
             PROVE  Stage(log'[r].status) >= Stage(log[r].status)
    BY DEF Forward
<1>1. log[r].status \in Statuses
  <2>1. log[r] \in Deployment
      BY DEF Typed, TypeOK, Last
  <2> QED
    BY <2>1 DEF Deployment, Statuses
<1> QED
  BY <1>1 DEF Stage, Statuses

LEMMA OrderInit == Init => OrderInv
<1>1. Init => Typed /\ ReportsStarted /\ Commanded
    BY InitStarted DEF Init, Commanded, NoUpdate, Busy
<1>2. Init => CommandedOnce
    BY DEF Init, CommandedOnce
<1>3. Init => InStages
  <2> SUFFICES ASSUME Init PROVE InStages
      OBVIOUS
  <2>1. \A s \in Sockets : handler[s].pc = "unregistered"
      BY DEF Init, At
  <2> QED
    BY <2>1 DEF Init, InStages, UpdateEarly, StatusEarly, QueueInStages, LogInStages, Says,
                NoUpdate, NoStatus, Underway
<1> QED
  BY <1>1, <1>2, <1>3 DEF OrderInv

\* Reconnects, restarts and superseded sockets do not bring the record of an
\* update under way back to an earlier stage: a report is applied in the order
\* in which the endpoint made it, or not at all.
THEOREM StagesKept == Spec => NoStepBack
<1>1. Init => OrderInv
    BY OrderInit
<1>2. OrderInv /\ [Next]_vars => OrderInv'
    BY OrderStep
<1>3. OrderInv /\ [Next]_vars => [Forward]_vars
  <2> SUFFICES ASSUME OrderInv, Next PROVE Forward
      OBVIOUS
  <2>0. Typed /\ (log # <<>> => Last \in 1 .. Last)
    <3>1. Typed /\ log \in Seq(Deployment)
        BY DEF OrderInv, Typed, TypeOK
    <3> QED
      BY <3>1 DEF Last
  <2>1. ASSUME log' = log PROVE Forward
      BY <2>0, <2>1, SameForward
  <2>2. ASSUME NEW v, MarkRunning(v) PROVE Forward
      BY <2>0, <2>1, <2>2, StatusForward DEF MarkRunning, Statuses
  <2>3. ASSUME NEW v \in Versions, Last < MaxRequests, Deploy(v) PROVE Forward
    <3>1. \A r \in 1 .. Last : log'[r] = log[r]
        BY <2>0, <2>3, DeployKeeps
    <3> QED
      BY <2>0, <3>1, SameForward
  <2>4. CASE (\E v \in Versions : Publish(v)) \/ PanelStep
    <3>1. log' = log
        BY <2>4 DEF Publish, PanelStep, Boots, TaskCreated, TaskRefused, InstallBegins,
                    InstallFails, InstallVerified, UpdateOver,
               Restarts, PanelConnects, LinkLost, ReceiveCommand, FlushStatus, server
    <3> QED
      BY <2>1, <3>1
  <2>5. CASE AdminDeploys
      BY <2>0, <2>3, <2>5 DEF AdminDeploys, Typed, TypeOK
  <2>6. ASSUME NEW r \in 1 .. MaxRequests, DeployStep(r) PROVE Forward
    <3>1. r \in 1 .. Last
        BY <2>6 DEF DeployStep, DeployReturns, DeployFails, FirstOnSocket, Sending
    <3>2. /\ log'[r].status \in {log[r].status, "failed"}
          /\ \A q \in 1 .. Last : q # r => log'[q] = log[q]
        BY <2>0, <2>6, <3>1, SendUpdated DEF DeployStep, DeployReturns, DeployFails, Typed
    <3> QED
      BY <2>0, <3>2, SameForward
  <2>7. CASE AcknowledgementTimeout
    <3>1. CASE timer = Last /\ log[Last].status = "sent"
      <4>1. Last \in 1 .. Last
          BY <2>0, <2>7, <3>1 DEF AcknowledgementTimeout, Last
      <4> QED
        BY <2>0, <2>7, <3>1, <4>1, StatusForward DEF AcknowledgementTimeout, Statuses
    <3>2. CASE ~ (timer = Last /\ log[Last].status = "sent")
        BY <2>1, <2>7, <3>2 DEF AcknowledgementTimeout
    <3> QED
      BY <3>1, <3>2
  <2>8. ASSUME NEW s \in Sockets, HandlerStep(s) PROVE Forward
    <3>1. CASE Register(s)
        BY <2>1, <2>2, <3>1 DEF Register, Greet
    <3>2. CASE PreviousClosed(s)
        BY <2>2, <3>2 DEF PreviousClosed, Greet
    <3>3. CASE Retry(s)
      <4>1. handler[s] \in Handler /\ handler[s].pc = "waiting"
          BY <2>0, <3>3 DEF Retry, Typed, TypeOK
      <4>2. handler[s].running \in Versions
          BY <4>1 DEF Handler
      <4> QED
        BY <2>1, <2>3, <3>3, <4>2 DEF Retry
    <3>4. CASE Greeted(s) \/ HandlerEnds(s) \/ MarkOffline(s) \/ LossNoticed(s)
        BY <2>1, <3>4 DEF Greeted, HandlerEnds, MarkOffline, LossNoticed, server
    <3>5. CASE ReceiveStatus(s)
      <4> DEFINE m == Head(up[s])
      <4>1. /\ m \in Reports /\ m = up[s][1] /\ 1 \in 1 .. Len(up[s])
            /\ handler[s].pc = "idle" /\ connections[Panel] = s
        <5>1. /\ up[s] \in Seq(Reports) /\ up[s] # <<>> /\ handler[s].pc = "idle"
              /\ connections[Panel] = s
            BY <2>0, <3>5, OnePanel DEF ReceiveStatus, IsCurrent, Typed, RegistersFirst
        <5> QED
          BY <5>1
      <4>2. Update(m)
          BY <3>5 DEF ReceiveStatus
      <4> HIDE DEF m
      <4>3. CASE m.request = Last
        <5>1. Last \in 1 .. Last /\ m.status \in Statuses
              /\ m.status \in {"accepted", "restarting", "failed"}
            BY <2>0, <4>1, <4>3 DEF Reports, Statuses, Typed, TypeOK, Last
        <5>2. m.status = "accepted" => log[Last].status # "restarting"
          <6>1. Says(s, m.request, m.status)
              BY <4>1 DEF Says
          <6> QED
            BY <4>1, <4>3, <5>1, <6>1 DEF OrderInv, InStages, LogInStages
        <5> QED
          BY <2>0, <4>2, <4>3, <5>1, <5>2, StatusForward DEF Update
      <4>4. CASE m.request # Last
          BY <2>1, <4>2, <4>4 DEF Update
      <4> QED
        BY <4>3, <4>4
    <3> QED
      BY <2>8, <3>1, <3>2, <3>3, <3>4, <3>5 DEF HandlerStep
  <2> QED
    BY <2>4, <2>5, <2>6, <2>7, <2>8 DEF Next
<1> QED
  BY <1>1, <1>2, <1>3, PTL DEF Spec, NoStepBack, Forward

-----------------------------------------------------------------------------
(* The book of updates                                                     *)

Orders == [r \in 1 .. Last |-> [version |-> log[r].version, status |-> log[r].status]]
Updating == IF ota.phase \in Busy THEN ota.request ELSE 0
Image == [running |-> image.running, fallback |-> image.fallback]
Book == <<Orders, started, Updating, Image>>

\* What the endpoint was flashed with or took up: nothing else is in its
\* slots, in a registration on its way, or in the hands of a handler that
\* has yet to look at it.
Had == {Factory} \cup {log[r].version : r \in started}

HadInv ==
    /\ image.running \in Had /\ image.fallback \in Had \cup {0}
    /\ \A s \in Sockets :
         /\ handler[s].pc = "unregistered" /\ up[s] # <<>> => up[s][1].register \in Had
         /\ handler[s].pc = "connecting" => handler[s].running \in Had

LEMMA HadGrows ==
    ASSUME Typed, CommandedOnce, LogKept, started \subseteq started'
    PROVE  Had \subseteq Had'
<1>1. \A r \in started : r \in started' /\ log'[r].version = log[r].version
    BY DEF CommandedOnce, LogKept, Last
<1> QED
  BY <1>1 DEF Had

LEMMA StartedGrows ==
    ASSUME [Next]_vars
    PROVE  started \subseteq started'
BY DEF Next, Publish, AdminDeploys, DeployStep, DeployReturns, DeployFails,
       AcknowledgementTimeout, HandlerStep, Register, PreviousClosed, Greeted, Retry,
       HandlerEnds, MarkOffline, LossNoticed, ReceiveStatus, PanelStep, Boots, TaskCreated,
       TaskRefused, InstallBegins,
       InstallFails, InstallVerified, UpdateOver, Restarts, PanelConnects, LinkLost,
       ReceiveCommand, FlushStatus,
       endpoint, server, vars

\* A step that leaves the slots, or goes to one of its own, keeps HadInv if no
\* handler takes up a registration and no socket speaks of another version.
LEMMA HadKept ==
    ASSUME HadInv, Had \subseteq Had',
           image'.running \in Had', image'.fallback \in Had' \cup {0},
           \A s \in Sockets :
             /\ handler'[s].pc = "unregistered" =>
                  \/ handler[s].pc = "unregistered" /\ up'[s] = up[s]
                  \/ up'[s] # <<>> => up'[s][1].register \in Had'
             /\ handler'[s].pc = "connecting" =>
                  handler'[s] = handler[s] \/ handler'[s].running \in Had'
    PROVE  HadInv'
BY DEF HadInv

\* A handler that takes up a registration has it from a socket.
LEMMA HadRegister ==
    ASSUME Typed, HadInv, NEW s \in Sockets, Register(s)
    PROVE  /\ Head(up[s]).register \in Had
           /\ \A t \in Sockets :
                \/ t # s /\ handler'[t] = handler[t] /\ up'[t] = up[t]
                \/ /\ t = s /\ handler'[t].pc \in {"connecting", "greeting"}
                   /\ handler'[t].running = Head(up[s]).register
<1>1. PICK v \in Versions : up[s] = <<[register |-> v]>>
    BY DEF Register, Typed, RegistersFirst
<1>2. Head(up[s]).register = up[s][1].register /\ up[s] # <<>>
    BY <1>1
<1>3. Head(up[s]).register \in Had
    BY <1>2 DEF Register, HadInv
<1>4. \A t \in Sockets : t # s => handler'[t] = handler[t] /\ up'[t] = up[t]
    BY DEF Register, Greet, Typed, TypeOK
<1>5. handler'[s].pc \in {"connecting", "greeting"}
      /\ handler'[s].running = Head(up[s]).register
    BY DEF Register, Greet, Typed, TypeOK
<1> QED
  BY <1>3, <1>4, <1>5

LEMMA HadStep ==
    ASSUME OrderInv, HadInv, [Next]_vars
    PROVE  HadInv'
<1>0. Typed /\ Typed' /\ CommandedOnce /\ Commanded /\ ReportsStarted /\ LogKept
    BY TypedStep DEF OrderInv
<1>1. Had \subseteq Had'
    BY <1>0, StartedGrows, HadGrows
<1>2. /\ image.running \in Had' /\ image.fallback \in Had' \cup {0}
    BY <1>1 DEF HadInv
<1>3. ASSUME UNCHANGED <<image, up>>,
             \A s \in Sockets :
               handler'[s] = handler[s] \/ handler'[s].pc \notin {"unregistered", "connecting"}
      PROVE  HadInv'
    BY <1>1, <1>2, <1>3, HadKept
<1>4. CASE UNCHANGED vars
    BY <1>3, <1>4 DEF vars, server, endpoint
<1>5. CASE (\E v \in Versions : Publish(v)) \/ AdminDeploys \/ AcknowledgementTimeout
    BY <1>3, <1>5 DEF Publish, AdminDeploys, AcknowledgementTimeout, endpoint
<1>6. ASSUME NEW r \in 1 .. MaxRequests, DeployStep(r)
      PROVE  HadInv'
    BY <1>3, <1>6 DEF DeployStep, DeployReturns, DeployFails, HandlerGoesOn, At, endpoint
<1>7. ASSUME NEW s \in Sockets, HandlerStep(s)
      PROVE  HadInv'
  <2>1. CASE Register(s)
    <3>1. UNCHANGED image
        BY <2>1 DEF Register, endpoint
    <3>2. /\ Head(up[s]).register \in Had
          /\ \A t \in Sockets :
               \/ t # s /\ handler'[t] = handler[t] /\ up'[t] = up[t]
               \/ /\ t = s /\ handler'[t].pc \in {"connecting", "greeting"}
                  /\ handler'[t].running = Head(up[s]).register
        BY <1>0, <2>1, HadRegister
    <3> QED
      BY <1>1, <1>2, <3>1, <3>2, HadKept
  <2>2. CASE \/ PreviousClosed(s) \/ Greeted(s) \/ Retry(s) \/ HandlerEnds(s)
             \/ MarkOffline(s) \/ LossNoticed(s)
    <3>1. UNCHANGED <<image, up>>
        BY <2>2 DEF PreviousClosed, Greeted, Retry, HandlerEnds, MarkOffline, LossNoticed, endpoint
    <3>2. CASE PreviousClosed(s)
        BY <1>0, <1>3, <3>1, <3>2 DEF PreviousClosed, Greet, Typed, TypeOK
    <3>3. CASE Greeted(s)
      <4>1. handler[s] \in Handler /\ handler \in [Sockets -> Handler]
          BY <1>0 DEF Typed, TypeOK
      <4>2. handler[s] = [handler[s] EXCEPT !.pc = handler[s].pc]
          BY <4>1 DEF Handler
      <4>3. \A t \in Sockets :
              handler'[t] = handler[t] \/ handler'[t].pc \in {"idle", "waiting"}
          BY <3>3, <4>1, <4>2 DEF Greeted, At, Handler
      <4> QED
        BY <1>3, <3>1, <4>3
    <3>4. CASE Retry(s)
        BY <1>0, <1>3, <3>1, <3>4 DEF Retry, At, Typed, TypeOK
    <3>5. CASE HandlerEnds(s) \/ MarkOffline(s) \/ LossNoticed(s)
        BY <1>0, <1>3, <3>1, <3>5 DEF HandlerEnds, MarkOffline, LossNoticed, At, server, Typed,
                                      TypeOK
    <3> QED
      BY <2>2, <3>2, <3>3, <3>4, <3>5
  <2>3. CASE ReceiveStatus(s)
    <3>1. /\ UNCHANGED <<image, handler>> /\ handler[s].pc = "idle"
          /\ \A t \in Sockets : t # s => up'[t] = up[t]
        BY <1>0, <2>3 DEF ReceiveStatus, endpoint, Typed, TypeOK
    <3> QED
      BY <1>1, <1>2, <3>1, HadKept
  <2> QED
    BY <1>7, <2>1, <2>2, <2>3 DEF HandlerStep
<1>8. CASE \/ TaskCreated \/ TaskRefused
           \/ InstallBegins \/ InstallFails \/ InstallVerified \/ UpdateOver
           \/ \E s \in Sockets : LinkLost(s) \/ ReceiveCommand(s)
    BY <1>3, <1>8 DEF TaskCreated, TaskRefused, InstallBegins, InstallFails, InstallVerified,
                      UpdateOver, LinkLost, ReceiveCommand,
                      server, endpoint
<1>9. CASE Boots
  <2>1. /\ UNCHANGED <<up, handler>> /\ image'.running = image.running
        /\ image'.fallback \in {0, image.fallback}
      BY <1>0, <1>9 DEF Boots, server, Typed, TypeOK
  <2> QED
    BY <1>1, <1>2, <2>1, HadKept
<1>10. CASE Restarts
  <2>1. UNCHANGED <<up, handler, log, started>>
      BY <1>10 DEF Restarts, server
  <2>2. ota.phase = "restarting" => ota.fetched \in Had
      BY <1>0 DEF Commanded, ReportsStarted, Busy, Had
  <2>3. /\ image'.running \in {image.running} \cup (IF ota.phase = "restarting" THEN {ota.fetched} ELSE {})
             \cup ({image.fallback} \ {0})
        /\ image'.fallback \in {0, image.running, image.fallback}
      BY <1>0, <1>10 DEF Restarts, Typed, TypeOK
  <2>4. image'.running \in Had'
      BY <1>1, <2>2, <2>3 DEF HadInv
  <2> QED
    BY <1>1, <1>2, <2>1, <2>3, <2>4, HadKept
<1>11. ASSUME NEW s \in Sockets, PanelConnects(s)
       PROVE  HadInv'
  <2>1. /\ UNCHANGED <<image, handler>> /\ up'[s][1].register = image.running
        /\ \A t \in Sockets : t # s => up'[t] = up[t]
      BY <1>0, <1>11 DEF PanelConnects, server, endpoint, Typed, TypeOK
  <2> QED
    BY <1>1, <1>2, <2>1, HadKept
<1>12. ASSUME NEW s \in Sockets, FlushStatus(s)
       PROVE  HadInv'
  <2>1. /\ UNCHANGED <<image, handler>> /\ handler[s].pc \notin {"unregistered", "connecting"}
        /\ \A t \in Sockets : t # s => up'[t] = up[t]
      BY <1>0, <1>12 DEF FlushStatus, server, Typed, TypeOK
  <2> QED
    BY <1>1, <1>2, <2>1, HadKept
<1> QED
  BY <1>4, <1>5, <1>6, <1>7, <1>8, <1>9, <1>10, <1>11, <1>12 DEF Next, PanelStep

LEMMA SameLength ==
    ASSUME NEW m \in Nat, NEW n \in Nat, 1 .. m = 1 .. n
    PROVE  m = n
<1>1. m <= n
  <2>1. m = 0 \/ m \in 1 .. n
      OBVIOUS
  <2> QED
    BY <2>1
<1>2. n <= m
  <2>1. n = 0 \/ n \in 1 .. m
      OBVIOUS
  <2> QED
    BY <2>1
<1> QED
  BY <1>1, <1>2

\* The book's record is made of versions and statuses only.
LEMMA OrdersOf ==
    ASSUME Typed
    PROVE  /\ Len(log) \in Nat /\ Last = Len(log)
           /\ DOMAIN Orders = 1 .. Last /\ Len(Orders) = Last
           /\ Orders \in Seq([version : Versions, status : Statuses])
           /\ \A r \in 1 .. Last :
                /\ Orders[r].version = log[r].version
                /\ Orders[r].status = log[r].status /\ log[r].status \in Statuses
<1>1. Len(log) \in Nat /\ Last = Len(log)
    BY DEF Typed, TypeOK, Last
<1>2. \A r \in 1 .. Last : log[r].version \in Versions /\ log[r].status \in Statuses
  <2> SUFFICES ASSUME NEW r \in 1 .. Last
               PROVE  log[r].version \in Versions /\ log[r].status \in Statuses
      OBVIOUS
  <2>1. log[r] \in Deployment
      BY DEF Typed, TypeOK, Last
  <2> QED
    BY <2>1 DEF Deployment, Statuses
<1>3. Orders \in [1 .. Last -> [version : Versions, status : Statuses]]
    BY <1>2 DEF Orders
<1>4. Orders \in Seq([version : Versions, status : Statuses])
  <2> DEFINE S == [version : Versions, status : Statuses]
  <2>1. \E n \in Nat : Orders \in [1 .. n -> S]
      BY <1>1, <1>3
  <2> HIDE DEF S
  <2>2. Orders \in Seq(S)
      BY <2>1, SeqDef
  <2> QED
    BY <2>2 DEF S
<1>5. DOMAIN Orders = 1 .. Last
    BY <1>3
<1>6. Len(Orders) = Last
  <2>1. Len(Orders) \in Nat /\ 1 .. Len(Orders) = 1 .. Last
      BY <1>4, <1>5, LenProperties
  <2> QED
    BY <1>1, <2>1, SameLength
<1> QED
  BY <1>1, <1>2, <1>4, <1>5, <1>6 DEF Orders

\* A step that changes neither leaves it alone.
LEMMA OrdersKept ==
    ASSUME Typed, Len(log') = Len(log),
           \A r \in 1 .. Last : log'[r].version = log[r].version /\ log'[r].status = log[r].status
    PROVE  Orders' = Orders
BY DEF Orders, Last

LEMMA OrderPlaced ==
    ASSUME Typed, NEW v \in Versions, Last < MaxRequests, Deploy(v),
           UNCHANGED <<started, ota, image>>
    PROVE  UpdateBook!Next
<1> DEFINE new == [version |-> v, status |-> "sent"]
<1>1. /\ Len(log') = Last + 1 /\ log'[Last + 1].version = v
      /\ \A r \in 1 .. Last : log'[r] = log[r]
    BY DeployKeeps
<1>2. log'[Last + 1].status = "sent"
  <2>1. PICK d : log' = Append(log, d) /\ d.status = "sent"
      BY DEF Deploy
  <2> QED
    BY <2>1 DEF Typed, TypeOK, Last
<1>3. Last \in Nat /\ Last' = Last + 1
    BY <1>1, OrdersOf DEF Last
<1>4. Orders' = [r \in 1 .. Last + 1 |-> IF r = Last + 1 THEN new ELSE Orders[r]]
  <2>1. \A r \in 1 .. Last + 1 :
          [version |-> log'[r].version, status |-> log'[r].status]
            = IF r = Last + 1 THEN new ELSE Orders[r]
    <3> SUFFICES ASSUME NEW r \in 1 .. Last + 1
                 PROVE  [version |-> log'[r].version, status |-> log'[r].status]
                          = IF r = Last + 1 THEN new ELSE Orders[r]
        OBVIOUS
    <3>1. CASE r = Last + 1
        BY <1>1, <1>2, <3>1
    <3>2. CASE r # Last + 1
      <4>1. r \in 1 .. Last
          BY <1>3, <3>2
      <4> QED
        BY <1>1, <3>2, <4>1 DEF Orders
    <3> QED
      BY <3>1, <3>2
  <2> QED
    BY <1>3, <2>1 DEF Orders
<1>5. Append(Orders, new) = [r \in 1 .. Last + 1 |-> IF r = Last + 1 THEN new ELSE Orders[r]]
    BY <1>3, OrdersOf
<1>6. Updating' = Updating /\ Image' = Image
    BY DEF Updating, Image
<1>7. UpdateBook!Order(v)
    BY <1>4, <1>5, <1>6 DEF UpdateBook!Order, Orders, Updating, Image
<1> QED
  BY <1>7 DEF UpdateBook!Next

\* A status that is recorded is one the book allows to be recorded.
LEMMA StatusBooked ==
    ASSUME Typed, CommandedOnce, LogKept, NEW r \in 1 .. Last, NEW x \in Statuses,
           Len(log') = Len(log), log'[r].status = x,
           \A q \in 1 .. Last : q # r => log'[q] = log[q],
           UNCHANGED <<started, ota, image>>,
           x = log[r].status \/ <<log[r].status, x>> \in UpdateBook!Onward,
           r # Last => x \in {log[r].status, "failed"},
           x \in Taken => r \in started,
           x = "completed" => x = log[r].status \/ log[r].version \in Had
    PROVE  [UpdateBook!Next]_Book
<1>1. /\ Last \in Nat /\ Last' = Last /\ log'[r].version = log[r].version
      /\ DOMAIN Orders = 1 .. Last /\ Len(Orders) = Last
      /\ \A q \in 1 .. Last :
           /\ Orders[q].version = log[q].version
           /\ Orders[q].status = log[q].status /\ log[q].status \in Statuses
    BY OrdersOf DEF LogKept, Last
<1>2. Updating' = Updating /\ Image' = Image
    BY DEF Updating, Image
<1>3. CASE x = log[r].status
  <2>1. Orders' = Orders
      BY <1>1, <1>3, OrdersKept DEF Last
  <2> QED
    BY <1>2, <2>1 DEF Book
<1>4. CASE x # log[r].status
  <2>1. Orders' = [Orders EXCEPT ![r].status = x]
    <3>1. \A q \in 1 .. Last :
            [version |-> log'[q].version, status |-> log'[q].status]
              = IF q = r THEN [Orders[q] EXCEPT !.status = x] ELSE Orders[q]
        BY <1>1 DEF Orders
    <3> QED
      BY <1>1, <3>1 DEF Orders
  <2>2. <<Orders[r].status, x>> \in UpdateBook!Onward
      BY <1>1, <1>4
  <2>3. /\ r # Len(Orders) => x = "failed"
        /\ x \in {"accepted", "restarting"} => r \in started
      BY <1>1, <1>4 DEF Taken
  <2>4. x = "completed" =>
          Orders[r].version \in {Factory} \cup {Orders[q].version : q \in started}
      BY <1>1, <1>4 DEF Had, CommandedOnce
  <2>5. UpdateBook!Record(r, x)
      BY <1>2, <2>1, <2>2, <2>3, <2>4
      DEF UpdateBook!Record, UpdateBook!Held, Orders, Updating, Image
  <2>6. r \in DOMAIN Orders /\ x \in UpdateBook!Statuses
      BY <1>1 DEF UpdateBook!Statuses, Statuses
  <2> QED
    BY <2>5, <2>6 DEF UpdateBook!Next, Orders
<1> QED
  BY <1>3, <1>4

\* mark_running completes the newest, which has the version it is told.
LEMMA MarkBooked ==
    ASSUME OrderInv, NEW v \in Had, MarkRunning(v), UNCHANGED <<started, ota, image>>
    PROVE  [UpdateBook!Next]_Book
<1>0. Typed /\ CommandedOnce
    BY DEF OrderInv
<1>1. CASE log # <<>> /\ log[Last].version = v
  <2>1. Last \in 1 .. Last /\ "completed" \in Statuses
      BY <1>0, <1>1 DEF Typed, TypeOK, Last, Statuses
  <2>2. /\ LogKept /\ Len(log') = Len(log) /\ log'[Last].status = "completed"
        /\ \A q \in 1 .. Last : q # Last => log'[q] = log[q]
      BY <1>0, <1>1, <2>1, StatusUpdated DEF MarkRunning, Typed
  <2>3. <<log[Last].status, "completed">> \in UpdateBook!Onward
      BY <1>0, <2>1, OrdersOf DEF UpdateBook!Onward, UpdateBook!Statuses, Statuses
  <2> QED
    BY <1>0, <1>1, <2>1, <2>2, <2>3, StatusBooked DEF Taken
<1>2. CASE ~ (log # <<>> /\ log[Last].version = v)
  <2>1. Orders' = Orders /\ Updating' = Updating /\ Image' = Image
      BY <1>2 DEF MarkRunning, Orders, Updating, Image, Last
  <2> QED
    BY <2>1 DEF Book
<1> QED
  BY <1>1, <1>2

LEMMA UpdateBooked ==
    ASSUME OrderInv, NEW m \in Reports, Update(m), UNCHANGED <<started, ota, image>>,
           m.status \in Taken => m.request \in started,
           m.request = Last /\ m.status = "accepted" => log[Last].status # "restarting"
    PROVE  [UpdateBook!Next]_Book
<1>0. Typed /\ CommandedOnce
    BY DEF OrderInv
<1>1. CASE m.request = Last
  <2>1. Last \in 1 .. Last /\ m.status \in Statuses
        /\ m.status \in {"accepted", "restarting", "failed"}
      BY <1>0, <1>1 DEF Reports, Typed, TypeOK, Last, Statuses
  <2>2. /\ LogKept /\ Len(log') = Len(log) /\ log'[Last].status = m.status
        /\ \A q \in 1 .. Last : q # Last => log'[q] = log[q]
      BY <1>0, <1>1, <2>1, StatusUpdated DEF Update, Typed
  <2>3. \/ m.status = log[Last].status
        \/ <<log[Last].status, m.status>> \in UpdateBook!Onward
      BY <1>0, <1>1, <2>1, OrdersOf DEF UpdateBook!Onward, UpdateBook!Statuses, Statuses
  <2> QED
    BY <1>0, <1>1, <2>1, <2>2, <2>3, StatusBooked
<1>2. CASE m.request # Last
  <2>1. Orders' = Orders /\ Updating' = Updating /\ Image' = Image
      BY <1>2 DEF Update, Orders, Updating, Image, Last
  <2> QED
    BY <2>1 DEF Book
<1> QED
  BY <1>1, <1>2

LEMMA SendBooked ==
    ASSUME OrderInv, NEW r \in 1 .. MaxRequests, DeployStep(r)
    PROVE  [UpdateBook!Next]_Book
<1>0. Typed /\ CommandedOnce /\ r \in 1 .. Last /\ UNCHANGED <<started, ota, image>>
    BY DEF OrderInv, DeployStep, DeployReturns, DeployFails, FirstOnSocket, Sending, endpoint
<1>1. /\ LogKept /\ Len(log') = Len(log)
      /\ log'[r].status \in {log[r].status, "failed"}
      /\ \A q \in 1 .. Last : q # r => log'[q] = log[q]
    BY <1>0, SendUpdated DEF DeployStep, DeployReturns, DeployFails, Typed
<1>2. log[r].status \in Statuses /\ log'[r].status \in Statuses
    BY <1>0, <1>1, OrdersOf DEF Statuses
<1>3. <<log[r].status, "failed">> \in UpdateBook!Onward
    BY <1>2 DEF UpdateBook!Onward, UpdateBook!Statuses, Statuses
<1>4. log[r].status \in Taken => r \in started
    BY <1>0 DEF OrderInv, ReportsStarted, AcceptedWasStarted, Taken
<1>5. log'[r].status \in Taken => r \in started
    BY <1>1, <1>4 DEF Taken
<1> QED
  BY <1>0, <1>1, <1>2, <1>3, <1>5, StatusBooked

LEMMA TimeoutBooked ==
    ASSUME OrderInv, AcknowledgementTimeout
    PROVE  [UpdateBook!Next]_Book
<1>0. Typed /\ CommandedOnce /\ UNCHANGED <<started, ota, image>>
    BY DEF OrderInv, AcknowledgementTimeout, endpoint
<1>1. CASE timer = Last /\ log[Last].status = "sent"
  <2>1. Last \in 1 .. Last /\ "unacknowledged" \in Statuses
      BY <1>0, <1>1 DEF AcknowledgementTimeout, Typed, TypeOK, Statuses, Last
  <2>2. /\ LogKept /\ Len(log') = Len(log) /\ log'[Last].status = "unacknowledged"
        /\ \A q \in 1 .. Last : q # Last => log'[q] = log[q]
      BY <1>0, <1>1, <2>1, StatusUpdated DEF AcknowledgementTimeout, Typed
  <2>3. <<"sent", "unacknowledged">> \in UpdateBook!Onward
      BY DEF UpdateBook!Onward
  <2> QED
    BY <1>0, <1>1, <2>1, <2>2, <2>3, StatusBooked DEF Taken
<1>2. CASE ~ (timer = Last /\ log[Last].status = "sent")
  <2>1. Orders' = Orders /\ Updating' = Updating /\ Image' = Image
      BY <1>0, <1>2 DEF AcknowledgementTimeout, Orders, Updating, Image, Last
  <2> QED
    BY <1>0, <2>1 DEF Book
<1> QED
  BY <1>1, <1>2

\* The endpoint takes up a command, or refuses it.
LEMMA CommandBooked ==
    ASSUME OrderInv, NEW s \in Sockets, ReceiveCommand(s)
    PROVE  [UpdateBook!Next]_Book
<1> DEFINE c == Head(down[s])
<1>0. Typed /\ Commanded /\ CommandedOnce /\ down \in [Sockets -> Seq(Commands)]
    BY DEF OrderInv, Typed, TypeOK, Commands
<1>1. /\ c = down[s][1] /\ 1 \in 1 .. Len(down[s]) /\ c \in Commands
    BY <1>0, QueueShortened DEF ReceiveCommand
<1>2. /\ c.request \in 1 .. Last /\ c.request \notin started /\ c.request # 0
      /\ log[c.request].version = c.version
    BY <1>0, <1>1, OrdersOf DEF Commanded, CommandedOnce, Commands
<1>3. Orders' = Orders /\ Image' = Image
    BY DEF ReceiveCommand, server, Orders, Image, Last
<1> HIDE DEF c
<1>4. CASE /\ ota.phase = "idle" /\ IsUpgrade(c.version)
           /\ ota' = [phase |-> "creating", request |-> c.request,
                      version |-> c.version, fetched |-> 0]
           /\ started' = started \cup {c.request}
  <2>1. Updating = 0 /\ Updating' = c.request
      BY <1>4 DEF Updating, Busy
  <2>2. Orders[c.request].version > Image.running
      BY <1>0, <1>2, <1>4, OrdersOf DEF IsUpgrade, Image
  <2>3. UpdateBook!TakeUp(c.request)
      BY <1>2, <1>3, <1>4, <2>1, <2>2 DEF UpdateBook!TakeUp, Orders, Updating, Image
  <2>4. c.request \in DOMAIN Orders
      BY <1>0, <1>2, OrdersOf
  <2> QED
    BY <2>3, <2>4 DEF UpdateBook!Next, Orders
<1>5. CASE started' = started /\ (ota' = ota \/ \E p \in {"idle", "leaked"} :
                                                  ota.phase = "idle" /\ ota' = NoUpdate(p))
  <2>1. Updating' = Updating
      BY <1>5 DEF Updating, Busy, NoUpdate
  <2> QED
    BY <1>3, <1>5, <2>1 DEF Book
<1>6. \/ /\ ota.phase = "idle" /\ IsUpgrade(c.version)
         /\ ota' = [phase |-> "creating", request |-> c.request,
                    version |-> c.version, fetched |-> 0]
         /\ started' = started \cup {c.request}
      \/ started' = started /\ (ota' = ota \/ \E p \in {"idle", "leaked"} :
                                                ota.phase = "idle" /\ ota' = NoUpdate(p))
    BY DEF ReceiveCommand, c
<1> QED
  BY <1>4, <1>5, <1>6

\* It goes on with what it took up, or goes back.
LEMMA PanelBooked ==
    ASSUME OrderInv, PanelStep
    PROVE  [UpdateBook!Next]_Book
<1>0. Typed /\ Commanded /\ ReportsStarted
    BY DEF OrderInv
<1>1. CASE \E s \in Sockets : ReceiveCommand(s)
    BY <1>1, CommandBooked
<1>2. CASE \E s \in Sockets : PanelConnects(s) \/ LinkLost(s) \/ FlushStatus(s)
  <2>1. UNCHANGED <<log, started, ota, image>>
      BY <1>2 DEF PanelConnects, LinkLost, FlushStatus, server, endpoint
  <2> QED
    BY <2>1 DEF Book, Orders, Updating, Image, Last
<1>3. CASE TaskCreated \/ InstallBegins \/ InstallVerified
  <2>1. UNCHANGED <<log, started, image>>
      BY <1>3 DEF TaskCreated, InstallBegins, InstallVerified, server
  <2>2. ota'.request = ota.request /\ ota'.phase \in Busy /\ ota.phase \in Busy
      BY <1>0, <1>3 DEF TaskCreated, InstallBegins, InstallVerified, Busy, Typed, TypeOK
  <2> QED
    BY <2>1, <2>2 DEF Book, Orders, Updating, Image, Last
<1>4. CASE TaskRefused \/ InstallFails \/ UpdateOver
  <2>1. UNCHANGED <<log, started, image>> /\ Updating' = 0
      BY <1>4 DEF TaskRefused, InstallFails, UpdateOver, NoUpdate, server, Updating, Busy
  <2>2. UpdateBook!GiveUp
      BY <2>1 DEF UpdateBook!GiveUp, Orders, Updating, Image, Last
  <2> QED
    BY <2>2 DEF UpdateBook!Next
<1>5. CASE Boots
  <2>1. UNCHANGED <<log, started, ota>> /\ image'.running = image.running
        /\ image'.fallback \in {0, image.fallback}
      BY <1>0, <1>5 DEF Boots, server, Typed, TypeOK
  <2>2. Orders' = Orders /\ Updating' = Updating
      BY <2>1 DEF Orders, Updating, Last
  <2>3. CASE image'.fallback = image.fallback
      BY <2>1, <2>2, <2>3 DEF Book, Image
  <2>4. CASE image'.fallback = 0
    <3>1. UpdateBook!Confirm
        BY <2>1, <2>2, <2>4 DEF UpdateBook!Confirm, Orders, Updating, Image
    <3> QED
      BY <3>1 DEF UpdateBook!Next
  <2> QED
    BY <2>1, <2>3, <2>4
<1>6. CASE Restarts
  <2>1. UNCHANGED <<log, started>> /\ Updating' = 0
      BY <1>6 DEF Restarts, NoUpdate, server, Updating, Busy
  <2>2. Orders' = Orders
      BY <2>1 DEF Orders, Last
  <2>3. CASE ota.phase = "restarting"
    <3>1. /\ Updating = ota.request /\ ota.request \in 1 .. Last
          /\ log[ota.request].version = ota.fetched
        BY <1>0, <2>3, OrdersOf DEF Updating, Busy, Commanded, Numbered, Typed
    <3>2. Image' = [running |-> Orders[Updating].version, fallback |-> Image.running]
        BY <1>0, <1>6, <2>3, <3>1, OrdersOf DEF Restarts, Image
    <3>3. Updating # 0
        BY <3>1
    <3>4. UpdateBook!Switch
        BY <2>1, <2>2, <3>2, <3>3 DEF UpdateBook!Switch, Orders, Updating, Image
    <3> QED
      BY <3>4 DEF UpdateBook!Next
  <2>4. CASE ota.phase # "restarting" /\ image.fallback # 0
    <3>1. Image' = [running |-> Image.fallback, fallback |-> 0] /\ Image.fallback # 0
        BY <1>6, <2>4 DEF Restarts, Image
    <3>2. UpdateBook!GoBack
        BY <2>1, <2>2, <3>1 DEF UpdateBook!GoBack, Orders, Updating, Image
    <3> QED
      BY <3>2 DEF UpdateBook!Next
  <2>5. CASE ota.phase # "restarting" /\ image.fallback = 0
    <3>1. Image' = Image
        BY <1>0, <1>6, <2>5 DEF Restarts, Image, Typed, TypeOK
    <3>2. UpdateBook!GiveUp
        BY <2>1, <2>2, <3>1 DEF UpdateBook!GiveUp, Orders, Updating, Image
    <3> QED
      BY <3>2 DEF UpdateBook!Next
  <2> QED
    BY <2>3, <2>4, <2>5
<1> QED
  BY <1>1, <1>2, <1>3, <1>4, <1>5, <1>6 DEF PanelStep

LEMMA HandlerBooked ==
    ASSUME OrderInv, HadInv, NEW s \in Sockets, HandlerStep(s)
    PROVE  [UpdateBook!Next]_Book
<1>0. Typed /\ ReportsStarted
    BY DEF OrderInv
<1>1. UNCHANGED <<started, ota, image>>
    BY DEF HandlerStep, Register, PreviousClosed, Greeted, Retry, HandlerEnds, MarkOffline,
           LossNoticed,
           ReceiveStatus, endpoint
<1>2. ASSUME log' = log PROVE [UpdateBook!Next]_Book
    BY <1>1, <1>2 DEF Book, Orders, Updating, Image, Last
<1>3. CASE Register(s)
  <2>1. Head(up[s]).register \in Had
      BY <1>0, <1>3, HadRegister
  <2>2. log' = log \/ MarkRunning(Head(up[s]).register)
      BY <1>3 DEF Register, Greet
  <2> QED
    BY <1>1, <1>2, <2>1, <2>2, MarkBooked
<1>4. CASE PreviousClosed(s)
  <2>1. handler[s].running \in Had /\ MarkRunning(handler[s].running)
      BY <1>4 DEF PreviousClosed, Greet, HadInv
  <2> QED
    BY <1>1, <2>1, MarkBooked
<1>5. CASE Retry(s)
  <2>1. handler[s] \in Handler /\ handler[s].pc = "waiting"
      BY <1>0, <1>5 DEF Retry, Typed, TypeOK
  <2>2. handler[s].running \in Versions
      BY <2>1 DEF Handler
  <2> QED
    BY <1>0, <1>1, <1>2, <1>5, <2>2, OrderPlaced DEF Retry
<1>6. CASE Greeted(s) \/ HandlerEnds(s) \/ MarkOffline(s) \/ LossNoticed(s)
    BY <1>2, <1>6 DEF Greeted, HandlerEnds, MarkOffline, LossNoticed, server
<1>7. CASE ReceiveStatus(s)
  <2> DEFINE m == Head(up[s])
  <2>1. /\ m \in Reports /\ m = up[s][1] /\ 1 \in 1 .. Len(up[s])
        /\ handler[s].pc = "idle" /\ connections[Panel] = s
    <3>1. /\ up[s] \in Seq(Reports) /\ up[s] # <<>> /\ handler[s].pc = "idle"
          /\ connections[Panel] = s
        BY <1>0, <1>7, OnePanel DEF ReceiveStatus, IsCurrent, Typed, RegistersFirst
    <3> QED
      BY <3>1
  <2>2. Update(m)
      BY <1>7 DEF ReceiveStatus
  <2> HIDE DEF m
  <2>3. m.status \in Taken => m.request \in started
      BY <1>0, <2>1 DEF ReportsStarted
  <2>4. m.request = Last /\ m.status = "accepted" => log[Last].status # "restarting"
    <3> SUFFICES ASSUME m.request = Last, m.status = "accepted", log[Last].status = "restarting"
                 PROVE  FALSE
        OBVIOUS
    <3>1. Says(s, Last, "accepted")
        BY <2>1 DEF Says
    <3>2. Last \in 1 .. Last
        BY <1>0, <2>1, OrdersOf DEF Reports
    <3> QED
      BY <2>1, <3>1, <3>2 DEF OrderInv, InStages, LogInStages
  <2> QED
    BY <1>1, <2>1, <2>2, <2>3, <2>4, UpdateBooked
<1> QED
  BY <1>3, <1>4, <1>5, <1>6, <1>7 DEF HandlerStep

LEMMA BookStep ==
    ASSUME OrderInv, HadInv, [Next]_vars
    PROVE  [UpdateBook!Next]_Book
<1>1. CASE UNCHANGED vars \/ \E v \in Versions : Publish(v)
  <2>1. UNCHANGED <<log, started, ota, image>>
      BY <1>1 DEF vars, server, endpoint, Publish
  <2> QED
    BY <2>1 DEF Book, Orders, Updating, Image, Last
<1>2. CASE AdminDeploys
  <2>1. Typed /\ published \in Versions /\ Last < MaxRequests /\ Deploy(published)
        /\ UNCHANGED <<started, ota, image>>
      BY <1>2 DEF AdminDeploys, OrderInv, Typed, TypeOK, endpoint
  <2> QED
    BY <2>1, OrderPlaced
<1> QED
  BY <1>1, <1>2, SendBooked, TimeoutBooked, HandlerBooked, PanelBooked DEF Next

\* Server and endpoint keep the book of updates, for any number of versions,
\* deployments, reconnects and restarts and however late sends return: no
\* deployment is taken up twice or over another, and none is on record as
\* accepted, restarting or completed without what the endpoint did for it.
THEOREM UpdatesKept == Spec => KeepsUpdateBook
<1>1. Init => UpdateBook!Init
  <2> SUFFICES ASSUME Init PROVE UpdateBook!Init
      OBVIOUS
  <2>1. Last = 0
      BY DEF Init, Last
  <2>2. Orders = <<>>
      BY <2>1 DEF Orders
  <2>3. Updating = 0
      BY DEF Init, Updating, NoUpdate, Busy
  <2>4. Image = [running |-> Factory, fallback |-> 0]
      BY DEF Init, Image
  <2> QED
    BY <2>2, <2>3, <2>4 DEF UpdateBook!Init, Orders, Updating, Image, Init
<1>2. Init => HadInv
  <2> SUFFICES ASSUME Init PROVE HadInv
      OBVIOUS
  <2>1. \A s \in Sockets : handler[s].pc = "unregistered" /\ up[s] = <<>>
      BY DEF Init, At
  <2> QED
    BY <2>1 DEF Init, HadInv, Had
<1>3. OrderInv /\ HadInv /\ [Next]_vars => OrderInv' /\ HadInv'
    BY OrderStep, HadStep
<1>4. OrderInv /\ HadInv /\ [Next]_vars => [UpdateBook!Next]_(UpdateBook!book)
    BY BookStep DEF Book, UpdateBook!book, Orders, Updating, Image
<1> QED
  BY <1>1, <1>2, <1>3, <1>4, OrderInit, PTL DEF Spec, KeepsUpdateBook, UpdateBook!Spec
=============================================================================
