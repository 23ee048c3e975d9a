---------------------------- MODULE Notification ----------------------------
(***************************************************************************)
(* Notifications of a room: the service that sends them and gathers what   *)
(* became of them (services/notification_service.py with its speech client *)
(* integrations/homeassistant/tts_pipeline.py and audio_command_service.   *)
(* py), the handlers its answers come through (handlers/dispatcher.py,     *)
(* audio_handler.py), and the panel that shows and speaks them             *)
(* (tab5_bringup.cpp, roomhub_transport.cpp).                              *)
(*                                                                         *)
(* Delivery d is the d-th.  The stored summaries of a delivery are always  *)
(* what _summarize makes of its channels, so they are operators here.  How *)
(* an endpoint schedules its speaker is AudioService; here a request is    *)
(* queued, playing or over.                                                *)
(***************************************************************************)
EXTENDS ConnectionManager, Sequences, SequencesExt

CONSTANTS
    Displays, Speakers,  \* the endpoints with each capability
    Scenarios,           \* bound: what may happen in a behaviour
    MaxNotifications,    \* bound: the requests of a behaviour
    MaxPending           \* notifications that wait behind an overlay: 8

\* NotificationRequest: aim is the named endpoint or the endpoints of the
\* named area; timed is timeout_seconds > 0, queue is presentation.
KindType == [aim : SUBSET Endpoints, display : BOOLEAN, speak : BOOLEAN,
             timed : BOOLEAN, queue : BOOLEAN, button : BOOLEAN]

\* A behaviour makes the requests of one scenario in their order, may make so
\* many stop requests, and loses only links and sends of unstable endpoints.
ScenarioType == [requests : Seq(KindType), unstable : SUBSET Endpoints, stops : Nat]

ASSUME NotificationAssumption ==
    /\ Displays \subseteq Endpoints /\ Speakers \subseteq Endpoints
    /\ MaxPending \in Nat \ {0} /\ MaxNotifications \in Nat
    /\ Scenarios \subseteq ScenarioType
    /\ \A x \in Scenarios :
         /\ Len(x.requests) <= MaxNotifications
         /\ \A k \in Range(x.requests) : k.display \/ k.speak

VARIABLES
    scenario, \* the one of this behaviour
    online,   \* Endpoint.connected in the registry
    next,     \* the requests made
    log,      \* the deliveries
    task,     \* where notify stands for each of them
    handler,  \* where websocket_endpoint stands for each socket
    stops,    \* stop requests made
    down,     \* messages on their way to the endpoint
    up,       \* messages of the endpoint its handler has not read
    overlay,  \* the notification on the screen, 0 for none
    pressed,  \* its button is being handled, under the display lock
    pending,  \* those that wait behind it
    sound,    \* the audio requests of the endpoint
    reply,    \* the request whose acceptance the endpoint has yet to send
    ran,      \* history: commands an action button of <<delivery, panel>> ran
    swept,    \* history: what a replacing notification removed from pending
    unsaid    \* history: what was closed without its outcome being sent

server == <<scenario, connections, online, next, log, task, handler, stops>>
screen == <<overlay, pressed, pending, swept, unsaid>>
panel == <<screen, sound, reply>>
vars == <<server, panel, ws, down, up, ran>>

-----------------------------------------------------------------------------
(* State                                                                   *)

Requests == scenario.requests
Ids == 1 .. MaxNotifications
Deliveries == 1 .. Len(log)

\* The outcomes the endpoint reports for each channel.
Outcomes == [visual |-> {"dismissed", "expired", "replaced"},
             audio |-> {"completed", "interrupted", "failed", "stopped",
                        "not_found"}]
Interim == {"sent", "accepted", "rejected", "playing"}
Reports ==
    [delivery : Ids, channel : {"visual"}, status : Outcomes.visual]
      \cup [delivery : Ids, channel : {"audio"},
            status : Outcomes.audio \cup Interim]
      \cup [delivery : Ids, channel : {"action"}, status : {"turn_on"}]
Commands == [type : {"show", "play", "stop"}, delivery : Ids]

Channel(k, e) ==
    {c \in {"visual", "audio"} :
        \/ c = "visual" /\ k.display /\ e \in Displays
        \/ c = "audio" /\ k.speak /\ e \in Speakers}

Speech == {"connecting", "authenticating", "running"}

TypeOK ==
    /\ ConnectionTypeOK
    /\ online \in [Endpoints -> BOOLEAN]
    /\ Len(log) <= next /\ next <= Len(Requests) /\ Len(task) = Len(log)
    /\ \A d \in Deliveries :
         /\ log[d].kind \in Range(Requests)
         /\ \A e \in DOMAIN log[d].channels :
              /\ DOMAIN log[d].channels[e] = Channel(log[d].kind, e)
              /\ \A c \in DOMAIN log[d].channels[e] :
                   log[d].channels[e][c] \in Outcomes[c] \cup Interim
         /\ log[d].actor \subseteq DOMAIN log[d].channels
         /\ task[d] \in [pc : {"showing", "playing", "done", "failed"} \cup Speech,
                         left : SUBSET DOMAIN log[d].channels]
    /\ handler \in [Sockets ->
                      [pc : {"unregistered", "serving", "leaving", "done"},
                       delivery : {0}]
                        \cup [pc : {"activating"}, delivery : Ids]]
    /\ scenario \in Scenarios
    /\ stops \in 0 .. scenario.stops
    /\ down \in [Sockets -> Seq(Commands)]
    /\ up \in [Sockets -> Seq(Reports)]
    /\ overlay \in [Endpoints -> 0 .. MaxNotifications]
    /\ pressed \in [Endpoints -> BOOLEAN]
    /\ pending \in [Endpoints -> Seq(Ids)]
    /\ \A e \in Endpoints : Len(pending[e]) <= MaxPending
    /\ sound \in [Endpoints -> [Ids -> {"none", "queued", "playing", "over"}]]
    /\ reply \in [Endpoints -> 0 .. MaxNotifications]
    /\ ran \in [Ids \X Endpoints -> Nat]
    /\ swept \in [Endpoints -> SUBSET Ids]
    /\ unsaid \in [Endpoints -> SUBSET Ids]

At(pc) == [pc |-> pc, delivery |-> 0]

\* Every endpoint has registered.
Init ==
    /\ scenario \in Scenarios
    /\ connections = [e \in Endpoints |-> <<e, 1>>]
    /\ ws = [s \in Sockets |-> IF s[2] = 1 THEN "open" ELSE "unopened"]
    /\ online = [e \in Endpoints |-> TRUE]
    /\ next = 0 /\ log = <<>> /\ task = <<>> /\ stops = 0
    /\ handler = [s \in Sockets |->
                    At(IF s[2] = 1 THEN "serving" ELSE "unregistered")]
    /\ down = [s \in Sockets |-> <<>>] /\ up = [s \in Sockets |-> <<>>]
    /\ overlay = [e \in Endpoints |-> 0]
    /\ pressed = [e \in Endpoints |-> FALSE]
    /\ pending = [e \in Endpoints |-> <<>>]
    /\ sound = [e \in Endpoints |-> [d \in Ids |-> "none"]]
    /\ reply = [e \in Endpoints |-> 0]
    /\ ran = [x \in Ids \X Endpoints |-> 0]
    /\ swept = [e \in Endpoints |-> {}]
    /\ unsaid = [e \in Endpoints |-> {}]

-----------------------------------------------------------------------------
(* What a delivery came to                                                 *)

Terminal == Outcomes.visual \cup Outcomes.audio
Mild == <<"dismissed", "expired", "replaced">>

\* The first of Mild among S
FirstOf(S) == Mild[CHOOSE i \in 1 .. 3 :
                     Mild[i] \in S /\ \A j \in 1 .. i - 1 : Mild[j] \notin S]

Underway(S) ==
    IF "playing" \in S THEN "playing"
    ELSE IF "accepted" \in S THEN "accepted" ELSE "sent"

\* _summarize: one endpoint ...
TargetStatus(d, e) ==
    LET S == Range(log[d].channels[e]) IN
    IF ~ S \subseteq Terminal THEN Underway(S)
    ELSE IF S \cap {"interrupted", "failed", "stopped", "not_found"} # {}
      THEN "finished_with_errors"
    ELSE IF S \cap Range(Mild) # {} THEN FirstOf(S) ELSE "completed"

Finished == {"finished_with_errors", "completed"} \cup Range(Mild)

\* Mutant: one endpoint that is done is enough.
StatusOfAny(d) ==
    LET S == {TargetStatus(d, e) : e \in DOMAIN log[d].channels} IN
    IF S \cap Finished = {} THEN Underway(S)
    ELSE IF S \cap Range(Mild) # {} THEN FirstOf(S) ELSE "completed"

\* ... and the delivery.
DeliveryStatus(d) ==
    LET S == {TargetStatus(d, e) : e \in DOMAIN log[d].channels} IN
    IF ~ S \subseteq Finished THEN Underway(S)
    ELSE IF "finished_with_errors" \in S THEN "finished_with_errors"
    ELSE IF S \cap Range(Mild) # {} THEN FirstOf(S) ELSE "completed"

-----------------------------------------------------------------------------
(* Connections                                                             *)

\* The endpoint connects again and registers.
Register(s) ==
    /\ OpenSocket(s)
    /\ Connect(s)
    /\ online' = [online EXCEPT ![Owner(s)] = TRUE]
    /\ handler' = [handler EXCEPT ![s] = At("serving")]
    /\ UNCHANGED <<scenario, next, log, task, stops, panel, down, up, ran>>

\* What was on its way to the endpoint is gone.
Lose(s) ==
    /\ Owner(s) \in scenario.unstable
    /\ LoseSocket(s)
    /\ down' = [down EXCEPT ![s] = <<>>]
    /\ UNCHANGED <<server, panel, up, ran>>

Notice(s) ==
    /\ NoticeLoss(s)
    /\ UNCHANGED <<server, panel, down, up, ran>>

\* The handler's receive ends; unless the entry is another's, or a failed
\* send has removed it, it takes the endpoint off the table and awaits the
\* end of its call ...
Leave(s) ==
    /\ handler[s].pc = "serving" /\ ws[s] = "dead"
    /\ Disconnect(s)
    /\ handler' = [handler EXCEPT ![s] = At(IF IsCurrent(s) THEN "leaving"
                                                            ELSE "done")]
    /\ up' = [up EXCEPT ![s] = <<>>]
    /\ UNCHANGED <<scenario, online, next, log, task, stops, panel, ws, down, ran>>

\* ... before it marks it offline.
LeaveEnds(s) ==
    /\ handler[s].pc = "leaving"
    /\ online' = [online EXCEPT ![Owner(s)] = FALSE]
    /\ handler' = [handler EXCEPT ![s] = At("done")]
    /\ UNCHANGED <<scenario, connections, next, log, task, stops, panel, ws, down, up, ran>>

\* manager.send: other tasks run between two sends of the same task.
Send(e, type, d) ==
    LET s == connections[e] IN
    IF Reachable(e) /\ ws[s] = "open"
      THEN /\ down' = [down EXCEPT ![s] = Append(@, [type |-> type, delivery |-> d])]
           /\ UNCHANGED connections
      ELSE /\ IF Reachable(e) THEN Returned(s) ELSE UNCHANGED connections
           /\ UNCHANGED down

-----------------------------------------------------------------------------
(* notify                                                                  *)

\* _targets
Targets(k) == {e \in k.aim : online[e] /\ Channel(k, e) # {}}

With(d, c) == {e \in DOMAIN log[d].channels : c \in DOMAIN log[d].channels[e]}

\* notify after its shows to all but the displays in left
Showing(k, targets, left) ==
    [pc |-> IF left # {} THEN "showing"
            ELSE IF \E e \in targets : "audio" \in Channel(k, e)
              THEN "connecting" ELSE "done",
     left |-> left]

\* Without a target the request is answered "unavailable" and leaves nothing.
Notify ==
    /\ next < Len(Requests)
    /\ next' = next + 1
    /\ LET k == Requests[next + 1]
           T == Targets(k) IN
         IF T = {} THEN UNCHANGED <<log, task>>
         ELSE
           /\ log' = Append(log,
                [kind |-> k, actor |-> {},
                 channels |-> [e \in T |-> [c \in Channel(k, e) |-> "sent"]]])
           /\ task' = Append(task,
                Showing(k, T, {e \in T : "visual" \in Channel(k, e)}))
    /\ UNCHANGED <<scenario, connections, online, handler, stops, panel, ws, down, up, ran>>

\* notification.show, one display after the other
ShowTo(d, e) ==
    /\ task[d].pc = "showing" /\ e \in task[d].left
    /\ Send(e, "show", d)
    /\ task' = [task EXCEPT ![d] = Showing(log[d].kind, DOMAIN log[d].channels,
                                          @.left \ {e})]
    /\ UNCHANGED <<scenario, online, next, log, handler, stops, panel, ws, up, ran>>

Goes(d, pc, left) == task' = [task EXCEPT ![d] = [pc |-> pc, left |-> left]]

\* synthesize: a socket to Home Assistant, the authentication, and a run of
\* the pipeline that the list of pipelines has under the configured name.
Synthesize(d) ==
    /\ task[d].pc \in Speech
    /\ \/ task[d].pc = "connecting" /\ Goes(d, "authenticating", {})
       \/ task[d].pc = "authenticating" /\ Goes(d, "running", {})
       \/ task[d].pc = "running" /\ Goes(d, "playing", With(d, "audio"))
    /\ UNCHANGED <<scenario, connections, online, next, log, handler, stops, panel, ws, down, up, ran>>

\* Refused, malformed, or late where the step has a time limit: notify
\* raises, and the delivery is left as it is.
SynthesisFails(d) ==
    /\ task[d].pc \in Speech
    /\ Goes(d, "failed", {})
    /\ UNCHANGED <<scenario, connections, online, next, log, handler, stops, panel, ws, down, up, ran>>

\* audio_command_service.play; one without a connection is passed over.
PlayTo(d, e) ==
    /\ task[d].pc = "playing" /\ e \in task[d].left
    /\ Send(e, "play", d)
    /\ LET left == task[d].left \ {e} IN
         Goes(d, IF left = {} THEN "done" ELSE "playing", left)
    /\ UNCHANGED <<scenario, online, next, log, handler, stops, panel, ws, up, ran>>

\* audio_command_service.stop
StopSpeech(d, e) ==
    /\ stops < scenario.stops
    /\ Reachable(e)
    /\ Send(e, "stop", d)
    /\ stops' = stops + 1
    /\ UNCHANGED <<scenario, online, next, log, task, handler, panel, ws, up, ran>>

-----------------------------------------------------------------------------
(* What the handler makes of an endpoint's message                         *)

Receives(s) ==
    /\ handler[s].pc = "serving" /\ IsCurrent(s) /\ up[s] # <<>>
    /\ up' = [up EXCEPT ![s] = Tail(@)]

\* update_status
UpdateStatus(d, e, channel, status) ==
    log' = IF d \in Deliveries /\ e \in With(d, channel)
             THEN [log EXCEPT ![d].channels[e][channel] = status] ELSE log

\* notification.status and notification.dismissed
VisualStatus(s) ==
    LET m == Head(up[s]) IN
    /\ Receives(s)
    /\ m.channel = "visual"
    /\ UpdateStatus(m.delivery, Owner(s), "visual", m.status)
    /\ UNCHANGED <<scenario, connections, online, next, task, handler, stops,
                   panel, ws, down, ran>>

\* handle_audio_status
AudioStatus(s) ==
    LET m == Head(up[s]) IN
    /\ Receives(s)
    /\ m.channel = "audio"
    /\ UpdateStatus(m.delivery, Owner(s), "audio", m.status)
    /\ UNCHANGED <<scenario, connections, online, next, task, handler, stops,
                   panel, ws, down, ran>>

\* activate_action: the entity may have left the registry (known); the
\* command is published and awaited ...
ActivateAction(s, known) ==
    LET m == Head(up[s])
        e == Owner(s) IN
    /\ Receives(s)
    /\ m.channel = "action"
    /\ IF /\ m.delivery \in Deliveries
          /\ e \in DOMAIN log[m.delivery].channels
          /\ log[m.delivery].kind.button /\ known
         THEN /\ ran' = [ran EXCEPT ![<<m.delivery, e>>] = @ + 1]
              /\ handler' = [handler EXCEPT ![s] = [pc |-> "activating",
                                                    delivery |-> m.delivery]]
         ELSE UNCHANGED <<ran, handler>>
    /\ UNCHANGED <<scenario, connections, online, next, log, task, stops, panel, ws, down>>

\* ... and the action recorded, whatever became of the command.
ActionPublished(s) ==
    /\ handler[s].pc = "activating"
    /\ log' = [log EXCEPT ![handler[s].delivery].actor = {Owner(s)}]
    /\ handler' = [handler EXCEPT ![s] = At("serving")]
    /\ UNCHANGED <<scenario, connections, online, next, task, stops, panel, ws, down, up, ran>>

-----------------------------------------------------------------------------
(* The panel                                                               *)

Report(d, channel, status) ==
    [delivery |-> d, channel |-> channel, status |-> status]

\* send_text, whose result nobody looks at: the message is lost without a
\* connection, and on one that does not take it in time.
Tell(e, message) ==
    \/ up' = [s \in Sockets |-> IF Owner(s) = e /\ ws[s] = "open"
                                  THEN Append(up[s], message) ELSE up[s]]
    \/ e \in scenario.unstable /\ UNCHANGED up

\* The outcome of a notification is reported now or never.
Conclude(e, d, status) ==
    /\ Tell(e, Report(d, "visual", status))
    /\ unsaid' = IF up' = up THEN [unsaid EXCEPT ![e] = @ \cup {d}] ELSE unsaid

\* A notification waits for the display lock.
Arrives(s, type) ==
    /\ ws[s] = "open" /\ reply[Owner(s)] = 0
    /\ type = "show" => ~ pressed[Owner(s)]
    /\ down[s] # <<>> /\ Head(down[s]).type = type
    /\ down' = [down EXCEPT ![s] = Tail(@)]

\* Mutant: as many wait as come.
ShowQueuedUnbounded(s) ==
    LET e == Owner(s)
        d == Head(down[s]).delivery IN
    /\ Arrives(s, "show")
    /\ overlay[e] # 0 /\ log[d].kind.queue
    /\ pending' = [pending EXCEPT ![e] = Append(@, d)]
    /\ UNCHANGED <<server, overlay, pressed, sound, reply, swept, unsaid, ws, up, ran>>

\* show_tab5_notification: a queued one waits behind the overlay ...
ShowQueued(s) ==
    LET e == Owner(s)
        d == Head(down[s]).delivery IN
    /\ Arrives(s, "show")
    /\ overlay[e] # 0 /\ log[d].kind.queue /\ Len(pending[e]) < MaxPending
    /\ pending' = [pending EXCEPT ![e] = Append(@, d)]
    /\ UNCHANGED <<server, overlay, pressed, sound, reply, swept, unsaid, ws, up, ran>>

\* ... unless too many do; ...
ShowOverflow(s) ==
    LET e == Owner(s)
        d == Head(down[s]).delivery IN
    /\ Arrives(s, "show")
    /\ overlay[e] # 0 /\ log[d].kind.queue /\ Len(pending[e]) = MaxPending
    /\ Conclude(e, d, "replaced")
    /\ UNCHANGED <<server, overlay, pressed, pending, sound, reply, swept, ws, ran>>

\* ... another takes the screen, and nothing is said of those that waited.
Show(s) ==
    LET e == Owner(s)
        d == Head(down[s]).delivery IN
    /\ Arrives(s, "show")
    /\ overlay[e] = 0 \/ ~ log[d].kind.queue
    /\ overlay' = [overlay EXCEPT ![e] = d]
    /\ pending' = [pending EXCEPT ![e] = <<>>]
    /\ swept' = [swept EXCEPT ![e] = @ \cup Range(pending[e])]
    /\ IF overlay[e] = 0 THEN UNCHANGED <<up, unsaid>>
                         ELSE Conclude(e, overlay[e], "replaced")
    /\ UNCHANGED <<server, pressed, sound, reply, ws, ran>>

\* Mutant: the next one is not taken from the queue.
FinishLeavesQueue(e, status) ==
    /\ overlay[e] # 0
    /\ Conclude(e, overlay[e], status)
    /\ overlay' = [overlay EXCEPT ![e] = 0]
    /\ pressed' = [pressed EXCEPT ![e] = FALSE]
    /\ UNCHANGED <<server, pending, sound, reply, swept, ws, down, ran>>

\* finish_notification: report it and show the next.
Finish(e, status) ==
    /\ overlay[e] # 0
    /\ Conclude(e, overlay[e], status)
    /\ pressed' = [pressed EXCEPT ![e] = FALSE]
    /\ IF pending[e] = <<>>
         THEN overlay' = [overlay EXCEPT ![e] = 0] /\ UNCHANGED pending
         ELSE /\ overlay' = [overlay EXCEPT ![e] = Head(pending[e])]
              /\ pending' = [pending EXCEPT ![e] = Tail(@)]
    /\ UNCHANGED <<server, sound, reply, swept, ws, down, ran>>

Dismiss(e) == ~ pressed[e] /\ Finish(e, "dismissed")

\* Mutant: the timer does not close the overlay.
ExpireKeepsOverlay(e) ==
    /\ overlay[e] # 0 /\ log[overlay[e]].kind.timed /\ ~ pressed[e]
    /\ Conclude(e, overlay[e], "expired")
    /\ UNCHANGED <<server, overlay, pressed, pending, sound, reply, swept, ws, down, ran>>

Expire(e) ==
    /\ overlay[e] # 0 /\ log[overlay[e]].kind.timed /\ ~ pressed[e]
    /\ Finish(e, "expired")

Pressable(e) == overlay[e] # 0 /\ log[overlay[e]].kind.button /\ ~ pressed[e]

\* Mutant: the button leaves the notification open.
PressStaysOpen(e) ==
    /\ Pressable(e)
    /\ Tell(e, Report(overlay[e], "action", "turn_on"))
    /\ UNCHANGED <<server, panel, ws, down, ran>>

\* Mutant: the notification is closed before the action is sent.
PressAfterDismissal(e) ==
    /\ Pressable(e)
    /\ up' = [s \in Sockets |-> IF Owner(s) = e /\ ws[s] = "open"
                 THEN up[s] \o <<Report(overlay[e], "visual", "dismissed"),
                                Report(overlay[e], "action", "turn_on")>> ELSE up[s]]
    /\ overlay' = [overlay EXCEPT ![e] = 0]
    /\ UNCHANGED <<server, pressed, pending, sound, reply, swept, unsaid, ws, down, ran>>

\* activate_notification_button: the action is sent ...
Press(e) ==
    /\ Pressable(e)
    /\ Tell(e, Report(overlay[e], "action", "turn_on"))
    /\ pressed' = [pressed EXCEPT ![e] = TRUE]
    /\ UNCHANGED <<server, overlay, pending, sound, reply, swept, unsaid, ws, down, ran>>

\* ... and the notification closed, whatever became of that.
PressCloses(e) == pressed[e] /\ Finish(e, "dismissed")

Sound(e, d, state) == sound' = [sound EXCEPT ![e][d] = state]

\* audio.play is handed to the audio service, or refused for want of room ...
Play(s) ==
    LET e == Owner(s)
        d == Head(down[s]).delivery IN
    /\ Arrives(s, "play")
    /\ \/ /\ Sound(e, d, "queued")
          /\ reply' = [reply EXCEPT ![e] = d]
          /\ UNCHANGED up
       \/ /\ Tell(e, Report(d, "audio", "rejected"))
          /\ UNCHANGED <<sound, reply>>
    /\ UNCHANGED <<server, screen, ws, ran>>

\* ... and accepted, which its task may have overtaken.
Accept(e) ==
    /\ reply[e] # 0
    /\ Tell(e, Report(reply[e], "audio", "accepted"))
    /\ reply' = [reply EXCEPT ![e] = 0]
    /\ UNCHANGED <<server, screen, sound, ws, down, ran>>

\* audio_service_task
SoundStarts(e, d) ==
    /\ sound[e][d] = "queued"
    /\ \A q \in Ids : sound[e][q] # "playing"
    /\ Sound(e, d, "playing")
    /\ Tell(e, Report(d, "audio", "playing"))
    /\ UNCHANGED <<server, screen, reply, ws, down, ran>>

SoundEnds(e, d, result) ==
    /\ sound[e][d] = "playing"
    /\ Sound(e, d, "over")
    /\ Tell(e, Report(d, "audio", result))
    /\ UNCHANGED <<server, screen, reply, ws, down, ran>>

\* audio.stop: a request that waits is removed, one that plays ends later.
Stop(s) ==
    LET e == Owner(s)
        d == Head(down[s]).delivery IN
    /\ Arrives(s, "stop")
    /\ Tell(e, Report(d, "audio", IF sound[e][d] \in {"queued", "playing"}
                                    THEN "stopped" ELSE "not_found"))
    /\ IF sound[e][d] = "queued" THEN Sound(e, d, "over") ELSE UNCHANGED sound
    /\ UNCHANGED <<server, screen, reply, ws, ran>>

-----------------------------------------------------------------------------

Notifying(d) ==
    \/ Synthesize(d) \/ SynthesisFails(d)
    \/ \E e \in Endpoints : ShowTo(d, e) \/ PlayTo(d, e)

Serving(s) ==
    \/ Leave(s) \/ LeaveEnds(s)
    \/ VisualStatus(s) \/ AudioStatus(s) \/ ActionPublished(s)
    \/ \E known \in BOOLEAN : ActivateAction(s, known)

Arriving(s) ==
    ShowQueued(s) \/ ShowOverflow(s) \/ Show(s) \/ Play(s) \/ Stop(s)

Speaking(e) ==
    \/ Accept(e)
    \/ \E d \in Ids :
         \/ SoundStarts(e, d)
         \/ \E result \in {"completed", "interrupted", "failed"} :
              SoundEnds(e, d, result)

Next ==
    \/ \E s \in Sockets : Register(s) \/ Lose(s) \/ Notice(s)
    \/ \E s \in Sockets : Serving(s) \/ Arriving(s)
    \/ Notify
    \/ \E d \in Deliveries : Notifying(d)
    \/ \E d \in Deliveries, e \in Endpoints : StopSpeech(d, e)
    \/ \E e \in Endpoints : Dismiss(e) \/ Expire(e) \/ Press(e) \/ PressCloses(e)
    \/ \E e \in Endpoints : Speaking(e)

Spec == Init /\ [][Next]_vars

\* Tasks, handlers, messages and timers go on; no one needs to touch a
\* screen, links need not fail, and Home Assistant may be silent for ever
\* in the authentication, the one step of the speech without a time limit.
\* One condition serves for all, since a behaviour makes finitely many steps.
Progress ==
    \/ \E s \in Sockets : Serving(s) \/ Arriving(s)
    \/ \E e \in Endpoints : Expire(e) \/ PressCloses(e) \/ Speaking(e)
    \/ \E d \in Deliveries : task[d].pc # "authenticating" /\ Notifying(d)

FairSpec == Spec /\ WF_vars(Progress)

-----------------------------------------------------------------------------
(* Properties                                                              *)

Visual(d, e) == log[d].channels[e]["visual"]

Settled(d, e) ==
    d \in Deliveries /\ e \in With(d, "visual") /\ Visual(d, e) # "sent"

OnPanel(d, e) ==
    \/ overlay[e] = d \/ d \in Range(pending[e])
    \/ \E s \in Sockets :
         Owner(s) = e /\ [type |-> "show", delivery |-> d] \in Range(down[s])

\* What GET /notifications/{delivery_id} calls finished is on no screen, waits
\* on none and is on its way to none, also while notify is still sending to
\* the other displays of the area.
FinishedIsOffEveryScreen ==
    \A d \in Deliveries : DeliveryStatus(d) \in Finished =>
        \A e \in Endpoints : ~ OnPanel(d, e)

\* The outcome of a display is not replaced by another: update_status writes
\* whatever arrives, so the panel must report each notification once.
VisualSettlesOnce ==
    [][\A d \in Deliveries : \A e \in With(d, "visual") :
         Settled(d, e) => log'[d].channels[e]["visual"] = Visual(d, e)]_vars

\* A report on the outcome of d from e that no handler has read.
Reporting(d, e) ==
    \E s \in Sockets :
      Owner(s) = e
        /\ \E m \in Range(up[s]) : m.channel = "visual" /\ m.delivery = d

ToSend(d, e) == d \in Deliveries /\ task[d].pc = "showing" /\ e \in task[d].left

\* Where notification d stands for the display of e: the furthest it has come.
\* One whose button was pressed is as good as closed.
StageOf(d, e) ==
    IF Settled(d, e) THEN Visual(d, e)
    ELSE IF Reporting(d, e) \/ (overlay[e] = d /\ pressed[e]) THEN "closed"
    ELSE IF d \in unsaid[e] THEN "unreported"
    ELSE IF overlay[e] = d \/ d \in Range(pending[e]) THEN "held"
    ELSE IF ToSend(d, e) \/ OnPanel(d, e) THEN "sent"
    ELSE IF d \in Deliveries /\ e \in With(d, "visual") THEN "lost"
    ELSE "none"

DeliveryBook == INSTANCE DeliveryBook WITH
    Outcomes <- Outcomes.visual,
    stage <- [x \in Ids \X Endpoints |-> StageOf(x[1], x[2])],
    runs <- ran

\* Nobody looks after this: update_status writes whatever arrives, and
\* activate_action keeps no record.  A notification goes from stage to stage
\* and never back, whichever of the panel's messages are lost and whatever
\* link they go by; the panel must close each once, and send a press before
\* it reports the end.
KeepsDeliveryBook == DeliveryBook!Spec

\* A press runs its script once per panel: activate_action keeps no record of
\* what it has run, so the panel must close what was pressed.
ActionRunsOnce == \A x \in DOMAIN ran : ran[x] <= 1

\* A script runs only for a panel whose notification RoomHub still takes for
\* open: no press arrives after the outcome of its own notification.
ActsWhileOpen ==
    [][\A d \in Deliveries : \A e \in DOMAIN log[d].channels :
         ran'[<<d, e>>] # ran[<<d, e>>] => ~ Settled(d, e)]_vars

\* A notification that reaches a panel comes to a reported end, unless a
\* replacing one removed it from the queue, the report could not be sent, the
\* link was lost, or one that has no time limit keeps the screen.
NotificationSettles ==
    \A d \in Ids, e \in Endpoints :
        d \in Deliveries /\ OnPanel(d, e)
          ~> \/ d \in swept[e] \/ d \in unsaid[e]
             \/ \E s \in Sockets : Owner(s) = e /\ ws[s] \in {"lost", "dead"}
             \/ overlay[e] # 0 /\ ~ log[overlay[e]].kind.timed
             \/ Settled(d, e)
=============================================================================
