# RoomHub: verification project

RoomHub is a server for a home (Python, asyncio: `src/roomhub/server`) and the
wall panels in its rooms (C++ on an ESP32-P4 under FreeRTOS:
`src/firmware/endpoint`). This directory holds TLA+ models of the parts of both
in which tasks, messages and failures interleave, the TLC instances that check
them, and proofs of what holds for every instance. Paths below are relative to
the repository; `app/` stands for `src/roomhub/server/app/` and `main/` for
`src/firmware/endpoint/main/`.

1. [The system](#1-the-system): inventory of components
2. [The modules](#2-the-modules): how each corresponds to the code
3. [The runs](#3-the-runs): what is checked, the bounds, the fairness
4. [The proofs](#4-the-proofs)
5. [Where code and documents disagree](#5-where-code-and-documents-disagree)
6. [What is not modelled](#6-what-is-not-modelled)
7. [The plan](#7-the-plan)

To repeat the checks, in this directory:

    tlc -workers 2 -config intercom_links.cfg MCIntercom.tla
    tlapm IntercomProofs.tla

`PROJECT.json` lists the runs with their modules, the source lines of every
definition (`map`), for every property a plausible bug that violates it
(`mutants`), the hazards of the code with the properties that watch them, and
the theorems.

## 1. The system

### Server

One asyncio event loop. Code between two awaits is atomic; everything else
interleaves. Each endpoint has a WebSocket whose handler
(`app_factory.websocket_endpoint`) registers it and then answers one message at
a time. HTTP requests, timers, the Home Assistant tasks and the handlers of
other endpoints run in between and share the objects below.

| component | state | operations | interacts with | hard behaviour | correct when |
|---|---|---|---|---|---|
| connection table (`core/connection_manager.py`, `core/registry.py`) | `connections` by endpoint, the `connected` flag | connect (closes the old socket), disconnect, send, is_current | every service sends through it | a send suspends, fails late, drops the entry; a reconnect replaces a socket while the old handler is alive | a late clean-up never takes the successor's entry |
| room-to-room calls (`services/intercom_service.py`) | session by endpoint, ringing timer | start, accept, decline, end, frames, close_endpoint, expiry | connection table, endpoint UI and speaker | each reply awaits a send during which the call may end, be answered or time out | both parties reserved and released together; receiver armed first; ringing ends |
| firmware deployment (`services/firmware_deployment_service.py`) | newest deployment per endpoint, acknowledgement timers | deploy, update, mark_running, retry | handler, endpoint updater | reports of older deployments and sockets; sends that return out of order; retries | a status is the report of that deployment; none stays "sent" |
| firmware images (`services/firmware_service.py`, `wireless_firmware_service.py`) | image and manifest files | publish, read | deployment, endpoint download | a restart between the renames | image and manifest belong together |
| notifications (`services/notification_service.py`, `audio_command_service.py`, `tts_pipeline.py`) | deliveries with a status per endpoint and channel | notify, status, actions, stop | endpoint overlay and audio service, Home Assistant's speech | display and audio reports in either order, presses that come late, speech synthesis that fails half-way | what is finished is off every screen; an outcome stays; an action runs once |
| Home Assistant connection (`integrations/homeassistant`) | socket, pending requests, registry copy | connect, request, events, refresh | entity registry, event bus | answers, live events and refreshes overlap; the link is lost at any point | the mirror follows Home Assistant |
| entity registry and tables (`core/entity_registry.py`, `core/database.py`) | entities and states in memory and SQLite, the open batch | register, update, remove, load, batch | Home Assistant providers, dashboards | a batch stays open across awaits | memory and tables agree |
| voice (`services/voice_audio_service.py`, `voice_intent_service.py`, `assist_pipeline.py`) | one session per connection with a socket to Home Assistant | start, audio, end, cancel, close | endpoint capture, Assist, event bus | the endpoint gives up, mutes or starts again while Home Assistant has not answered | every socket is closed; a command is one capture |
| pairing (`services/endpoint_pairing_service.py`, `endpoint_service.py`) | codes, credentials, assignments | create, authenticate, register | provisioning tool, endpoint | the answer is lost; a code is used up or expires | who was accepted is accepted again; a code admits one |
| dashboards, preferences, assignments (`services/room_dashboard_service.py`, `endpoint_*_service.py`, `handlers/dashboard_handler.py`) | tables, the area in the registry | move, arrange, send, activate | endpoints, entity registry | a move, an update, a change of state and a reconnect cross; a dictionary is iterated with awaits inside | the screen shows what is stored |
| camera snapshots, controls | pending requests | request, receive | endpoint | section 6 | |

### Endpoint

FreeRTOS tasks: the WebSocket client's event handler, a heartbeat task, LVGL
touch callbacks, the audio service task, a ring task, the wake word task and the
update task. They share statics, some atomic, some under a mutex.

| component | state | operations | interacts with | hard behaviour | correct when |
|---|---|---|---|---|---|
| transport (`main/roomhub_transport.cpp`) | socket, shown call, outgoing slots | receive, send, heartbeat, reconnect | everything | event handler and heartbeat task both reconnect | one reconnect at a time, back-off grows |
| updater (`main/endpoint_ota.cpp`, `app_main.cpp`) | `update_active`, application slots | start, install, confirm, roll back | transport, boot | power loss between first boot and confirmation; the served image changes | what boots was commanded |
| audio scheduler (`components/roomhub_audio`) | active item, waiting array | submit, cancel, complete | audio service | order by priority and age | it is a stable priority queue |
| audio service (`main/tab5_audio_service.cpp`) | records, owner of the speaker, stop flag | submit, cancel, play, ring, receive, interrupt | transport, wake word, touch | some code takes the mutex with a time-out, some does not take it | one task uses the codec; a stop request is not lost; the queue moves |
| voice session (`main/tab5_wake_word.cpp`, `components/roomhub_voice`) | session state, event bits, pending end and cancel, stream buffer, playback token | detect, start, stream, end, cancel, mute | transport's sender task, display task, audio service | three tasks share flags that are not under one lock | as for voice above |
| notification overlay (`main/tab5_bringup.cpp`) | the shown one, eight that wait | show, finish, expire, press | transport | replacing clears the queue; reports are sent from the display task | each notification is reported once |
| provisioning, camera, power | | | | | section 6 |

`PROJECT.json` repeats the list with the status of each component, and the
hazards at their lines.

## 2. The modules

| module | models | extends |
|---|---|---|
| `ConnectionManager` | sockets, links and the connection table | |
| `CallBook` | abstract: a call is placed, answered, over; each endpoint in one | |
| `Intercom` | calls on the server and the call shown by endpoints | `ConnectionManager`; implements `CallBook` |
| `UpdateBook` | abstract: deployments, what the endpoint takes up of them and what it boots | |
| `FirmwareDeployment` | deployments and the endpoint's updater | `ConnectionManager`; implements `UpdateBook` |
| `AudioQueue` | abstract: a stable priority queue | |
| `AudioScheduler` | the scheduler's array and loops | |
| `AudioService` | the tasks around the speaker | `AudioScheduler`; implements `AudioQueue` |
| `HomeAssistantSync` | connection, refresh, registry copy, memory and tables | |
| `DeliveryBook` | abstract: what becomes of a notification on a display | |
| `Notification` | deliveries, speech synthesis, the endpoint's overlay and queue | `ConnectionManager`; implements `DeliveryBook` |
| `Voice` | a capture from the wake word to the answer | |
| `Panels` | pairing, registration, management, dashboards and controls | `ConnectionManager` |
| `IntercomProofs`, `IntercomLossProofs`, `FirmwareProofs`, `AudioProofs`, `SyncProofs`, `NotificationProofs`, `VoiceProofs`, `PanelProofs` | theorems | the modules they are about |
| `MC...` | instances for TLC | the modules they instantiate |

Conventions. A variable carries the name of the field it stands for. An action
is named for the operation or for what was awaited (`Start`, then `StartRings`
or `StartUndelivered`). A definition whose comment begins with "Mutant:" is no
part of a specification: it is the changed form of the definition after it that
shows that a property can fail.

### ConnectionManager, Intercom

*Tasks.* `handler[s]` is where the handler of socket `s` stands,
`timer[c]` where `_expire_ringing` of call `c` does. Both keep the socket
(`via`) a pending send was given, for the table may have changed when it
returns. `Delivered(s)`, `Raised(s)` and `Returned(s)` are the outcomes of a send
to a socket whose link is open, or down.

*Sends.* A message is on the wire when send is called; the per-socket lock keeps
the order. Whether the call then suspends is `SlowSends`. `MayBegin` says when a
new event is served: without slow sends, only after the task that sent has run
on; and tasks woken by a dead link run before what happens later. A link is
`open`, `lost` (nobody has noticed) or `dead` (pending sends raise).

*Endpoints.* `panel[e]` is `intercom_call_id` and the overlay. `Shown` is what
`handle_data` does with each intercom message, including that `ended` and
`rejected` clear the call whatever id they carry. An endpoint sends what the
overlay offers, at most `MaxInFlight` unanswered requests and one start at a
time (the room list is disabled meanwhile). The end of a call is a mark that the
sender task finds later: `RequestHangUp` is a press whose mark is found before
another message comes, `RequestEnd` sends at any time, with the id the panel has by
then or with none, because a message came in between or because a `firmware.update`
set the mark (at most `MaxMarks` ends are then in flight). Without an id, `End` ends
whatever call the endpoint is in. Messages of one endpoint arrive in
order, also across its sockets. Codec formats, capabilities and microphone
checks only choose among the same replies and are left out;
`invalid_call_status` cannot be caused by the firmware's own messages. All other
sends are one action, `OtherSendRaises`, because what they can do to this state
is to drop an entry. The receive loop of a dead link may end with messages unread,
since its last reply may have raised (`LoopEnds`).

*Calls.* `sessions` and `call` are `_endpoint_sessions` and the `IntercomSession`
objects. `Release` pops both parties' entries without looking at what is there,
as `_release` does. `armed` records which calls have been announced to their
target.

### FirmwareDeployment

One endpoint: deployments of different endpoints share only the published
image. `log` is the sequence of deployments, the last being the one the server
keeps; the request id of the r-th is r. `timer` is the one task in
`_acknowledgement_tasks`. `down` and `up` are the two directions of each socket,
in order. The endpoint: `image` are the two slots (`fallback` is the slot a
failed boot returns to, 0 once the image is confirmed), `ota` is
`update_active` with the task, `status` the single report waiting for
`heartbeat_task`. A command is reported accepted before its task is created, and
failed after that if there is no task (`TaskRefused`); a report is lost when the mutex
of the status is not had in time (`Report`); `update_active` is cleared after the
report of a failure (`UpdateOver`). Between leaving the connection table and marking
the endpoint offline the handler tells the other party of a call (`HandlerEnds`,
`MarkOffline`): that send is to another endpoint's link and takes any time, also where
`SlowSends` is false. Flash writes, HTTP and the signature check are one outcome
each; `esp_ota_begin` refuses while the running image is unconfirmed. The server
keeps deployments in memory only and its restart is not modelled.

*The book.* `UpdateBook` has no messages, sockets or timers: a deployment is ordered,
taken up once, by an endpoint that is not busy and runs something older, and its
status is recorded in an order (`Onward`) and only of what the endpoint did. What is over
may be found to go on after all: that is in the code (section 5). A deployment is
recorded as completed only if its version is the one flashed or one that was
taken up. "Restarting" may be recorded of a deployment whose "accepted" was lost.

### AudioQueue, AudioScheduler, AudioService

`AudioScheduler` has the array, the insertion loop as the position where it
stops, and removal as the shift. `AudioService` has the service task (`service`), the
ring task (`ring`), the two tasks that start and stop intercom reception
(`caller`), and the wake word task (`wake`). A section under the mutex is one
step; the exceptions are the service task's, which play or report inside them,
and meanwhile others wait or time out (`mutex`). Code that reads or writes
`playing_token`, `playing_priority` or `cancel_requested` without the mutex is one
step per access where another task can come between. A request's id is its
token. Pressing and releasing the talk
button look at the call first and at the stream later (`TalkReleased`,
`TalkRestarts`, `Started`); `crossed` is history: the start or the end of a call and an
operation of the talk button overlapped (`Busy`). Volume, meter and memory sizes are
left out; where memory may be missing both outcomes are possible. The over-the-air update interrupts audio by the same
call as the wake word. Token wrap-around (2^32 requests) is not modelled.

### HomeAssistantSync

`task["main"]` is `_run_connection`, `task["refresh"]` is `_refresh_pending`,
`loop[n]` the receive loop of connection n. A request is asked, answered (a
snapshot of Home Assistant, at that moment, goes into `inbox` behind the events
before it), read (the future is set) and taken up by its task. States are
numbers of changes, so an old state can be told from a new one. `told` is history, the
newest state events and imports have brought of each entity; so are `outrun`, the
entities of which an event came while a task held an older snapshot. `Connect` is the moment
the authentication succeeds: it has no time limit, and a connector that waits for it
for ever is one that stays down (nobody reads, nothing is sent). A publication
may suspend because a subscriber sends dashboards: `loop` is then `sending`, an
import is `importing`. `work` is what the batch's connection sees,
`disk` what is committed; a removal uses a connection of its own and fails while
a batch is open. After a failure the main task reconnects when everything that
could run has run, so what may be left of the old connection is a loop or an
import waiting for a dashboard (`overlap`). An answer whose request failed or was
forgotten stays in `inbox` as nobody's (`Unclaimed`), as the loop drops a result
whose id it does not find.

Home Assistant is external. It answers with what is true and reports in order;
an entity is added to and removed from its registry and its states together. The
four registries are one.

### Notification

*Server.* `log[d]` is a delivery with its channels, `task[d]` where `notify`
stands: it shows on one display after the other (`ShowTo`), synthesizes
(`Synthesize`, three requests to Home Assistant, the authentication without a time
limit), then plays on one speaker after the other (`PlayTo`). Handlers, other
requests and lost links come between any two sends. `DeliveryStatus` and
`TargetStatus` are `_summarize`, which the code stores after every report and
which is therefore always a function of the channels. `activate_action` is
`ActivateAction` and, after the publication it awaits, `ActionPublished`.

*Endpoint.* `overlay` and `pending` are the shown notification and those that wait,
`show_tab5_notification` is the three actions `ShowQueued`, `ShowOverflow`, `Show`, and
`finish_notification` is `Finish`. A press is two steps under the display lock, the
action sent (`Press`) and the notification closed (`PressCloses`), for each send may fail
by itself and a link may drop in between; meanwhile no notification is shown or closed.
`Tell` is `send_text`, whose result the panel does not look at: without a connection the
message is lost, and on an unstable one it may be; it is never repeated. `reply` is
the report "accepted", sent by the event handler after it handed the request to
the audio service, whose task may have reported `playing` and the end by then. A
speech is queued, playing or over; how it gets the speaker is `AudioService`.

At most `MaxNotifications` are made. A behaviour makes the requests of one
*scenario*, in order; so the state space is a sum and not a product. `swept`, `ran` and
`unsaid` (closed, but the outcome could not be sent) are history.

*The book.* `DeliveryBook` has a stage for each notification and display: sent,
held by the panel, closed there, and an outcome; or lost on the way, or closed without
the server hearing of it (unreported). `StageOf` is the refinement mapping: the furthest
the notification has come, be it in the list of `notify`, on a socket, on the panel, in a
report, or on record; one whose button is pressed is as good as closed. No part of
the code keeps this stage. The script of a notification may run after it was closed,
also if the outcome never arrives, and not if the notification was lost.

### Voice

One connection is modelled, since nothing is shared between connections. On the
panel `fetch` is `wake_word_fetch_task` (the wake word, the start of a capture in
its three parts, the frames, the test and the write that end it, the end, the answer, the
playback), `sender` is
`voice_sender_task` with the batch it holds, `Mute`, `MuteFails` and `Unmute` run in the
task of the display. `bits` is the event group, `allowed` is `network_audio_allowed`,
`pending` the two flags for the sender, `buffer` the stream buffer, in frames that
carry the number of their capture. On the server `handler` is the handler of the
socket, which works one message off before it reads the next, and `session` and
`sockets` are `_session` and the sockets to Home Assistant that are open.
`Unlimited` are the steps in which the handler waits for Home Assistant without a
time limit (`authenticate` reads with none). `Resolves` is the resolver: the room is
an area by id or by name if it is exactly one, and exactly one entity must answer to
the target. A round of the sender that finds nothing pending passes the head of
its loop in the same step. `gaveUp` is history: the panel stopped waiting for the
answer to a start, or took another message's answer for it, so that a start of its
is `Unanswered`.

### Panels

*Tables.* `codes`, `credentials`, `assignments`, `hidden`, `pinned` and `rank` are the
SQLite tables; each operation is one transaction and one step. *Memory.* `known`
is the order of `registry.endpoints`, `online` and `area` are the fields of
`Endpoint`. *Tasks.* `handler[s]` is the handler of a socket, which between
`manager.connect` and the registration awaits the close of the previous socket
(`Register`, then `PreviousClosed`); `task[u]` is a PUT of the management page, with an
await after each of its three services; `fanout` is `handle_state_changed` in its
loop over the registry, and breaks off with Python's error when the dictionary
has grown. `Snapshot` is the dashboard, composed in the step that sends it: a list of
entities, the pinned ones first, then by the place a user gave, then by type and name
(`Before`, `Place`, `Sorted`), cut to what the firmware holds; and the media players in a
list of their own, by name whatever is pinned, cut at 8 and not counted with the others
(`MediaLimit`). An entity's number is its place by type and name. `Press` is a
control of an item of either list. `Target` and `CommandFor` are the
switch of `handle_dashboard_activate`; one number, the level, stands for the
brightness, temperature, position or mode the control is about. Tables, names,
capabilities and layouts that only travel through are left out, and so are
entities that change their area.

## 3. The runs

Every passing run finishes with the whole state space explored. The run marked V ends in
the violation that section 5 describes.

| run | question | instance |
|---|---|---|
| `intercom_no_loss` | are calls reserved and released as a pair, do frames stay in the call, is the session table a call book? | 3 endpoints, 2 calls, slow sends, links hold |
| `intercom_links` | is the receiver armed first and the successor's entry safe? types | 2 endpoints, 1 call, a reconnect each, links fail, slow sends |
| `intercom_ringing` | does ringing stop, and does an endpoint know the id of its active call? | 2 endpoints, 1 call, links fail, slow sends, fair |
| `intercom_disconnect` V | does a disconnect release the call? | 2 endpoints, 1 call |
| `deploy_restarts` | do server and endpoint keep the book of updates: one taken up at a time, statuses of the right deployment and in order? types | 2 versions, 2 deployments, a reconnect, power loss |
| `deploy_sends` | is a sent deployment watched, does it settle, is what boots commanded? | 3 versions, 2 deployments, slow sends, one link, fair |
| `audio_speaker` | does one task use the codec, has every owner somebody who gives the speaker back? types | 3 requests, 1 ring, 2 calls, queue of 1 |
| `audio_queue` | is the array the queue, do records and stop flag follow, is the active item played? | 4 requests of 3 priorities, 1 ring, queue of 2, fair |
| `ha_sync` | does the registry copy follow, does the mirror keep the newest state, do tables agree, does every task end? types | 2 entities, 2 changes, 2 connections, a restart, failing requests, fair |
| `notify_room` | is what the server calls finished off the screens, is each notification sent, held, closed and recorded once (the delivery book), does an action run once and while open, does what reaches a panel settle? types | a panel with a display, one with display and speaker, 7 scenarios of 1 to 4 requests, one reconnect each, one place in the queue, fair |
| `voice_commands` | are all sockets closed, is a command one capture, does the panel get its answer? types | 2 wake words, 1 press of mute, 2 frames, a buffer of 1, 5 entities, 4 transcripts, link may fail, fair |
| `panel_places` | does a panel show what is stored, is an accepted panel accepted again? types | 2 panels, 2 reconnects each, 2 codes, 4 entities (2 of them media players, of which 1 is shown), 2 areas, 2 levels, 6 scenarios |

*Why these bounds.* Three endpoints and two calls are the least in which a call
can meet another one with a party in common, which is what could pair wrongly;
the theorem `PairsHold` shows that more do not matter. One call with failing
links is already a call with an old and a new socket at each side, a pending
send to either and a timer. Two deployments are an old and a new one: reports,
sends and timers can only be confused between neighbours, and three versions let
the published image differ from both. A queue of two has a head, a tail and an
insertion before, between and after; four requests fill it, keep one active and
have one left to overtake; three priorities have a lower, an equal and a higher.
Two changes are an addition and a removal, or a state that is new when an old
snapshot is applied; two connections are one that ends and its successor
(`ha_sync` without its liveness property also holds with three changes).

A queue of one is full, empty or in between like one of eight, and is swept, taken up
and overflowed within four requests; a second panel makes an area of which one
display is told and the other not yet. Two captures are one that is cancelled or
answered late and the one that suffers from it, and `CommandIsOneCapture` compares
neighbours; a buffer of one is full before the second frame. Two panels are the
least for a code that admits one and for a loop that breaks off; two reconnects are
needed so that a registration that waits can itself be replaced; the updates of a
scenario are two that write to one panel.

A request that is in flight together with another of the same endpoint is left
out of `intercom_links` and `intercom_ringing` (`MaxInFlight = 1`); section 5 says
what two can do. Two ends in flight at different endpoints (`MaxMarks = 2`) are checked
where there is one call, one in the runs with two calls or a reconnect. `Frames` says
which audio frames are sent: only sound ones in `intercom_no_loss`. An unsound one
ends the call as an end does; the other runs have both, and the theorems both for
any number of calls.

*Stopping.* Users and administrators need not act and bounds run out, so all
configurations allow a state without successor (`CHECK_DEADLOCK FALSE`); that
tasks do not wait for one another is what the liveness properties are for.

*Fairness.* Server: the loop runs every ready task, a `sleep` ends, and a send to
a dead peer ends because the WebSocket keep-alive closes the connection. So weak
fairness holds for each handler, timer and task, and for nothing an endpoint's
user does. Audio: every task goes on; playing may last for ever (a radio stream)
unless it is asked to stop, so only the ending of a stopped playback is fair.
Home Assistant: requests on a connection that holds are answered or not
(`RequestsFail`); what is fair is that Home Assistant answers if nothing fails and
that requests on a lost link time out. That a link fails is never fair.

Notifications: server tasks, handlers, messages on links, the timer of an overlay
and the audio tasks go on; nobody need touch a screen, and the authentication,
which has no time limit, may never end. Voice: tasks run, messages arrive, and
every wait with a time limit ends; nobody need speak or press mute, and steps in
`Unlimited` may last for ever. In both modules one weak fairness condition on the
union of these steps is enough, since bounds make every behaviour finite but for
what the condition leaves out.

*Exceptions in properties.* `PairedWithoutLoss` and `RingsAtMostThirtySeconds`
speak of links that hold: a start that fails late on a lost link can release half
of a newer call. `SentIsWatched` is about sends that are not overtaken: those of
one socket, or any if sends do not suspend. `UpdateBook`
lets a deployment on record as failed or completed be revived, and only that.
`OwnerAlive` asks for somebody who closes an open stream unless the talk button
crossed the start or the end of a call (`crossed`). `ActiveCallIsShown` is about endpoints on a live link and a call no other one
disturbs (one call in its run). The properties of `HomeAssistantSync` except a
connection that started over a task of its predecessor (`overlap`), and the one on
the registry a connection with an unreported change or a failed refresh (`lapse`).
`NewestKept` excepts an entity of which an event is read while a task holds an older
snapshot (`outrun`), which is imported last.
`NotificationSettles` excepts what a replacing notification removed from the queue
(`swept`), what was closed without its report being sent (`unsaid`), a lost link, and
waiting behind a notification without time limit.
`CommandIsOneCapture` holds until a start is not answered in time, or answered by what
is about another message (`gaveUp`), and not for
a batch the sender holds at the next wake word (`strayed`); a capture is muted if the
mute comes before its last frame is queued (`silenced`). `AnswerComes` excepts an
end that the sender dropped (`lostEnd`): for a frame that came in behind it, or for the
cancel of a mute that `finish_capture` has written over; and the unlimited steps. `ShownIsCurrent` is about
panels the core knows to be online, and excepts those a broken loop did not reach
and those whose superseded socket marked them offline (`missed`), until they
register or are sent a dashboard again. Section 5 lists all of these.

## 4. The proofs

`tlapm` checks all of them from the definitions of the modules; the constants
are only assumed to be what the ASSUMEs of the modules say (identifiers that
stand for "none" are not identifiers, bounds are natural numbers, priorities are
natural numbers). A theorem with a hypothesis of its own says so below. The
properties are checked by TLC on the instances of section 3 too. The proof modules
are laid out alike: the invariants, what a step may change (lemmas that later proofs
cite instead of the actions), one lemma per action or group of actions, the
theorem.

**IntercomProofs.** `TypeCorrect`: the variables keep their types. `EntriesAreOwn`:
an endpoint is entered only in a call that exists and of which it is a party,
with links that fail. Both follow from `Inv`, which adds `StartedCalls` to them: a
task that is about a call is about one that was started, without which the
parties a suspended task releases would not be endpoints. `PairsHold`: while links
hold, both parties of a call are entered or neither is, for any number of
endpoints, calls and requests in flight. Pairing is not inductive by itself: a
start whose send fails releases its parties whatever they are entered in by then.
`PairInv` adds that no link is down and every caller is connected (`Steady`), so no
send raises and `_release` is only reached for a call one of whose parties is
still entered in it; by pairing both are, and since the parties of a call are
different (`DistinctParties`) it pops its own entries and no others
(`ReleasePaired`).

`ReceiverFirst` holds with links that fail: the panels that show an active call, the
handlers that tell of one or route its frames, and the calls that are active are all in
`armed` (`ArmedInv`). `RingsTimed`: what has left the sleep has taken both entries or
found them gone, and a call is entered only by the start that makes it
(`ExpiredInv`). `SuccessorsStay`, with links that fail: an entry names a socket of its own
endpoint whose handler has registered (`ServedInv`), so the one clean-up that may drop
it is that of its own socket. `PairsHold`, `RingsTimed`, `FramesInCall`,
`OneCallAtATime` and `CallBookKept` assume `~ LinksFail`: with suspended sends and several
calls, a late failure releases half of a newer one. `FramesInCall`: a frame goes to an endpoint
entered in the sender's call. `OneCallAtATime`: no two calls that are not over share a
party. `CallBookKept`: `Intercom` implements `CallBook`. The book (`Book`) has a
call as live while one of its parties is entered in it; a start finds both free
(`StartBook`), an answer finds both entered (`AcceptBook`), and a release ends one live
call and touches no other (`ReleaseBook`).

**IntercomLossProofs.** The same, with links that fail at any moment, clean-ups that come
late and endpoints that reconnect. All its theorems assume `Undisturbed`: sends do not
suspend (with any number of endpoints and calls), or there is one call (and sends
suspend). `PairsSurviveLoss`, `CallBookSurvivesLoss`, `FramesSurviveLoss` and
`TimeoutSurvivesLoss` are what `PairsHold`, `CallBookKept`, `FramesInCall` and `RingsTimed`
say of links that hold. The argument: a call is started only while no task stands
in the middle of one. So the parties of the call a suspended task works on are
entered in it or in none (`HandlerOk`), a task that gives up, however late,
releases nothing else, and a task that found its call gone has nothing left to
release (`MissedInv`). `EntryInv` collects these with the pairing.

`ActiveCallsShown`: an endpoint on a live link that is in an active call shows the id
that its answers and ends name. The messages that clear a panel's id carry whatever
call they are about, so the proof says for each that it does no harm: an `ended`
goes to someone who has just been released, a rejection answers a request
(`RequestInv`), and an endpoint that is in a call has asked for nothing but to
end it; only the target sees a call come in (`IncomingInv`); and between the
server's entry and the panel's id there is one message on the way, or the task
that will send it (`ShownInv`, `SeenInv`). The theorem assumes one request in flight per
endpoint and that nobody reconnects. `FirstCallsShown` allows reconnects and says it
of endpoints on their first link. Each assumption is needed (section 5).

**FirmwareProofs.** `DeploymentTypes`: types; the part that is not a type is that a socket
speaks of its registration before it speaks of updates (`RegistersFirst`), without which
a handler would read a report as a registration. `AcceptedOnlyIfStarted`: the record,
every report on its way and the one that waits for the heartbeat are about commands the
endpoint took up (`ReportsStarted`). `BootsAsCommanded`: a command on the wire and the one
the endpoint is busy with are those of a deployment on record, and a verified image is
newer than the running one (`Commanded`). `StagesKept`: no report takes a deployment under
way back. Its invariant `OrderInv` says of each report that is waiting or on a current
link that the record is not further already, and that a request is commanded once.
`UpdatesKept`: `FirmwareDeployment` implements `UpdateBook`. To `OrderInv` it adds
`HadInv`: the endpoint's slots, the registrations on their way and the handler
that waits for a previous socket to close name no version but the one flashed and
those taken up (`Had`), so that a late `mark_running` completes nothing the endpoint
had no part in; each action of the endpoint is one of the book's or none
(`CommandBooked`, `PanelBooked`), and the server's are an order or a record
(`OrderPlaced`, `StatusBooked`). `SentWatched` assumes `SendsQueue` (sends do not
suspend, or there is one socket): then sends return in the order of the
deployments (`SendsInOrder`) and the timer that runs is that of the newest. Without
it the property is false (section 5).

**AudioProofs.** `AudioTypeCorrect`: types, including that the array stays within
its capacity; it rests on lemmas about where the insertion loop stops and what
insertion and removal return (`PositionStops`, `InsertionType`, `RemovalType`).
`SpeakerExclusive`: service task, ring and intercom never use the codec at once;
`OwnersAlive`: whoever owns the speaker has somebody to give it back: its task, or for an
open stream a task that opens or closes it, or a call the panel was told of whose
`intercom_receiving` is set. Both follow from `Ownership`. For the service task and the ring it says at which
program counters they own the speaker (`ServiceOwns`, `RingOwns`). The intercom has
two tasks and a flag that either may set or clear (`IntercomOwns`): at most one
task starts reception and at most one gives it up, a codec that is open belongs to
the task that started it, to the one that gives it up or to the flag, and no task
starts while the flag says that reception is on. A release that could not get
the mutex in time is harmless only because the mutex is held by the service task
and by it only while it is the owner (the last part of `ServiceOwns`). That an open stream
is still somebody's rests on `Uncrossed`: as long as the operations of the two tasks on the
stream do not overlap they take turns (`InTurn`), the flags describe a call the panel was
told of, and `receive_active` is never set without `intercom_receiving` or a task that starts.
`QueueImplemented`: the scheduler implements `AudioQueue`. The invariant `InOrder`
says that the array is sorted by priority and, within one, by token;
`SchedulerSteps` that every step of the service is a step of the abstract queue or
leaves it alone.

`ScheduledRecorded`: what is scheduled has a record that is not final, so the service
task never finds an active item without one. `Recorded` adds that the tokens of what is
scheduled are distinct and older than the next, and that while the task prepares to
play it prepares the active item. `OutvotedStopped`: what plays although another item is
active has been asked to stop; no reset of `cancel_requested` loses a request.
`SubmitFindsRoom`: if there is a free record there is room in the array, since every
scheduled item has a record of its own; the two limits in the code agree.

**SyncProofs.** `SyncTypes`: types, with the facts that an answer on its way is one its
task waits for (`Awaited`) and that there is one at most (`Unique`); they are what keeps a
task from reading the answer to an earlier request. `TablesMatch`: memory and tables agree
when no batch is open. The main task lists and imports alone until it has
subscribed to the registry (`Exclusive`), the task that imports holds the batch (`Holders`)
and the batch's view is what is in memory (`Agreed`). `NothingOlder`: no event on
its way is older than what has come, than what a task has received, or than a
message before it in the same inbox (`NotOlder`), for Home Assistant numbers its changes
as they happen (`Stamped`); and no snapshot on its way is older than what came before
it, so that what is newer than a snapshot to be imported came while its task had it, and was
noted (`Fresh`). `EventsFollowed`: as long as the core is `Attentive` (no refresh is due or has
yet to be asked for), the list that is asked for, answered or stored is Home
Assistant's of now (`ListNow`), and what is listed but not mirrored is covered by an
import under way (`CoverNow`).

**NotificationProofs.** `NotificationTypes`: types. For a display a notification is to be
sent, on its way, held by the panel, reported on, closed without a report, or settled.
The invariant `Stages` says that it is at one of these at most (`OneStage`; it may be lost,
or swept from the panel's queue), that no queue, socket or screen has a second copy
(`DownCopies`, `UpCopies`, `ScreenCopies`), that what is on a socket is on an open link of
the endpoint it is for and the open link is the table's (`Links`), and that a press still
to be read is of a notification that is being closed, was closed unreported, or whose
outcome comes after it on the same link (`Answered`). A step takes a notification from one
stage to a later one or out of it, never back (`Moves`). From this follow `OneOutcome` (an
outcome is recorded once), `FinishedIsGone` (what the summary calls finished is on no
screen and on its way to none) and, with `RunsOnce` (what has run can neither be
pressed nor be run again), `RunsAtMostOnce` and `RunsWhileOpen`. `BookKept`:
`Notification` implements `DeliveryBook`. Each move is one of the book's (`MoveIsOnward`),
only outcomes are recorded (`RecordsOutcomes`), a new delivery is to be sent to each
of its displays (`BeginsToSend`), and a run of a script moves nothing (`RunIsBooked`).

**VoiceProofs.** `VoiceTypes`: types. `SocketsClosed`: a socket to Home Assistant is
the session's or that of the message under way, as the handler has at most one
session in its hands (`OneSession`). `CommandsOfOneCapture`: unless the panel gave up, a
command is made of one capture. `CaptureInv` follows a capture through sender, link,
handler and session. At most one start is under way, and it and its acceptance
are the current capture's (`OneStart`, `StartIsCurrent`, `AcceptanceIsOwn`);
what a session has heard is its own (`HeardIsOwn`); the session of a capture that was
muted is not finished (`SilencedStays`); and a capture that is being recorded has not
been ended (`NothingEnded`).

**PanelProofs.** Lemmas about the order of a dashboard come first: `Before` is a
strict total order whatever is pinned and wherever (`BeforeOrders`), so every entity
has a place of its own (`PlacesDiffer`), and `Sorted` lists each once (`SortedLists`)
and in that order (`SortedOrders`).
`PanelTypes`: types, and that no command asks for a level outside its entity's
limits. `AcceptedForGood`: who has credentials has them from the code he is provisioned
with, which is used up (`Credited`), and who was accepted with a code has them
(`AdmittedHasCode`). `ShownStaysCurrent`: for a panel that is served on its current
socket, the registry's area is the assigned one, and the latest dashboard (on its way,
or else shown) is the present one, unless the loop of a level has yet to come to the
panel (`Current`: `Informed`, with `Latest` and `Awaited`). `FavouritesFirst`, "Favourites
appear first" (`server/DOCS.md`): on any panel, at any moment, the list of entities has no
more than the firmware holds, each once, none of an area but the one it names, no media
player, and the pinned ones before the others; the list of media players has at most
`MediaLimit`, of the same area, each once and by name. (A pinned media player therefore
does not come first: the code sorts the two lists apart.) A dashboard is composed from what a step leaves
behind and shown much later, so the invariant is about every dashboard on its way
(`PanelsArranged`), and uses that the table has an endpoint's own sockets (`Own`): a
dashboard cut for one panel never comes to another with less room. It is no property of
a run; TLC finds no violation of it on the instance of `panel_places`.

*Only model-checked.* The liveness properties (`CallerStopsRinging`, `SentSettles`,
`ActivePlays`, `SyncEnds`, `NotificationSettles`, `AnswerComes`), which are beyond the
prover, and the violation of `intercom_disconnect`. Every safety property of a passing run
is also a theorem. No module has a RECURSIVE operator.

## 5. Where code and documents disagree

One run ends in a violation of what a document says:

* `intercom_disconnect`: "Disconnecting either endpoint also releases the call"
  (`protocol/messages.md`). `manager.send` drops the entry of a dead socket; the
  handler's clean-up then finds that its socket is no longer current and never
  calls `close_endpoint`. The peer stays busy until it hangs up.

The models also reproduce the following, for which no run is kept: a passing
property excepts them by name, or no document promises the contrary. The first
three contradict a document.

* "retried after a fresh endpoint registration, up to three attempts"
  (`src/roomhub/server/DOCS.md:22`): attempts are counted on over all versions, so
  after three deployments nothing is retried.
* "queue in priority order" (`src/firmware/endpoint/README.md:149`): the record of a
  request stopped while queued is never freed, nor is that of one replaced before
  the service task picked it up; when all are in use every request is refused.
* "state synchronization" (`src/README.md:9`): states are read before their changes
  are subscribed; what happens in between is not mirrored.
* *Calls.* When the target cannot be told that its accepted call is active, the
  caller is not told either and goes on ringing on its display (`TargetUnarmed`).
  A second answer sent before the reply to the first is rejected, and that
  rejection clears the id of the active call (`MaxInFlight = 2`). So does the
  rejection of a second start: the panel waits 5 s for the answer to its start
  (`main/roomhub_transport.cpp:1664`), and if the user presses again the first call may be
  active when the second is answered `endpoint_busy`. A late `no_answer` clears the id
  of a newer call. The clean-up of an
  old socket marks an endpoint offline that has reconnected (`ClosePeerTold`; in
  `FirmwareDeployment`, `MarkOffline`: its deployments are refused until it registers
  again).
  With failing links, a start that fails late releases half of a newer call. A
  call set up while a party is between two links (the old one lost, not yet
  noticed) becomes active without its panel ever seeing the id: `ringing` and
  `active` were written to the old link.
* *Deployments.* A report revives a deployment whose send was found to have failed, or
  that the late `mark_running` of a superseded socket completed. With suspended sends
  on two sockets the older send may return last, and its timer replaces that of the
  newer deployment. A deployment made during the 0.25 s before a retry leads to a
  fourth attempt. The endpoint confirms an image when Wi-Fi is up, before it has
  registered, other than its README says. `update_active` stays set when a command
  for an old version arrives, and every later command is refused until a
  restart (phase `leaked`).
* *Audio.* A ring interrupts whatever it saw as owner a moment ago, and so may stop an
  emergency announcement. A call refused the speaker is never offered it
  again. A talk button pressed or released while a call starts or ends may leave the
  stream open after the call. If `intercom_receiving` is set the next end or lost link
  closes it; but if another call begins first, that call finds the stream active, takes
  this for a failure (`start_tab5_intercom_receive` returns false) and clears the flag:
  then nobody closes the stream, and no notification or voice answer is heard, until
  the endpoint restarts.
* *Notifications.* The report "accepted" may overwrite "playing" or the end, after
  which the delivery is not finished any more; a stop that arrives after the end
  replaces "completed" by "not_found"; "rejected" and "sent" are never terminal, and
  an audio channel whose speech failed stays "sent". A replacing notification
  clears the queue of the panel without a report. A report or a press whose send fails is
  not repeated: the delivery stays "sent" although the screen is clear, and a pressed
  button may have run its script all the same, or not at all. A notification without time limit
  holds up those that wait behind it until someone touches it.
  `activate_action` records the action as run even if its command failed.
* *Voice.* A start erases a cancel that was not sent yet, or is overtaken by it; then
  the cancel ends the new capture. An answer that arrives after the panel gave
  up is played for the next capture. A batch held by the sender at the next wake
  word is sent to the next session. The end is dropped when a frame arrived since,
  and a panel that waits has no time limit of its own: it waits until it is muted
  or its link is lost. It also waits when a mute resets the session between the test in
  `on_tick` and the write in `finish_capture`, and the mute's cancel erases the end. A mute
  after the last frame was queued may be too late: the end may be sent before the cancel
  and the command carried out. A mute during playback leaves `voice_playback_token` set, and the
  next answer without speech waits for that playback. A mute between the wake
  word and the start of the capture does not end it: nothing is streamed while
  muted, but the capture goes on after the microphone is unmuted.
* *Panels.* A PUT that is refused for its choices has already moved the panel. Two
  pages that update one panel may interleave so that the choices of one are judged
  by the area of the other; and although choices of other areas are kept
  "so moving a panel away and back restores its previous room-specific dashboard"
  (`services/endpoint_dashboard_preferences_service.py:92`), an update that moves
  the panel and carries empty lists clears those of the new area. A
  panel that registers for the first time breaks off the loop that tells the others
  of a state (`missed`). The late clean-up of an old socket marks a panel offline
  that is back, which then is sent nothing. A panel that was paired and is
  provisioned again under its id is refused for good. `brightness_down` on a light
  that is off turns it on. A press for an entity that was hidden meanwhile is
  carried out.
* *Home Assistant.* A refresh may import a state older than the live event
  applied before it. An entity added and removed before the list is answered
  stays in the mirror. A refresh that fails is not repeated.

## 6. What is not modelled

* Areas, floors and devices: the same listing as entities, written at once.
* Camera snapshots: a request has an entry of its own that it removes in the end,
  whatever happens; an upload finds the entry of its token or is answered 404.
  Endpoint controls (`endpoint_control_service.py`): one message, one report.
* The two renames that publish an image: an image of another size than the
  manifest is not offered, one of the same size fails the endpoint's digest.
* The endpoint's reconnect delay: `reconnect_pending` and the back-off are read and
  written by two tasks; the modules let an endpoint reconnect at any time. That an
  endpoint sends its registration again every second on one link until it is
  answered, and that a late duplicate could be read on an old socket, is left out
  with it.
* More than one fan-out at a time: the receive loop and an import may both be in
  `handle_state_changed` (`ChangeLevel` waits for the one before). Each send composes the
  dashboard anew, so a second loop only sends the present one once more. And the
  per-socket lock of `connection_manager.py:73`, which a send waits for, but not the
  answer to a registration (`app_factory.py:664`): `SendDashboard` queues a dashboard when
  it is composed.
* The values of display preferences; entities, areas and capabilities that change
  while a panel shows them; `POST /audio/{endpoint}/play`, the send that `PlayTo` also
  makes; heartbeats, inputs and the light handler.
* The stream buffer's other user: `voice_sender_task` sends the frames of a call from
  the buffer that `Voice` gives to captures alone, and sends `intercom_cancel_pending` and
  `intercom_end_pending` before the voice flags (`roomhub_transport.cpp:1326`, `1375`);
  `start_intercom_call` and `start_intercom_talk` reset the buffer, and the core
  takes binary frames for the call as long as the endpoint transmits in one
  (`app_factory.py:531`). A capture and a call of one panel at the same time, whose frames
  could mix, are in no module; `Intercom` has the call's messages and frames without
  the buffer.
* Inside `OnResponse`: a mute between the test and the write of `on_response_ready`
  leaves a session that plays, as the answer before the mute would, until the playback ends.
* Waiting for the display's lock (`bsp_display_lock(0)` waits without limit).
* Signatures, tokens, credentials, configuration files: checks without state.
* Drawing, drivers, vendored board support, flash and codec: hardware.
* Simulator, custom component, tools, installer: thin clients or stand-ins.
* What Assist and Home Assistant compute.

## 7. The plan

Done: the connection table and calls with their abstract call book; deployments
with the updater; scheduler and speaker with the abstract queue; the Home Assistant
synchronisation; notifications; voice; panels; theorems about each of them, so that
every safety property of a run is also proved; the refinements of the four abstract
specifications, that of the call book also with links that fail.

What could follow:

* Theorems: the pairing with links that fail for calls that overlap but have no
  party in common; an abstract dashboard that `Panels` implements (`Current` says of
  which update a panel shows the result).
* Models: `Reconnect` (event handler and heartbeat task with the back-off; one
  reconnect at a time, the delay grows until a registration), and the publication of
  an image in its two renames together with the server's restart.
