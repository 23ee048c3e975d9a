----------------------------- MODULE AudioService -----------------------------
(***************************************************************************)
(* The one owner of the endpoint's speaker: main/tab5_audio_service.cpp    *)
(* with the calls the transport's event handler, the touch interface and   *)
(* the wake word task make (roomhub_transport.cpp, tab5_wake_word.cpp).    *)
(*                                                                         *)
(* Tasks interleave between accesses to shared state.  A section under the *)
(* mutex is one step, unless its holder does something slow in it: the     *)
(* service task, which publishes three atomics that others read without    *)
(* the mutex, and which sends a report.  Others then wait or time out.     *)
(* Of the intercom the module keeps what decides about the speaker.        *)
(***************************************************************************)
EXTENDS AudioScheduler, FiniteSets

CONSTANTS
    VoiceAssistant,  \* Priority::voice_assistant
    IntercomPriority,\* Priority::intercom
    MaxToken,        \* bound: requests that were given a token
    MaxRings,        \* bound: incoming calls that ring
    MaxCalls         \* bound: calls that become active

ASSUME PriorityAssumption == VoiceAssistant \in Priorities /\ IntercomPriority \in Nat
ASSUME AudioBounds == MaxToken \in Nat /\ MaxRings \in Nat /\ MaxCalls \in Nat

VARIABLES
    records,           \* the records in use
    next_token,
    playing_token,     \* who owns the speaker
    playing_priority,
    cancel_requested,
    mutex,             \* is the service task inside a slow section?
    service,           \* audio_service_task
    ring,              \* intercom_ring_task
    rings,             \* how often it was started
    receive_active,    \* intercom_receive_active
    stream,            \* is the codec open for intercom PCM?
    caller,            \* what the handler and the touch interface are doing
    call,              \* the transport's intercom flags; history: crossed
    wake               \* the wake word task

sched == <<active, queue>>
store == <<records, next_token>>
owner == <<playing_token, playing_priority>>
ringing == <<ring, rings>>
receive == <<receive_active, stream>>
vars == <<sched, store, owner, cancel_requested, mutex, service, ringing,
          receive, caller, call, wake>>

-----------------------------------------------------------------------------
(* State                                                                   *)

\* Tokens of the owners that are no request: the two largest.
RingToken == MaxToken + 1
ReceiveToken == MaxToken + 2
Tokens == 1 .. MaxToken

Final == {"completed", "interrupted", "failed"}
Record == [token : Tokens, retained : BOOLEAN,
           state : {"queued", "playing"} \cup Final]

Tasks == {"handler", "touch"}

FlagsTypeOK ==
    /\ cancel_requested \in BOOLEAN
    /\ mutex \in BOOLEAN
    /\ receive_active \in BOOLEAN
    /\ stream \in BOOLEAN

TypeOK ==
    /\ SchedulerTypeOK
    /\ FlagsTypeOK
    /\ records \subseteq Record
    /\ next_token \in 1 .. MaxToken + 1
    /\ playing_token \in 0 .. ReceiveToken
    /\ playing_priority \in Priorities \cup {0, IntercomPriority}
    /\ service \in [pc : {"idle", "claimed", "ranked", "playing", "reporting"},
                    request : Tokens \cup {0}]
    /\ ring \in {"none", "claiming", "sounding", "closed"}
    /\ rings \in 0 .. MaxRings
    /\ caller \in [Tasks -> {"idle", "locking", "opening", "listens", "deaf",
                             "failing", "failed", "closing", "closed", "silent",
                             "restarting", "ranking", "interrupting"}]
    /\ call \in [told : BOOLEAN, active : BOOLEAN, receiving : BOOLEAN,
                 talking : BOOLEAN, crossed : BOOLEAN, number : 0 .. MaxCalls]
    /\ wake \in [pc : {"waiting", "ranking", "interrupting", "capturing",
                       "answering"},
                 token : Tokens \cup {0}]

Init ==
    /\ SchedulerInit
    /\ records = {}
    /\ next_token = 1
    /\ playing_token = 0
    /\ playing_priority = 0
    /\ cancel_requested = FALSE
    /\ mutex = FALSE
    /\ service = [pc |-> "idle", request |-> 0]
    /\ ring = "none"
    /\ rings = 0
    /\ receive_active = FALSE
    /\ stream = FALSE
    /\ caller = [t \in Tasks |-> "idle"]
    /\ call = [told |-> FALSE, active |-> FALSE, receiving |-> FALSE,
               talking |-> FALSE, crossed |-> FALSE, number |-> 0]
    /\ wake = [pc |-> "waiting", token |-> 0]

Goes(t, pc) == caller' = [caller EXCEPT ![t] = pc]

\* find_record(token)->state = state
Marked(token, state) ==
    {[r EXCEPT !.state = IF r.token = token THEN state ELSE @] : r \in records}

-----------------------------------------------------------------------------
(* submit_tab5_audio                                                       *)

HasRecord == Cardinality(records) <= Capacity

Accepted(item, retained) ==
    /\ records' = records \cup
         {[token |-> item.token, retained |-> retained,
           state |-> IF queue' # queue THEN "queued" ELSE "playing"]}
    /\ next_token' = item.token + 1

\* Mutant: the item that plays is not asked to stop.
SubmitQuietly(priority, retained) ==
    LET item == [token |-> next_token, priority |-> priority] IN
    /\ ~ mutex
    /\ next_token <= MaxToken
    /\ HasRecord
    /\ Starts(item) \/ Interrupts(item) \/ Queues(item)
    /\ UNCHANGED cancel_requested
    /\ Accepted(item, retained)

\* A record is free, and so the scheduler has room: what it holds has records
\* (ScheduledHasRecord).  Without one, or when the mutex is not free in time,
\* nothing changes.
Submit(priority, retained) ==
    LET item == [token |-> next_token, priority |-> priority] IN
    /\ ~ mutex
    /\ next_token <= MaxToken
    /\ HasRecord
    /\ \/ Starts(item) /\ UNCHANGED cancel_requested
       \/ Interrupts(item) /\ cancel_requested' = TRUE
       \/ Queues(item) /\ UNCHANGED cancel_requested
    /\ Accepted(item, retained)

\* audio.play
Play(priority) ==
    /\ caller["handler"] = "idle"
    /\ Submit(priority, FALSE)
    /\ UNCHANGED <<owner, mutex, service, ringing, receive, caller, call, wake>>

-----------------------------------------------------------------------------
(* cancel_tab5_audio                                                       *)

\* Mutant: the item that plays is not asked to stop.
CancelQuietly(token) ==
    /\ ~ mutex
    /\ CancelItem(token)
    /\ records' = Marked(token, "interrupted")
    /\ UNCHANGED cancel_requested

Cancel(token) ==
    /\ ~ mutex
    /\ CancelItem(token)
    /\ records' = Marked(token, "interrupted")
    /\ cancel_requested' = (cancel_requested \/ playing_token = token)

\* audio.stop
Stop ==
    /\ caller["handler"] = "idle"
    /\ \E r \in records : r.state \notin Final /\ Cancel(r.token)
    /\ UNCHANGED <<next_token, owner, mutex, service, ringing, receive,
                   caller, call, wake>>

-----------------------------------------------------------------------------
(* audio_service_task                                                      *)

At(pc, request) == service' = [pc |-> pc, request |-> request]

Pick ==
    /\ service.pc = "idle"
    /\ ~ mutex
    /\ active # NoItem
    /\ playing_token = 0
    /\ \E r \in records :
         /\ r.token = active.token
         /\ records' = Marked(r.token, "playing")
         /\ playing_token' = r.token
         /\ At("claimed", r.token)
    /\ mutex' = TRUE
    /\ UNCHANGED <<sched, next_token, playing_priority, cancel_requested,
                   ringing, receive, caller, call, wake>>

Rank ==
    /\ service.pc = "claimed"
    /\ playing_priority' = active.priority
    /\ At("ranked", service.request)
    /\ UNCHANGED <<sched, store, playing_token, cancel_requested, mutex,
                   ringing, receive, caller, call, wake>>

StartPlaying ==
    /\ service.pc = "ranked"
    /\ cancel_requested' = FALSE
    /\ mutex' = FALSE
    /\ At("playing", service.request)
    /\ UNCHANGED <<sched, store, owner, ringing, receive, caller, call, wake>>

\* play_tab5_mp3_url returns, the codec closed.
PlayEnds(result) ==
    /\ service.pc = "playing"
    /\ result = "interrupted" => cancel_requested
    /\ ~ mutex
    /\ mutex' = TRUE
    /\ records' = Marked(service.request, result)
    /\ At("reporting", service.request)
    /\ UNCHANGED <<sched, next_token, owner, cancel_requested, ringing,
                   receive, caller, call, wake>>

\* Mutant: the scheduler is not told.
ReportedOnly ==
    /\ service.pc = "reporting"
    /\ records' = {r \in records : r.token # service.request \/ r.retained}
    /\ UNCHANGED sched
    /\ playing_token' = 0
    /\ playing_priority' = 0
    /\ cancel_requested' = FALSE
    /\ mutex' = FALSE
    /\ At("idle", 0)
    /\ UNCHANGED <<next_token, ringing, receive, caller, call, wake>>

\* The report is sent; the record is kept for who polls it.
Reported ==
    /\ service.pc = "reporting"
    /\ records' = {r \in records : r.token # service.request \/ r.retained}
    /\ Complete(service.request)
    /\ playing_token' = 0
    /\ playing_priority' = 0
    /\ cancel_requested' = FALSE
    /\ mutex' = FALSE
    /\ At("idle", 0)
    /\ UNCHANGED <<next_token, ringing, receive, caller, call, wake>>

-----------------------------------------------------------------------------
(* The ring of an incoming call                                            *)

\* play_tab5_intercom_ring goes on, with or without its task.
TaskStarts ==
    /\ ring' \in {"claiming", "none"}
    /\ Goes("handler", "idle")

\* Its first look at the owner.  (ring_active and ring are one: no second
\* ring starts while there is one.)
Ring ==
    /\ caller["handler"] = "idle"
    /\ ring = "none"
    /\ rings < MaxRings
    /\ rings' = rings + 1
    /\ \/ playing_token = 0 /\ TaskStarts
       \/ playing_token # 0 /\ Goes("handler", "ranking") /\ UNCHANGED ring
    /\ UNCHANGED <<sched, store, owner, cancel_requested, mutex, service,
                   receive, call, wake>>

RingRanks ==
    /\ caller["handler"] = "ranking"
    /\ \/ /\ playing_priority < IntercomPriority
          /\ Goes("handler", "interrupting")
          /\ UNCHANGED ring
       \/ playing_priority >= IntercomPriority /\ TaskStarts
    /\ UNCHANGED <<sched, store, owner, cancel_requested, mutex, service,
                   rings, receive, call, wake>>

RingInterrupts ==
    /\ caller["handler"] = "interrupting"
    /\ cancel_requested' = TRUE
    /\ TaskStarts
    /\ UNCHANGED <<sched, store, owner, mutex, service, rings, receive, call, wake>>

\* Mutant: only the receive flag is looked at.
RingClaimsAnyTime ==
    /\ ring = "claiming"
    /\ ~ mutex
    /\ ~ receive_active
    /\ playing_token' = RingToken
    /\ playing_priority' = IntercomPriority
    /\ ring' = "sounding"
    /\ UNCHANGED <<sched, store, cancel_requested, mutex, service, rings,
                   receive, caller, call, wake>>

RingClaims ==
    /\ ring = "claiming"
    /\ ~ mutex
    /\ playing_token = 0
    /\ ~ receive_active
    /\ playing_token' = RingToken
    /\ playing_priority' = IntercomPriority
    /\ ring' = "sounding"
    /\ UNCHANGED <<sched, store, cancel_requested, mutex, service, rings,
                   receive, caller, call, wake>>

\* Twelve attempts found the speaker taken.
RingGivesUp ==
    /\ ring = "claiming"
    /\ mutex \/ playing_token # 0 \/ receive_active
    /\ ring' = "none"
    /\ UNCHANGED <<sched, store, owner, cancel_requested, mutex, service, rings,
                   receive, caller, call, wake>>

\* Played, stopped or failed; the codec is closed.
RingEnds ==
    /\ ring = "sounding"
    /\ ring' = "closed"
    /\ UNCHANGED <<sched, store, owner, cancel_requested, mutex, service, rings,
                   receive, caller, call, wake>>

\* The mutex may not be free in time.
RingReleases ==
    /\ ring = "closed"
    /\ \/ /\ ~ mutex
          /\ playing_token' = IF playing_token = RingToken THEN 0 ELSE playing_token
          /\ playing_priority' = IF playing_token = RingToken THEN 0
                                 ELSE playing_priority
       \/ mutex /\ UNCHANGED owner
    /\ ring' = "none"
    /\ UNCHANGED <<sched, store, cancel_requested, mutex, service, rings,
                   receive, caller, call, wake>>

-----------------------------------------------------------------------------
(* start_tab5_intercom_receive and stop_tab5_intercom_receive, in task t   *)

StartReceive(t) ==
    /\ receive_active' = TRUE
    /\ Goes(t, IF receive_active THEN "deaf" ELSE "locking")
    /\ UNCHANGED stream

\* The speaker is free and so is memory for a frame: it is taken.
ReceiveClaims(t) ==
    /\ caller[t] = "locking"
    /\ ~ mutex
    /\ playing_token = 0
    /\ playing_token' = ReceiveToken
    /\ playing_priority' = IntercomPriority
    /\ stream' = TRUE
    /\ Goes(t, "opening")
    /\ UNCHANGED <<sched, store, cancel_requested, mutex, service, ringing,
                   receive_active, call, wake>>

\* It is not, or there is no memory, or the mutex is not free in time.
ReceiveRefused(t) ==
    /\ caller[t] = "locking"
    /\ receive_active' = FALSE
    /\ Goes(t, "deaf")
    /\ UNCHANGED <<sched, store, owner, cancel_requested, mutex, service,
                   ringing, stream, call, wake>>

\* The codec opens, or it does not and the claim is taken back.
ReceiveOpens(t) ==
    /\ caller[t] = "opening"
    /\ \/ Goes(t, "listens") /\ UNCHANGED receive_active
       \/ /\ receive_active' = FALSE
          /\ Goes(t, IF receive_active THEN "failing" ELSE "deaf")
    /\ UNCHANGED <<sched, store, owner, cancel_requested, mutex, service,
                   ringing, stream, call, wake>>

\* The event handler is done when it stopped; a touch goes on to talk.
StopReceive(t) ==
    /\ receive_active' = FALSE
    /\ Goes(t, IF receive_active THEN "closing"
               ELSE IF t = "touch" THEN "silent" ELSE "idle")
    /\ UNCHANGED stream

ReceiveCloses(t) ==
    /\ caller[t] \in {"closing", "failing"}
    /\ stream' = FALSE
    /\ Goes(t, IF caller[t] = "closing" THEN "closed" ELSE "failed")
    /\ UNCHANGED <<sched, store, owner, cancel_requested, mutex, service,
                   ringing, receive_active, call, wake>>

\* Whoever the owner is; not at all when the mutex is not free in time.
ReceiveReleases(t) ==
    /\ caller[t] \in {"closed", "failed"}
    /\ \/ ~ mutex /\ playing_token' = 0 /\ playing_priority' = 0
       \/ mutex /\ UNCHANGED owner
    /\ Goes(t, IF caller[t] = "failed" THEN "deaf"
               ELSE IF t = "touch" THEN "silent" ELSE "idle")
    /\ UNCHANGED <<sched, store, cancel_requested, mutex, service, ringing,
                   receive, call, wake>>

-----------------------------------------------------------------------------
(* The transport's intercom messages and the talk button                   *)

\* Task t is between the first and the last access of an operation on the
\* stream; one of the other that begins then crosses it.
Busy(t) == caller[t] \notin {"idle", "ranking", "interrupting"}

\* intercom.active: told of a call, the handler starts to receive.
CallActive ==
    /\ caller["handler"] = "idle"
    /\ ~ call.told
    /\ call.number < MaxCalls
    /\ call' = [call EXCEPT !.told = TRUE, !.number = @ + 1,
                            !.crossed = @ \/ Busy("touch")]
    /\ StartReceive("handler")
    /\ UNCHANGED <<sched, store, owner, cancel_requested, mutex, service,
                   ringing, wake>>

\* start_tab5_intercom_receive returned.
Started(t) ==
    /\ caller[t] \in {"listens", "deaf"}
    /\ call' = IF t = "handler"
                 THEN [call EXCEPT !.receiving = caller[t] = "listens",
                                   !.active = TRUE, !.talking = FALSE]
                 ELSE [call EXCEPT !.receiving = caller[t] = "listens"]
    /\ Goes(t, "idle")
    /\ UNCHANGED <<sched, store, owner, cancel_requested, mutex, service,
                   ringing, receive, wake>>

\* Mutant: the stream is not stopped with its flag.
CallEndsListening ==
    /\ caller["handler"] = "idle"
    /\ call.told
    /\ call' = [call EXCEPT !.told = FALSE, !.active = FALSE, !.talking = FALSE,
                            !.receiving = FALSE]
    /\ UNCHANGED <<sched, store, owner, cancel_requested, mutex, service,
                   ringing, receive, caller, wake>>

\* intercom.ended; or the link is lost, also when there is no call.
CallEnds ==
    /\ caller["handler"] = "idle"
    /\ call.told \/ call.talking \/ call.receiving
    /\ call' = [call EXCEPT !.told = FALSE, !.active = FALSE, !.talking = FALSE,
                            !.receiving = FALSE, !.crossed = @ \/ Busy("touch")]
    /\ IF call.receiving THEN StopReceive("handler") ELSE UNCHANGED <<receive, caller>>
    /\ UNCHANGED <<sched, store, owner, cancel_requested, mutex, service,
                   ringing, wake>>

\* intercom.rejected, and end_ and cancel_intercom_call: the flags only.
CallDropped ==
    /\ call.active
    /\ call' = [call EXCEPT !.active = FALSE, !.talking = FALSE]
    /\ UNCHANGED <<sched, store, owner, cancel_requested, mutex, service,
                   ringing, receive, caller, wake>>

\* start_intercom_talk, up to its last assignment and from there.
TalkPressed ==
    /\ caller["touch"] = "idle"
    /\ call.active
    /\ call' = [call EXCEPT !.receiving = FALSE, !.crossed = @ \/ Busy("handler")]
    /\ IF call.receiving
         THEN StopReceive("touch")
         ELSE Goes("touch", "silent") /\ UNCHANGED receive
    /\ UNCHANGED <<sched, store, owner, cancel_requested, mutex, service,
                   ringing, wake>>

Talks ==
    /\ caller["touch"] = "silent"
    /\ call' = [call EXCEPT !.talking = TRUE]
    /\ Goes("touch", "idle")
    /\ UNCHANGED <<sched, store, owner, cancel_requested, mutex, service,
                   ringing, receive, wake>>

\* stop_intercom_talk: its look at the call ...
TalkReleased ==
    /\ caller["touch"] = "idle"
    /\ call.talking
    /\ call' = [call EXCEPT !.talking = FALSE, !.crossed = @ \/ Busy("handler")]
    /\ IF call.active THEN Goes("touch", "restarting") ELSE UNCHANGED caller
    /\ UNCHANGED <<sched, store, owner, cancel_requested, mutex, service,
                   ringing, receive, wake>>

\* ... and the stream started again, whatever became of the call meanwhile.
TalkRestarts ==
    /\ caller["touch"] = "restarting"
    /\ StartReceive("touch")
    /\ UNCHANGED <<sched, store, owner, cancel_requested, mutex, service,
                   ringing, call, wake>>

-----------------------------------------------------------------------------
(* The wake word task                                                      *)

WakeGoes(pc) == wake' = [pc |-> pc, token |-> 0]

\* interrupt_tab5_audio_for_voice_capture: its two looks at the owner, and
\* the cancellation of whoever is the owner then.
WakeWord ==
    /\ wake.pc = "waiting"
    /\ WakeGoes(IF playing_token = 0 THEN "capturing" ELSE "ranking")
    /\ UNCHANGED <<sched, store, owner, cancel_requested, mutex, service,
                   ringing, receive, caller, call>>

WakeRanks ==
    /\ wake.pc = "ranking"
    /\ WakeGoes(IF playing_priority >= VoiceAssistant THEN "capturing"
                ELSE "interrupting")
    /\ UNCHANGED <<sched, store, owner, cancel_requested, mutex, service,
                   ringing, receive, caller, call>>

WakeInterrupts ==
    /\ wake.pc = "interrupting"
    /\ \/ Cancel(playing_token)
       \/ /\ mutex \/ ~ Scheduled(playing_token)
          /\ UNCHANGED <<sched, records, cancel_requested>>
    /\ WakeGoes("capturing")
    /\ UNCHANGED <<next_token, owner, mutex, service, ringing, receive, caller, call>>

\* The command gets no answer, an answer that cannot be played, or one that is.
VoiceAnswered ==
    /\ wake.pc = "capturing"
    /\ \/ Submit(VoiceAssistant, TRUE)
          /\ wake' = [pc |-> "answering", token |-> next_token]
       \/ WakeGoes("waiting") /\ UNCHANGED <<sched, store, cancel_requested>>
    /\ UNCHANGED <<owner, mutex, service, ringing, receive, caller, call>>

\* tab5_audio_state gives the record back when its state is final.
VoicePolls ==
    /\ wake.pc = "answering"
    /\ ~ mutex
    /\ \E r \in records :
         /\ r.token = wake.token
         /\ r.state \in Final
         /\ records' = records \ {r}
    /\ WakeGoes("waiting")
    /\ UNCHANGED <<sched, next_token, owner, cancel_requested, mutex, service,
                   ringing, receive, caller, call>>

-----------------------------------------------------------------------------
(* The specification                                                       *)

ServiceStep ==
    \/ Pick \/ Rank \/ StartPlaying \/ Reported
    \/ \E result \in Final : PlayEnds(result)

RingStep == RingClaims \/ RingGivesUp \/ RingEnds \/ RingReleases

ReceiveStep(t) ==
    \/ ReceiveClaims(t) \/ ReceiveRefused(t) \/ ReceiveOpens(t)
    \/ ReceiveCloses(t) \/ ReceiveReleases(t) \/ Started(t)

HandlerStep ==
    \/ \E p \in Priorities : Play(p)
    \/ Stop \/ Ring \/ RingRanks \/ RingInterrupts
    \/ CallActive \/ CallEnds \/ CallDropped

TouchStep == TalkPressed \/ Talks \/ TalkReleased \/ TalkRestarts

WakeStep ==
    WakeWord \/ WakeRanks \/ WakeInterrupts \/ VoiceAnswered \/ VoicePolls

Next ==
    \/ ServiceStep \/ RingStep \/ HandlerStep \/ TouchStep \/ WakeStep
    \/ \E t \in Tasks : ReceiveStep(t)

\* Tasks run on.  Playing ends by itself or not (it may be an endless
\* stream), but not long after it was asked to.
Fairness ==
    /\ WF_vars(Pick) /\ WF_vars(Rank) /\ WF_vars(StartPlaying) /\ WF_vars(Reported)
    /\ WF_vars(PlayEnds("interrupted"))
    /\ WF_vars(RingStep)
    /\ WF_vars(RingRanks \/ RingInterrupts)
    /\ \A t \in Tasks : WF_vars(ReceiveStep(t))

Spec == Init /\ [][Next]_vars

FairSpec == Spec /\ Fairness

-----------------------------------------------------------------------------
(* Properties                                                              *)

Sounding == {o \in {"service", "ring", "intercom"} :
               CASE o = "service" -> service.pc = "playing"
                 [] o = "ring" -> ring = "sounding"
                 [] o = "intercom" -> stream}

\* The codec is used by one of the three tasks at a time: playback, ring and
\* intercom exclude each other through playing_token.
OneOutput == Cardinality(Sounding) <= 1

\* Somebody gives the stream back: a task that is opening or closing it, or
\* whoever finds receiving set: the talk button, or the end that a call which
\* the panel was told of has yet to come to.
HasCloser ==
    \/ call.told /\ call.receiving
    \/ \E t \in Tasks : caller[t] \in {"opening", "listens", "failing", "failed",
                                       "closing", "closed"}

\* Whoever owns the speaker has somebody to give it back: no owner is left
\* behind when its task is gone, not even by a release that timed out.  One
\* thing may leave a stream without anybody to close it: an operation of the
\* talk button that crosses the start or the end of a call (stop_intercom_talk
\* looks at the call, then starts the stream, then says so).  Even then the
\* owner is a stream that is open, or a task that is closing one.
OwnerAlive ==
    /\ playing_token = RingToken => ring \in {"sounding", "closed"}
    /\ playing_token = ReceiveToken =>
         /\ HasCloser \/ call.crossed
         /\ stream \/ \E t \in Tasks : caller[t] \in {"failed", "closed"}
    /\ playing_token \in Tokens => service.request = playing_token

\* What is scheduled has a record that is not final: the service task would
\* skip an active item without one for ever, and all behind it.
ScheduledHasRecord ==
    \A token \in Tokens :
      Scheduled(token) =>
        \E r \in records :
          /\ r.token = token
          /\ r.state \notin Final \/ (mutex /\ service.request = token)

\* An item that plays although it is no longer the active one has been asked
\* to stop: no request to stop is lost to the flag's resets.
OutvotedIsStopped ==
    service.pc = "playing" /\ active.token # service.request => cancel_requested

\* The array and its insertion loop keep what the scheduler promises.
Queue == INSTANCE AudioQueue WITH
    current <- active, waiting <- {queue[k] : k \in 1 .. Len(queue)}

KeepsAudioQueue == Queue!QueueSpec

\* The active item is played, or gives way: a preempted owner yields and no
\* wake-up is lost.  (Without active calls, which may hold the speaker.)
ActivePlays ==
    \A token \in Tokens :
      active.token = token ~> (playing_token = token \/ active.token # token)
=============================================================================
