------------------------------- MODULE Voice -------------------------------
(***************************************************************************)
(* A spoken command, from the wake word to the answer: the panel's voice   *)
(* session with its fetch and sender tasks (voice_session.cpp,             *)
(* tab5_wake_word.cpp, roomhub_transport.cpp), the handler of its socket   *)
(* with the speech-to-text session of Home Assistant (voice_audio_service. *)
(* py, assist_pipeline.py), and the resolver of the transcript             *)
(* (voice_intent_service.py).                                              *)
(*                                                                         *)
(* Nothing of it is shared between endpoints or between connections, so    *)
(* one panel and one connection are enough.  Capture c is the c-th wake    *)
(* word the panel acts on; a session of Home Assistant has the number of   *)
(* the capture whose start opened it, and a frame that of the capture it   *)
(* was recorded for.                                                       *)
(***************************************************************************)
EXTENDS Integers, Sequences, FiniteSets, SequencesExt

CONSTANTS
    MaxCaptures, MaxMutes, \* bounds: wake words, presses of the mute button
    MaxFrames,   \* bound: frames until silence or maximum_capture_ms ends it
    Capacity,    \* frames voice_audio_stream holds
    House,       \* entities: [id, name, domain, area]
    Areas,       \* of the area registry: [id, name]
    Room,        \* Endpoint.room of the panel
    Transcripts, \* what Home Assistant hears: [supported, target]
    NoArea

Supported == {"light", "switch", "fan", "input_boolean"}

ASSUME VoiceAssumption ==
    /\ MaxCaptures \in Nat \ {0} /\ MaxMutes \in Nat
    /\ MaxFrames \in Nat \ {0} /\ Capacity \in Nat \ {0}
    /\ \A a \in Areas : a.id # NoArea

VARIABLES
    capture,  \* wake words so far
    state,    \* VoiceSession.state_
    bits,     \* the event group: kVoiceAudioReady, Failed, ResponseReady
    allowed,  \* network_audio_allowed
    pending,  \* voice_end_pending and voice_cancel_pending
    buffer,   \* the frames in voice_audio_stream
    speech,   \* voice_response has a URL
    token,    \* voice_playback_token is not 0
    fetch,    \* where wake_word_fetch_task stands
    sender,   \* where voice_sender_task stands, and the batch it holds
    muted,    \* microphone_muted
    muting,   \* set_tab5_microphone_muted has yet to reset the session
    link, up, down,
    handler,  \* where the socket's handler stands, and for which session
    session,  \* VoiceAudioConnection._session, 0 for none
    sockets,  \* the sessions whose socket to Home Assistant is open
    frames,   \* frames of the capture; presses of the mute button
    mutes,
    heard,    \* history: whose frames the last session was sent
    silenced, \* history: the captures muted before their last frame was queued
    commands, \* history: the audio each published command was made of
    gaveUp,   \* history: the panel stopped waiting for the answer to a start
    strayed,  \* history: captures of which a batch outlived the next wake word
    lostEnd   \* history: the capture whose end the sender dropped

flags == <<bits, allowed, pending, buffer>>
panel == <<capture, state, speech, token, fetch, muted, muting, frames, mutes,
           silenced>>
core == <<handler, session, sockets, heard, commands>>
history == <<lostEnd, gaveUp, strayed>>
vars == <<flags, panel, core, sender, link, up, down, history>>

-----------------------------------------------------------------------------
(* State                                                                   *)

Captures == 1 .. MaxCaptures
Starting == {"connecting", "authenticating", "listing", "preparing"}
Answering == {"transcribing", "publishing", "speaking"}

\* The steps of the handler that wait for Home Assistant without a limit.
Unlimited == {"authenticating", "listing", "speaking"}

At(pc) == [pc |-> pc, capture |-> 0]

TypeOK ==
    /\ capture \in 0 .. MaxCaptures
    /\ state \in {"waiting", "capturing", "awaiting", "playing"}
    /\ bits \subseteq {"ready", "failed", "response"}
    /\ allowed \in BOOLEAN /\ pending \subseteq {"end", "cancel"}
    /\ buffer \in Seq(Captures) /\ Len(buffer) <= Capacity
    /\ speech \in BOOLEAN /\ token \in BOOLEAN
    /\ fetch \in {"loop", "detected", "starting", "sending", "awaiting",
                  "finishing", "ending"}
    /\ \/ sender \in {At(pc) : pc \in {"receiving", "empty", "check", "cancelling"}}
       \/ sender \in [pc : {"batch"}, capture : Captures]
    /\ muted \in BOOLEAN /\ muting \in BOOLEAN
    /\ link \in {"up", "lost"}
    /\ up \in Seq([type : {"start", "audio", "end", "cancel"},
                   capture : 0 .. MaxCaptures])
    /\ down \in Seq({"ready", "rejected", "failed", "spoken", "unspoken"})
    /\ \/ handler \in {At("idle"), At("gone")}
       \/ handler \in [pc : Starting \cup Answering, capture : Captures]
    /\ session \in 0 .. MaxCaptures /\ sockets \subseteq Captures
    /\ frames \in 0 .. MaxFrames /\ mutes \in 0 .. MaxMutes
    /\ heard \subseteq Captures /\ silenced \subseteq Captures
    /\ commands \subseteq SUBSET Captures
    /\ lostEnd \in 0 .. MaxCaptures /\ strayed \subseteq Captures
    /\ gaveUp \in BOOLEAN

\* The panel has registered and listens for its wake word.
Init ==
    /\ capture = 0 /\ state = "waiting" /\ bits = {} /\ allowed = FALSE
    /\ pending = {} /\ buffer = <<>> /\ speech = FALSE /\ token = FALSE
    /\ fetch = "loop" /\ sender = At("receiving")
    /\ muted = FALSE /\ muting = FALSE
    /\ link = "up" /\ up = <<>> /\ down = <<>>
    /\ handler = At("idle") /\ session = 0 /\ sockets = {}
    /\ frames = 0 /\ mutes = 0
    /\ heard = {} /\ silenced = {} /\ commands = {}
    /\ lostEnd = 0 /\ strayed = {} /\ gaveUp = FALSE

-----------------------------------------------------------------------------
(* The link                                                                *)

Message(type, c) == [type |-> type, capture |-> c]

\* send_text and send_binary of the sender task; fail_voice_stream
Transmit(m) ==
    IF link = "up" THEN up' = Append(up, m) /\ UNCHANGED <<bits, allowed>>
    ELSE /\ allowed' = FALSE
         /\ bits' = (bits \ {"ready"}) \cup {"failed"}
         /\ UNCHANGED up

\* The panel's client sees the end of the connection.
Lose ==
    /\ link = "up"
    /\ link' = "lost" /\ down' = <<>>
    /\ allowed' = FALSE
    /\ bits' = (bits \ {"ready"}) \cup {"failed"}
    /\ UNCHANGED <<panel, core, pending, buffer, sender, up, history>>

\* Mutant: only a failure counts, not a rejection.
RejectionUnread ==
    /\ down # <<>>
    /\ down' = Tail(down)
    /\ allowed' = (Head(down) = "ready")
    /\ CASE Head(down) = "ready" ->
              bits' = (bits \ {"failed"}) \cup {"ready"} /\ UNCHANGED speech
         [] Head(down) = "failed" ->
              bits' = (bits \ {"ready"}) \cup {"failed"} /\ UNCHANGED speech
         [] Head(down) = "rejected" -> UNCHANGED <<bits, speech>>
         [] OTHER ->
              /\ bits' = bits \cup {"response"}
              /\ speech' = (Head(down) = "spoken")
    /\ UNCHANGED <<core, capture, state, token, fetch, muted, muting, frames,
                   mutes, silenced, pending, buffer, sender, link, up, history>>

\* handle_data: only the start of a capture clears kVoiceResponseReady.
Deliver ==
    /\ down # <<>>
    /\ down' = Tail(down)
    /\ allowed' = (Head(down) = "ready")
    /\ CASE Head(down) = "ready" ->
              bits' = (bits \ {"failed"}) \cup {"ready"} /\ UNCHANGED speech
         [] Head(down) \in {"rejected", "failed"} ->
              bits' = (bits \ {"ready"}) \cup {"failed"} /\ UNCHANGED speech
         [] OTHER ->
              /\ bits' = bits \cup {"response"}
              /\ speech' = (Head(down) = "spoken")
    /\ UNCHANGED <<core, capture, state, token, fetch, muted, muting, frames,
                   mutes, silenced, pending, buffer, sender, link, up, history>>

-----------------------------------------------------------------------------
(* wake_word_fetch_task                                                    *)

\* The wake word, not muted and no command under way.  Before the session
\* hears of it the task takes the display and stops the speaker.
Detect ==
    /\ fetch = "loop" /\ capture < MaxCaptures
    /\ ~ muted /\ state = "waiting"
    /\ fetch' = "detected"
    /\ UNCHANGED <<flags, core, capture, state, speech, token, muted, muting,
                   frames, mutes, silenced, sender, link, up, down, history>>

OnWakeWordDetected ==
    /\ fetch = "detected"
    /\ capture' = capture + 1 /\ frames' = 0
    /\ state' = "capturing"
    /\ fetch' = "starting"
    /\ UNCHANGED <<flags, core, speech, token, muted, muting, mutes, silenced,
                   sender, link, up, down, history>>

\* on_failure, and back to the loop
OnFailure == state' = "waiting" /\ fetch' = "loop"

\* start_voice_audio forgets what was there before ...
StartVoiceAudio ==
    /\ fetch = "starting"
    /\ IF link = "up"
         THEN /\ allowed' = FALSE /\ bits' = {} /\ pending' = {}
              /\ buffer' = <<>> /\ speech' = FALSE
              /\ fetch' = "sending" /\ UNCHANGED state
         ELSE OnFailure /\ UNCHANGED <<flags, speech>>
    /\ UNCHANGED <<core, capture, token, muted, muting, frames, mutes, silenced,
                   sender, link, up, down, history>>

\* ... sends its request ...
SendStart ==
    /\ fetch = "sending"
    /\ IF link = "up"
         THEN /\ up' = Append(up, Message("start", capture))
              /\ fetch' = "awaiting" /\ UNCHANGED state
         ELSE OnFailure /\ UNCHANGED up
    /\ UNCHANGED <<flags, core, capture, speech, token, muted, muting, frames,
                   mutes, silenced, sender, link, down, history>>

\* A start is on its way, worked on, or accepted without the panel knowing.
Unanswered ==
    \/ \E i \in 1 .. Len(up) : up[i].type = "start"
    \/ handler.pc \in Starting
    \/ \E i \in 1 .. Len(down) : down[i] = "ready"

\* ... and waits, at most five seconds, for either bit.  What comes first may
\* be the answer to an earlier message.
StartReturns ==
    /\ fetch = "awaiting"
    /\ IF "ready" \in bits THEN fetch' = "loop" /\ UNCHANGED state ELSE OnFailure
    /\ gaveUp' = (gaveUp \/ (link = "up" /\ Unanswered))
    /\ UNCHANGED <<flags, core, capture, speech, token, muted, muting, frames,
                   mutes, silenced, sender, link, up, down, lostEnd, strayed>>

\* cancel_voice_audio
CancelVoiceAudio ==
    /\ allowed' = FALSE /\ bits' = bits \ {"ready"}
    /\ pending' = pending \cup {"cancel"}

\* Mutant: no test whether the stream buffer took the whole frame.
NeverFull == link = "lost" \/ "ready" \notin bits \/ ~ allowed

Refused == link = "lost" \/ "ready" \notin bits \/ ~ allowed \/ Len(buffer) >= Capacity

\* send_voice_audio of a frame, then the tests of on_tick ...
SendVoiceAudio(expires) ==
    /\ fetch = "loop" /\ state = "capturing" /\ ~ muted
    /\ frames = MaxFrames - 1 => expires
    /\ IF Refused
         THEN CancelVoiceAudio /\ OnFailure /\ UNCHANGED <<buffer, frames>>
         ELSE /\ buffer' = Append(buffer, capture) /\ frames' = frames + 1
              /\ UNCHANGED <<bits, allowed, pending>>
              /\ fetch' = IF expires THEN "finishing" ELSE fetch
              /\ UNCHANGED state
    /\ UNCHANGED <<core, capture, speech, token, muted, muting, mutes, silenced,
                   sender, link, up, down, history>>

\* ... and what finish_capture writes to state_, a plain variable, whatever a
\* mute has written there since.
FinishCapture ==
    /\ fetch = "finishing"
    /\ state' = "awaiting" /\ fetch' = "ending"
    /\ UNCHANGED <<flags, core, capture, speech, token, muted, muting, frames,
                   mutes, silenced, sender, link, up, down, history>>

EndVoiceAudio ==
    /\ fetch = "ending"
    /\ allowed' = FALSE /\ bits' = bits \ {"ready"}
    /\ pending' = pending \cup {"end"}
    /\ fetch' = "loop"
    /\ UNCHANGED <<core, capture, state, speech, token, muted, muting, frames,
                   mutes, silenced, buffer, sender, link, up, down, history>>

\* voice_response_state and what follows from it.  A token that a mute left
\* behind stands for the speech an answer does not have, and outlives one of a
\* media type the panel does not play.
OnResponse(playback) ==
    /\ fetch = "loop" /\ state = "awaiting"
    /\ bits \cap {"failed", "response"} # {}
    /\ IF "failed" \in bits
         THEN state' = "waiting" /\ UNCHANGED <<speech, token>>
         ELSE /\ speech' = FALSE
              /\ token' = IF speech /\ playback # "unsupported"
                            THEN playback = "submitted" ELSE token
              /\ state' = IF token' /\ ~ (speech /\ playback = "unsupported")
                            THEN "playing" ELSE "waiting"
    /\ UNCHANGED <<flags, core, capture, fetch, muted, muting, frames, mutes,
                   silenced, sender, link, up, down, history>>

PlaybackEnds ==
    /\ fetch = "loop" /\ state = "playing"
    /\ state' = "waiting" /\ token' = FALSE
    /\ UNCHANGED <<flags, core, capture, speech, fetch, muted, muting, frames,
                   mutes, silenced, sender, link, up, down, history>>

-----------------------------------------------------------------------------
(* set_tab5_microphone_muted, from the task of the display                 *)

Mute ==
    /\ ~ muted /\ ~ muting /\ mutes < MaxMutes
    /\ muted' = TRUE /\ muting' = TRUE /\ mutes' = mutes + 1
    /\ CancelVoiceAudio
    /\ silenced' = IF state = "capturing" /\ fetch # "finishing"
                     THEN silenced \cup {capture} ELSE silenced
    /\ UNCHANGED <<core, capture, state, speech, token, fetch, frames, buffer,
                   sender, link, up, down, history>>

MuteFails ==
    /\ muting
    /\ muting' = FALSE /\ state' = "waiting"
    /\ UNCHANGED <<flags, core, capture, speech, token, fetch, muted, frames,
                   mutes, silenced, sender, link, up, down, history>>

Unmute ==
    /\ muted /\ ~ muting
    /\ muted' = FALSE
    /\ UNCHANGED <<flags, core, capture, state, speech, token, fetch, muting,
                   frames, mutes, silenced, sender, link, up, down, history>>

-----------------------------------------------------------------------------
(* voice_sender_task                                                       *)

\* The head of its loop: a cancel takes the end that is pending with it, also
\* the end of a capture whose mute finish_capture has written over.
CheckCancel ==
    /\ sender.pc = "check"
    /\ IF "cancel" \in pending
         THEN /\ sender' = At("cancelling")
              /\ pending' = {} /\ buffer' = <<>>
              /\ lostEnd' = IF "end" \in pending /\ ~ muting THEN capture ELSE lostEnd
         ELSE sender' = At("receiving") /\ UNCHANGED <<pending, buffer, lostEnd>>
    /\ UNCHANGED <<panel, core, bits, allowed, link, up, down, gaveUp, strayed>>

\* A cancel can be sent after the start of the capture that follows.
SendCancel ==
    /\ sender.pc = "cancelling"
    /\ Transmit(Message("cancel", capture))
    /\ sender' = At("check")
    /\ UNCHANGED <<panel, core, pending, buffer, link, down, history>>

\* xStreamBufferReceive: what there is, or nothing within 20 ms
TakeBatch ==
    /\ sender.pc = "receiving" /\ buffer # <<>>
    /\ sender' = [pc |-> "batch", capture |-> Head(buffer)]
    /\ buffer' = <<>>
    /\ UNCHANGED <<panel, core, bits, allowed, pending, link, up, down, history>>

TimeOut ==
    /\ sender.pc = "receiving" /\ buffer = <<>>
    /\ sender' = At("empty")
    /\ UNCHANGED <<panel, core, flags, link, up, down, history>>

SendBatch ==
    /\ sender.pc = "batch"
    /\ Transmit(Message("audio", sender.capture))
    /\ buffer' = IF link = "up" THEN buffer ELSE <<>>
    /\ strayed' = strayed \cup ({sender.capture} \ {capture})
    /\ sender' = At("check")
    /\ UNCHANGED <<panel, core, pending, link, down, lostEnd, gaveUp>>

\* voice_end_pending is taken even if a frame has come in since.  With nothing
\* pending the head of the loop is passed in the same step.
SendEnd ==
    /\ sender.pc = "empty"
    /\ sender' = At(IF pending = {} THEN "receiving" ELSE "check")
    /\ pending' = pending \ {"end"}
    /\ IF "end" \in pending /\ buffer = <<>>
         THEN Transmit(Message("end", capture)) /\ UNCHANGED lostEnd
         ELSE /\ lostEnd' = IF "end" \in pending THEN capture ELSE lostEnd
              /\ UNCHANGED <<up, bits, allowed>>
    /\ UNCHANGED <<panel, core, buffer, link, down, gaveUp, strayed>>

-----------------------------------------------------------------------------
(* The resolver of a transcript                                            *)

\* endpoint_area_id: the one area the room is the id or the name of
EndpointArea ==
    LET A == {a \in Areas : Room \in {a.id, a.name}} IN
    IF Cardinality(A) = 1 THEN (CHOOSE a \in A : TRUE).id ELSE NoArea

Candidates(target) ==
    {x \in House : /\ x.domain \in Supported
                   /\ EndpointArea # NoArea => x.area = EndpointArea
                   /\ target \in {x.id, x.name}}

\* resolve: a command it knows for exactly one entity
Resolves(t) == t.supported /\ Cardinality(Candidates(t.target)) = 1

-----------------------------------------------------------------------------
(* The handler of the socket and VoiceAudioConnection                      *)

\* One message of the panel is worked off before the next is read.
Receive(type) ==
    /\ handler = At("idle") /\ up # <<>> /\ Head(up).type = type
    /\ up' = Tail(up)

\* The answer to it; when it cannot be sent the handler closes what is open.
Reply(m, open, current) ==
    IF link = "up"
      THEN /\ down' = Append(down, m)
           /\ handler' = At("idle")
           /\ sockets' = open /\ session' = current
      ELSE /\ handler' = At("gone")
           /\ sockets' = open \ {current} /\ session' = 0
           /\ UNCHANGED down

\* Mutant: a start finds the session there is good enough.
StartReuses ==
    /\ Receive("start")
    /\ IF session # 0 THEN Reply("ready", sockets, session)
       ELSE /\ handler' = [pc |-> "connecting", capture |-> Head(up).capture]
            /\ UNCHANGED <<down, sockets, session>>
    /\ UNCHANGED <<flags, panel, heard, commands, sender, link, history>>

\* start while there is a session is rejected.
ReceiveStart ==
    /\ Receive("start")
    /\ IF session # 0 THEN Reply("rejected", sockets, session)
       ELSE /\ handler' = [pc |-> "connecting", capture |-> Head(up).capture]
            /\ UNCHANGED <<down, sockets, session>>
    /\ UNCHANGED <<flags, panel, heard, commands, sender, link, history>>

AfterStep == [connecting |-> "authenticating", authenticating |-> "listing",
              listing |-> "preparing"]

\* HomeAssistantSpeechToTextSession.start: the socket, the authentication, the
\* list of pipelines, the run of the one with the configured name
StartProceeds ==
    /\ handler.pc \in Starting
    /\ LET c == handler.capture
           open == IF handler.pc = "connecting" THEN sockets \cup {c} ELSE sockets IN
         IF handler.pc = "preparing"
           THEN Reply("ready", sockets, c) /\ heard' = {}
           ELSE /\ handler' = [handler EXCEPT !.pc = AfterStep[@]]
                /\ sockets' = open
                /\ UNCHANGED <<session, heard, down>>
    /\ UNCHANGED <<flags, panel, commands, sender, link, up, history>>

\* Mutant: only a failure before the run is asked for closes the socket.
StartFailsOpen ==
    /\ handler.pc \in Starting
    /\ Reply("failed", IF handler.pc = "preparing" THEN sockets
                       ELSE sockets \ {handler.capture}, session)
    /\ UNCHANGED <<flags, panel, heard, commands, sender, link, up, history>>

\* Refused, malformed or too late: the socket is closed again.
StartFails ==
    /\ handler.pc \in Starting
    /\ Reply("failed", sockets \ {handler.capture}, session)
    /\ UNCHANGED <<flags, panel, heard, commands, sender, link, up, history>>

\* send_audio.  A frame that the full buffer cut leaves a batch of an odd length,
\* which is rejected and the session kept; Home Assistant may have closed its end.
ReceiveAudio ==
    /\ Receive("audio")
    /\ \/ Reply("rejected", sockets, session) /\ UNCHANGED heard
       \/ /\ session # 0 /\ heard' = heard \cup {Head(up).capture}
          /\ UNCHANGED <<handler, sockets, session, down>>
       \/ /\ session # 0 /\ Reply("failed", sockets \ {session}, 0)
          /\ UNCHANGED heard
    /\ UNCHANGED <<flags, panel, commands, sender, link, history>>

\* finish gives the session up before it waits for the transcript.
ReceiveEnd ==
    /\ Receive("end")
    /\ IF session = 0 THEN Reply("rejected", sockets, 0)
       ELSE /\ handler' = [pc |-> "transcribing", capture |-> session]
            /\ session' = 0
            /\ UNCHANGED <<down, sockets>>
    /\ UNCHANGED <<flags, panel, heard, commands, sender, link, history>>

\* cancel: the panel does not read the answer.
ReceiveCancel ==
    /\ Receive("cancel")
    /\ sockets' = sockets \ {session} /\ session' = 0
    /\ handler' = IF link = "up" THEN handler ELSE At("gone")
    /\ UNCHANGED <<flags, panel, heard, commands, sender, link, down, history>>

\* The transcript, within 60 s, and what is made of it: a rejection to speak,
\* or the command, published and awaited.
Transcribed(t) ==
    /\ handler.pc = "transcribing"
    /\ sockets' = sockets \ {handler.capture}
    /\ handler' = [handler EXCEPT !.pc = IF Resolves(t) THEN "publishing" ELSE "speaking"]
    /\ commands' = IF Resolves(t) THEN commands \cup {heard} ELSE commands
    /\ UNCHANGED <<flags, panel, session, heard, sender, link, up, down, history>>

TranscriptionFails ==
    /\ handler.pc = "transcribing"
    /\ Reply("failed", sockets \ {handler.capture}, 0)
    /\ UNCHANGED <<flags, panel, heard, commands, sender, link, up, history>>

\* handle_transcript: delivered or not, the outcome is spoken.
Published ==
    /\ handler.pc = "publishing"
    /\ handler' = [handler EXCEPT !.pc = "speaking"]
    /\ UNCHANGED <<flags, panel, session, sockets, heard, commands, sender, link,
                   up, down, history>>

\* Without speech the answer is sent all the same.
Answer(m) ==
    /\ handler.pc = "speaking"
    /\ Reply(m, sockets, 0)
    /\ UNCHANGED <<flags, panel, heard, commands, sender, link, up, history>>

\* The handler's receive ends.
Leave ==
    /\ handler = At("idle") /\ link = "lost"
    /\ handler' = At("gone")
    /\ sockets' = sockets \ {session} /\ session' = 0
    /\ UNCHANGED <<flags, panel, heard, commands, sender, link, up, down, history>>

-----------------------------------------------------------------------------
(* Specification                                                           *)

Fetch ==
    \/ OnWakeWordDetected \/ StartVoiceAudio \/ SendStart \/ StartReturns
    \/ \E expires \in BOOLEAN : SendVoiceAudio(expires)
    \/ FinishCapture \/ EndVoiceAudio
    \/ \E playback \in {"submitted", "refused", "unsupported"} : OnResponse(playback)
    \/ PlaybackEnds

Sender == CheckCancel \/ SendCancel \/ TakeBatch \/ SendBatch \/ TimeOut \/ SendEnd

Handler ==
    \/ ReceiveStart \/ ReceiveAudio \/ ReceiveEnd \/ ReceiveCancel
    \/ StartProceeds \/ StartFails
    \/ \E t \in Transcripts : Transcribed(t)
    \/ TranscriptionFails \/ Published
    \/ \E m \in {"spoken", "unspoken"} : Answer(m)
    \/ Leave

Next ==
    \/ Lose \/ Deliver \/ Detect \/ Fetch
    \/ Mute \/ MuteFails \/ Unmute
    \/ Sender \/ Handler

\* The tasks run, messages arrive, and what has a time limit ends; a round of
\* the sender that finds nothing to do is no progress, and nobody has to speak,
\* touch the button, lose the link or answer where nothing limits the wait.
Progress ==
    \/ Deliver \/ Fetch \/ MuteFails
    \/ Sender /\ \/ buffer # <<>> \/ pending # {}
                 \/ sender.pc \notin {"receiving", "empty"}
    \/ Handler /\ handler.pc \notin Unlimited

Spec == Init /\ [][Next]_vars /\ WF_vars(Progress)

-----------------------------------------------------------------------------
(* Properties                                                              *)

\* Every socket to Home Assistant is that of the connection's session or of
\* the message its handler works on, and none is left when the handler ends:
\* whatever fails on the way, start, send_audio, finish and close between them
\* close what was opened (voice_audio_service.py, assist_pipeline.py).
NoOrphanSocket ==
    /\ sockets \subseteq {session, handler.capture}
    /\ handler.pc = "gone" => sockets = {}

\* As long as the panel waits for every start until the core has answered that
\* one, neither giving up after five seconds nor taking the answer to an
\* earlier message for it, a command is made of what was said after one wake
\* word, and not of what a mute has cut off: neither a cancel that a
\* start overtakes or erases, nor a session the core has not closed, nor an
\* answer that comes late mixes two captures or revives a silenced one.  Only a
\* batch the sender still holds at the next wake word strays into the next
\* session.
CommandIsOneCapture ==
    \A S \in commands :
        \/ gaveUp
        \/ Cardinality(S \ strayed) <= 1 /\ (S \ strayed) \cap silenced = {}

\* A panel that waits for its answer gets one or gives up, unless the sender
\* dropped the end of the capture, for a frame that came in behind it or, when
\* finish_capture has written over what a mute wrote, for the mute's cancel, or
\* the handler is in a step that waits for Home Assistant without a time limit.
AnswerComes ==
    state = "awaiting" ~> \/ state # "awaiting" \/ lostEnd = capture
                          \/ handler.pc \in Unlimited
=============================================================================
