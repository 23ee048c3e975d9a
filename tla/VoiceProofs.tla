---------------------------- MODULE VoiceProofs ----------------------------
(***************************************************************************)
(* Theorems about Voice, for any number of captures, mutes and frames, any *)
(* capacity of the stream buffer, and every house.                         *)
(***************************************************************************)
EXTENDS Voice, TLAPS, SequenceTheorems, FiniteSetTheorems

-----------------------------------------------------------------------------
(* The invariants                                                          *)

\* A start and a batch are of a capture; a cancel can come before the first.
Wire == [type : {"start", "audio"}, capture : Captures]
          \cup [type : {"end", "cancel"}, capture : 0 .. MaxCaptures]

\* A capture the panel works on has been counted, and fits its bound.
Numbered ==
    /\ up \in Seq(Wire)
    /\ fetch \notin {"loop", "detected"} \/ state # "waiting" => capture # 0
    /\ fetch = "detected" => capture < MaxCaptures
    /\ state = "capturing" /\ fetch # "finishing" => frames < MaxFrames

Typed == TypeOK /\ Numbered

\* The handler has at most one session in its hands: the connection's, or the
\* one it opens or closes.
OneSession ==
    /\ handler.pc # "idle" => session = 0
    /\ handler.pc \in {"publishing", "speaking"} => sockets = {}

SocketsInv == Typed /\ OneSession /\ NoOrphanSocket

\* Nothing is ahead of the wake words counted; nothing is heard over a lost link.
Counted ==
    /\ link = "lost" => down = <<>> /\ "ready" \notin bits
    /\ muting => muted
    /\ \A i \in 1 .. Len(buffer) : buffer[i] <= capture
    /\ \A i \in 1 .. Len(up) : up[i].capture <= capture
    /\ sender.capture <= capture /\ session <= capture /\ handler.capture <= capture
    /\ \A c \in heard \cup silenced : c <= capture
    /\ \A S \in commands : \A c \in S : c <= capture

\* What says that a capture went on: its end, and a batch that did not stray.
Own(m) == m.type = "end" \/ (m.type = "audio" /\ m.capture \notin strayed)

Opening == handler.pc \in Starting
StartIn == \E i \in 1 .. Len(up) : up[i].type = "start"
EndIn == \E i \in 1 .. Len(up) : up[i].type = "end"
OwnIn == \E i \in 1 .. Len(up) : Own(up[i])
ReadyIn == \E i \in 1 .. Len(down) : down[i] = "ready"
Buffered == \E i \in 1 .. Len(buffer) : buffer[i] = capture

\* The core has answered the start of the capture, and the session it has, if
\* it still has one, is that capture's.
Accepted == session \in {0, capture} /\ ~ StartIn /\ ~ Opening

\* The panel records, or has frames of the capture it records or has recorded.
Recording ==
    \/ state = "capturing" /\ fetch = "loop"
    \/ fetch \in {"finishing", "ending"}
    \/ capture # 0 /\ (sender.capture = capture \/ Buffered)

\* There is one start under way at most, and nothing of a capture behind it.
OneStart ==
    \A j \in 1 .. Len(up) : up[j].type = "start" =>
      \A i \in 1 .. Len(up) :
        (up[i].type = "start" => i = j) /\ (Own(up[i]) => i < j)

\* It is that of the capture whose answer the panel awaits.
StartIsCurrent ==
    /\ StartIn => ~ Opening /\ ~ ReadyIn
    /\ Opening => ~ OwnIn /\ ~ ReadyIn
    /\ StartIn \/ Opening \/ ReadyIn => fetch = "awaiting" \/ link = "lost"
    /\ link = "up" =>
         /\ \A j \in 1 .. Len(up) : up[j].type = "start" => up[j].capture = capture
         /\ Opening => handler.capture = capture

\* An acceptance is that of its own start, and frames are of an accepted capture.
AcceptanceIsOwn ==
    /\ fetch = "awaiting" /\ ("ready" \in bits \/ ReadyIn) => Accepted
    /\ fetch = "sending" => "ready" \notin bits
    /\ Recording => Accepted /\ fetch \notin {"starting", "sending", "awaiting"}

\* What is heard in a session is of its capture.
HeardIsOwn ==
    /\ \A i \in 1 .. Len(up) :
         up[i].type = "audio" /\ up[i].capture \notin strayed => session \in {0, up[i].capture}
    /\ session # 0 => heard \ strayed \subseteq {session}
    /\ handler.pc = "transcribing" => heard \ strayed \subseteq {handler.capture}
    /\ \A S \in commands : \E c \in Captures : S \ strayed \subseteq {c}

\* A capture that was muted before its last frame does not end, so that its
\* session is never finished; the panel does not record on.
SilencedStays ==
    /\ session # 0 /\ session \in silenced =>
         ~ EndIn /\ "end" \notin pending /\ fetch \notin {"finishing", "ending"}
    /\ fetch \in {"finishing", "ending"} => capture \notin silenced
    /\ fetch = "ending" => state # "capturing"
    /\ capture \in silenced => state # "capturing" \/ muting
    /\ handler.pc = "transcribing" => handler.capture \notin silenced
    /\ \A S \in commands : (S \ strayed) \cap silenced = {}

\* While the panel records, nothing of that capture has ended.
NothingEnded ==
    /\ fetch \in {"sending", "awaiting"} => "end" \notin pending
    /\ fetch \in {"starting", "sending"} => session # capture
    /\ state = "capturing" /\ session = capture => ~ EndIn /\ "end" \notin pending
    /\ state = "capturing" => ~ (handler.pc = "transcribing" /\ handler.capture = capture)
    /\ state = "capturing" => \A S \in commands : capture \notin S \ strayed

InTurn == OneStart /\ StartIsCurrent /\ AcceptanceIsOwn /\ HeardIsOwn
Silent == SilencedStays /\ NothingEnded

CaptureInv == SocketsInv /\ Counted /\ (~ gaveUp => InTurn /\ Silent)

-----------------------------------------------------------------------------
(* Types                                                                   *)

\* A message joins a queue.
LEMMA Appended ==
    ASSUME NEW S, NEW q \in Seq(S), NEW m \in S
    PROVE  /\ Append(q, m) \in Seq(S)
           /\ Len(Append(q, m)) = Len(q) + 1 /\ Len(q) \in Nat
           /\ \A i \in 1 .. Len(Append(q, m)) :
                IF i = Len(q) + 1 THEN Append(q, m)[i] = m
                ELSE i \in 1 .. Len(q) /\ Append(q, m)[i] = q[i]
           /\ \A i \in 1 .. Len(q) : i \in 1 .. Len(Append(q, m)) /\ Append(q, m)[i] = q[i]
BY AppendProperties, LenProperties

\* A message leaves a queue.
LEMMA Taken ==
    ASSUME NEW S, NEW q \in Seq(S), q # <<>>
    PROVE  /\ Tail(q) \in Seq(S) /\ Head(q) \in S
           /\ Len(q) \in Nat /\ 1 \in 1 .. Len(q) /\ Head(q) = q[1]
           /\ Len(Tail(q)) = Len(q) - 1
           /\ \A i \in 1 .. Len(Tail(q)) : i + 1 \in 1 .. Len(q) /\ Tail(q)[i] = q[i + 1]
<1>1. Len(q) \in Nat /\ Len(q) # 0
    BY LenProperties, EmptySeq
<1> QED BY <1>1, HeadTailProperties, ElementOfSeq

\* The sets of the model are constants.
LEMMA Constants ==
    /\ Captures' = Captures /\ Wire' = Wire
    /\ Starting' = Starting /\ Answering' = Answering
    /\ \A pc : At(pc)' = At(pc)
BY DEF Captures, Wire, Starting, Answering, At

\* TypeOK in parts: the panel's tasks, the link, and the core.
PanelTypes ==
    /\ capture \in 0 .. MaxCaptures
    /\ state \in {"waiting", "capturing", "awaiting", "playing"}
    /\ speech \in BOOLEAN /\ token \in BOOLEAN
    /\ fetch \in {"loop", "detected", "starting", "sending", "awaiting",
                  "finishing", "ending"}
    /\ muted \in BOOLEAN /\ muting \in BOOLEAN
    /\ frames \in 0 .. MaxFrames /\ mutes \in 0 .. MaxMutes
    /\ silenced \subseteq Captures

StreamTypes ==
    /\ bits \subseteq {"ready", "failed", "response"}
    /\ allowed \in BOOLEAN /\ pending \subseteq {"end", "cancel"}
    /\ buffer \in Seq(Captures) /\ Len(buffer) <= Capacity
    /\ \/ sender \in {At(pc) : pc \in {"receiving", "empty", "check", "cancelling"}}
       \/ sender \in [pc : {"batch"}, capture : Captures]
    /\ lostEnd \in 0 .. MaxCaptures /\ strayed \subseteq Captures
    /\ gaveUp \in BOOLEAN

Replies == {"ready", "rejected", "failed", "spoken", "unspoken"}

LinkTypes ==
    /\ link \in {"up", "lost"}
    /\ up \in Seq([type : {"start", "audio", "end", "cancel"}, capture : 0 .. MaxCaptures])
    /\ down \in Seq(Replies)

CoreTypes ==
    /\ \/ handler \in {At("idle"), At("gone")}
       \/ handler \in [pc : Starting \cup Answering, capture : Captures]
    /\ session \in 0 .. MaxCaptures /\ sockets \subseteq Captures
    /\ heard \subseteq Captures
    /\ commands \subseteq SUBSET Captures

LEMMA Parts ==
    /\ TypeOK <=> PanelTypes /\ StreamTypes /\ LinkTypes /\ CoreTypes
    /\ PanelTypes' /\ StreamTypes' /\ LinkTypes' /\ CoreTypes' => TypeOK'
BY DEF TypeOK, PanelTypes, StreamTypes, LinkTypes, CoreTypes, Replies

\* A part whose variables a step leaves alone stays true.
LEMMA PartsKept ==
    /\ PanelTypes /\ UNCHANGED panel => PanelTypes'
    /\ StreamTypes /\ UNCHANGED <<flags, sender, history>> => StreamTypes'
    /\ LinkTypes /\ UNCHANGED <<link, up, down>> => LinkTypes'
    /\ CoreTypes /\ UNCHANGED core => CoreTypes'
BY Constants DEF PanelTypes, StreamTypes, LinkTypes, CoreTypes, panel, flags, history, core,
    Replies

LEMMA NoMessages == \A S : <<>> \in Seq(S)
OBVIOUS

LEMMA NothingBuffered == <<>> \in Seq(Captures) /\ Len(<<>>) <= Capacity
BY NoMessages, EmptySeq, VoiceAssumption

LEMMA InitTyped == Init => Typed /\ OneSession
<1> SUFFICES ASSUME Init PROVE Typed /\ OneSession
    OBVIOUS
<1>1. /\ buffer \in Seq(Captures) /\ Len(buffer) <= Capacity /\ up \in Seq(Wire)
      /\ up \in Seq([type : {"start", "audio", "end", "cancel"}, capture : 0 .. MaxCaptures])
      /\ down \in Seq({"ready", "rejected", "failed", "spoken", "unspoken"})
    BY NoMessages, NothingBuffered DEF Init
<1>0. 0 \in 0 .. MaxCaptures /\ 0 \in 0 .. MaxFrames /\ 0 \in 0 .. MaxMutes
    BY VoiceAssumption
<1>2. PanelTypes
    BY <1>0, Zenon DEF Init, PanelTypes
<1>s. StreamTypes
    BY <1>0, <1>1, Zenon DEF Init, StreamTypes
<1>3. LinkTypes /\ CoreTypes
    BY <1>1, VoiceAssumption DEF Init, LinkTypes, CoreTypes, Replies
<1>4. TypeOK
    BY <1>2, <1>s, <1>3, Parts
<1>5. Numbered
    BY <1>1, VoiceAssumption DEF Init, Numbered
<1>6. OneSession
    BY DEF Init, OneSession, At
<1> QED BY <1>4, <1>5, <1>6 DEF Typed

\* What the sequences on the wire are made of.
LEMMA WireMessages ==
    /\ \A s : s \in Seq(Wire) =>
         s \in Seq([type : {"start", "audio", "end", "cancel"}, capture : 0 .. MaxCaptures])
    /\ \A c \in Captures : Message("start", c) \in Wire /\ Message("audio", c) \in Wire
    /\ \A c \in 0 .. MaxCaptures : Message("end", c) \in Wire /\ Message("cancel", c) \in Wire
<1>1. Wire \subseteq [type : {"start", "audio", "end", "cancel"}, capture : 0 .. MaxCaptures]
    BY VoiceAssumption DEF Wire, Captures
<1>2. \A c \in Captures : Message("start", c) \in Wire /\ Message("audio", c) \in Wire
    BY DEF Wire, Message
<1>3. \A c \in 0 .. MaxCaptures : Message("end", c) \in Wire /\ Message("cancel", c) \in Wire
    BY DEF Wire, Message
<1> QED BY <1>1, <1>2, <1>3, SeqMonotonic

\* The steps of the link.
LEMMA LinkTyped ==
    ASSUME Typed, Lose \/ Deliver
    PROVE  Typed'
<1> USE Constants DEF Typed, Numbered, panel, core, flags, history
<1>p. PanelTypes /\ StreamTypes /\ LinkTypes /\ CoreTypes
    BY Parts
<1>1. CASE Lose
    <2>1. CoreTypes' /\ PanelTypes'
        BY <1>p, <1>1, PartsKept DEF Lose
    <2>2. LinkTypes'
        BY <1>p, <1>1, NoMessages DEF LinkTypes, Lose, Replies
    <2>3. StreamTypes'
        BY <1>p, <1>1 DEF StreamTypes, Lose
    <2>4. TypeOK'
        BY <2>1, <2>2, <2>3, Parts
    <2> QED BY <1>1, <2>4 DEF Lose
<1>2. CASE Deliver
    <2>0. down' \in Seq(Replies) /\ Head(down) \in Replies
        BY <1>p, <1>2, Taken DEF LinkTypes, Deliver
    <2>1. CoreTypes'
        BY <1>p, <1>2, PartsKept DEF Deliver
    <2>2. LinkTypes'
        BY <1>p, <1>2, <2>0 DEF LinkTypes, Deliver, Replies
    <2>3. PanelTypes'
        BY <1>p, <1>2, <2>0 DEF PanelTypes, Deliver, Replies
    <2>4. StreamTypes'
        BY <1>p, <1>2, <2>0 DEF StreamTypes, Deliver, Replies
    <2>5. TypeOK'
        BY <2>1, <2>2, <2>3, <2>4, Parts
    <2> QED BY <1>2, <2>5 DEF Deliver
<1> QED BY <1>1, <1>2

\* The steps of wake_word_fetch_task.
LEMMA FetchTyped ==
    ASSUME Typed, Detect \/ Fetch
    PROVE  Typed'
<1> USE Constants DEF Typed, Numbered, panel, core, flags, history, OnFailure, CancelVoiceAudio
<1>p. PanelTypes /\ StreamTypes /\ LinkTypes /\ CoreTypes
    BY Parts
<1>1. CASE Detect
    <2>1. PanelTypes'
        BY <1>p, <1>1 DEF PanelTypes, Detect
    <2>2. TypeOK'
        BY <1>p, <1>1, <2>1, PartsKept, Parts DEF Detect
    <2> QED BY <1>1, <2>2 DEF Detect
<1>2. CASE OnWakeWordDetected
    <2>1. PanelTypes' /\ capture' # 0 /\ frames' < MaxFrames
        BY <1>p, <1>2, VoiceAssumption DEF PanelTypes, OnWakeWordDetected
    <2>2. TypeOK'
        BY <1>p, <1>2, <2>1, PartsKept, Parts DEF OnWakeWordDetected
    <2> QED BY <1>2, <2>1, <2>2 DEF OnWakeWordDetected
<1>3. CASE StartVoiceAudio
    <2>1. buffer' \in Seq(Captures) /\ Len(buffer') <= Capacity
        BY <1>p, <1>3, NothingBuffered DEF StreamTypes, StartVoiceAudio
    <2>2. PanelTypes'
        BY <1>p, <1>3 DEF PanelTypes, StartVoiceAudio
    <2>3. StreamTypes'
        BY <1>p, <1>3, <2>1, VoiceAssumption DEF StreamTypes, StartVoiceAudio
    <2>4. TypeOK'
        BY <1>p, <1>3, <2>2, <2>3, PartsKept, Parts DEF StartVoiceAudio
    <2> QED BY <1>3, <2>4 DEF StartVoiceAudio
<1>4. CASE SendStart
    <2>1. capture \in Captures
        BY <1>p, <1>4 DEF PanelTypes, SendStart, Captures
    <2>2. up' \in Seq(Wire)
        BY <1>4, <2>1, Appended, WireMessages DEF SendStart
    <2>3. LinkTypes'
        BY <1>p, <1>4, <2>2, WireMessages DEF LinkTypes, SendStart, Replies
    <2>4. PanelTypes'
        BY <1>p, <1>4 DEF PanelTypes, SendStart
    <2>5. TypeOK'
        BY <1>p, <1>4, <2>3, <2>4, PartsKept, Parts DEF SendStart
    <2> QED BY <1>4, <2>2, <2>5 DEF SendStart
<1>5. CASE StartReturns
    <2>1. PanelTypes'
        BY <1>p, <1>5 DEF PanelTypes, StartReturns
    <2>2. gaveUp' \in BOOLEAN
        BY <1>p, <1>5 DEF StreamTypes, StartReturns
    <2>3. StreamTypes'
        BY <1>p, <1>5, <2>2 DEF StreamTypes, StartReturns
    <2>4. TypeOK'
        BY <1>p, <1>5, <2>1, <2>3, PartsKept, Parts DEF StartReturns
    <2> QED BY <1>5, <2>4 DEF StartReturns
<1>6. ASSUME NEW expires \in BOOLEAN, SendVoiceAudio(expires)
      PROVE  Typed'
    <2>1. CASE Refused
        <3>1. PanelTypes' /\ StreamTypes'
            BY <1>p, <1>6, <2>1 DEF PanelTypes, StreamTypes, SendVoiceAudio
        <3>2. TypeOK'
            BY <1>p, <1>6, <3>1, PartsKept, Parts DEF SendVoiceAudio
        <3> QED BY <1>6, <2>1, <3>2 DEF SendVoiceAudio
    <2>2. CASE ~ Refused
        <3>1. capture \in Captures
            BY <1>p, <1>6 DEF PanelTypes, SendVoiceAudio, Captures
        <3>2. buffer' \in Seq(Captures) /\ Len(buffer') <= Capacity
            BY <1>p, <1>6, <2>2, <3>1, Appended, VoiceAssumption
            DEF StreamTypes, SendVoiceAudio, Refused
        <3>3. StreamTypes'
            BY <1>p, <1>6, <2>2, <3>2 DEF StreamTypes, SendVoiceAudio
        <3>4. frames' \in 0 .. MaxFrames /\ (state' = "capturing" /\ fetch' # "finishing" => frames' < MaxFrames)
            BY <1>p, <1>6, <2>2, VoiceAssumption DEF PanelTypes, SendVoiceAudio
        <3>5. PanelTypes'
            BY <1>p, <1>6, <2>2, <3>4 DEF PanelTypes, SendVoiceAudio
        <3>6. TypeOK'
            BY <1>p, <1>6, <3>3, <3>5, PartsKept, Parts DEF SendVoiceAudio
        <3> QED BY <1>6, <2>2, <3>4, <3>6 DEF SendVoiceAudio
    <2> QED BY <2>1, <2>2
<1>7. CASE EndVoiceAudio
    <2>1. PanelTypes' /\ StreamTypes'
        BY <1>p, <1>7 DEF PanelTypes, StreamTypes, EndVoiceAudio
    <2>2. TypeOK'
        BY <1>p, <1>7, <2>1, PartsKept, Parts DEF EndVoiceAudio
    <2> QED BY <1>7, <2>2 DEF EndVoiceAudio
<1>8. ASSUME NEW playback \in {"submitted", "refused", "unsupported"}, OnResponse(playback)
      PROVE  Typed'
    <2>1. token' \in BOOLEAN
        BY <1>p, <1>8 DEF PanelTypes, OnResponse
    <2>2. PanelTypes'
        BY <1>p, <1>8, <2>1 DEF PanelTypes, OnResponse
    <2>3. TypeOK'
        BY <1>p, <1>8, <2>2, PartsKept, Parts DEF OnResponse
    <2> QED BY <1>8, <2>3 DEF OnResponse
<1>9. CASE PlaybackEnds
    <2>1. PanelTypes'
        BY <1>p, <1>9 DEF PanelTypes, PlaybackEnds
    <2>2. TypeOK'
        BY <1>p, <1>9, <2>1, PartsKept, Parts DEF PlaybackEnds
    <2> QED BY <1>9, <2>2 DEF PlaybackEnds
<1>10. CASE FinishCapture
    <2>1. PanelTypes'
        BY <1>p, <1>10 DEF PanelTypes, FinishCapture
    <2>2. TypeOK'
        BY <1>p, <1>10, <2>1, PartsKept, Parts DEF FinishCapture
    <2> QED BY <1>10, <2>2 DEF FinishCapture
<1> QED BY <1>1, <1>2, <1>3, <1>4, <1>5, <1>6, <1>7, <1>8, <1>9, <1>10 DEF Fetch

\* The button.
LEMMA MuteTyped ==
    ASSUME Typed, Mute \/ MuteFails \/ Unmute
    PROVE  Typed'
<1> USE Constants DEF Typed, Numbered, panel, core, flags, history, CancelVoiceAudio
<1>p. PanelTypes /\ StreamTypes /\ LinkTypes /\ CoreTypes
    BY Parts
<1>1. CASE Mute
    <2>1. silenced' \subseteq Captures
        BY <1>p, <1>1 DEF PanelTypes, Mute, Captures
    <2>2. PanelTypes'
        BY <1>p, <1>1, <2>1, VoiceAssumption DEF PanelTypes, Mute
    <2>3. StreamTypes'
        BY <1>p, <1>1 DEF StreamTypes, Mute
    <2>4. TypeOK'
        BY <1>p, <1>1, <2>2, <2>3, PartsKept, Parts DEF Mute
    <2> QED BY <1>1, <2>4 DEF Mute
<1>2. CASE MuteFails
    <2>1. PanelTypes'
        BY <1>p, <1>2 DEF PanelTypes, MuteFails
    <2>2. TypeOK'
        BY <1>p, <1>2, <2>1, PartsKept, Parts DEF MuteFails
    <2> QED BY <1>2, <2>2 DEF MuteFails
<1>3. CASE Unmute
    <2>1. PanelTypes'
        BY <1>p, <1>3 DEF PanelTypes, Unmute
    <2>2. TypeOK'
        BY <1>p, <1>3, <2>1, PartsKept, Parts DEF Unmute
    <2> QED BY <1>3, <2>2 DEF Unmute
<1> QED BY <1>1, <1>2, <1>3

\* A message of the sender, when the link is up.
LEMMA TransmitTyped ==
    ASSUME Typed, NEW m \in Wire, Transmit(m)
    PROVE  /\ up' \in Seq(Wire)
           /\ bits' \subseteq {"ready", "failed", "response"} /\ allowed' \in BOOLEAN
<1>1. up' \in Seq(Wire)
    BY Appended DEF Typed, Numbered, Transmit
<1> QED BY <1>1 DEF Typed, TypeOK, Transmit

\* The steps of voice_sender_task.
LEMMA SenderTyped ==
    ASSUME Typed, Sender
    PROVE  Typed'
<1> USE Constants DEF Typed, Numbered, panel, core, flags, history
<1>p. PanelTypes /\ StreamTypes /\ LinkTypes /\ CoreTypes
    BY Parts
<1>c. capture \in 0 .. MaxCaptures /\ Capacity \in Nat
    BY <1>p, VoiceAssumption DEF PanelTypes
<1>1. CASE CheckCancel
    <2>0. buffer' \in Seq(Captures) /\ Len(buffer') <= Capacity
        BY <1>p, <1>1, NothingBuffered DEF StreamTypes, CheckCancel
    <2>1. StreamTypes'
        BY <2>0, <1>c, <1>p, <1>1 DEF StreamTypes, CheckCancel
    <2>2. TypeOK'
        BY <1>p, <1>1, <2>1, PartsKept, Parts DEF CheckCancel
    <2> QED BY <1>1, <2>2 DEF CheckCancel
<1>2. CASE SendCancel
    <2>1. /\ up' \in Seq(Wire)
          /\ bits' \subseteq {"ready", "failed", "response"} /\ allowed' \in BOOLEAN
        BY <1>2, <1>c, TransmitTyped, WireMessages DEF SendCancel
    <2>2. StreamTypes' /\ LinkTypes'
        BY <2>1, <1>2, <1>p, WireMessages DEF StreamTypes, LinkTypes, SendCancel, Replies
    <2>3. TypeOK'
        BY <1>p, <1>2, <2>2, PartsKept, Parts DEF SendCancel
    <2> QED BY <1>2, <2>1, <2>3 DEF SendCancel
<1>3. CASE TakeBatch
    <2>1. Head(buffer) \in Captures
        BY <1>3, <1>p, Taken DEF StreamTypes, TakeBatch
    <2>0. buffer' \in Seq(Captures) /\ Len(buffer') <= Capacity
        BY <1>p, <1>3, NothingBuffered DEF StreamTypes, TakeBatch
    <2>2. StreamTypes'
        BY <2>0, <1>c, <1>3, <1>p, <2>1 DEF StreamTypes, TakeBatch
    <2>3. TypeOK'
        BY <1>p, <1>3, <2>2, PartsKept, Parts DEF TakeBatch
    <2> QED BY <1>3, <2>3 DEF TakeBatch
<1>4. CASE TimeOut
    <2>1. StreamTypes'
        BY <1>4, <1>p DEF StreamTypes, TimeOut
    <2>2. TypeOK'
        BY <1>p, <1>4, <2>1, PartsKept, Parts DEF TimeOut
    <2> QED BY <1>4, <2>2 DEF TimeOut
<1>5. CASE SendBatch
    <2>1. sender.capture \in Captures
        BY <1>5, <1>p DEF StreamTypes, SendBatch, At
    <2>2. /\ up' \in Seq(Wire)
          /\ bits' \subseteq {"ready", "failed", "response"} /\ allowed' \in BOOLEAN
        BY <1>5, <2>1, TransmitTyped, WireMessages DEF SendBatch
    <2>0. buffer' \in Seq(Captures) /\ Len(buffer') <= Capacity
        BY <1>p, <1>5, NothingBuffered DEF StreamTypes, SendBatch
    <2>3. StreamTypes' /\ LinkTypes'
        BY <2>0, <1>c, <2>1, <2>2, <1>5, <1>p, WireMessages
        DEF StreamTypes, LinkTypes, SendBatch, Replies
    <2>4. TypeOK'
        BY <1>p, <1>5, <2>3, PartsKept, Parts DEF SendBatch
    <2> QED BY <1>5, <2>2, <2>4 DEF SendBatch
<1>6. CASE SendEnd
    <2>1. /\ up' \in Seq(Wire)
          /\ bits' \subseteq {"ready", "failed", "response"} /\ allowed' \in BOOLEAN
        BY <1>6, <1>c, <1>p, TransmitTyped, WireMessages DEF SendEnd, StreamTypes
    <2>2. StreamTypes' /\ LinkTypes'
        BY <1>c, <2>1, <1>6, <1>p, WireMessages DEF StreamTypes, LinkTypes, SendEnd, Replies
    <2>3. TypeOK'
        BY <1>p, <1>6, <2>2, PartsKept, Parts DEF SendEnd
    <2> QED BY <1>6, <2>1, <2>3 DEF SendEnd
<1> QED BY <1>1, <1>2, <1>3, <1>4, <1>5, <1>6 DEF Sender

\* What the handler takes from the link.
LEMMA ReceiveTyped ==
    ASSUME Typed, NEW type, Receive(type)
    PROVE  /\ up # <<>> /\ Head(up) \in Wire /\ Head(up).type = type
           /\ up' \in Seq(Wire)
           /\ handler.pc = "idle" /\ handler.capture = 0
<1>1. up # <<>> /\ Head(up).type = type /\ up' = Tail(up) /\ up \in Seq(Wire)
    BY DEF Receive, Typed, Numbered
<1>2. Head(up) \in Wire /\ Tail(up) \in Seq(Wire)
    BY <1>1, Taken
<1>3. handler.pc = "idle" /\ handler.capture = 0
    BY DEF Receive, At
<1> QED BY <1>1, <1>2, <1>3

\* What its answer leaves.
LEMMA ReplyTyped ==
    ASSUME Typed, NEW m \in Replies, NEW open \in SUBSET Captures,
           NEW current \in 0 .. MaxCaptures, Reply(m, open, current)
    PROVE  /\ down' \in Seq(Replies)
           /\ handler' \in {At("idle"), At("gone")}
           /\ session' \in {0, current} /\ sockets' \subseteq open
<1>1. down \in Seq(Replies)
    BY Parts DEF Typed, LinkTypes
<1>2. Append(down, m) \in Seq(Replies)
    BY <1>1, Appended
<1> QED BY <1>1, <1>2 DEF Reply

\* The steps of the handler.
LEMMA HandlerTyped ==
    ASSUME Typed, Handler
    PROVE  Typed'
<1> USE Constants DEF Typed, Numbered, panel, core, flags, history
<1>p. PanelTypes /\ StreamTypes /\ LinkTypes /\ CoreTypes
    BY Parts
<1>q. 0 \in 0 .. MaxCaptures /\ session \in 0 .. MaxCaptures /\ sockets \in SUBSET Captures
    BY <1>p, VoiceAssumption DEF CoreTypes
<1>r. "ready" \in Replies /\ "rejected" \in Replies /\ "failed" \in Replies
      /\ "spoken" \in Replies /\ "unspoken" \in Replies
    BY DEF Replies
<1> DEFINE After == /\ down' \in Seq(Replies)
                    /\ handler' \in {At("idle"), At("gone")}
                    /\ session' \in 0 .. MaxCaptures /\ sockets' \subseteq Captures
<1>1. CASE ReceiveStart
    <2>1. Head(up).type = "start" /\ Head(up).capture \in Captures /\ up' \in Seq(Wire)
        BY <1>1, ReceiveTyped DEF ReceiveStart, Wire
    <2>2. After \/ (handler' = [pc |-> "connecting", capture |-> Head(up).capture]
                     /\ UNCHANGED <<down, sockets, session>>)
        BY <1>1, <1>q, <1>r, ReplyTyped DEF ReceiveStart
    <2>3. CoreTypes'
        BY <1>p, <1>1, <2>1, <2>2 DEF CoreTypes, ReceiveStart, Starting
    <2>4. LinkTypes'
        BY <1>p, <1>1, <2>1, <2>2, WireMessages DEF LinkTypes, ReceiveStart
    <2>5. TypeOK'
        BY <1>p, <1>1, <2>3, <2>4, PartsKept, Parts DEF ReceiveStart
    <2> QED BY <1>1, <2>1, <2>5 DEF ReceiveStart
<1>2. CASE StartProceeds
    <2>1. handler.capture \in Captures /\ handler.pc \in Starting
        BY <1>2, <1>p DEF CoreTypes, StartProceeds, At, Starting
    <2>2. handler.capture \in 0 .. MaxCaptures
        BY <2>1 DEF Captures
    <2>3. CASE handler.pc = "preparing"
        <3>1. Reply("ready", sockets, handler.capture) /\ heard' = {}
            BY <1>2, <2>3 DEF StartProceeds
        <3>2. After
            BY <3>1, <2>2, <1>q, <1>r, ReplyTyped
        <3>3. CoreTypes' /\ LinkTypes'
            BY <3>1, <3>2, <1>p, <1>2 DEF CoreTypes, LinkTypes, StartProceeds
        <3>4. TypeOK'
            BY <1>p, <1>2, <3>3, PartsKept, Parts DEF StartProceeds
        <3> QED BY <1>2, <3>4 DEF StartProceeds
    <2>4. CASE handler.pc # "preparing"
        <3>1. handler \in [pc : Starting \cup Answering, capture : Captures]
            BY <2>1, <1>p DEF CoreTypes, At, Starting
        <3>2. AfterStep[handler.pc] \in Starting
            BY <2>1, <2>4 DEF AfterStep, Starting
        <3>3. handler' \in [pc : Starting \cup Answering, capture : Captures]
            BY <1>2, <2>4, <3>1, <3>2 DEF StartProceeds
        <3>4. sockets' \subseteq Captures /\ UNCHANGED <<session, heard, down>>
            BY <1>2, <1>q, <2>1, <2>4 DEF StartProceeds
        <3>5. CoreTypes' /\ LinkTypes'
            BY <3>3, <3>4, <1>p, <1>2 DEF CoreTypes, LinkTypes, StartProceeds
        <3>6. TypeOK'
            BY <1>p, <1>2, <3>5, PartsKept, Parts DEF StartProceeds
        <3> QED BY <1>2, <3>6 DEF StartProceeds
    <2> QED BY <2>3, <2>4
<1>3. CASE StartFails
    <2>1. sockets \ {handler.capture} \in SUBSET Captures
        BY <1>q
    <2>2. After
        BY <1>3, <2>1, <1>q, <1>r, ReplyTyped DEF StartFails
    <2>3. CoreTypes' /\ LinkTypes'
        BY <1>p, <1>3, <2>2 DEF CoreTypes, LinkTypes, StartFails
    <2>4. TypeOK'
        BY <1>p, <1>3, <2>3, PartsKept, Parts DEF StartFails
    <2> QED BY <1>3, <2>4 DEF StartFails
<1>4. CASE ReceiveAudio
    <2>1. Head(up).type = "audio" /\ Head(up).capture \in Captures /\ up' \in Seq(Wire)
        BY <1>4, ReceiveTyped DEF ReceiveAudio, Wire
    <2>2. sockets \ {session} \in SUBSET Captures
        BY <1>q
    <2>3. heard' \subseteq Captures /\ (After \/ UNCHANGED <<handler, sockets, session, down>>)
        BY <1>4, <1>p, <2>1, <2>2, <1>q, <1>r, ReplyTyped DEF ReceiveAudio, CoreTypes
    <2>4. CoreTypes'
        BY <1>p, <1>4, <2>3 DEF CoreTypes, ReceiveAudio
    <2>5. LinkTypes'
        BY <1>p, <1>4, <2>1, <2>3, WireMessages DEF LinkTypes, ReceiveAudio
    <2>6. TypeOK'
        BY <1>p, <1>4, <2>4, <2>5, PartsKept, Parts DEF ReceiveAudio
    <2> QED BY <1>4, <2>1, <2>6 DEF ReceiveAudio
<1>5. CASE ReceiveEnd
    <2>1. up' \in Seq(Wire)
        BY <1>5, ReceiveTyped DEF ReceiveEnd
    <2>2. CASE session = 0
        <3>1. After
            BY <1>5, <2>2, <1>q, <1>r, ReplyTyped DEF ReceiveEnd
        <3>2. CoreTypes'
            BY <1>p, <1>5, <3>1 DEF CoreTypes, ReceiveEnd
        <3>3. LinkTypes'
            BY <1>p, <1>5, <2>1, <3>1, WireMessages DEF LinkTypes, ReceiveEnd
        <3>4. TypeOK'
            BY <1>p, <1>5, <3>2, <3>3, PartsKept, Parts DEF ReceiveEnd
        <3> QED BY <1>5, <2>1, <3>4 DEF ReceiveEnd
    <2>3. CASE session # 0
        <3>1. session \in Captures
            BY <1>q, <2>3 DEF Captures
        <3>0. /\ handler' = [pc |-> "transcribing", capture |-> session]
              /\ session' = 0 /\ UNCHANGED <<sockets, heard, commands>>
            BY <1>5, <2>3 DEF ReceiveEnd
        <3>2. CoreTypes'
            BY <1>p, <3>0, <3>1, <1>q DEF CoreTypes, Answering
        <3>3. LinkTypes'
            BY <1>p, <1>5, <2>1, <2>3, WireMessages DEF LinkTypes, ReceiveEnd
        <3>4. TypeOK'
            BY <1>p, <1>5, <3>2, <3>3, PartsKept, Parts DEF ReceiveEnd
        <3> QED BY <1>5, <2>1, <3>4 DEF ReceiveEnd
    <2> QED BY <2>2, <2>3
<1>6. CASE ReceiveCancel
    <2>1. up' \in Seq(Wire)
        BY <1>6, ReceiveTyped DEF ReceiveCancel
    <2>2. CoreTypes'
        BY <1>p, <1>6, <1>q DEF CoreTypes, ReceiveCancel
    <2>3. LinkTypes'
        BY <1>p, <1>6, <2>1, WireMessages DEF LinkTypes, ReceiveCancel
    <2>4. TypeOK'
        BY <1>p, <1>6, <2>2, <2>3, PartsKept, Parts DEF ReceiveCancel
    <2> QED BY <1>6, <2>1, <2>4 DEF ReceiveCancel
<1>7. ASSUME NEW t \in Transcripts, Transcribed(t)
      PROVE  Typed'
    <2>1. handler \in [pc : Starting \cup Answering, capture : Captures]
        BY <1>7, <1>p DEF CoreTypes, Transcribed, At
    <2>2. handler' \in [pc : Starting \cup Answering, capture : Captures]
        BY <1>7, <2>1 DEF Transcribed, Answering
    <2>3. sockets' \subseteq Captures /\ commands' \subseteq SUBSET Captures
          /\ UNCHANGED <<session, heard>>
        BY <1>7, <1>p DEF CoreTypes, Transcribed
    <2>4. CoreTypes'
        BY <1>p, <2>2, <2>3 DEF CoreTypes
    <2>5. TypeOK'
        BY <1>p, <1>7, <2>4, PartsKept, Parts DEF Transcribed
    <2> QED BY <1>7, <2>5 DEF Transcribed
<1>8. CASE TranscriptionFails
    <2>1. sockets \ {handler.capture} \in SUBSET Captures
        BY <1>q
    <2>2. After
        BY <1>8, <2>1, <1>q, <1>r, ReplyTyped DEF TranscriptionFails
    <2>3. CoreTypes' /\ LinkTypes'
        BY <1>p, <1>8, <2>2 DEF CoreTypes, LinkTypes, TranscriptionFails
    <2>4. TypeOK'
        BY <1>p, <1>8, <2>3, PartsKept, Parts DEF TranscriptionFails
    <2> QED BY <1>8, <2>4 DEF TranscriptionFails
<1>9. CASE Published
    <2>1. handler \in [pc : Starting \cup Answering, capture : Captures]
        BY <1>9, <1>p DEF CoreTypes, Published, At
    <2>2. handler' \in [pc : Starting \cup Answering, capture : Captures]
        BY <1>9, <2>1 DEF Published, Answering
    <2>3. CoreTypes'
        BY <1>p, <1>9, <2>2 DEF CoreTypes, Published
    <2>4. TypeOK'
        BY <1>p, <1>9, <2>3, PartsKept, Parts DEF Published
    <2> QED BY <1>9, <2>4 DEF Published
<1>10. ASSUME NEW m \in {"spoken", "unspoken"}, Answer(m)
       PROVE  Typed'
    <2>1. m \in Replies
        BY <1>r
    <2>2. After
        BY <1>10, <2>1, <1>q, ReplyTyped DEF Answer
    <2>3. CoreTypes' /\ LinkTypes'
        BY <1>p, <1>10, <2>2 DEF CoreTypes, LinkTypes, Answer
    <2>4. TypeOK'
        BY <1>p, <1>10, <2>3, PartsKept, Parts DEF Answer
    <2> QED BY <1>10, <2>4 DEF Answer
<1>11. CASE Leave
    <2>1. CoreTypes'
        BY <1>p, <1>11, <1>q DEF CoreTypes, Leave
    <2>2. TypeOK'
        BY <1>p, <1>11, <2>1, PartsKept, Parts DEF Leave
    <2> QED BY <1>11, <2>2 DEF Leave
<1> QED BY <1>1, <1>2, <1>3, <1>4, <1>5, <1>6, <1>7, <1>8, <1>9, <1>10, <1>11 DEF Handler

LEMMA TypedStep == Typed /\ [Next]_vars => Typed'
<1> SUFFICES ASSUME Typed, [Next]_vars PROVE Typed'
    OBVIOUS
<1>1. CASE UNCHANGED vars
    BY <1>1, Constants, Parts, PartsKept DEF Typed, Numbered, vars, panel, core, flags, history
<1>2. CASE Next
    BY <1>2, LinkTyped, FetchTyped, MuteTyped, SenderTyped, HandlerTyped DEF Next
<1> QED BY <1>1, <1>2

\* The types hold in every run, whatever the bounds.
THEOREM VoiceTypes == Spec => []TypeOK
<1>1. Init => Typed
    BY InitTyped
<1>2. Typed => TypeOK
    BY DEF Typed
<1> QED BY <1>1, <1>2, TypedStep, PTL DEF Spec

-----------------------------------------------------------------------------
(* Sockets                                                                 *)

\* What an answer closes, when only the session it names is open.
LEMMA ReplyCloses ==
    ASSUME NEW m, NEW open, NEW current, Reply(m, open, current),
           open \subseteq {current} \ {0}
    PROVE  /\ handler'.pc = "idle" \/ (handler'.pc = "gone" /\ session' = 0 /\ sockets' = {})
           /\ sockets' \subseteq {session'}
<1>1. CASE link = "up"
    BY <1>1 DEF Reply, At
<1>2. CASE link # "up"
    BY <1>2 DEF Reply, At
<1> QED BY <1>1, <1>2

\* What the panel does leaves the core alone.
LEMMA PanelLeavesCore ==
    Lose \/ Deliver \/ Detect \/ Fetch \/ Mute \/ MuteFails \/ Unmute \/ Sender => UNCHANGED core
<1>1. Lose \/ Deliver \/ Detect \/ Mute \/ MuteFails \/ Unmute => UNCHANGED core
    BY Zenon DEF Lose, Deliver, Detect, Mute, MuteFails, Unmute
<1>2. Sender => UNCHANGED core
    BY Zenon DEF Sender, CheckCancel, SendCancel, TakeBatch, TimeOut, SendBatch, SendEnd
<1>3. Fetch => UNCHANGED core
    BY Zenon DEF Fetch, OnWakeWordDetected, StartVoiceAudio, SendStart, StartReturns,
       SendVoiceAudio, FinishCapture, EndVoiceAudio, OnResponse, PlaybackEnds
<1> QED BY <1>1, <1>2, <1>3

LEMMA SocketsStep == SocketsInv /\ [Next]_vars => SocketsInv'
<1> SUFFICES ASSUME SocketsInv, [Next]_vars PROVE SocketsInv'
    OBVIOUS
<1>t. Typed /\ Typed' /\ sockets \subseteq Captures /\ 0 \notin Captures
    <2>1. Typed /\ Typed'
        BY TypedStep DEF SocketsInv
    <2>2. 0 \notin Captures
        BY DEF Captures
    <2> QED BY <2>1, <2>2 DEF Typed, TypeOK
<1>i. /\ handler.pc # "idle" => session = 0
      /\ handler.pc \in {"publishing", "speaking"} => sockets = {}
      /\ sockets \subseteq {session, handler.capture} \ {0}
      /\ handler.pc = "gone" => sockets = {}
      /\ handler.pc = "idle" => handler.capture = 0 /\ sockets \subseteq {session}
    <2>1. handler.pc = "idle" => handler.capture = 0
        BY <1>t DEF Typed, TypeOK, At, Starting, Answering
    <2> QED BY <1>t, <2>1 DEF SocketsInv, OneSession, NoOrphanSocket
<1> SUFFICES OneSession' /\ NoOrphanSocket'
    BY <1>t DEF SocketsInv
<1> USE DEF OneSession, NoOrphanSocket
<1>a. ASSUME UNCHANGED core
      PROVE  OneSession' /\ NoOrphanSocket'
    BY <1>i, <1>a DEF core
<1>b. ASSUME /\ handler'.pc = "idle" \/ (handler'.pc = "gone" /\ session' = 0 /\ sockets' = {})
             /\ sockets' \subseteq {session'}
      PROVE  OneSession' /\ NoOrphanSocket'
    BY <1>b
<1>0. CASE UNCHANGED vars
    BY <1>0, <1>a DEF vars
<1>1. CASE Lose \/ Deliver \/ Detect \/ Fetch \/ Mute \/ MuteFails \/ Unmute \/ Sender
    BY <1>1, <1>a, PanelLeavesCore
<1>2. CASE ReceiveStart
    <2>1. handler.pc = "idle"
        BY <1>2 DEF ReceiveStart, Receive, At
    <2>2. CASE session # 0
        BY <1>2, <1>i, <1>b, <2>1, <2>2, ReplyCloses DEF ReceiveStart
    <2>3. CASE session = 0
        BY <1>2, <1>i, <2>1, <2>3 DEF ReceiveStart
    <2> QED BY <2>2, <2>3
<1>3. CASE StartProceeds
    <2>1. session = 0 /\ handler.pc \in Starting
        BY <1>3, <1>i DEF StartProceeds, Starting
    <2>2. CASE handler.pc = "preparing"
        BY <1>3, <1>i, <1>b, <2>1, <2>2, ReplyCloses DEF StartProceeds
    <2>3. CASE handler.pc # "preparing"
        <3>1. /\ handler' = [handler EXCEPT !.pc = AfterStep[@]] /\ session' = 0
              /\ sockets' \subseteq sockets \cup {handler.capture}
            BY <1>3, <2>1, <2>3 DEF StartProceeds
        <3>2. AfterStep[handler.pc] \in Starting
            BY <2>1, <2>3 DEF AfterStep, Starting
        <3>3. handler \in [pc : Starting \cup Answering, capture : Captures]
            BY <1>t, <2>1 DEF Typed, TypeOK, At, Starting
        <3>4. handler'.pc \in Starting /\ handler'.capture = handler.capture
            BY <3>1, <3>2, <3>3
        <3> QED BY <1>i, <2>1, <3>1, <3>4 DEF Starting
    <2> QED BY <2>2, <2>3
<1>4. CASE StartFails
    <2>1. session = 0 /\ sockets \ {handler.capture} = {}
        BY <1>4, <1>i DEF StartFails, Starting
    <2> QED BY <1>4, <1>b, <2>1, ReplyCloses DEF StartFails
<1>5. CASE ReceiveAudio
    <2>1. handler.pc = "idle" /\ sockets \subseteq {session} \ {0}
        BY <1>5, <1>i DEF ReceiveAudio, Receive, At
    <2>2. CASE Reply("rejected", sockets, session)
        BY <1>b, <2>1, <2>2, ReplyCloses
    <2>3. CASE UNCHANGED <<handler, sockets, session, down>>
        BY <1>i, <2>3
    <2>4. CASE Reply("failed", sockets \ {session}, 0)
        BY <1>b, <2>1, <2>4, ReplyCloses
    <2> QED BY <1>5, <2>2, <2>3, <2>4 DEF ReceiveAudio
<1>6. CASE ReceiveEnd
    <2>1. handler.pc = "idle" /\ sockets \subseteq {session} \ {0}
        BY <1>6, <1>i DEF ReceiveEnd, Receive, At
    <2>2. CASE session = 0
        BY <1>6, <1>b, <2>1, <2>2, ReplyCloses DEF ReceiveEnd
    <2>3. CASE session # 0
        BY <1>6, <2>1, <2>3 DEF ReceiveEnd
    <2> QED BY <2>2, <2>3
<1>7. CASE ReceiveCancel
    <2>1. handler.pc = "idle" /\ sockets' = {} /\ session' = 0
        BY <1>7, <1>i DEF ReceiveCancel, Receive, At
    <2> QED BY <1>7, <1>b, <2>1 DEF ReceiveCancel, At
<1>8. ASSUME NEW t \in Transcripts, Transcribed(t)
      PROVE  OneSession' /\ NoOrphanSocket'
    <2>1. session' = 0 /\ sockets' = {}
        BY <1>8, <1>i DEF Transcribed
    <2>2. handler \in [pc : Starting \cup Answering, capture : Captures]
        BY <1>8, <1>t DEF Typed, TypeOK, At, Transcribed
    <2> QED BY <1>8, <2>1, <2>2 DEF Transcribed
<1>9. CASE TranscriptionFails
    <2>1. sockets \ {handler.capture} = {}
        BY <1>9, <1>i DEF TranscriptionFails
    <2> QED BY <1>9, <1>b, <2>1, ReplyCloses DEF TranscriptionFails
<1>10. CASE Published
    <2>1. session' = 0 /\ sockets' = {}
        BY <1>10, <1>i DEF Published
    <2>2. handler \in [pc : Starting \cup Answering, capture : Captures]
        BY <1>10, <1>t DEF Typed, TypeOK, At, Published
    <2> QED BY <1>10, <2>1, <2>2 DEF Published
<1>11. ASSUME NEW m \in {"spoken", "unspoken"}, Answer(m)
       PROVE  OneSession' /\ NoOrphanSocket'
    <2>1. sockets = {}
        BY <1>11, <1>i DEF Answer
    <2> QED BY <1>11, <1>b, <2>1, ReplyCloses DEF Answer
<1>12. CASE Leave
    <2>1. sockets' = {} /\ session' = 0
        BY <1>12, <1>i DEF Leave, At
    <2> QED BY <1>12, <1>b, <2>1 DEF Leave, At
<1> QED BY <1>0, <1>1, <1>2, <1>3, <1>4, <1>5, <1>6, <1>7, <1>8, <1>9, <1>10, <1>11, <1>12
        DEF Next, Handler

\* No socket to Home Assistant outlives the session it was opened for, and none
\* the handler: start, send_audio, finish and close between them close
\* everything that was opened (voice_audio_service.py, assist_pipeline.py).
THEOREM SocketsClosed == Spec => []NoOrphanSocket
<1>1. Init => SocketsInv
    BY InitTyped DEF Init, SocketsInv, NoOrphanSocket, At
<1>2. SocketsInv => NoOrphanSocket
    BY DEF SocketsInv
<1> QED BY <1>1, <1>2, SocketsStep, PTL DEF Spec

-----------------------------------------------------------------------------
(* Captures                                                                *)

\* What a message that is sent does to what is on its way.
LEMMA SentEffect ==
    ASSUME Typed, NEW m \in Wire, up' = Append(up, m), strayed \subseteq strayed'
    PROVE  /\ StartIn' <=> StartIn \/ m.type = "start"
           /\ EndIn' <=> EndIn \/ m.type = "end"
           /\ OwnIn' => OwnIn \/ Own(m)'
           /\ OneStart /\ ~ (StartIn /\ (m.type = "start" \/ Own(m)')) => OneStart'
<1>1. up \in Seq(Wire)
    BY DEF Typed, Numbered
<1>2. /\ Len(up') = Len(up) + 1 /\ Len(up) \in Nat
      /\ \A i \in 1 .. Len(up') : IF i = Len(up) + 1 THEN up'[i] = m
                                  ELSE i \in 1 .. Len(up) /\ up'[i] = up[i]
      /\ \A i \in 1 .. Len(up) : i \in 1 .. Len(up') /\ up'[i] = up[i]
    BY <1>1, Appended
<1>3. Len(up) + 1 \in 1 .. Len(up') /\ up'[Len(up) + 1] = m
    BY <1>2
<1>4. \A i \in 1 .. Len(up) : Own(up[i])' => Own(up[i])
    BY <1>2 DEF Own
<1>5. (StartIn' <=> StartIn \/ m.type = "start") /\ (EndIn' <=> EndIn \/ m.type = "end")
    BY <1>2, <1>3 DEF StartIn, EndIn
<1>6. OwnIn' => OwnIn \/ Own(m)'
    BY <1>2, <1>4 DEF OwnIn
<1>7. ASSUME OneStart, ~ (StartIn /\ (m.type = "start" \/ Own(m)'))
      PROVE  OneStart'
    <2>1. SUFFICES ASSUME NEW j \in 1 .. Len(up'), up'[j].type = "start", NEW i \in 1 .. Len(up')
                   PROVE  (up'[i].type = "start" => i = j) /\ (Own(up[i])' => i < j)
        BY DEF OneStart
    <2>2. CASE j \in 1 .. Len(up) /\ i \in 1 .. Len(up)
        BY <1>2, <1>4, <1>7, <2>1, <2>2 DEF OneStart
    <2>3. CASE j \in 1 .. Len(up) /\ i = Len(up) + 1
        BY <1>2, <1>3, <1>7, <2>1, <2>3 DEF StartIn
    <2>4. CASE j = Len(up) + 1
        <3>1. m.type = "start" /\ ~ StartIn /\ ~ Own(m)'
            BY <1>3, <1>7, <2>1, <2>4 DEF Own
        <3> QED BY <1>2, <1>3, <2>1, <2>4, <3>1 DEF StartIn
    <2> QED BY <1>2, <2>2, <2>3, <2>4
<1> QED BY <1>5, <1>6, <1>7

\* What a message that is received does to what is on its way.
LEMMA ReceivedEffect ==
    ASSUME Typed, up # <<>>, up' = Tail(up), strayed' = strayed
    PROVE  /\ StartIn' => StartIn
           /\ EndIn' => EndIn
           /\ OwnIn' => OwnIn
           /\ OneStart => OneStart'
           /\ OneStart /\ Head(up).type = "start" => ~ StartIn' /\ ~ OwnIn'
           /\ Head(up).type = "start" => StartIn
           /\ Head(up).type = "end" => EndIn
           /\ Own(Head(up)) => OwnIn
<1>1. up \in Seq(Wire)
    BY DEF Typed, Numbered
<1>2. /\ Len(up) \in Nat /\ 1 \in 1 .. Len(up) /\ Head(up) = up[1]
      /\ Len(up') = Len(up) - 1
      /\ \A i \in 1 .. Len(up') : i + 1 \in 1 .. Len(up) /\ up'[i] = up[i + 1]
    BY <1>1, Taken
<1>3. \A i \in 1 .. Len(up') : Own(up[i])' = Own(up[i + 1])
    BY <1>2 DEF Own
<1>4. /\ Head(up).type = "start" => StartIn
      /\ Head(up).type = "end" => EndIn
      /\ Own(Head(up)) => OwnIn
    BY <1>2 DEF StartIn, EndIn, OwnIn
<1>5. (StartIn' => StartIn) /\ (EndIn' => EndIn) /\ (OwnIn' => OwnIn)
    BY <1>2, <1>3 DEF StartIn, EndIn, OwnIn
<1>6. OneStart => OneStart'
    <2>1. SUFFICES ASSUME OneStart, NEW j \in 1 .. Len(up'), up'[j].type = "start",
                          NEW i \in 1 .. Len(up')
                   PROVE  (up'[i].type = "start" => i = j) /\ (Own(up[i])' => i < j)
        BY DEF OneStart
    <2>2. /\ j + 1 \in 1 .. Len(up) /\ up[j + 1].type = "start" /\ i + 1 \in 1 .. Len(up)
          /\ up'[i] = up[i + 1] /\ Own(up[i])' = Own(up[i + 1])
        BY <1>2, <1>3, <2>1
    <2>3. (up[i + 1].type = "start" => i + 1 = j + 1) /\ (Own(up[i + 1]) => i + 1 < j + 1)
        BY <2>1, <2>2 DEF OneStart
    <2> QED BY <2>2, <2>3
<1>7. OneStart /\ Head(up).type = "start" => ~ StartIn' /\ ~ OwnIn'
    <2>1. SUFFICES ASSUME OneStart, up[1].type = "start", NEW i \in 1 .. Len(up')
                   PROVE  up'[i].type # "start" /\ ~ Own(up[i])'
        BY <1>2 DEF StartIn, OwnIn
    <2>2. i + 1 \in 1 .. Len(up) /\ up'[i] = up[i + 1] /\ Own(up[i])' = Own(up[i + 1])
        BY <1>2, <1>3
    <2>3. (up[i + 1].type = "start" => i + 1 = 1) /\ (Own(up[i + 1]) => i + 1 < 1)
        BY <1>2, <2>1, <2>2 DEF OneStart
    <2> QED BY <2>2, <2>3
<1> QED BY <1>4, <1>5, <1>6, <1>7

\* A queue that stays holds what it held.
LEMMA NothingMoves ==
    /\ UNCHANGED <<up, strayed>> =>
         StartIn' = StartIn /\ EndIn' = EndIn /\ OwnIn' = OwnIn /\ OneStart' = OneStart
    /\ UNCHANGED down => ReadyIn' = ReadyIn
    /\ UNCHANGED <<buffer, capture>> => Buffered' = Buffered
    /\ UNCHANGED handler => Opening' = Opening
BY Constants DEF StartIn, EndIn, OwnIn, OneStart, Own, ReadyIn, Buffered, Opening

\* What a reply that is sent or read does to the acceptances on their way.
LEMMA ReplyEffect ==
    ASSUME Typed
    PROVE  /\ \A m \in Replies : down' = Append(down, m) => (ReadyIn' <=> ReadyIn \/ m = "ready")
           /\ down # <<>> /\ down' = Tail(down) =>
                (ReadyIn' => ReadyIn) /\ (Head(down) = "ready" => ReadyIn)
           /\ down' = <<>> => ~ ReadyIn'
<1>1. down \in Seq(Replies)
    BY Parts DEF Typed, LinkTypes
<1>2. ASSUME NEW m \in Replies, down' = Append(down, m)
      PROVE  ReadyIn' <=> ReadyIn \/ m = "ready"
    <2>1. /\ Len(down') = Len(down) + 1 /\ Len(down) \in Nat
          /\ \A i \in 1 .. Len(down') : IF i = Len(down) + 1 THEN down'[i] = m
                                        ELSE i \in 1 .. Len(down) /\ down'[i] = down[i]
          /\ \A i \in 1 .. Len(down) : i \in 1 .. Len(down') /\ down'[i] = down[i]
        BY <1>1, <1>2, Appended
    <2>2. Len(down) + 1 \in 1 .. Len(down') /\ down'[Len(down) + 1] = m
        BY <2>1
    <2> QED BY <2>1, <2>2 DEF ReadyIn
<1>3. ASSUME down # <<>>, down' = Tail(down)
      PROVE  (ReadyIn' => ReadyIn) /\ (Head(down) = "ready" => ReadyIn)
    <2>1. /\ 1 \in 1 .. Len(down) /\ Head(down) = down[1]
          /\ \A i \in 1 .. Len(down') : i + 1 \in 1 .. Len(down) /\ down'[i] = down[i + 1]
        BY <1>1, <1>3, Taken
    <2> QED BY <2>1 DEF ReadyIn
<1>4. down' = <<>> => ~ ReadyIn'
    BY EmptySeq DEF ReadyIn
<1> QED BY <1>2, <1>3, <1>4

\* The conjuncts of Counted about the queues.
BufferCounted == \A i \in 1 .. Len(buffer) : buffer[i] <= capture
UpCounted == \A i \in 1 .. Len(up) : up[i].capture <= capture

LEMMA SentCounted ==
    ASSUME Typed, UpCounted, capture' = capture, NEW m \in Wire, m.capture <= capture,
           up' = Append(up, m) \/ up' = up
    PROVE  UpCounted'
<1>1. CASE up' = up
    BY <1>1 DEF UpCounted
<1>2. CASE up' = Append(up, m)
    <2>1. \A i \in 1 .. Len(up') : IF i = Len(up) + 1 THEN up'[i] = m
                                   ELSE i \in 1 .. Len(up) /\ up'[i] = up[i]
        BY <1>2, Appended DEF Typed, Numbered
    <2> QED BY <2>1 DEF UpCounted
<1> QED BY <1>1, <1>2

LEMMA ReceivedCounted ==
    ASSUME Typed, UpCounted, capture' = capture, up # <<>>, up' = Tail(up)
    PROVE  UpCounted' /\ Head(up).capture <= capture
<1>1. /\ 1 \in 1 .. Len(up) /\ Head(up) = up[1]
      /\ \A i \in 1 .. Len(up') : i + 1 \in 1 .. Len(up) /\ up'[i] = up[i + 1]
    BY Taken DEF Typed, Numbered
<1> QED BY <1>1 DEF UpCounted

LEMMA CountedPanel ==
    ASSUME Typed, Counted, Lose \/ Deliver \/ Detect \/ Fetch \/ Mute \/ MuteFails \/ Unmute
    PROVE  Counted'
<1>t. /\ capture \in 0 .. MaxCaptures /\ bits \subseteq {"ready", "failed", "response"}
      /\ buffer \in Seq(Captures) /\ up \in Seq(Wire) /\ session \in 0 .. MaxCaptures
      /\ heard \subseteq Captures /\ silenced \subseteq Captures /\ commands \subseteq SUBSET Captures
      /\ \A i \in 1 .. Len(buffer) : buffer[i] \in Captures
      /\ \A i \in 1 .. Len(up) : up[i].capture \in 0 .. MaxCaptures
      /\ sender.capture \in 0 .. MaxCaptures /\ handler.capture \in 0 .. MaxCaptures
    <2>1. /\ capture \in 0 .. MaxCaptures /\ bits \subseteq {"ready", "failed", "response"}
          /\ buffer \in Seq(Captures) /\ up \in Seq(Wire) /\ session \in 0 .. MaxCaptures
          /\ heard \subseteq Captures /\ silenced \subseteq Captures /\ commands \subseteq SUBSET Captures
        BY DEF Typed, TypeOK, Numbered
    <2>2. /\ sender.capture \in 0 .. MaxCaptures /\ handler.capture \in 0 .. MaxCaptures
        BY VoiceAssumption DEF Typed, TypeOK, At, Captures
    <2>3. \A i \in 1 .. Len(up) : up[i].capture \in 0 .. MaxCaptures
        BY <2>1, ElementOfSeq, VoiceAssumption DEF Wire, Captures
    <2> QED BY <2>1, <2>2, <2>3, ElementOfSeq
<1>u. UNCHANGED core
    BY PanelLeavesCore
<1> USE DEF Counted, panel, flags, history, core
<1>1. CASE Lose
    BY <1>1, <1>u DEF Lose
<1>2. CASE Deliver
    BY <1>2, <1>u DEF Deliver
<1>3. CASE Detect
    BY <1>3, <1>u DEF Detect
<1>4. CASE OnWakeWordDetected
    <2>1. /\ capture' = capture + 1 /\ \A n \in 0 .. MaxCaptures : n <= capture => n <= capture'
          /\ UNCHANGED <<link, down, bits, muting, muted, buffer, up, sender, silenced>>
        BY <1>t, <1>4 DEF OnWakeWordDetected
    <2>2. /\ \A c \in heard \cup silenced : c \in 0 .. MaxCaptures
          /\ \A S \in commands : \A c \in S : c \in 0 .. MaxCaptures
          /\ \A i \in 1 .. Len(buffer) : buffer[i] \in 0 .. MaxCaptures
        BY <1>t DEF Captures
    <2> QED BY <1>t, <1>u, <2>1, <2>2
<1>5. CASE StartVoiceAudio
    <2>1. /\ \A i \in 1 .. Len(buffer') : buffer'[i] <= capture
          /\ UNCHANGED <<link, down, muting, muted, up, sender, silenced, capture>>
          /\ bits' = {} \/ bits' = bits
        BY <1>5, EmptySeq DEF StartVoiceAudio
    <2> QED BY <1>u, <2>1
<1>6. CASE SendStart
    <2>1. capture \in Captures
        BY <1>t, <1>6 DEF SendStart, Captures, Typed, Numbered
    <2>m. Message("start", capture) \in Wire
        BY <2>1, WireMessages
    <2>n. Message("start", capture).capture <= capture
        BY <1>t DEF Message
    <2>c. UpCounted
        BY DEF UpCounted
    <2>2. UpCounted'
        BY <1>6, <2>m, <2>n, <2>c, SentCounted DEF SendStart
    <2> QED BY <1>6, <1>u, <2>2 DEF SendStart, UpCounted
<1>7. CASE StartReturns
    BY <1>7, <1>u DEF StartReturns, OnFailure
<1>8. ASSUME NEW expires \in BOOLEAN, SendVoiceAudio(expires)
      PROVE  Counted'
    <2>1. \A i \in 1 .. Len(buffer') : buffer'[i] <= capture
        <3>1. CASE buffer' = buffer
            BY <3>1
        <3>2. CASE buffer' = Append(buffer, capture)
            <4>1. capture \in Captures
                BY <1>t, <1>8 DEF SendVoiceAudio, Captures, Typed, Numbered
            <4>2. \A i \in 1 .. Len(buffer') : IF i = Len(buffer) + 1 THEN buffer'[i] = capture
                        ELSE i \in 1 .. Len(buffer) /\ buffer'[i] = buffer[i]
                BY <1>t, <3>2, <4>1, Appended
            <4> QED BY <1>t, <4>2
        <3> QED BY <1>8, <3>1, <3>2 DEF SendVoiceAudio
    <2>2. UNCHANGED <<link, down, muting, muted, up, sender, silenced, capture>> /\ bits' \subseteq bits
        BY <1>8 DEF SendVoiceAudio, CancelVoiceAudio
    <2> QED BY <1>u, <2>1, <2>2
<1>9. CASE EndVoiceAudio
    BY <1>9, <1>u DEF EndVoiceAudio
<1>10. ASSUME NEW playback \in {"submitted", "refused", "unsupported"}, OnResponse(playback)
       PROVE  Counted'
    <2>1. UNCHANGED <<flags, link, down, muting, muted, up, sender, silenced, capture>>
        BY <1>10 DEF OnResponse
    <2> QED BY <1>u, <2>1
<1>11. CASE PlaybackEnds
    BY <1>11, <1>u DEF PlaybackEnds
<1>12. CASE Mute
    <2>1. silenced' \subseteq silenced \cup {capture}
        BY <1>12 DEF Mute
    <2>2. UNCHANGED <<link, down, buffer, up, sender, capture>> /\ bits' \subseteq bits /\ muted'
        BY <1>12 DEF Mute, CancelVoiceAudio
    <2> QED BY <1>t, <1>u, <2>1, <2>2
<1>13. CASE MuteFails
    BY <1>13, <1>u DEF MuteFails
<1>14. CASE Unmute
    BY <1>14, <1>u DEF Unmute
<1>15. CASE FinishCapture
    BY <1>15, <1>u DEF FinishCapture
<1> QED BY <1>1, <1>2, <1>3, <1>4, <1>5, <1>6, <1>7, <1>8, <1>9, <1>10, <1>11, <1>12, <1>13, <1>14,
           <1>15 DEF Fetch

LEMMA CountedSender ==
    ASSUME Typed, Counted, Sender
    PROVE  Counted'
<1>t. capture \in 0 .. MaxCaptures /\ buffer \in Seq(Captures)
    BY DEF Typed, TypeOK
<1>u. UNCHANGED <<core, panel, link, down>>
    BY Zenon DEF Sender, CheckCancel, SendCancel, TakeBatch, TimeOut, SendBatch, SendEnd
<1>v. UNCHANGED <<capture, muted, muting, session, handler, heard, silenced, commands, link, down>>
    BY <1>u DEF core, panel
<1>w. ASSUME NEW m, Transmit(m)
      PROVE  (up' = Append(up, m) \/ up' = up) /\ (link = "lost" /\ "ready" \notin bits => "ready" \notin bits')
    BY <1>w DEF Transmit
<1>c. UpCounted /\ BufferCounted
    BY DEF Counted, UpCounted, BufferCounted
<1> SUFFICES /\ link = "lost" /\ "ready" \notin bits => "ready" \notin bits'
             /\ BufferCounted' /\ UpCounted' /\ sender'.capture <= capture
    BY <1>v DEF Counted, UpCounted, BufferCounted
<1>0. ASSUME buffer' = <<>> \/ buffer' = buffer PROVE BufferCounted'
    BY <1>0, <1>c, <1>v, EmptySeq DEF BufferCounted
<1>1. CASE CheckCancel
    <2>1. /\ buffer' = <<>> \/ buffer' = buffer
          /\ UNCHANGED <<up, bits>> /\ sender'.capture = 0
        BY <1>1 DEF CheckCancel, At
    <2> QED BY <1>0, <1>c, <1>t, <1>v, <2>1 DEF UpCounted
<1>2. CASE SendCancel
    <2>0. Message("cancel", capture) \in Wire
        BY <1>t, WireMessages
    <2>1. Message("cancel", capture) \in Wire /\ Message("cancel", capture).capture <= capture
        BY <1>t, <2>0 DEF Message
    <2>2. UpCounted' /\ (link = "lost" /\ "ready" \notin bits => "ready" \notin bits')
        BY <1>2, <1>c, <1>v, <1>w, <2>1, SentCounted DEF SendCancel
    <2>3. buffer' = buffer /\ sender'.capture = 0
        BY <1>2 DEF SendCancel, At
    <2> QED BY <1>0, <1>t, <2>2, <2>3
<1>3. CASE TakeBatch
    <2>1. Head(buffer) = buffer[1] /\ 1 \in 1 .. Len(buffer)
        BY <1>3, <1>t, Taken DEF TakeBatch
    <2>2. sender'.capture <= capture /\ buffer' = <<>> /\ UNCHANGED <<up, bits>>
        BY <1>3, <1>c, <2>1 DEF TakeBatch, BufferCounted
    <2> QED BY <1>0, <1>c, <1>v, <2>2 DEF UpCounted
<1>4. CASE TimeOut
    <2>1. sender'.capture = 0 /\ UNCHANGED <<up, buffer, bits>>
        BY <1>4 DEF TimeOut, At, flags
    <2> QED BY <1>0, <1>c, <1>t, <1>v, <2>1 DEF UpCounted
<1>5. CASE SendBatch
    <2>1. Message("audio", sender.capture) \in Wire
        BY <1>5, WireMessages DEF Typed, TypeOK, At, SendBatch
    <2>2. Message("audio", sender.capture).capture <= capture
        BY DEF Message, Counted
    <2>3. UpCounted' /\ (link = "lost" /\ "ready" \notin bits => "ready" \notin bits')
        BY <1>5, <1>c, <1>v, <1>w, <2>1, <2>2, SentCounted DEF SendBatch
    <2>4. (buffer' = buffer \/ buffer' = <<>>) /\ sender'.capture = 0
        BY <1>5 DEF SendBatch, At
    <2> QED BY <1>0, <1>t, <2>3, <2>4
<1>6. CASE SendEnd
    <2>0. Message("end", capture) \in Wire
        BY <1>t, WireMessages
    <2>1. Message("end", capture) \in Wire /\ Message("end", capture).capture <= capture
        BY <1>t, <2>0 DEF Message
    <2>2. CASE Transmit(Message("end", capture))
        <3>1. UpCounted' /\ (link = "lost" /\ "ready" \notin bits => "ready" \notin bits')
            BY <2>2, <1>c, <1>v, <1>w, <2>1, SentCounted
        <3>2. buffer' = buffer /\ sender'.capture = 0
            BY <1>6 DEF SendEnd, At
        <3> QED BY <1>0, <1>t, <3>1, <3>2
    <2>3. CASE UNCHANGED <<up, bits, allowed>>
        <3>1. buffer' = buffer /\ sender'.capture = 0
            BY <1>6 DEF SendEnd, At
        <3> QED BY <1>0, <1>c, <1>t, <1>v, <2>3, <3>1 DEF UpCounted
    <2> QED BY <1>6, <2>2, <2>3 DEF SendEnd
<1> QED BY <1>1, <1>2, <1>3, <1>4, <1>5, <1>6 DEF Sender

\* What the core does leaves the panel alone.
LEMMA CoreLeavesPanel ==
    Handler => UNCHANGED <<flags, panel, sender, link, history>>
BY Zenon DEF Handler, ReceiveStart, ReceiveAudio, ReceiveEnd, ReceiveCancel, StartProceeds,
   StartFails, Transcribed, TranscriptionFails, Published, Answer, Leave

\* The handler's place and the session after each of its steps.
LEMMA CountedHandler ==
    ASSUME Typed, Counted, Handler
    PROVE  Counted'
<1>t. capture \in 0 .. MaxCaptures
    BY DEF Typed, TypeOK
<1>v. UNCHANGED <<flags, panel, sender, link, history>>
    BY CoreLeavesPanel
<1>w. UNCHANGED <<capture, bits, muted, muting, buffer, sender, link, silenced>>
    BY <1>v DEF flags, panel
<1>c. UpCounted /\ session <= capture /\ handler.capture <= capture /\ 0 <= capture
      /\ (\A c \in heard : c <= capture) /\ (\A S \in commands : \A c \in S : c <= capture)
    BY <1>t DEF Counted, UpCounted
<1>a. ASSUME NEW h, h <= capture, UpCounted',
             session' \in {0, session, handler.capture},
             handler'.capture \in {0, session, handler.capture, h},
             heard' \subseteq heard \cup {h}, commands' \subseteq commands \cup {heard},
             link # "up" => down' = down
      PROVE  Counted'
    <2>1. session' <= capture /\ handler'.capture <= capture
        BY <1>a, <1>c
    <2>2. (\A c \in heard' : c <= capture) /\ (\A S \in commands' : \A c \in S : c <= capture)
        BY <1>a, <1>c
    <2> QED BY <1>a, <1>w, <2>1, <2>2 DEF Counted, UpCounted
<1>b. ASSUME NEW type, Receive(type)
      PROVE  UpCounted' /\ Head(up).capture <= capture /\ handler.pc = "idle" /\ handler.capture = 0
    BY <1>b, <1>c, <1>w, ReceivedCounted DEF Receive, At
<1>r. ASSUME NEW m, NEW open, NEW current, Reply(m, open, current)
      PROVE  /\ session' \in {0, current} /\ handler'.capture = 0
             /\ link # "up" => down' = down
    BY <1>r DEF Reply, At
<1>u. up' = up => UpCounted'
    BY <1>c, <1>w DEF UpCounted
<1>1. CASE ReceiveStart
    <2>1. UpCounted' /\ Head(up).capture <= capture
        BY <1>1, <1>b DEF ReceiveStart
    <2>2. /\ session' \in {0, session} /\ handler'.capture \in {0, Head(up).capture}
          /\ (link # "up" => down' = down) /\ UNCHANGED <<heard, commands>>
        BY <1>1, <1>r DEF ReceiveStart
    <2> QED BY <1>a, <2>1, <2>2
<1>2. CASE StartProceeds
    <2>1. CASE handler.pc = "preparing"
        <3>1. /\ session' \in {0, handler.capture} /\ handler'.capture = 0 /\ heard' = {}
              /\ (link # "up" => down' = down) /\ UNCHANGED <<commands, up>>
            BY <1>2, <1>r, <2>1 DEF StartProceeds
        <3> QED BY <1>a, <1>c, <1>u, <3>1
    <2>2. CASE handler.pc # "preparing"
        <3>1. handler \in [pc : Starting \cup Answering, capture : Captures]
            BY <1>2 DEF Typed, TypeOK, At, Starting, StartProceeds
        <3>2. /\ session' = session /\ handler'.capture = handler.capture
              /\ UNCHANGED <<heard, commands, up, down>>
            BY <1>2, <2>2, <3>1 DEF StartProceeds
        <3> QED BY <1>a, <1>c, <1>u, <3>2
    <2> QED BY <2>1, <2>2
<1>3. CASE StartFails
    <2>1. /\ session' \in {0, session} /\ handler'.capture = 0
          /\ (link # "up" => down' = down) /\ UNCHANGED <<heard, commands, up>>
        BY <1>3, <1>r DEF StartFails
    <2> QED BY <1>a, <1>c, <1>u, <2>1
<1>4. CASE ReceiveAudio
    <2>1. UpCounted' /\ Head(up).capture <= capture /\ handler.capture = 0
        BY <1>4, <1>b DEF ReceiveAudio
    <2>2. /\ session' \in {0, session} /\ handler'.capture = 0
          /\ (link # "up" => down' = down) /\ commands' = commands
          /\ heard' \subseteq heard \cup {Head(up).capture}
        BY <1>4, <1>r, <2>1 DEF ReceiveAudio
    <2> QED BY <1>a, <2>1, <2>2
<1>5. CASE ReceiveEnd
    <2>1. UpCounted' /\ Head(up).capture <= capture
        BY <1>5, <1>b DEF ReceiveEnd
    <2>2. /\ session' = 0 /\ handler'.capture \in {0, session}
          /\ (link # "up" => down' = down) /\ UNCHANGED <<heard, commands>>
        BY <1>5, <1>r DEF ReceiveEnd
    <2> QED BY <1>a, <2>1, <2>2
<1>6. CASE ReceiveCancel
    <2>1. UpCounted' /\ Head(up).capture <= capture /\ handler.capture = 0
        BY <1>6, <1>b DEF ReceiveCancel
    <2>2. session' = 0 /\ handler'.capture = 0 /\ UNCHANGED <<heard, commands, down>>
        BY <1>6, <2>1 DEF ReceiveCancel, At
    <2> QED BY <1>a, <2>1, <2>2
<1>7. ASSUME NEW t \in Transcripts, Transcribed(t)
      PROVE  Counted'
    <2>1. handler \in [pc : Starting \cup Answering, capture : Captures]
        BY <1>7 DEF Typed, TypeOK, At, Transcribed
    <2>2. session' = session /\ handler'.capture = handler.capture
          /\ UNCHANGED <<heard, up, down>> /\ commands' \subseteq commands \cup {heard}
        BY <1>7, <2>1 DEF Transcribed
    <2> QED BY <1>a, <1>c, <1>u, <2>2
<1>8. CASE TranscriptionFails
    <2>1. /\ session' = 0 /\ handler'.capture = 0
          /\ (link # "up" => down' = down) /\ UNCHANGED <<heard, commands, up>>
        BY <1>8, <1>r DEF TranscriptionFails
    <2> QED BY <1>a, <1>c, <1>u, <2>1
<1>9. CASE Published
    <2>1. handler \in [pc : Starting \cup Answering, capture : Captures]
        BY <1>9 DEF Typed, TypeOK, At, Published
    <2>2. session' = session /\ handler'.capture = handler.capture
          /\ UNCHANGED <<heard, commands, up, down>>
        BY <1>9, <2>1 DEF Published
    <2> QED BY <1>a, <1>c, <1>u, <2>2
<1>10. ASSUME NEW m \in {"spoken", "unspoken"}, Answer(m)
       PROVE  Counted'
    <2>1. /\ session' = 0 /\ handler'.capture = 0
          /\ (link # "up" => down' = down) /\ UNCHANGED <<heard, commands, up>>
        BY <1>10, <1>r DEF Answer
    <2> QED BY <1>a, <1>c, <1>u, <2>1
<1>11. CASE Leave
    <2>1. session' = 0 /\ handler'.capture = 0 /\ UNCHANGED <<heard, commands, up, down>>
        BY <1>11 DEF Leave, At
    <2> QED BY <1>a, <1>c, <1>u, <2>1
<1> QED BY <1>1, <1>2, <1>3, <1>4, <1>5, <1>6, <1>7, <1>8, <1>9, <1>10, <1>11 DEF Handler

\* A step of the panel but SendStart: nothing joins or leaves the uplink.
LEMMA PanelKeeps ==
    ASSUME InTurn, UNCHANGED <<core, up, strayed>>
    PROVE  /\ OneStart' /\ HeardIsOwn'
           /\ StartIn' = StartIn /\ EndIn' = EndIn /\ OwnIn' = OwnIn /\ Opening' = Opening
<1>1. OneStart' /\ StartIn' = StartIn /\ EndIn' = EndIn /\ OwnIn' = OwnIn /\ Opening' = Opening
    BY NothingMoves DEF InTurn, core
<1>2. UNCHANGED <<up, strayed, session, heard, handler, commands>> /\ Captures' = Captures
    BY Constants DEF core
<1>3. HeardIsOwn
    BY DEF InTurn
<1>4. HeardIsOwn'
    BY <1>2, <1>3 DEF HeardIsOwn
<1> QED BY <1>1, <1>4

\* The steps of the panel, its tasks and its button.
LEMMA InTurnPanel ==
    ASSUME Typed, Counted, InTurn, Silent, ~ gaveUp',
           Lose \/ Deliver \/ Detect \/ Fetch \/ Mute \/ MuteFails \/ Unmute
    PROVE  InTurn' /\ Silent'
<1>t. /\ capture \in Nat /\ session \in Nat /\ handler.capture \in Nat /\ sender.capture \in Nat
      /\ bits \subseteq {"ready", "failed", "response"}
      /\ fetch \notin {"loop", "detected"} \/ state # "waiting" => capture # 0
    <2>1. capture \in Nat /\ session \in Nat /\ bits \subseteq {"ready", "failed", "response"}
          /\ (fetch \notin {"loop", "detected"} \/ state # "waiting" => capture # 0)
        BY DEF Typed, TypeOK, Numbered
    <2>2. handler.capture \in Nat /\ sender.capture \in Nat
        BY DEF Typed, TypeOK, At, Captures
    <2> QED BY <2>1, <2>2
<1>u. UNCHANGED <<handler, session, sockets, heard, commands>>
    BY PanelLeavesCore DEF core
<1>k. UNCHANGED <<up, strayed>> =>
        /\ OneStart' /\ HeardIsOwn'
        /\ StartIn' = StartIn /\ EndIn' = EndIn /\ OwnIn' = OwnIn /\ Opening' = Opening
    BY <1>u, PanelKeeps DEF core
<1>o. Opening' = Opening
    BY <1>u, NothingMoves
<1>d. /\ UNCHANGED down => ReadyIn' = ReadyIn
      /\ UNCHANGED <<buffer, capture>> => Buffered' = Buffered
    BY NothingMoves
<1>q. StartIsCurrent /\ AcceptanceIsOwn /\ SilencedStays /\ NothingEnded
    BY DEF InTurn, Silent
<1> USE DEF panel, flags, history
<1>g. ASSUME UNCHANGED <<up, strayed>>, StartIsCurrent', AcceptanceIsOwn', SilencedStays', NothingEnded'
      PROVE  InTurn' /\ Silent'
    BY <1>g, <1>k DEF InTurn, Silent
<1>1. CASE Lose
    <2>1. /\ UNCHANGED <<up, strayed, panel, sender, buffer, pending, handler, session>>
          /\ link' = "lost" /\ bits' = (bits \ {"ready"}) \cup {"failed"} /\ ~ ReadyIn'
        BY <1>1, <1>u, ReplyEffect DEF Lose
    <2>2. StartIsCurrent' /\ AcceptanceIsOwn'
        BY <1>d, <1>k, <1>q, <2>1 DEF StartIsCurrent, AcceptanceIsOwn, Recording, Accepted
    <2>3. SilencedStays' /\ NothingEnded'
        BY <1>k, <1>q, <1>u, <2>1 DEF SilencedStays, NothingEnded
    <2> QED BY <1>g, <2>1, <2>2, <2>3
<1>2. CASE Deliver
    <2>1. /\ UNCHANGED <<up, strayed, sender, buffer, pending, link, handler, session>>
          /\ UNCHANGED <<capture, state, fetch, muted, muting, silenced>>
          /\ ReadyIn' => ReadyIn
          /\ "ready" \in bits' => "ready" \in bits \/ ReadyIn
          /\ link # "lost"
        <3>1. "ready" \in bits' => "ready" \in bits \/ Head(down) = "ready"
            BY <1>2 DEF Deliver
        <3> QED BY <1>2, <1>u, <3>1, ReplyEffect DEF Deliver, Counted
    <2>2. StartIsCurrent' /\ AcceptanceIsOwn'
        BY <1>d, <1>k, <1>q, <2>1 DEF StartIsCurrent, AcceptanceIsOwn, Recording, Accepted
    <2>3. SilencedStays' /\ NothingEnded'
        BY <1>k, <1>q, <1>u, <2>1 DEF SilencedStays, NothingEnded
    <2> QED BY <1>g, <2>1, <2>2, <2>3
<1>3. CASE Detect
    <2>1. /\ UNCHANGED <<up, down, strayed, sender, buffer, pending, bits, link, handler, session>>
          /\ UNCHANGED <<capture, state, muted, muting, silenced>>
          /\ fetch = "loop" /\ fetch' = "detected" /\ state = "waiting"
        BY <1>3, <1>u DEF Detect
    <2>2. StartIsCurrent' /\ AcceptanceIsOwn'
        BY <1>d, <1>k, <1>q, <2>1 DEF StartIsCurrent, AcceptanceIsOwn, Recording, Accepted
    <2>3. SilencedStays' /\ NothingEnded'
        BY <1>k, <1>q, <1>u, <2>1 DEF SilencedStays, NothingEnded
    <2> QED BY <1>g, <2>1, <2>2, <2>3
<1>4. CASE OnWakeWordDetected
    <2>1. /\ UNCHANGED <<up, down, strayed, sender, buffer, pending, bits, link, handler, session>>
          /\ UNCHANGED <<muted, muting, silenced>>
          /\ fetch = "detected" /\ fetch' = "starting" /\ state' = "capturing"
          /\ capture' = capture + 1
        BY <1>4, <1>u DEF OnWakeWordDetected
    <2>2. /\ sender.capture # capture' /\ session # capture' /\ handler.capture # capture'
          /\ ~ Buffered' /\ capture' \notin silenced /\ \A S \in commands : capture' \notin S
        <3>1. /\ \A c \in 0 .. capture : c # capture'
              /\ \A i \in 1 .. Len(buffer) : buffer[i] \in Captures
              /\ heard \subseteq Captures /\ silenced \subseteq Captures /\ commands \subseteq SUBSET Captures
            BY <1>t, <2>1, ElementOfSeq DEF Typed, TypeOK
        <3>2. \A c \in Captures : c <= capture => c \in 0 .. capture
            BY <1>t DEF Captures
        <3>3. /\ \A i \in 1 .. Len(buffer) : buffer[i] # capture'
              /\ \A c \in silenced : c # capture'
              /\ \A S \in commands : \A c \in S : c # capture'
            BY <3>1, <3>2 DEF Counted
        <3>4. sender.capture # capture' /\ session # capture' /\ handler.capture # capture'
            BY <1>t, <2>1 DEF Counted
        <3> QED BY <2>1, <3>3, <3>4 DEF Buffered
    <2>3. StartIsCurrent' /\ AcceptanceIsOwn'
        BY <1>d, <1>k, <1>q, <2>1, <2>2 DEF StartIsCurrent, AcceptanceIsOwn, Recording, Accepted, StartIn
    <2>4. SilencedStays'
        BY <1>k, <1>q, <1>u, <2>1, <2>2 DEF SilencedStays
    <2>5. NothingEnded'
        BY <1>k, <1>q, <1>u, <2>1, <2>2 DEF NothingEnded
    <2> QED BY <1>g, <2>1, <2>3, <2>4, <2>5
<1>5. CASE StartVoiceAudio
    <2>1. /\ UNCHANGED <<up, down, strayed, sender, link, handler, session>>
          /\ UNCHANGED <<capture, muted, muting, silenced>>
          /\ fetch = "starting"
        BY <1>5, <1>u DEF StartVoiceAudio
    <2>2. ~ Recording /\ capture # 0
        BY <1>q, <1>t, <2>1 DEF AcceptanceIsOwn
    <2>3. CASE link = "up"
        <3>1. bits' = {} /\ pending' = {} /\ buffer' = <<>> /\ fetch' = "sending" /\ state' = state
            BY <1>5, <2>3 DEF StartVoiceAudio
        <3>2. ~ Buffered'
            BY <3>1, EmptySeq DEF Buffered
        <3>3. StartIsCurrent' /\ AcceptanceIsOwn'
            BY <1>d, <1>k, <1>q, <2>1, <2>2, <3>1, <3>2
            DEF StartIsCurrent, AcceptanceIsOwn, Recording, Accepted
        <3>4. SilencedStays' /\ NothingEnded'
            BY <1>k, <1>q, <1>u, <2>1, <3>1 DEF SilencedStays, NothingEnded
        <3> QED BY <1>g, <2>1, <3>3, <3>4
    <2>4. CASE link # "up"
        <3>1. UNCHANGED <<bits, pending, buffer>> /\ fetch' = "loop" /\ state' = "waiting"
            BY <1>5, <2>4 DEF StartVoiceAudio, OnFailure
        <3>2. StartIsCurrent' /\ AcceptanceIsOwn'
            BY <1>d, <1>k, <1>q, <2>1, <2>2, <3>1
            DEF StartIsCurrent, AcceptanceIsOwn, Recording, Accepted
        <3>3. SilencedStays' /\ NothingEnded'
            BY <1>k, <1>q, <1>u, <2>1, <3>1 DEF SilencedStays, NothingEnded
        <3> QED BY <1>g, <2>1, <3>2, <3>3
    <2> QED BY <2>3, <2>4
<1>6. CASE SendStart
    <2>1. /\ UNCHANGED <<down, strayed, sender, link, buffer, bits, pending, handler, session>>
          /\ UNCHANGED <<capture, muted, muting, silenced>>
          /\ fetch = "sending"
        BY <1>6, <1>u DEF SendStart
    <2>2. ~ Recording /\ capture # 0 /\ capture \in Captures
        BY <1>q, <1>t, <2>1 DEF AcceptanceIsOwn, Captures, Typed, TypeOK
    <2>3. CASE link = "up"
        <3>m. Message("start", capture) \in Wire
            BY <2>2, WireMessages
        <3>2. PICK m \in Wire :
                m = Message("start", capture) /\ m.type = "start" /\ m.capture = capture
            BY <3>m DEF Message
        <3>1. up' = Append(up, m) /\ fetch' = "awaiting" /\ state' = state
            BY <1>6, <2>3, <3>2 DEF SendStart
        <3>3. ~ StartIn /\ ~ Opening /\ ~ ReadyIn /\ "ready" \notin bits
            BY <1>q, <2>1, <2>3 DEF StartIsCurrent, AcceptanceIsOwn
        <3>4. (EndIn' <=> EndIn) /\ OneStart'
            <4>1. ~ Own(m)'
                BY <3>2 DEF Own
            <4> QED BY <2>1, <3>1, <3>2, <3>3, <4>1, SentEffect DEF InTurn
        <3>5. \A i \in 1 .. Len(up') : IF i = Len(up) + 1 THEN up'[i] = m
                                       ELSE i \in 1 .. Len(up) /\ up'[i] = up[i]
            BY <3>1, <3>2, Appended DEF Typed, Numbered
        <3>6. \A j \in 1 .. Len(up') : up'[j].type = "start" => up'[j].capture = capture
            BY <3>2, <3>3, <3>5 DEF StartIn
        <3>7. StartIsCurrent' /\ AcceptanceIsOwn'
            BY <1>d, <1>o, <1>q, <2>1, <2>2, <3>1, <3>3, <3>6
            DEF StartIsCurrent, AcceptanceIsOwn, Recording, Accepted
        <3>8. SilencedStays' /\ NothingEnded'
            BY <1>q, <1>u, <2>1, <3>1, <3>4 DEF SilencedStays, NothingEnded
        <3>9. HeardIsOwn'
            <4>1. HeardIsOwn /\ Captures' = Captures
                BY Constants DEF InTurn
            <4> QED BY <1>u, <2>1, <3>2, <3>5, <4>1 DEF HeardIsOwn
        <3> QED BY <3>4, <3>7, <3>8, <3>9 DEF InTurn, Silent
    <2>4. CASE link # "up"
        <3>1. up' = up /\ fetch' = "loop" /\ state' = "waiting"
            BY <1>6, <2>4 DEF SendStart, OnFailure
        <3>2. StartIsCurrent' /\ AcceptanceIsOwn'
            BY <1>d, <1>k, <1>q, <2>1, <2>2, <3>1, <2>4
            DEF StartIsCurrent, AcceptanceIsOwn, Recording, Accepted
        <3>3. SilencedStays' /\ NothingEnded'
            BY <1>k, <1>q, <1>u, <2>1, <3>1 DEF SilencedStays, NothingEnded
        <3> QED BY <1>g, <2>1, <3>1, <3>2, <3>3
    <2> QED BY <2>3, <2>4
<1>7. CASE StartReturns
    <2>1. /\ UNCHANGED <<up, down, strayed, sender, link, buffer, bits, pending, handler, session>>
          /\ UNCHANGED <<capture, muted, muting, silenced>>
          /\ fetch = "awaiting" /\ fetch' = "loop"
          /\ state' = "waiting" \/ ("ready" \in bits /\ state' = state)
        BY <1>7, <1>u DEF StartReturns, OnFailure
    <2>2. link = "up" => ~ StartIn /\ ~ Opening /\ ~ ReadyIn
        BY <1>7 DEF StartReturns, Unanswered, StartIn, Opening, ReadyIn
    <2>3. link \in {"up", "lost"}
        BY DEF Typed, TypeOK
    <2>4. StartIsCurrent' /\ AcceptanceIsOwn'
        BY <1>d, <1>k, <1>q, <1>t, <2>1, <2>2, <2>3
        DEF StartIsCurrent, AcceptanceIsOwn, Recording, Accepted
    <2>5. SilencedStays' /\ NothingEnded'
        BY <1>k, <1>q, <1>u, <2>1 DEF SilencedStays, NothingEnded
    <2> QED BY <1>g, <2>1, <2>4, <2>5
<1>8. ASSUME NEW expires \in BOOLEAN, SendVoiceAudio(expires)
      PROVE  InTurn' /\ Silent'
    <2>1. /\ UNCHANGED <<up, down, strayed, sender, link, handler, session>>
          /\ UNCHANGED <<capture, muted, muting, silenced>>
          /\ fetch = "loop" /\ state = "capturing" /\ ~ muted
          /\ bits' \subseteq bits /\ ("end" \in pending' => "end" \in pending)
          /\ fetch' \in {"loop", "finishing"} /\ state' \in {"waiting", state}
        BY <1>8, <1>u DEF SendVoiceAudio, OnFailure, CancelVoiceAudio
    <2>2. Accepted /\ capture \notin silenced
        BY <1>q, <2>1 DEF AcceptanceIsOwn, Recording, SilencedStays, Counted
    <2>3. StartIsCurrent'
        BY <1>d, <1>k, <1>q, <2>1, <2>2 DEF StartIsCurrent, Accepted
    <2>4. AcceptanceIsOwn'
        BY <1>d, <1>k, <1>q, <2>1, <2>2 DEF AcceptanceIsOwn, Accepted
    <2>5. SilencedStays' /\ NothingEnded'
        BY <1>k, <1>q, <1>u, <2>1, <2>2 DEF SilencedStays, NothingEnded, Accepted
    <2> QED BY <1>g, <2>1, <2>3, <2>4, <2>5
<1>9. CASE EndVoiceAudio
    <2>1. /\ UNCHANGED <<up, down, strayed, sender, link, buffer, handler, session>>
          /\ UNCHANGED <<capture, state, muted, muting, silenced>>
          /\ fetch = "ending" /\ fetch' = "loop" /\ bits' \subseteq bits
        BY <1>9, <1>u DEF EndVoiceAudio
    <2>2. Accepted /\ capture \notin silenced /\ state # "capturing"
        BY <1>q, <2>1 DEF AcceptanceIsOwn, Recording, SilencedStays
    <2>3. StartIsCurrent'
        BY <1>d, <1>k, <1>q, <2>1, <2>2 DEF StartIsCurrent, Accepted
    <2>4. AcceptanceIsOwn'
        BY <1>d, <1>k, <1>q, <2>1, <2>2 DEF AcceptanceIsOwn, Accepted
    <2>5. SilencedStays' /\ NothingEnded'
        BY <1>k, <1>q, <1>u, <2>1, <2>2 DEF SilencedStays, NothingEnded, Accepted
    <2> QED BY <1>g, <2>1, <2>3, <2>4, <2>5
<1>s. ASSUME UNCHANGED <<up, down, strayed, sender, link, buffer, pending, bits, handler, session>>,
             UNCHANGED <<capture, fetch, silenced>>, state' # "capturing"
      PROVE  InTurn' /\ Silent'
    <2>1. StartIsCurrent' /\ AcceptanceIsOwn'
        BY <1>d, <1>k, <1>q, <1>s DEF StartIsCurrent, AcceptanceIsOwn, Recording, Accepted
    <2>2. SilencedStays' /\ NothingEnded'
        BY <1>k, <1>q, <1>s, <1>u DEF SilencedStays, NothingEnded
    <2> QED BY <1>g, <1>s, <2>1, <2>2
<1>10. ASSUME NEW playback \in {"submitted", "refused", "unsupported"}, OnResponse(playback)
       PROVE  InTurn' /\ Silent'
    <2>1. /\ UNCHANGED <<up, down, strayed, sender, link, buffer, pending, bits, handler, session>>
          /\ UNCHANGED <<capture, fetch, silenced>>
          /\ state' \in {"playing", "waiting"}
        BY <1>10, <1>u DEF OnResponse
    <2> QED BY <1>s, <2>1
<1>11. CASE PlaybackEnds
    BY <1>11, <1>s, <1>u DEF PlaybackEnds
<1>12. CASE Mute
    <2>1. /\ UNCHANGED <<up, down, strayed, sender, link, buffer, handler, session>>
          /\ UNCHANGED <<capture, state, fetch>>
          /\ muting' /\ bits' \subseteq bits /\ ("end" \in pending' => "end" \in pending)
          /\ \/ silenced' = silenced
             \/ /\ state = "capturing" /\ fetch # "finishing"
                /\ silenced' = silenced \cup {capture}
        BY <1>12, <1>u DEF Mute, CancelVoiceAudio
    <2>2. StartIsCurrent' /\ AcceptanceIsOwn'
        BY <1>d, <1>k, <1>q, <2>1 DEF StartIsCurrent, AcceptanceIsOwn, Recording, Accepted
    <2>3. NothingEnded'
        BY <1>k, <1>q, <1>u, <2>1 DEF NothingEnded
    <2>4. SilencedStays'
        BY <1>k, <1>q, <1>u, <2>1 DEF SilencedStays, NothingEnded
    <2> QED BY <1>g, <2>1, <2>2, <2>3, <2>4
<1>13. CASE MuteFails
    BY <1>13, <1>s, <1>u DEF MuteFails
<1>14. CASE Unmute
    <2>1. /\ UNCHANGED <<up, down, strayed, sender, link, buffer, pending, bits, handler, session>>
          /\ UNCHANGED <<capture, state, fetch, silenced, muting>>
        BY <1>14, <1>u DEF Unmute
    <2>2. StartIsCurrent' /\ AcceptanceIsOwn'
        BY <1>d, <1>k, <1>q, <2>1 DEF StartIsCurrent, AcceptanceIsOwn, Recording, Accepted
    <2>3. SilencedStays' /\ NothingEnded'
        BY <1>k, <1>q, <1>u, <2>1 DEF SilencedStays, NothingEnded
    <2> QED BY <1>g, <2>1, <2>2, <2>3
<1>15. CASE FinishCapture
    <2>1. /\ UNCHANGED <<up, down, strayed, sender, link, buffer, pending, bits, handler, session>>
          /\ UNCHANGED <<capture, silenced, muting>>
          /\ fetch = "finishing" /\ fetch' = "ending" /\ state' = "awaiting"
        BY <1>15, <1>u DEF FinishCapture
    <2>2. StartIsCurrent' /\ AcceptanceIsOwn'
        BY <1>d, <1>k, <1>q, <2>1 DEF StartIsCurrent, AcceptanceIsOwn, Recording, Accepted
    <2>3. SilencedStays' /\ NothingEnded'
        BY <1>k, <1>q, <1>u, <2>1 DEF SilencedStays, NothingEnded
    <2> QED BY <1>g, <2>1, <2>2, <2>3
<1> QED BY <1>1, <1>2, <1>3, <1>4, <1>5, <1>6, <1>7, <1>8, <1>9, <1>10, <1>11, <1>12, <1>13, <1>14,
           <1>15 DEF Fetch

\* A step of the sender that transmits nothing.
LEMMA InTurnQuietSender ==
    ASSUME InTurn, Silent, Typed, UNCHANGED <<core, panel, link, down, up, strayed, bits>>,
           Recording' => Recording, pending' \subseteq pending
    PROVE  InTurn' /\ Silent'
<1>1. /\ OneStart' /\ HeardIsOwn'
      /\ StartIn' = StartIn /\ EndIn' = EndIn /\ OwnIn' = OwnIn /\ Opening' = Opening
    BY PanelKeeps
<1>2. ReadyIn' = ReadyIn
    BY NothingMoves
<1>3. UNCHANGED <<handler, session, commands, capture, state, fetch, muting, silenced, link, bits>>
    BY DEF core, panel
<1>4. StartIsCurrent' /\ AcceptanceIsOwn'
    BY <1>1, <1>2, <1>3 DEF InTurn, StartIsCurrent, AcceptanceIsOwn, Accepted
<1>5. SilencedStays' /\ NothingEnded'
    BY <1>1, <1>3 DEF Silent, SilencedStays, NothingEnded
<1> QED BY <1>1, <1>4, <1>5 DEF InTurn, Silent

\* A step that transmits a cancel, an end, or the batch in the sender's hands.
LEMMA InTurnTransmit ==
    ASSUME InTurn, Silent, Typed, Counted, UNCHANGED <<core, panel, link, down>>,
           strayed \subseteq strayed', strayed' \subseteq Captures,
           Recording' => Recording, pending' \subseteq pending,
           NEW m \in Wire, Transmit(m), m.type # "start",
           m.type = "end" => "end" \in pending /\ "end" \notin pending',
           m.type = "audio" /\ m.capture \notin strayed' => Recording /\ m.capture = capture
    PROVE  InTurn' /\ Silent'
<1>1. UNCHANGED <<handler, session, commands, heard, capture, state, fetch, muting, silenced, link>>
    BY DEF core, panel
<1>2. Opening' = Opening /\ ReadyIn' = ReadyIn
    BY <1>1, NothingMoves
<1>q. OneStart /\ StartIsCurrent /\ AcceptanceIsOwn /\ HeardIsOwn /\ SilencedStays /\ NothingEnded
    BY DEF InTurn, Silent
<1>o. \A e : e \notin strayed' => e \notin strayed
    OBVIOUS
<1>3. CASE link = "up"
    <2>1. up' = Append(up, m) /\ bits' = bits
        BY <1>3 DEF Transmit
    <2>2. /\ (StartIn' <=> StartIn) /\ (EndIn' <=> EndIn \/ m.type = "end")
          /\ OwnIn' => OwnIn \/ Own(m)'
          /\ OneStart /\ ~ (StartIn /\ Own(m)') => OneStart'
        BY <2>1, SentEffect
    <2>3. Own(m)' => ~ StartIn /\ ~ Opening
        <3>1. CASE m.type = "end"
            BY <1>3, <1>q, <3>1 DEF StartIsCurrent, NothingEnded
        <3>2. CASE m.type # "end"
            BY <1>q, <3>2 DEF Own, AcceptanceIsOwn, Accepted
        <3> QED BY <3>1, <3>2
    <2>4. OneStart'
        BY <1>q, <2>2, <2>3
    <2>5. /\ Len(up) \in Nat
          /\ \A i \in 1 .. Len(up') : IF i = Len(up) + 1 THEN up'[i] = m
                                      ELSE i \in 1 .. Len(up) /\ up'[i] = up[i]
        BY <2>1, Appended DEF Typed, Numbered
    <2>6. \A j \in 1 .. Len(up') : up'[j].type = "start" => up'[j].capture = capture
        BY <1>3, <1>q, <2>5 DEF StartIsCurrent
    <2>7. StartIsCurrent'
        BY <1>1, <1>2, <1>3, <1>q, <2>2, <2>3, <2>6 DEF StartIsCurrent
    <2>8. AcceptanceIsOwn'
        BY <1>1, <1>2, <1>q, <2>1, <2>2 DEF AcceptanceIsOwn, Accepted
    <2>9. HeardIsOwn'
        <3>1. \A i \in 1 .. Len(up') : up'[i].type = "audio" /\ up'[i].capture \notin strayed'
                                         => session \in {0, up'[i].capture}
            <4>1. m.type = "audio" /\ m.capture \notin strayed' => session \in {0, m.capture}
                BY <1>q DEF AcceptanceIsOwn, Accepted
            <4> QED BY <1>o, <1>q, <2>5, <4>1 DEF HeardIsOwn
        <3>2. Captures' = Captures
            BY Constants
        <3> QED BY <1>1, <1>q, <3>1, <3>2 DEF HeardIsOwn
    <2>10. NothingEnded'
        BY <1>1, <1>q, <2>2 DEF NothingEnded
    <2>11. SilencedStays'
        BY <1>1, <1>q, <2>2 DEF SilencedStays
    <2> QED BY <2>4, <2>7, <2>8, <2>9, <2>10, <2>11 DEF InTurn, Silent
<1>4. CASE link # "up"
    <2>1. up' = up /\ bits' = (bits \ {"ready"}) \cup {"failed"}
        BY <1>4 DEF Transmit
    <2>2. StartIn' = StartIn /\ EndIn' = EndIn
        BY <2>1 DEF StartIn, EndIn
    <2>3. \A i \in 1 .. Len(up) : Own(up[i])' => Own(up[i])
        BY <2>1 DEF Own
    <2>4. OneStart' /\ (OwnIn' => OwnIn)
        BY <1>q, <2>1, <2>3 DEF OneStart, OwnIn
    <2>5. StartIsCurrent'
        BY <1>1, <1>2, <1>4, <1>q, <2>2, <2>4 DEF StartIsCurrent
    <2>6. AcceptanceIsOwn'
        BY <1>1, <1>2, <1>q, <2>1, <2>2 DEF AcceptanceIsOwn, Accepted
    <2>7. HeardIsOwn'
        <3>1. Captures' = Captures
            BY Constants
        <3> QED BY <1>1, <1>o, <1>q, <2>1, <3>1 DEF HeardIsOwn
    <2>8. SilencedStays' /\ NothingEnded'
        BY <1>1, <1>q, <2>2 DEF SilencedStays, NothingEnded
    <2> QED BY <2>4, <2>5, <2>6, <2>7, <2>8 DEF InTurn, Silent
<1> QED BY <1>3, <1>4

\* The steps of voice_sender_task.
LEMMA InTurnSender ==
    ASSUME Typed, Counted, InTurn, Silent, Sender
    PROVE  InTurn' /\ Silent'
<1>t. capture \in 0 .. MaxCaptures /\ buffer \in Seq(Captures) /\ strayed \subseteq Captures
    BY DEF Typed, TypeOK
<1>u. UNCHANGED <<core, panel, link, down>>
    BY Zenon DEF Sender, CheckCancel, SendCancel, TakeBatch, TimeOut, SendBatch, SendEnd
<1>v. UNCHANGED <<capture, state, fetch>>
    BY <1>u DEF panel
<1>w. Buffered' => buffer' # <<>>
    BY EmptySeq DEF Buffered
<1>b. UNCHANGED buffer => Buffered' = Buffered
    BY <1>v, NothingMoves
<1>1. CASE CheckCancel
    <2>1. /\ UNCHANGED <<up, strayed, bits>> /\ pending' \subseteq pending
          /\ sender'.capture = 0 /\ (buffer' = <<>> \/ buffer' = buffer)
        BY <1>1 DEF CheckCancel, At, history
    <2>2. Recording' => Recording
        BY <1>b, <1>v, <1>w, <2>1 DEF Recording
    <2> QED BY <1>u, <2>1, <2>2, InTurnQuietSender
<1>2. CASE SendCancel
    <2>1. Message("cancel", capture) \in Wire
        BY <1>t, WireMessages
    <2>2. PICK m \in Wire : m = Message("cancel", capture) /\ m.type = "cancel"
        BY <2>1 DEF Message
    <2>3. UNCHANGED <<strayed, pending, buffer>> /\ sender'.capture = 0 /\ Transmit(m)
        BY <1>2, <2>2 DEF SendCancel, At, history
    <2>4. Recording' => Recording
        BY <1>b, <1>v, <2>3 DEF Recording
    <2> QED BY <1>t, <1>u, <2>2, <2>3, <2>4, InTurnTransmit
<1>3. CASE TakeBatch
    <2>1. Head(buffer) = buffer[1] /\ 1 \in 1 .. Len(buffer)
        BY <1>3, <1>t, Taken DEF TakeBatch
    <2>2. /\ UNCHANGED <<up, strayed, bits, pending>> /\ buffer' = <<>>
          /\ sender'.capture = capture => Buffered
        BY <1>3, <2>1 DEF TakeBatch, Buffered, history
    <2>3. Recording' => Recording
        BY <1>v, <1>w, <2>2 DEF Recording
    <2> QED BY <1>u, <2>2, <2>3, InTurnQuietSender
<1>4. CASE TimeOut
    <2>1. UNCHANGED <<up, strayed, bits, pending, buffer>> /\ sender'.capture = 0
        BY <1>4 DEF TimeOut, At, flags, history
    <2>2. Recording' => Recording
        BY <1>b, <1>v, <2>1 DEF Recording
    <2> QED BY <1>u, <2>1, <2>2, InTurnQuietSender
<1>5. CASE SendBatch
    <2>0. sender.capture \in Captures
        BY <1>5 DEF Typed, TypeOK, At, SendBatch
    <2>1. Message("audio", sender.capture) \in Wire
        BY <2>0, WireMessages
    <2>2. PICK m \in Wire : m = Message("audio", sender.capture) /\ m.type = "audio"
                              /\ m.capture = sender.capture
        BY <2>1 DEF Message
    <2>3. /\ pending' = pending /\ (buffer' = <<>> \/ buffer' = buffer)
          /\ sender'.capture = 0 /\ Transmit(m)
          /\ strayed' = strayed \cup ({sender.capture} \ {capture})
        BY <1>5, <2>2 DEF SendBatch, At
    <2>4. Recording' => Recording
        BY <1>b, <1>v, <1>w, <2>3 DEF Recording
    <2>5. m.capture \notin strayed' => Recording /\ m.capture = capture
        BY <2>0, <2>2, <2>3 DEF Recording, Captures
    <2>6. strayed \subseteq strayed' /\ strayed' \subseteq Captures
        BY <1>t, <2>0, <2>3
    <2> QED BY <1>u, <2>2, <2>3, <2>4, <2>5, <2>6, InTurnTransmit
<1>6. CASE SendEnd
    <2>1. /\ UNCHANGED <<strayed, buffer>> /\ sender'.capture = 0
          /\ pending' = pending \ {"end"}
        BY <1>6 DEF SendEnd, At
    <2>2. Recording' => Recording
        BY <1>b, <1>v, <2>1 DEF Recording
    <2>3. CASE "end" \in pending /\ buffer = <<>>
        <3>1. Message("end", capture) \in Wire
            BY <1>t, WireMessages
        <3>2. PICK m \in Wire : m = Message("end", capture) /\ m.type = "end"
            BY <3>1 DEF Message
        <3>3. Transmit(m)
            BY <1>6, <2>3, <3>2 DEF SendEnd
        <3> QED BY <1>t, <1>u, <2>1, <2>2, <2>3, <3>2, <3>3, InTurnTransmit
    <2>4. CASE ~ ("end" \in pending /\ buffer = <<>>)
        <3>1. UNCHANGED <<up, bits>>
            BY <1>6, <2>4 DEF SendEnd
        <3> QED BY <1>u, <2>1, <2>2, <3>1, InTurnQuietSender
    <2> QED BY <2>3, <2>4
<1> QED BY <1>1, <1>2, <1>3, <1>4, <1>5, <1>6 DEF Sender

\* The steps of the handler.
LEMMA InTurnHandler ==
    ASSUME Typed, OneSession, Counted, InTurn, Silent, Handler
    PROVE  InTurn' /\ Silent'
<1>v. UNCHANGED <<flags, panel, sender, link, history>>
    BY CoreLeavesPanel
<1>w. UNCHANGED <<capture, state, bits, pending, fetch, muting, buffer, sender, link, silenced, strayed>>
    BY <1>v DEF flags, panel, history
<1>t. capture \in Nat /\ session \in Nat /\ heard \subseteq Captures /\ commands \subseteq SUBSET Captures
      /\ link \in {"up", "lost"}
      /\ (fetch \notin {"loop", "detected"} \/ state # "waiting" => capture # 0)
    BY DEF Typed, TypeOK, Numbered
<1>q. OneStart /\ StartIsCurrent /\ AcceptanceIsOwn /\ HeardIsOwn /\ SilencedStays /\ NothingEnded
    BY DEF InTurn, Silent
<1>b. Buffered' = Buffered /\ Captures' = Captures
    BY <1>w, NothingMoves, Constants
<1>d. UNCHANGED down => ReadyIn' = ReadyIn
    BY NothingMoves
<1>k. UNCHANGED up => StartIn' = StartIn /\ EndIn' = EndIn /\ OwnIn' = OwnIn /\ OneStart' = OneStart
    BY <1>w, NothingMoves
<1>r. ASSUME NEW m \in Replies, NEW open, NEW current, Reply(m, open, current)
      PROVE  /\ handler'.pc \in {"idle", "gone"} /\ handler'.capture = 0
             /\ session' \in {0, current}
             /\ session' = current \/ link = "lost"
             /\ ReadyIn' => ReadyIn \/ (m = "ready" /\ link = "up" /\ session' = current)
    <2>1. CASE link = "up"
        BY <1>r, <2>1, ReplyEffect DEF Reply, At
    <2>2. CASE link # "up"
        BY <1>d, <1>r, <1>t, <2>2 DEF Reply, At
    <2> QED BY <2>1, <2>2
<1>p. {"ready", "rejected", "failed", "spoken", "unspoken"} = Replies
    BY DEF Replies
<1>z. "idle" \notin Starting /\ "gone" \notin Starting /\ "transcribing" \notin Starting
      /\ "publishing" \notin Starting /\ "speaking" \notin Starting
    BY DEF Starting
\* A step after which the handler opens nothing and nothing new was accepted.
<1>e. ASSUME StartIn' => StartIn, EndIn' => EndIn, OwnIn' => OwnIn, OneStart', ReadyIn' => ReadyIn,
             ~ Opening' \/ (~ StartIn' /\ ~ OwnIn' /\ ~ ReadyIn'
                             /\ (fetch = "awaiting" \/ link = "lost")
                             /\ (link = "up" => handler'.capture = capture)
                             /\ ~ Accepted /\ session' = session),
             link = "up" => \A j \in 1 .. Len(up') : up'[j].type = "start" => up'[j].capture = capture,
             session' \in {0, session}, HeardIsOwn',
             handler'.pc # "transcribing" \/ (handler'.capture \notin silenced
                   /\ (state = "capturing" => handler'.capture # capture)),
             \A S \in commands' : /\ (S \ strayed) \cap silenced = {}
                                  /\ state = "capturing" => capture \notin S \ strayed
      PROVE  InTurn' /\ Silent'
    <2>1. StartIsCurrent'
        BY <1>e, <1>q, <1>w DEF StartIsCurrent
    <2>2. AcceptanceIsOwn'
        <3>1. Accepted => Accepted'
            BY <1>e, <1>w DEF Accepted
        <3>2. Recording' <=> Recording
            BY <1>b, <1>w DEF Recording
        <3> QED BY <1>e, <1>q, <1>w, <3>1, <3>2 DEF AcceptanceIsOwn
    <2>3. SilencedStays'
        BY <1>e, <1>q, <1>w DEF SilencedStays
    <2>4. session' = capture => session = capture \/ session' = 0
        BY <1>e
    <2>5. NothingEnded'
        BY <1>e, <1>q, <1>t, <1>w, <2>4 DEF NothingEnded
    <2> QED BY <1>e, <2>1, <2>2, <2>3, <2>5 DEF InTurn, Silent
<1>f. ASSUME NEW type, Receive(type)
      PROVE  /\ StartIn' => StartIn
             /\ EndIn' => EndIn
             /\ OwnIn' => OwnIn
             /\ OneStart'
             /\ type = "start" => StartIn /\ ~ StartIn' /\ ~ OwnIn'
             /\ type = "end" => EndIn
             /\ handler.pc = "idle"
             /\ link = "up" => \A j \in 1 .. Len(up') : up'[j].type = "start" => up'[j].capture = capture
             /\ link = "up" /\ type = "start" => Head(up).capture = capture
             /\ \A i \in 1 .. Len(up') : up'[i].type = "audio" /\ up'[i].capture \notin strayed
                                          => session \in {0, up'[i].capture}
             /\ type = "audio" /\ Head(up).capture \notin strayed => session \in {0, Head(up).capture}
    <2>1. up # <<>> /\ up' = Tail(up) /\ Head(up).type = type /\ handler.pc = "idle"
        BY <1>f DEF Receive, At
    <2>2. /\ 1 \in 1 .. Len(up) /\ Head(up) = up[1]
          /\ \A i \in 1 .. Len(up') : i + 1 \in 1 .. Len(up) /\ up'[i] = up[i + 1]
        BY <2>1, Taken DEF Typed, Numbered
    <2>3. /\ StartIn' => StartIn
          /\ EndIn' => EndIn
          /\ OwnIn' => OwnIn
          /\ OneStart'
          /\ type = "start" => StartIn /\ ~ StartIn' /\ ~ OwnIn'
          /\ type = "end" => EndIn
        BY <1>q, <1>w, <2>1, ReceivedEffect
    <2>4. /\ link = "up" => \A j \in 1 .. Len(up') : up'[j].type = "start" => up'[j].capture = capture
          /\ link = "up" /\ type = "start" => Head(up).capture = capture
        BY <1>q, <2>1, <2>2 DEF StartIsCurrent
    <2>5. /\ \A i \in 1 .. Len(up') : up'[i].type = "audio" /\ up'[i].capture \notin strayed
                                       => session \in {0, up'[i].capture}
          /\ type = "audio" /\ Head(up).capture \notin strayed => session \in {0, Head(up).capture}
        BY <1>q, <2>1, <2>2 DEF HeardIsOwn
    <2> QED BY <2>1, <2>3, <2>4, <2>5
\* What was heard, when it stays and the session stays or is closed.
<1>h. ASSUME session' \in {0, session}, UNCHANGED <<heard, commands>>, handler'.pc # "transcribing",
             \A i \in 1 .. Len(up') : up'[i].type = "audio" /\ up'[i].capture \notin strayed
                                      => session \in {0, up'[i].capture}
      PROVE  /\ HeardIsOwn'
             /\ \A S \in commands' : /\ (S \ strayed) \cap silenced = {}
                                     /\ state = "capturing" => capture \notin S \ strayed
    BY <1>b, <1>h, <1>q, <1>w DEF HeardIsOwn, SilencedStays, NothingEnded
\* A step on its own that opens nothing.
<1>i. ASSUME UNCHANGED <<up, heard, commands>>, session' \in {0, session}, ReadyIn' => ReadyIn,
             handler'.pc # "transcribing", handler'.pc \notin Starting
      PROVE  InTurn' /\ Silent'
    <2>1. link = "up" => \A j \in 1 .. Len(up') : up'[j].type = "start" => up'[j].capture = capture
        BY <1>i, <1>q DEF StartIsCurrent
    <2>2. \A i \in 1 .. Len(up') : up'[i].type = "audio" /\ up'[i].capture \notin strayed
                                   => session \in {0, up'[i].capture}
        BY <1>i, <1>q DEF HeardIsOwn
    <2>3. ~ Opening'
        BY <1>i, Constants DEF Opening
    <2> QED BY <1>e, <1>h, <1>i, <1>k, <1>q, <2>1, <2>2, <2>3
<1>1. CASE ReceiveStart
    <2>1. Receive("start")
        BY <1>1 DEF ReceiveStart
    <2>2. /\ StartIn /\ ~ Opening /\ ~ ReadyIn /\ ~ Accepted
          /\ fetch = "awaiting" \/ link = "lost"
        BY <1>f, <1>q, <2>1 DEF StartIsCurrent, Accepted
    <2>3. UNCHANGED <<heard, commands>>
        BY <1>1 DEF ReceiveStart
    <2>4. CASE session # 0
        <3>1. Reply("rejected", sockets, session)
            BY <1>1, <2>4 DEF ReceiveStart
        <3>2. handler'.pc \in {"idle", "gone"} /\ session' \in {0, session} /\ ~ ReadyIn' /\ ~ Opening'
            BY <1>p, <1>r, <1>z, <2>2, <3>1, Constants DEF Opening
        <3> QED BY <1>e, <1>f, <1>h, <2>1, <2>3, <3>2
    <2>5. CASE session = 0
        <3>1. /\ handler' = [pc |-> "connecting", capture |-> Head(up).capture]
              /\ UNCHANGED <<down, session>>
            BY <1>1, <2>5 DEF ReceiveStart
        <3>2. handler'.pc # "transcribing" /\ session' \in {0, session} /\ ~ ReadyIn'
              /\ (link = "up" => handler'.capture = capture)
            BY <1>d, <1>f, <2>1, <2>2, <3>1
        <3> QED BY <1>e, <1>f, <1>h, <2>1, <2>2, <2>3, <3>1, <3>2
    <2> QED BY <2>4, <2>5
<1>2. CASE StartProceeds
    <2>1. Opening /\ UNCHANGED <<commands, up>> /\ session = 0
        BY <1>2 DEF StartProceeds, Opening, OneSession, Starting
    <2>2. /\ ~ StartIn /\ ~ OwnIn /\ ~ ReadyIn /\ ~ Accepted
          /\ fetch = "awaiting" \/ link = "lost"
          /\ link = "up" => handler.capture = capture
        BY <1>q, <2>1 DEF StartIsCurrent, Accepted
    <2>3. ~ StartIn' /\ ~ OwnIn' /\ ~ EndIn' /\ OneStart'
        <3>1. EndIn => OwnIn
            BY DEF EndIn, OwnIn, Own
        <3> QED BY <1>k, <1>q, <2>1, <2>2, <3>1
    <2>4. CASE handler.pc # "preparing"
        <3>1. handler \in [pc : Starting \cup Answering, capture : Captures]
            BY <1>2 DEF Typed, TypeOK, At, Starting, StartProceeds
        <3>2. /\ handler' = [handler EXCEPT !.pc = AfterStep[@]]
              /\ UNCHANGED <<session, heard, down>>
            BY <1>2, <2>4 DEF StartProceeds
        <3>3. AfterStep[handler.pc] \in Starting
            BY <2>1, <2>4 DEF AfterStep, Starting, Opening
        <3>4. handler'.capture = handler.capture /\ handler'.pc # "transcribing"
            BY <1>z, <3>1, <3>2, <3>3
        <3>5. \A i \in 1 .. Len(up') : up'[i].type = "audio" /\ up'[i].capture \notin strayed
                                       => session \in {0, up'[i].capture}
            BY <2>1
        <3>6. link = "up" => \A j \in 1 .. Len(up') : up'[j].type = "start" => up'[j].capture = capture
            BY <1>q, <2>1 DEF StartIsCurrent
        <3> QED BY <1>d, <1>e, <1>h, <2>1, <2>2, <2>3, <3>2, <3>4, <3>5, <3>6
    <2>5. CASE handler.pc = "preparing"
        <3>1. Reply("ready", sockets, handler.capture) /\ heard' = {}
            BY <1>2, <2>5 DEF StartProceeds
        <3>2. handler'.pc \in {"idle", "gone"} /\ handler'.capture = 0 /\ ~ Opening'
            BY <1>p, <1>r, <1>z, <3>1, Constants DEF Opening
        <3>3. HeardIsOwn'
            <4>1. \A i \in 1 .. Len(up') : ~ (up'[i].type = "audio" /\ up'[i].capture \notin strayed)
                BY <2>1, <2>2 DEF OwnIn, Own
            <4> QED BY <1>b, <1>q, <1>w, <2>1, <3>1, <3>2, <4>1 DEF HeardIsOwn
        <3>4. CASE link = "up"
            <4>1. session' = capture /\ fetch = "awaiting"
                BY <1>p, <1>r, <1>t, <2>2, <3>1, <3>4
            <4>2. StartIsCurrent'
                BY <1>w, <2>3, <3>2, <4>1, <1>q, <2>1 DEF StartIsCurrent, StartIn
            <4>3. AcceptanceIsOwn'
                BY <1>b, <1>q, <1>w, <2>3, <3>2, <4>1 DEF AcceptanceIsOwn, Accepted, Recording
            <4>4. SilencedStays'
                BY <1>q, <1>w, <2>1, <2>3, <3>2, <4>1 DEF SilencedStays, NothingEnded
            <4>5. NothingEnded'
                BY <1>q, <1>w, <2>1, <2>3, <3>2, <4>1 DEF NothingEnded
            <4> QED BY <2>3, <3>3, <4>2, <4>3, <4>4, <4>5 DEF InTurn, Silent
        <3>5. CASE link # "up"
            <4>1. session' = 0 /\ ~ ReadyIn'
                BY <1>p, <1>r, <2>2, <3>1, <3>5 DEF Reply
            <4>2. \A S \in commands' : /\ (S \ strayed) \cap silenced = {}
                                       /\ state = "capturing" => capture \notin S \ strayed
                BY <1>q, <2>1 DEF SilencedStays, NothingEnded
            <4>3. session' \in {0, session} /\ handler'.pc # "transcribing"
                BY <3>2, <4>1
            <4> QED BY <1>e, <2>3, <3>2, <3>3, <3>5, <4>1, <4>2, <4>3
        <3> QED BY <3>4, <3>5
    <2> QED BY <2>4, <2>5
<1>3. CASE StartFails
    <2>1. Reply("failed", sockets \ {handler.capture}, session) /\ UNCHANGED <<up, heard, commands>>
        BY <1>3 DEF StartFails
    <2>2. handler'.pc \in {"idle", "gone"} /\ session' \in {0, session} /\ (ReadyIn' => ReadyIn)
        BY <1>p, <1>r, <2>1
    <2> QED BY <1>i, <1>z, <2>1, <2>2
<1>4. CASE ReceiveAudio
    <2>1. Receive("audio") /\ commands' = commands
        BY <1>4 DEF ReceiveAudio
    <2>2. CASE heard' = heard /\ (Reply("rejected", sockets, session)
                                     \/ Reply("failed", sockets \ {session}, 0))
        <3>1. handler'.pc \in {"idle", "gone"} /\ session' \in {0, session} /\ (ReadyIn' => ReadyIn)
              /\ ~ Opening'
            BY <1>p, <1>r, <1>z, <2>2, Constants DEF Opening
        <3> QED BY <1>e, <1>f, <1>h, <2>1, <2>2, <3>1
    <2>3. CASE /\ session # 0 /\ heard' = heard \cup {Head(up).capture}
               /\ UNCHANGED <<handler, sockets, session, down>>
        <3>1. handler'.pc = "idle" /\ ~ Opening'
            BY <1>f, <1>z, <2>1, <2>3, Constants DEF Opening
        <3>2. heard' \ strayed \subseteq {session}
            BY <1>f, <1>q, <2>1, <2>3 DEF HeardIsOwn
        <3>3. HeardIsOwn'
            BY <1>b, <1>f, <1>q, <1>w, <2>1, <2>3, <3>1, <3>2 DEF HeardIsOwn
        <3>4. \A S \in commands' : /\ (S \ strayed) \cap silenced = {}
                                   /\ state = "capturing" => capture \notin S \ strayed
            BY <1>q, <2>1 DEF SilencedStays, NothingEnded
        <3>5. session' \in {0, session} /\ handler'.pc # "transcribing" /\ (ReadyIn' => ReadyIn)
            BY <1>d, <2>3, <3>1
        <3> QED BY <1>e, <1>f, <2>1, <3>1, <3>3, <3>4, <3>5
    <2> QED BY <1>4, <2>2, <2>3 DEF ReceiveAudio
<1>5. CASE ReceiveEnd
    <2>1. Receive("end") /\ UNCHANGED <<heard, commands>>
        BY <1>5 DEF ReceiveEnd
    <2>2. CASE session = 0
        <3>1. Reply("rejected", sockets, 0)
            BY <1>5, <2>2 DEF ReceiveEnd
        <3>2. handler'.pc \in {"idle", "gone"} /\ session' \in {0, session} /\ (ReadyIn' => ReadyIn)
              /\ ~ Opening'
            BY <1>p, <1>r, <1>z, <3>1, Constants DEF Opening
        <3> QED BY <1>e, <1>f, <1>h, <2>1, <3>2
    <2>3. CASE session # 0
        <3>1. /\ handler' = [pc |-> "transcribing", capture |-> session]
              /\ session' = 0 /\ down' = down
            BY <1>5, <2>3 DEF ReceiveEnd
        <3>2. session \notin silenced /\ (state = "capturing" => session # capture)
            BY <1>f, <1>q, <2>1, <2>3 DEF SilencedStays, NothingEnded
        <3>3. HeardIsOwn'
            BY <1>b, <1>q, <1>w, <2>1, <2>3, <3>1 DEF HeardIsOwn
        <3>4. \A S \in commands' : /\ (S \ strayed) \cap silenced = {}
                                   /\ state = "capturing" => capture \notin S \ strayed
            BY <1>q, <2>1 DEF SilencedStays, NothingEnded
        <3>5. ~ Opening'
            BY <1>z, <3>1, Constants DEF Opening
        <3>6. /\ session' \in {0, session} /\ (ReadyIn' => ReadyIn)
              /\ handler'.capture \notin silenced /\ (state = "capturing" => handler'.capture # capture)
            BY <1>d, <3>1, <3>2
        <3> QED BY <1>e, <1>f, <2>1, <3>3, <3>4, <3>5, <3>6
    <2> QED BY <2>2, <2>3
<1>6. CASE ReceiveCancel
    <2>1. Receive("cancel") /\ UNCHANGED <<heard, commands, down>> /\ session' = 0
        BY <1>6 DEF ReceiveCancel
    <2>2. handler'.pc \in {"idle", "gone"}
        BY <1>6, <1>f, <2>1 DEF ReceiveCancel, At
    <2>3. ~ Opening'
        BY <1>z, <2>2, Constants DEF Opening
    <2> QED BY <1>d, <1>e, <1>f, <1>h, <2>1, <2>2, <2>3
<1>7. ASSUME NEW t \in Transcripts, Transcribed(t)
      PROVE  InTurn' /\ Silent'
    <2>1. /\ handler.pc = "transcribing" /\ handler.capture \in Captures
          /\ handler'.pc \in {"publishing", "speaking"}
          /\ UNCHANGED <<up, down, session, heard>>
          /\ commands' = commands \/ commands' = commands \cup {heard}
        <3>1. handler \in [pc : Starting \cup Answering, capture : Captures]
            BY <1>7 DEF Typed, TypeOK, At, Transcribed
        <3> QED BY <1>7, <3>1 DEF Transcribed
    <2>2. /\ heard \ strayed \subseteq {handler.capture} /\ handler.capture \notin silenced
          /\ state = "capturing" => handler.capture # capture
        BY <1>q, <2>1 DEF HeardIsOwn, SilencedStays, NothingEnded
    <2>3. \A S \in commands' : /\ (S \ strayed) \cap silenced = {}
                               /\ state = "capturing" => capture \notin S \ strayed
        BY <1>q, <2>1, <2>2 DEF SilencedStays, NothingEnded
    <2>4. \A S \in commands' : \E c \in Captures : S \ strayed \subseteq {c}
        BY <1>q, <2>1, <2>2 DEF HeardIsOwn
    <2>5. HeardIsOwn'
        BY <1>b, <1>q, <1>w, <2>1, <2>4 DEF HeardIsOwn
    <2>6. ~ Opening' /\ handler'.pc # "transcribing"
        BY <1>z, <2>1, Constants DEF Opening
    <2>7. link = "up" => \A j \in 1 .. Len(up') : up'[j].type = "start" => up'[j].capture = capture
        BY <1>q, <2>1 DEF StartIsCurrent
    <2>8. /\ session' \in {0, session} /\ (ReadyIn' => ReadyIn) /\ (StartIn' => StartIn)
          /\ (EndIn' => EndIn) /\ (OwnIn' => OwnIn) /\ OneStart'
        BY <1>d, <1>k, <1>q, <2>1
    <2> QED BY <1>e, <2>3, <2>5, <2>6, <2>7, <2>8
<1>8. CASE TranscriptionFails
    <2>1. Reply("failed", sockets \ {handler.capture}, 0) /\ UNCHANGED <<up, heard, commands>>
        BY <1>8 DEF TranscriptionFails
    <2>2. handler'.pc \in {"idle", "gone"} /\ session' \in {0, session} /\ (ReadyIn' => ReadyIn)
        BY <1>p, <1>r, <2>1
    <2> QED BY <1>i, <1>z, <2>1, <2>2
<1>9. CASE Published
    <2>1. handler \in [pc : Starting \cup Answering, capture : Captures]
        BY <1>9 DEF Typed, TypeOK, At, Published
    <2>2. handler'.pc = "speaking" /\ UNCHANGED <<up, heard, commands, session, down>>
        BY <1>9, <2>1 DEF Published
    <2> QED BY <1>d, <1>i, <1>z, <2>2
<1>10. ASSUME NEW m \in {"spoken", "unspoken"}, Answer(m)
       PROVE  InTurn' /\ Silent'
    <2>1. Reply(m, sockets, 0) /\ UNCHANGED <<up, heard, commands>> /\ m \in Replies /\ m # "ready"
        BY <1>10, <1>p DEF Answer
    <2>2. handler'.pc \in {"idle", "gone"} /\ session' \in {0, session} /\ (ReadyIn' => ReadyIn)
        BY <1>r, <2>1
    <2> QED BY <1>i, <1>z, <2>1, <2>2
<1>11. CASE Leave
    <2>1. handler'.pc = "gone" /\ session' = 0 /\ UNCHANGED <<up, heard, commands, down>>
        BY <1>11 DEF Leave, At
    <2> QED BY <1>d, <1>i, <1>z, <2>1
<1> QED BY <1>1, <1>2, <1>3, <1>4, <1>5, <1>6, <1>7, <1>8, <1>9, <1>10, <1>11 DEF Handler

\* Once the panel has given up on an answer it stays so.
LEMMA GaveUpStays == Next /\ gaveUp => gaveUp'
<1> SUFFICES ASSUME Next, gaveUp PROVE gaveUp'
    OBVIOUS
<1>1. CASE Lose \/ Deliver \/ Detect \/ Mute \/ MuteFails \/ Unmute
    BY <1>1 DEF Lose, Deliver, Detect, Mute, MuteFails, Unmute, history
<1>2. CASE Fetch
    BY <1>2, Zenon DEF Fetch, OnWakeWordDetected, StartVoiceAudio, SendStart, StartReturns,
       SendVoiceAudio, FinishCapture, EndVoiceAudio, OnResponse, PlaybackEnds, history
<1>3. CASE Sender
    BY <1>3, Zenon DEF Sender, CheckCancel, SendCancel, TakeBatch, TimeOut, SendBatch, SendEnd, history
<1>4. CASE Handler
    BY <1>4, CoreLeavesPanel DEF history
<1> QED BY <1>1, <1>2, <1>3, <1>4 DEF Next

LEMMA CaptureStep == CaptureInv /\ [Next]_vars => CaptureInv'
<1> SUFFICES ASSUME CaptureInv, [Next]_vars PROVE CaptureInv'
    OBVIOUS
<1>0. Typed /\ OneSession /\ Counted /\ SocketsInv'
    BY SocketsStep DEF CaptureInv, SocketsInv
<1>1. CASE UNCHANGED vars
    <2>1. /\ UNCHANGED <<core, panel, link, down, up, strayed, bits>>
          /\ UNCHANGED <<pending, buffer, sender, gaveUp>>
        BY <1>1 DEF vars, flags, history
    <2>2. /\ UNCHANGED <<handler, session, heard, commands>>
          /\ UNCHANGED <<capture, state, fetch, silenced, muted, muting>>
        BY <2>1 DEF core, panel
    <2>3. Counted'
        BY <1>0, <2>1, <2>2 DEF Counted
    <2>4. Recording' => Recording
        BY <2>1, <2>2, NothingMoves DEF Recording
    <2>5. InTurn /\ Silent => InTurn' /\ Silent'
        BY <1>0, <2>1, <2>4, InTurnQuietSender
    <2> QED BY <1>0, <2>1, <2>3, <2>5 DEF CaptureInv
<1>2. CASE Next
    <2>1. Counted'
        BY <1>0, <1>2, CountedPanel, CountedSender, CountedHandler DEF Next
    <2>2. ASSUME ~ gaveUp' PROVE InTurn' /\ Silent'
        <3>1. InTurn /\ Silent
            BY <1>2, <2>2, GaveUpStays DEF CaptureInv
        <3> QED BY <1>0, <1>2, <2>2, <3>1, InTurnPanel, InTurnSender, InTurnHandler DEF Next
    <2> QED BY <1>0, <2>1, <2>2 DEF CaptureInv
<1> QED BY <1>1, <1>2

\* As long as the panel waits for the core's answer to every start, a command is
\* made of one capture, and not of one that was muted before its last frame,
\* however many there are and however the link and the tasks interleave.
THEOREM CommandsOfOneCapture == Spec => []CommandIsOneCapture
<1>1. Init => CaptureInv
    <2> SUFFICES ASSUME Init PROVE CaptureInv
        OBVIOUS
    <2>1. Typed /\ OneSession /\ NoOrphanSocket
        BY InitTyped DEF Init, NoOrphanSocket, At
    <2>2. Len(up) = 0 /\ Len(buffer) = 0 /\ Len(down) = 0
        BY EmptySeq DEF Init
    <2>3. /\ capture = 0 /\ state = "waiting" /\ bits = {} /\ pending = {} /\ fetch = "loop"
          /\ sender.capture = 0 /\ handler.capture = 0 /\ handler.pc = "idle" /\ session = 0
          /\ heard = {} /\ silenced = {} /\ commands = {} /\ link = "up" /\ muting = FALSE
        BY DEF Init, At
    <2>4. ~ StartIn /\ ~ EndIn /\ ~ OwnIn /\ ~ ReadyIn /\ ~ Buffered /\ ~ Opening
        BY <2>2, <2>3 DEF StartIn, EndIn, OwnIn, ReadyIn, Buffered, Opening, Starting
    <2>5. Counted
        BY <2>2, <2>3 DEF Counted
    <2>6. OneStart /\ StartIsCurrent /\ HeardIsOwn
        BY <2>2, <2>3, <2>4 DEF OneStart, StartIsCurrent, HeardIsOwn
    <2>7. AcceptanceIsOwn /\ SilencedStays /\ NothingEnded
        BY <2>3, <2>4 DEF AcceptanceIsOwn, Recording, SilencedStays, NothingEnded
    <2> QED BY <2>1, <2>5, <2>6, <2>7 DEF CaptureInv, SocketsInv, InTurn, Silent
<1>2. CaptureInv => CommandIsOneCapture
    <2> SUFFICES ASSUME CaptureInv, ~ gaveUp, NEW S \in commands
                 PROVE  Cardinality(S \ strayed) <= 1 /\ (S \ strayed) \cap silenced = {}
        BY DEF CommandIsOneCapture
    <2>1. PICK c \in Captures : S \ strayed \subseteq {c}
        BY DEF CaptureInv, InTurn, HeardIsOwn
    <2>2. S \ strayed = {} \/ S \ strayed = {c}
        BY <2>1
    <2>3. Cardinality(S \ strayed) <= 1
        BY <2>2, FS_EmptySet, FS_Singleton
    <2>4. (S \ strayed) \cap silenced = {}
        BY DEF CaptureInv, Silent, SilencedStays
    <2> QED BY <2>3, <2>4
<1> QED BY <1>1, <1>2, CaptureStep, PTL DEF Spec
=============================================================================
