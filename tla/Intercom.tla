------------------------------ MODULE Intercom ------------------------------
(***************************************************************************)
(* Room-to-room calls: services/intercom_service.py, the part of           *)
(* app_factory.websocket_endpoint that drives it, and the call state of    *)
(* the endpoint firmware (main/roomhub_transport.cpp).                     *)
(*                                                                         *)
(* The server is one asyncio loop.  A step is what runs between two        *)
(* awaits; the tasks are one handler per socket, which reads its next      *)
(* message only when the previous one is answered, and one expiry task per *)
(* ringing call.  A task that awaits manager.send keeps the socket the     *)
(* send was given (via) across the await.  A message is put on the wire    *)
(* when send is called: the per-socket lock keeps the order of the calls.  *)
(***************************************************************************)
EXTENDS ConnectionManager, Sequences

CONSTANTS
    Calls,        \* call ids: uuid4 values, each used at most once
    NoCall,
    NoSession,    \* a call id that no start has used yet
    LinksFail,    \* do links get lost in this behaviour?
    SlowSends,    \* can an awaited send suspend (a full transport buffer)?
    MaxInFlight,  \* requests an endpoint may have in flight
    MaxMarks,     \* ends in flight, if another comes without a press
    Frames        \* the frames that are sent: are they sound?

\* IntercomSession
Session == [source : Endpoints, target : Endpoints,
            state : {"ringing", "active"}]

ASSUME NoCallAssumption == NoCall \notin Calls
ASSUME NoSessionAssumption == NoSession \notin Session
ASSUME KnobAssumption ==
    /\ LinksFail \in BOOLEAN /\ SlowSends \in BOOLEAN
    /\ MaxInFlight \in Nat /\ MaxMarks \in Nat /\ Frames \subseteq BOOLEAN

VARIABLES
    online,    \* Endpoint.connected in the registry
    sessions,  \* IntercomService._endpoint_sessions
    call,      \* the IntercomSession objects
    timer,     \* session.timeout_task and where _expire_ringing stands
    handler,   \* where websocket_endpoint stands for each socket
    request,   \* messages of the endpoint the handler has not read yet
    panel,     \* the call the endpoint believes in
    armed      \* history: calls whose target was sent intercom.active

vars == <<connections, ws, online, sessions, call, timer, handler, request,
          panel, armed>>

links == <<connections, ws, online>>

-----------------------------------------------------------------------------
(* State                                                                   *)

\* A handler awaits one send about a call, or it does something else.
Sending == {"ring", "arm_target", "arm_source", "rollback", "decline",
            "ending", "audio", "closing"}

Handler ==
    [pc : {"unregistered", "connecting", "idle", "done"}, call : {NoCall},
     via : {NoSocket}]
        \cup [pc : Sending, call : Calls, via : Sockets]

Timer ==
    [pc : {"none", "sleeping", "cancelled", "over"}, via : {NoSocket}]
        \cup [pc : {"missed", "no_answer"}, via : Sockets]

IdlePanel == [phase |-> "idle", call |-> NoCall]

Panel ==
    {IdlePanel}
        \cup [phase : {"outgoing", "incoming", "active", "ending"}, call : Calls]

Request ==
    [type : {"start"}, target : Endpoints]
        \cup [type : {"accept", "decline"}, call : Calls]
        \cup [type : {"end"}, call : Calls \cup {NoCall}]
        \cup [type : {"audio"}, valid : BOOLEAN]

TypeOK ==
    /\ ConnectionTypeOK
    /\ online \in [Endpoints -> BOOLEAN]
    /\ sessions \in [Endpoints -> Calls \cup {NoCall}]
    /\ call \in [Calls -> Session \cup {NoSession}]
    /\ timer \in [Calls -> Timer]
    /\ handler \in [Sockets -> Handler]
    /\ request \in [Sockets -> Seq(Request)]
    /\ panel \in [Endpoints -> Panel]
    /\ armed \subseteq Calls

At(pc) == [pc |-> pc, call |-> NoCall, via |-> NoSocket]
TimerAt(pc) == [pc |-> pc, via |-> NoSocket]

Init ==
    /\ ConnectionInit
    /\ online = [e \in Endpoints |-> FALSE]
    /\ sessions = [e \in Endpoints |-> NoCall]
    /\ call = [c \in Calls |-> NoSession]
    /\ timer = [c \in Calls |-> TimerAt("none")]
    /\ handler = [s \in Sockets |-> At("unregistered")]
    /\ request = [s \in Sockets |-> <<>>]
    /\ panel = [e \in Endpoints |-> IdlePanel]
    /\ armed = {}

-----------------------------------------------------------------------------
(* Helpers                                                                 *)

\* No task is suspended in a send.
Settled ==
    /\ \A s \in Sockets : handler[s].pc \notin Sending
    /\ \A c \in Calls : timer[c].pc \notin {"missed", "no_answer"}

\* The sockets some suspended send was given.
Pending == {handler[s].via : s \in Sockets} \cup {timer[c].via : c \in Calls}

\* When a new event is served: unless sends can suspend, a task that called
\* one runs on first; and the tasks a dead link wakes run before what comes
\* after it.
MayBegin ==
    /\ SlowSends \/ Settled
    /\ \A s \in Pending \ {NoSocket} : ws[s] # "dead"

Parties(c) == {call[c].source, call[c].target}

\* IntercomSession.peer
Peer(c, e) ==
    IF e = call[c].source THEN call[c].target ELSE call[c].source

\* What the firmware shows after a server message about call c.
\* "ended" and "rejected" clear it whatever call they name.
Shown(message, c) ==
    IF message = "ringing" THEN [phase |-> "outgoing", call |-> c]
    ELSE IF message \in {"incoming", "active"}
      THEN [phase |-> message, call |-> c]
      ELSE IdlePanel

\* A message written to socket s reaches the endpoint if the link is up.
Write(s, message, c) ==
    panel' = IF ws[s] = "open"
               THEN [panel EXCEPT ![Owner(s)] = Shown(message, c)]
               ELSE panel

\* Mutant: the call and the socket of the finished send are kept.
DoneKeepsCall(s) == handler' = [handler EXCEPT ![s].pc = "idle"]

\* A task calls manager.send(e, message) with a connected e and awaits it.
Await(s, pc, c, e) ==
    handler' = [handler EXCEPT
                  ![s] = [pc |-> pc, call |-> c, via |-> connections[e]]]

\* The handler has answered and reads its next message.
Done(s) == handler' = [handler EXCEPT ![s] = At("idle")]

\* Mutant: only the caller is released.
ReleaseCaller(c) ==
    /\ sessions' = [sessions EXCEPT ![call[c].source] = NoCall]
    /\ timer' = IF timer[c].pc = "sleeping"
                  THEN [timer EXCEPT ![c] = TimerAt("cancelled")]
                  ELSE timer

\* _release: cancel the timeout, then pop both ids, whoever holds them now.
Release(c) ==
    /\ sessions' = [e \in Endpoints |->
                      IF e \in Parties(c) THEN NoCall ELSE sessions[e]]
    /\ timer' = IF timer[c].pc = "sleeping"
                  THEN [timer EXCEPT ![c] = TimerAt("cancelled")]
                  ELSE timer

\* The handler takes the next message of its socket, which is_current.
Receive(s, type) ==
    /\ MayBegin
    /\ handler[s].pc = "idle"
    /\ request[s] # <<>>
    /\ IsCurrent(s)
    /\ Head(request[s]).type = type
    /\ request' = [request EXCEPT ![s] = Tail(@)]

-----------------------------------------------------------------------------
(* The endpoint                                                            *)

\* The endpoint opens a WebSocket; its handler waits for endpoint.register.
EndpointConnects(s) ==
    /\ MayBegin
    /\ OpenSocket(s)
    /\ UNCHANGED <<connections, online, sessions, call, timer, handler, request,
                   panel, armed>>

\* The link drops.  The firmware forgets its call at once.
EndpointLost(s) ==
    /\ LinksFail
    /\ MayBegin
    /\ LoseSocket(s)
    /\ panel' = [panel EXCEPT ![Owner(s)] = IdlePanel]
    /\ UNCHANGED <<connections, online, sessions, call, timer, handler, request,
                   armed>>

LossNoticed(s) ==
    /\ MayBegin
    /\ NoticeLoss(s)
    /\ UNCHANGED <<connections, online, sessions, call, timer, handler, request,
                   panel, armed>>

Fresh == {c \in Calls : call[c] = NoSession}

InFlight(type) ==
    {s \in Sockets : \E i \in DOMAIN request[s] : request[s][i].type = type}

\* The endpoint is registered on s and sends message m.
Requests(s, m) ==
    /\ MayBegin
    /\ ws[s] = "open"
    /\ handler[s].pc \notin {"unregistered", "connecting", "done"}
    /\ Len(request[s]) < MaxInFlight
    /\ request' = [request EXCEPT ![s] = Append(@, m)]
    /\ UNCHANGED <<links, sessions, call, timer, handler, armed>>

\* start_intercom_call: the room list only shows while no call is shown, and
\* the call blocks the UI until the reply, so one start at a time.
RequestStart(s) ==
    /\ panel[Owner(s)].phase = "idle"
    /\ s \notin InFlight("start")
    /\ Cardinality(InFlight("start")) < Cardinality(Fresh)
    /\ \E t \in Endpoints \ {Owner(s)} :
         Requests(s, [type |-> "start", target |-> t])
    /\ UNCHANGED panel

\* respond_intercom_call(true): the overlay stays up ("Connecting...").
RequestAccept(s) ==
    /\ panel[Owner(s)].phase = "incoming"
    /\ Requests(s, [type |-> "accept", call |-> panel[Owner(s)].call])
    /\ UNCHANGED panel

\* respond_intercom_call(false) from an incoming call; end_intercom_call and
\* cancel_intercom_call otherwise, when the sender task finds their mark before
\* another message comes.  The endpoint keeps the id until the reply.
RequestHangUp(s) ==
    LET p == panel[Owner(s)] IN
    /\ \/ /\ p.phase = "incoming"
          /\ Requests(s, [type |-> "decline", call |-> p.call])
       \/ /\ p.phase \in {"outgoing", "active"}
          /\ Requests(s, [type |-> "end", call |-> p.call])
    /\ panel' = [panel EXCEPT ![Owner(s)].phase = "ending"]

\* voice_sender_task finds intercom_end_pending or intercom_cancel_pending and
\* names the call the endpoint has by then, or none: another message came since
\* the press, or a firmware.update set the mark, as it does at any time and
\* with or without a call.
RequestEnd(s) ==
    /\ Cardinality(InFlight("end")) < MaxMarks
    /\ Requests(s, [type |-> "end", call |-> panel[Owner(s)].call])
    /\ UNCHANGED panel

\* A PCM frame; the server also has an answer to an odd or oversized one.
RequestAudio(s) ==
    /\ panel[Owner(s)].phase = "active"
    /\ \E valid \in Frames : Requests(s, [type |-> "audio", valid |-> valid])
    /\ UNCHANGED panel

-----------------------------------------------------------------------------
(* The life of a handler                                                   *)

\* endpoint.register is authenticated; manager.connect awaits the close of
\* the socket it replaces, if there is one.  A message of an older socket of
\* the endpoint does not arrive after one of a newer.
Register(s) ==
    /\ MayBegin
    /\ handler[s].pc = "unregistered"
    /\ ws[s] # "unopened"
    /\ \A t \in Sockets :
         Owner(t) = Owner(s) /\ t[2] > s[2] => handler[t].pc = "unregistered"
    /\ Connect(s)
    /\ IF Reachable(Owner(s))
         THEN /\ handler' = [handler EXCEPT ![s] = At("connecting")]
              /\ UNCHANGED online
         ELSE /\ Done(s)
              /\ online' = [online EXCEPT ![Owner(s)] = TRUE]
    /\ UNCHANGED <<ws, sessions, call, timer, request, panel, armed>>

PreviousClosed(s) ==
    /\ MayBegin
    /\ handler[s].pc = "connecting"
    /\ Done(s)
    /\ online' = [online EXCEPT ![Owner(s)] = TRUE]
    /\ UNCHANGED <<connections, ws, sessions, call, timer, request, panel, armed>>

\* The endpoint left before it registered.
NeverRegistered(s) ==
    /\ MayBegin
    /\ handler[s].pc = "unregistered"
    /\ ws[s] = "dead"
    /\ handler' = [handler EXCEPT ![s] = At("done")]
    /\ UNCHANGED <<links, sessions, call, timer, request, panel, armed>>

\* The receive loop ends, and what it has not read is dropped: a disconnect
\* was read, the last reply raised, or a message was read of a socket that is
\* no longer current.
LoopEnds(s) ==
    /\ MayBegin
    /\ handler[s].pc = "idle"
    /\ \/ ws[s] = "dead"
       \/ request[s] # <<>> /\ ~ IsCurrent(s)
    /\ request' = [request EXCEPT ![s] = <<>>]

MarkOffline(s) ==
    /\ online' = [online EXCEPT ![Owner(s)] = FALSE]
    /\ handler' = [handler EXCEPT ![s] = At("done")]

\* finally, on a socket that was replaced or already dropped: nothing.
CloseReplaced(s) ==
    /\ LoopEnds(s)
    /\ ~ IsCurrent(s)
    /\ handler' = [handler EXCEPT ![s] = At("done")]
    /\ UNCHANGED <<links, sessions, call, timer, panel, armed>>

\* finally, on the current socket: disconnect and close_endpoint, which tells
\* the peer; then the endpoint is marked offline.
CloseCurrent(s) ==
    LET e == Owner(s)
        c == sessions[e] IN
    /\ LoopEnds(s)
    /\ IsCurrent(s)
    /\ Disconnect(s)
    /\ \/ /\ c = NoCall
          /\ MarkOffline(s)
          /\ UNCHANGED <<sessions, timer, panel>>
       \/ /\ c # NoCall
          /\ Release(c)
          /\ ~ Reachable(Peer(c, e))
          /\ MarkOffline(s)
          /\ UNCHANGED panel
       \/ /\ c # NoCall
          /\ Release(c)
          /\ Reachable(Peer(c, e))
          /\ Write(connections[Peer(c, e)], "ended", c)
          /\ Await(s, "closing", c, Peer(c, e))
          /\ UNCHANGED online
    /\ UNCHANGED <<ws, call, armed>>

\* close_endpoint returns.  The registry entry is looked up only now.
ClosePeerTold(s) ==
    /\ handler[s].pc = "closing"
    /\ Returned(handler[s].via)
    /\ MarkOffline(s)
    /\ UNCHANGED <<ws, sessions, call, timer, request, panel, armed>>

\* Any other manager.send (intercom.targets, dashboards, audio, firmware)
\* finds the link of e down and drops the connection without more ado.
OtherSendRaises(e) ==
    /\ MayBegin
    /\ Reachable(e)
    /\ Raised(connections[e])
    /\ UNCHANGED <<ws, online, sessions, call, timer, handler, request, panel,
                   armed>>

-----------------------------------------------------------------------------
(* intercom.start                                                          *)

\* Mutant: nobody is ever busy.
BusyNever(e) == FALSE

Busy(e) == sessions[e] # NoCall

\* start: both endpoints are reserved, then the target is told.
Start(s) ==
    LET t == Head(request[s]).target IN
    /\ Receive(s, "start")
    /\ t # Owner(s)
    /\ online[t] /\ Reachable(t)
    /\ ~ Busy(Owner(s)) /\ ~ Busy(t)
    /\ \E c \in Fresh :
         /\ call' = [call EXCEPT ![c] = [source |-> Owner(s), target |-> t,
                                         state |-> "ringing"]]
         /\ sessions' = [sessions EXCEPT ![Owner(s)] = c, ![t] = c]
         /\ Write(connections[t], "incoming", c)
         /\ Await(s, "ring", c, t)
    /\ UNCHANGED <<links, timer, armed>>

\* source_is_target, target_unavailable or endpoint_busy
StartRefused(s) ==
    LET t == Head(request[s]).target IN
    /\ Receive(s, "start")
    /\ \/ t = Owner(s)
       \/ ~ online[t]
       \/ ~ Reachable(t)
       \/ Busy(Owner(s))
       \/ Busy(t)
    /\ Write(s, "rejected", NoCall)
    /\ UNCHANGED <<links, sessions, call, timer, handler, armed>>

\* Mutant: the expiry task is not started.
StartRingsUntimed(s) ==
    LET c == handler[s].call IN
    /\ handler[s].pc = "ring"
    /\ Delivered(handler[s].via)
    /\ Write(s, "ringing", c)
    /\ Done(s)
    /\ UNCHANGED <<ws, online, sessions, call, timer, request, armed>>

\* The target was told: the expiry task starts and the caller hears ringing.
\* Whether the call is still there is not looked at.
StartRings(s) ==
    LET c == handler[s].call IN
    /\ handler[s].pc = "ring"
    /\ Delivered(handler[s].via)
    /\ timer' = [timer EXCEPT ![c] = TimerAt("sleeping")]
    /\ Write(s, "ringing", c)
    /\ Done(s)
    /\ UNCHANGED <<ws, online, sessions, call, request, armed>>

StartUndelivered(s) ==
    /\ handler[s].pc = "ring"
    /\ Raised(handler[s].via)
    /\ Release(handler[s].call)
    /\ Write(s, "rejected", NoCall)
    /\ Done(s)
    /\ UNCHANGED <<ws, online, call, request, armed>>

-----------------------------------------------------------------------------
(* intercom.status                                                         *)

\* The call rings at e and the message names it.
RingsAt(e, c) ==
    /\ sessions[e] = c
    /\ call[c].target = e
    /\ call[c].state = "ringing"

\* Mutant: the caller is told first.
AcceptCallerFirst(s) ==
    LET c == Head(request[s]).call IN
    /\ Receive(s, "accept")
    /\ RingsAt(Owner(s), c)
    /\ Reachable(call[c].source)
    /\ call' = [call EXCEPT ![c].state = "active"]
    /\ timer' = IF timer[c].pc = "sleeping"
                  THEN [timer EXCEPT ![c] = TimerAt("cancelled")]
                  ELSE timer
    /\ Write(connections[call[c].source], "active", c)
    /\ Await(s, "arm_target", c, call[c].source)
    /\ UNCHANGED <<links, sessions, armed>>

\* accepted: active from here on; the target is armed before the caller.
Accept(s) ==
    LET c == Head(request[s]).call IN
    /\ Receive(s, "accept")
    /\ RingsAt(Owner(s), c)
    /\ call' = [call EXCEPT ![c].state = "active"]
    /\ timer' = IF timer[c].pc = "sleeping"
                  THEN [timer EXCEPT ![c] = TimerAt("cancelled")]
                  ELSE timer
    /\ armed' = armed \cup {c}
    /\ Write(s, "active", c)
    /\ Await(s, "arm_target", c, Owner(s))
    /\ UNCHANGED <<links, sessions>>

\* no_incoming_call, for an answer of either kind
AnswerRefused(s) ==
    /\ Receive(s, "accept") \/ Receive(s, "decline")
    /\ ~ RingsAt(Owner(s), Head(request[s]).call)
    /\ Write(s, "rejected", NoCall)
    /\ UNCHANGED <<links, sessions, call, timer, handler, armed>>

\* Mutant: the call of a caller that is gone is not released.
CallerGoneUnreleased(s, c) ==
    /\ UNCHANGED <<sessions, timer>>
    /\ \/ /\ Reachable(Owner(s))
          /\ Write(connections[Owner(s)], "ended", c)
          /\ Await(s, "rollback", c, Owner(s))
       \/ /\ ~ Reachable(Owner(s))
          /\ Write(s, "rejected", NoCall)
          /\ Done(s)

\* source_unavailable: release, and take the target's call back.
CallerGone(s, c) ==
    /\ Release(c)
    /\ \/ /\ Reachable(Owner(s))
          /\ Write(connections[Owner(s)], "ended", c)
          /\ Await(s, "rollback", c, Owner(s))
       \/ /\ ~ Reachable(Owner(s))
          /\ Write(s, "rejected", NoCall)
          /\ Done(s)

TargetArmed(s) ==
    LET c == handler[s].call
        source == call[c].source IN
    /\ handler[s].pc = "arm_target"
    /\ Delivered(handler[s].via)
    /\ \/ /\ Reachable(source)
          /\ Write(connections[source], "active", c)
          /\ Await(s, "arm_source", c, source)
          /\ UNCHANGED <<sessions, timer>>
       \/ /\ ~ Reachable(source)
          /\ CallerGone(s, c)
    /\ UNCHANGED <<ws, online, call, request, armed>>

TargetUnarmed(s) ==
    /\ handler[s].pc = "arm_target"
    /\ Raised(handler[s].via)
    /\ Release(handler[s].call)
    /\ Write(s, "rejected", NoCall)
    /\ Done(s)
    /\ UNCHANGED <<ws, online, call, request, armed>>

\* intercom.status.ack changes nothing at the endpoint.
SourceArmed(s) ==
    /\ handler[s].pc = "arm_source"
    /\ Delivered(handler[s].via)
    /\ Done(s)
    /\ UNCHANGED <<ws, online, sessions, call, timer, request, panel, armed>>

SourceUnarmed(s) ==
    /\ handler[s].pc = "arm_source"
    /\ Raised(handler[s].via)
    /\ CallerGone(s, handler[s].call)
    /\ UNCHANGED <<ws, online, call, request, armed>>

RolledBack(s) ==
    /\ handler[s].pc = "rollback"
    /\ Returned(handler[s].via)
    /\ Write(s, "rejected", NoCall)
    /\ Done(s)
    /\ UNCHANGED <<ws, online, sessions, call, timer, request, armed>>

\* Release c, tell the other party if it can be reached, and answer s. The
\* answer is "ended" or "rejected": the endpoint reacts alike.
EndCall(s, c, other, message, pc) ==
    /\ Release(c)
    /\ \/ /\ Reachable(other)
          /\ Write(connections[other], message, c)
          /\ Await(s, pc, c, other)
       \/ /\ ~ Reachable(other)
          /\ Write(s, "ended", c)
          /\ Done(s)

\* declined
Decline(s) ==
    LET c == Head(request[s]).call IN
    /\ Receive(s, "decline")
    /\ RingsAt(Owner(s), c)
    /\ EndCall(s, c, call[c].source, "rejected", "decline")
    /\ UNCHANGED <<links, call, armed>>

\* intercom.end and intercom.cancel: stop.  Without an id it ends whatever call
\* the endpoint is in.
End(s) ==
    LET c == sessions[Owner(s)] IN
    /\ Receive(s, "end")
    /\ c # NoCall
    /\ Head(request[s]).call \in {c, NoCall}
    /\ EndCall(s, c, Peer(c, Owner(s)), "ended", "ending")
    /\ UNCHANGED <<links, call, armed>>

\* no_active_call or call_id_mismatch
EndRefused(s) ==
    LET c == sessions[Owner(s)] IN
    /\ Receive(s, "end")
    /\ c = NoCall \/ Head(request[s]).call \notin {c, NoCall}
    /\ Write(s, "rejected", NoCall)
    /\ UNCHANGED <<links, sessions, call, timer, handler, armed>>

\* The peer was told (or not); the reply goes to this socket.
PeerTold(s) ==
    /\ handler[s].pc \in {"decline", "ending"}
    /\ Returned(handler[s].via)
    /\ Write(s, "ended", handler[s].call)
    /\ Done(s)
    /\ UNCHANGED <<ws, online, sessions, call, timer, request, armed>>

-----------------------------------------------------------------------------
(* PCM frames: send_audio                                                  *)

Transmitting(e) == sessions[e] # NoCall /\ call[sessions[e]].state = "active"

\* A frame of an endpoint without an active call is not an intercom frame.
AudioElsewhere(s) ==
    /\ Receive(s, "audio")
    /\ ~ Transmitting(Owner(s))
    /\ UNCHANGED <<links, sessions, call, timer, handler, panel, armed>>

ForwardAudio(s) ==
    LET c == sessions[Owner(s)]
        peer == Peer(c, Owner(s)) IN
    /\ Receive(s, "audio")
    /\ Head(request[s]).valid
    /\ Transmitting(Owner(s))
    /\ Reachable(peer)
    /\ Await(s, "audio", c, peer)
    /\ UNCHANGED <<links, sessions, call, timer, panel, armed>>

\* An invalid frame, or a peer without a connection, ends the call.
AudioEndsCall(s) ==
    LET c == sessions[Owner(s)]
        peer == Peer(c, Owner(s)) IN
    /\ Receive(s, "audio")
    /\ Transmitting(Owner(s))
    /\ ~ Head(request[s]).valid \/ ~ Reachable(peer)
    /\ EndCall(s, c, peer, "ended", "ending")
    /\ UNCHANGED <<links, call, armed>>

AudioForwarded(s) ==
    /\ handler[s].pc = "audio"
    /\ Delivered(handler[s].via)
    /\ Done(s)
    /\ UNCHANGED <<ws, online, sessions, call, timer, request, panel, armed>>

\* The frame could not be sent: stop, if the endpoint is still in that call.
\* The raised send took the peer's entry unless the peer had reconnected.
AudioUndelivered(s) ==
    LET c == handler[s].call
        e == Owner(s)
        peer == Peer(c, e) IN
    /\ handler[s].pc = "audio"
    /\ Raised(handler[s].via)
    /\ \/ /\ sessions[e] = c
          /\ Release(c)
          /\ \/ /\ connections[peer] \notin {NoSocket, handler[s].via}
                /\ Write(connections[peer], "ended", c)
                /\ Await(s, "ending", c, peer)
             \/ /\ connections[peer] \in {NoSocket, handler[s].via}
                /\ Write(s, "rejected", c)
                /\ Done(s)
       \/ /\ sessions[e] # c
          /\ Write(s, "rejected", c)
          /\ Done(s)
          /\ UNCHANGED <<sessions, timer>>
    /\ UNCHANGED <<ws, online, call, request, armed>>

-----------------------------------------------------------------------------
(* The ringing timeout: _expire_ringing                                    *)

\* The caller hears no_answer if it can be reached; the task is over.
TellCaller(c) ==
    LET source == call[c].source IN
    \/ /\ Reachable(source)
       /\ Write(connections[source], "rejected", c)
       /\ timer' = [timer EXCEPT ![c] = [pc |-> "no_answer",
                                         via |-> connections[source]]]
    \/ /\ ~ Reachable(source)
       /\ timer' = [timer EXCEPT ![c] = TimerAt("over")]
       /\ UNCHANGED panel

\* Mutant: the target stays entered.
ExpireAtCaller(c) ==
    /\ MayBegin
    /\ timer[c].pc = "sleeping"
    /\ sessions[call[c].source] = c
    /\ call[c].state = "ringing"
    /\ sessions' = [sessions EXCEPT ![call[c].source] = NoCall]
    /\ TellCaller(c)
    /\ UNCHANGED <<links, call, handler, request, armed>>

\* The sleep is over and the caller's entry is still this ringing call.
Expire(c) ==
    LET target == call[c].target IN
    /\ MayBegin
    /\ timer[c].pc = "sleeping"
    /\ sessions[call[c].source] = c
    /\ call[c].state = "ringing"
    /\ sessions' = [e \in Endpoints |->
                      IF e \in Parties(c) THEN NoCall ELSE sessions[e]]
    /\ \/ /\ Reachable(target)
          /\ Write(connections[target], "ended", c)
          /\ timer' = [timer EXCEPT ![c] = [pc |-> "missed",
                                            via |-> connections[target]]]
       \/ /\ ~ Reachable(target)
          /\ TellCaller(c)
    /\ UNCHANGED <<links, call, handler, request, armed>>

ExpireStale(c) ==
    /\ MayBegin
    /\ timer[c].pc = "sleeping"
    /\ sessions[call[c].source] # c \/ call[c].state # "ringing"
    /\ timer' = [timer EXCEPT ![c] = TimerAt("over")]
    /\ UNCHANGED <<links, sessions, call, handler, request, panel, armed>>

MissedTold(c) ==
    /\ timer[c].pc = "missed"
    /\ Returned(timer[c].via)
    /\ TellCaller(c)
    /\ UNCHANGED <<ws, online, sessions, call, handler, request, armed>>

NoAnswerTold(c) ==
    /\ timer[c].pc = "no_answer"
    /\ Returned(timer[c].via)
    /\ timer' = [timer EXCEPT ![c] = TimerAt("over")]
    /\ UNCHANGED <<ws, online, sessions, call, handler, request, panel, armed>>

-----------------------------------------------------------------------------
(* The specification                                                       *)

EndpointStep(s) ==
    \/ EndpointConnects(s) \/ EndpointLost(s)
    \/ RequestStart(s) \/ RequestAccept(s) \/ RequestHangUp(s)
    \/ RequestEnd(s) \/ RequestAudio(s)

CloseStep(s) ==
    \/ NeverRegistered(s) \/ CloseReplaced(s) \/ CloseCurrent(s)
    \/ ClosePeerTold(s)

StartStep(s) ==
    Start(s) \/ StartRefused(s) \/ StartRings(s) \/ StartUndelivered(s)

AnswerStep(s) ==
    \/ Accept(s) \/ AnswerRefused(s) \/ TargetArmed(s) \/ TargetUnarmed(s)
    \/ SourceArmed(s) \/ SourceUnarmed(s) \/ RolledBack(s) \/ Decline(s)

EndStep(s) == End(s) \/ EndRefused(s) \/ PeerTold(s)

AudioStep(s) ==
    \/ AudioElsewhere(s) \/ ForwardAudio(s) \/ AudioEndsCall(s)
    \/ AudioForwarded(s) \/ AudioUndelivered(s)

HandlerStep(s) ==
    \/ LossNoticed(s) \/ Register(s) \/ PreviousClosed(s) \/ CloseStep(s)
    \/ StartStep(s) \/ AnswerStep(s) \/ EndStep(s) \/ AudioStep(s)

TimerStep(c) ==
    Expire(c) \/ ExpireStale(c) \/ MissedTold(c) \/ NoAnswerTold(c)

Next ==
    \/ \E s \in Sockets : EndpointStep(s) \/ HandlerStep(s)
    \/ \E c \in Calls : TimerStep(c)
    \/ \E e \in Endpoints : OtherSendRaises(e)

\* A send comes back (the WebSocket keep-alive ends a dead one), the loop
\* serves every ready task and a sleep ends; endpoints owe nothing.
Fairness ==
    /\ \A s \in Sockets : WF_vars(HandlerStep(s))
    /\ \A c \in Calls : WF_vars(TimerStep(c))

Spec == Init /\ [][Next]_vars

FairSpec == Spec /\ Fairness

-----------------------------------------------------------------------------
(* Properties                                                              *)

\* An endpoint is only ever entered in a call it is a party of: _release pops
\* by endpoint id, and start is the only writer.
OwnEntries ==
    \A e \in Endpoints :
      sessions[e] # NoCall =>
        call[sessions[e]] # NoSession /\ e \in Parties(sessions[e])

\* Both endpoints of a call are reserved and released together.
Paired ==
    \A e \in Endpoints :
      sessions[e] # NoCall => sessions[Peer(sessions[e], e)] = sessions[e]

\* As long as no link fails, the calls are those of the call book: Place is
\* the reservation of both endpoints, Answer the acceptance, Finish _release.
CallBook == INSTANCE CallBook WITH
    book <- [c \in Calls |->
               IF call[c] = NoSession \/ \E e \in Parties(c) : sessions[e] = c
                 THEN call[c]
                 ELSE [call[c] EXCEPT !.state = "over"]]

\* A call that was never started has no entry either.
ASSUME NoEntryAssumption == NoSession \notin CallBook!Entry

KeepsCallBook == CallBook!Spec

\* As long as no link fails, calls are reserved and released as a pair, in
\* every interleaving of handlers and expiry tasks.
PairedWithoutLoss == LinksFail \/ Paired

\* target_status: "Arm the receiver before allowing the caller to send PCM."
\* The caller is told that call c is active, and a frame of c is routed, only
\* after intercom.active was written to its target.
ReceiverArmedFirst ==
    /\ \A e \in Endpoints :
         panel[e].phase = "active" => panel[e].call \in armed
    /\ \A s \in Sockets :
         handler[s].pc \in {"audio", "arm_source"} => handler[s].call \in armed

\* A connection entry goes away only when the link of that very socket is
\* down: the late clean-up of a replaced socket, or a late failure of a send
\* to it, never takes the connection of its successor.
SuccessorStays ==
    [][\A e \in Endpoints :
         connections[e] # NoSocket /\ connections'[e] # connections[e]
           => \/ ws[connections[e]] = "dead"
              \/ connections'[e] # NoSocket /\ connections'[e][2] > connections[e][2]]_vars

\* The ring of a call stops at its caller whatever happens to the target, the
\* links and the other calls: it is answered, ended, or the timeout fires.
RingingAtCaller ==
    {c \in Calls : /\ call[c] # NoSession
                   /\ call[c].state = "ringing"
                   /\ sessions[call[c].source] = c}

CallerStopsRinging ==
    \A c \in Calls : (c \in RingingAtCaller) ~> (c \notin RingingAtCaller)

\* Nothing is under way: no message unread, no task awaiting a send.
Quiet == Settled /\ \A s \in Sockets : request[s] = <<>>

\* protocol/messages.md: "Either participant ends the call with intercom.end
\* [...], including the call_id." Once its call is active and nothing is under
\* way, an endpoint on a live link knows the id it has to name: a call that
\* failed half-way to active is over for both. This is about a call that no
\* other one disturbs: the rejection of a second start clears any call.
ActiveCallIsShown ==
    Quiet => \A e \in Endpoints :
               Transmitting(e) /\ Reachable(e) /\ ws[connections[e]] = "open"
                 => panel[e].call = sessions[e]

\* protocol/messages.md: "Disconnecting either endpoint also releases the
\* call." An endpoint all of whose handlers are finished is in no active call
\* (one that rings is left to its timeout).
DisconnectReleases ==
    \A e \in Endpoints :
      /\ Settled
      /\ \A s \in Sockets : Owner(s) = e =>
           handler[s].pc = "done" \/ ws[s] = "unopened"
      => ~ Transmitting(e)

\* protocol/messages.md: "The call rings for at most 30 seconds". As long as
\* no link fails, a ringing call whose expiry task has run to its end is
\* entered nowhere: the timer never finds its call entered by half.
RingsAtMostThirtySeconds ==
    LinksFail \/ \A c \in Calls :
      timer[c].pc = "over" /\ call[c].state = "ringing" =>
        \A e \in Endpoints : sessions[e] # c

\* protocol/messages.md: "An endpoint can participate in only one call at a
\* time." A frame is only sent to an endpoint that is in the sender's call.
FramesStayInCall ==
    [][\A s \in Sockets :
         handler[s].pc = "idle" /\ handler'[s].pc = "audio"
           => sessions[Owner(handler'[s].via)] = handler'[s].call]_vars
=============================================================================
