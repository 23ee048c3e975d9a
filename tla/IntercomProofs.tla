--------------------------- MODULE IntercomProofs ---------------------------
(***************************************************************************)
(* Proofs about Intercom for every set of endpoints and calls, any number  *)
(* of reconnects and requests in flight, failing links or not.             *)
(***************************************************************************)
EXTENDS Intercom, TLAPS, SequenceTheorems

\* A task that is about a call is about one that was started.
StartedCalls ==
    /\ \A s \in Sockets :
         handler[s].pc \in Sending => call[handler[s].call] # NoSession
    /\ \A c \in Calls : timer[c].pc # "none" => call[c] # NoSession

\* The inductive invariant behind type correctness.
Inv == TypeOK /\ StartedCalls /\ OwnEntries

USE DEF ConnectionTypeOK

LEMMA OwnerType == ASSUME NEW s \in Sockets PROVE Owner(s) \in Endpoints
BY DEF Sockets, Owner

LEMMA WriteType ==
    ASSUME TypeOK, NEW s \in Sockets, NEW message, NEW c,
           Shown(message, c) \in Panel, Write(s, message, c)
    PROVE  panel' \in [Endpoints -> Panel]
BY OwnerType DEF TypeOK, Write

LEMMA ShownType ==
    ASSUME NEW c \in Calls, NEW message \in {"ringing", "incoming", "active"}
    PROVE  Shown(message, c) \in Panel
BY DEF Shown, Panel

LEMMA ClearedType ==
    ASSUME NEW c, NEW message \in {"ended", "rejected"}
    PROVE  Shown(message, c) \in Panel
BY DEF Shown, Panel

LEMMA ReleaseType ==
    ASSUME TypeOK, NEW c \in Calls, Release(c)
    PROVE  /\ sessions' \in [Endpoints -> Calls \cup {NoCall}]
           /\ timer' \in [Calls -> Timer]
           /\ \A d \in Calls : timer'[d].pc # "none" => timer[d].pc # "none"
           /\ \A e \in Endpoints : sessions'[e] \in {NoCall, sessions[e]}
BY DEF TypeOK, Release, TimerAt, Timer

LEMMA RestType ==
    ASSUME TypeOK, NEW s \in Sockets,
           NEW pc \in {"connecting", "idle", "done"},
           handler' = [handler EXCEPT ![s] = At(pc)]
    PROVE  /\ handler' \in [Sockets -> Handler]
           /\ \A t \in Sockets :
                handler'[t].pc \in Sending => handler'[t] = handler[t]
BY DEF TypeOK, At, Handler, Sending

LEMMA DoneType ==
    ASSUME TypeOK, NEW s \in Sockets, Done(s)
    PROVE  /\ handler' \in [Sockets -> Handler]
           /\ \A t \in Sockets :
                handler'[t].pc \in Sending => handler'[t] = handler[t]
BY RestType DEF Done

LEMMA AwaitType ==
    ASSUME TypeOK, NEW s \in Sockets, NEW pc \in Sending, NEW c \in Calls,
           NEW e \in Endpoints, Reachable(e), Await(s, pc, c, e)
    PROVE  /\ handler' \in [Sockets -> Handler]
           /\ \A t \in Sockets :
                handler'[t].pc \in Sending =>
                  handler'[t] = handler[t] \/ handler'[t].call = c
BY DEF TypeOK, Await, Handler, Reachable

LEMMA DropType ==
    ASSUME TypeOK, NEW s \in Sockets, Returned(s) \/ Delivered(s) \/ Raised(s) \/ Disconnect(s)
    PROVE  connections' \in [Endpoints -> Sockets \cup {NoSocket}]
BY OwnerType DEF TypeOK, Returned, Delivered, Raised, Disconnect, Without

LEMMA ReceiveType ==
    ASSUME TypeOK, NEW s \in Sockets, NEW type, Receive(s, type)
    PROVE  /\ request' \in [Sockets -> Seq(Request)]
           /\ Head(request[s]) \in Request
           /\ handler[s].pc = "idle"
           /\ connections[Owner(s)] = s
BY OwnerType DEF TypeOK, Receive, IsCurrent

LEMMA RequestTypes ==
    ASSUME NEW m \in Request
    PROVE  /\ m.type = "start" => m.target \in Endpoints
           /\ m.type \in {"accept", "decline"} => m.call \in Calls
BY DEF Request

-----------------------------------------------------------------------------
(* The steps preserve Inv, operation by operation                          *)

\* An entry that is only ever cleared keeps OwnEntries.
LEMMA ClearedEntries ==
    ASSUME OwnEntries, UNCHANGED call,
           \A e \in Endpoints : sessions'[e] \in {NoCall, sessions[e]}
    PROVE  OwnEntries'
BY DEF OwnEntries, Parties

LEMMA ReservedType ==
    ASSUME Inv, NEW e \in Endpoints, sessions[e] # NoCall
    PROVE  /\ sessions[e] \in Calls
           /\ call[sessions[e]] \in Session
           /\ Peer(sessions[e], e) \in Endpoints
BY DEF Inv, TypeOK, OwnEntries, Peer, Session

LEMMA SendingType ==
    ASSUME Inv, NEW s \in Sockets, handler[s].pc \in Sending
    PROVE  /\ handler[s].call \in Calls
           /\ handler[s].via \in Sockets
           /\ call[handler[s].call] \in Session
           /\ \A e \in Endpoints : Peer(handler[s].call, e) \in Endpoints
BY DEF Inv, TypeOK, StartedCalls, Handler, Sending, Peer, Session

LEMMA TimerType ==
    ASSUME Inv, NEW c \in Calls, timer[c].pc # "none"
    PROVE  /\ call[c] \in Session
           /\ timer[c].pc \in {"missed", "no_answer"} => timer[c].via \in Sockets
BY DEF Inv, TypeOK, StartedCalls, Timer

LEMMA EndpointInv ==
    ASSUME Inv, NEW s \in Sockets, EndpointStep(s) \/ LossNoticed(s)
    PROVE  Inv'
<1>1. CASE EndpointConnects(s) \/ LossNoticed(s)
  BY <1>1 DEF Inv, EndpointConnects, LossNoticed, OpenSocket, NoticeLoss, TypeOK,
              LinkStates, StartedCalls, OwnEntries, Parties
<1>2. CASE EndpointLost(s)
  BY <1>2, OwnerType DEF Inv, EndpointLost, LoseSocket, TypeOK, LinkStates,
              StartedCalls, OwnEntries, Parties, Panel
<1>3. ASSUME NEW m \in Request, Requests(s, m), panel' \in [Endpoints -> Panel]
      PROVE  Inv'
  <2>1. request' \in [Sockets -> Seq(Request)]
    BY <1>3 DEF Inv, TypeOK, Requests
  <2>. QED
    BY <1>3, <2>1 DEF Inv, Requests, TypeOK, links, StartedCalls, OwnEntries, Parties
<1>4. CASE RequestStart(s)
  <2>1. PICK t \in Endpoints : Requests(s, [type |-> "start", target |-> t])
    BY <1>4 DEF RequestStart
  <2>. QED
    BY <1>3, <1>4, <2>1 DEF RequestStart, Inv, TypeOK, Request
<1>5. CASE RequestAccept(s)
  BY <1>3, <1>5, OwnerType DEF RequestAccept, Inv, TypeOK, Request, Panel, IdlePanel
<1>6. CASE RequestHangUp(s)
  <2>. DEFINE p == panel[Owner(s)]
  <2>1. p \in Panel /\ p.phase # "idle"
    BY <1>6, OwnerType DEF RequestHangUp, Inv, TypeOK
  <2>2. p.call \in Calls /\ panel' \in [Endpoints -> Panel]
    BY <1>6, <2>1, OwnerType DEF RequestHangUp, Inv, TypeOK, Panel, IdlePanel
  <2>. QED
    BY <1>3, <1>6, <2>2 DEF RequestHangUp, Request
<1>7. CASE RequestAudio(s)
  BY <1>3, <1>7, KnobAssumption DEF RequestAudio, Inv, TypeOK, Request
<1>8. CASE RequestEnd(s)
  <2>1. panel[Owner(s)].call \in Calls \cup {NoCall}
    BY OwnerType DEF Inv, TypeOK, Panel, IdlePanel
  <2>. QED
    BY <1>3, <1>8, <2>1 DEF RequestEnd, Inv, TypeOK, Request
<1>. QED
  BY <1>1, <1>2, <1>4, <1>5, <1>6, <1>7, <1>8 DEF EndpointStep

LEMMA LifeInv ==
    ASSUME Inv, NEW s \in Sockets,
           Register(s) \/ PreviousClosed(s) \/ CloseStep(s)
    PROVE  Inv'
<1>. USE OwnerType
<1>1. CASE Register(s) \/ PreviousClosed(s)
  <2>1. /\ handler' \in [Sockets -> Handler]
        /\ \A t \in Sockets :
             handler'[t].pc \in Sending => handler'[t] = handler[t]
    BY <1>1, DoneType, RestType DEF Inv, Register, PreviousClosed
  <2>2. connections' \in [Endpoints -> Sockets \cup {NoSocket}]
    BY <1>1 DEF Register, PreviousClosed, Connect, Inv, TypeOK
  <2>3. online' \in [Endpoints -> BOOLEAN]
    BY <1>1 DEF Register, PreviousClosed, Inv, TypeOK
  <2>. QED
    BY <1>1, <2>1, <2>2, <2>3 DEF Inv, Register, PreviousClosed, TypeOK,
       StartedCalls, OwnEntries, Parties
<1>2. LoopEnds(s) => request' \in [Sockets -> Seq(Request)]
  BY DEF LoopEnds, Inv, TypeOK
<1>3. CASE NeverRegistered(s) \/ CloseReplaced(s)
  BY <1>2, <1>3, RestType DEF Inv, NeverRegistered, CloseReplaced, TypeOK, links,
              StartedCalls, OwnEntries, Parties
<1>4. ASSUME MarkOffline(s)
      PROVE  /\ online' \in [Endpoints -> BOOLEAN]
             /\ handler' \in [Sockets -> Handler]
             /\ \A t \in Sockets :
                  handler'[t].pc \in Sending => handler'[t] = handler[t]
  BY <1>4, RestType DEF Inv, MarkOffline, TypeOK
<1>5. CASE CloseCurrent(s)
  <2>. DEFINE e == Owner(s)  c == sessions[e]
  <2>1. connections' \in [Endpoints -> Sockets \cup {NoSocket}]
    BY <1>5, DropType DEF CloseCurrent, Inv
  <2>2. CASE c = NoCall
    BY <1>2, <1>5, <2>1, <2>2, <1>4 DEF CloseCurrent, Inv, TypeOK, StartedCalls,
       OwnEntries, Parties
  <2>3. CASE c # NoCall
    <3>1. c \in Calls /\ call[c] # NoSession /\ Peer(c, e) \in Endpoints
      BY <2>3, ReservedType DEF Inv, OwnEntries
    <3>2. Release(c)
      BY <1>5, <2>3 DEF CloseCurrent
    <3>3. /\ sessions' \in [Endpoints -> Calls \cup {NoCall}]
          /\ timer' \in [Calls -> Timer]
          /\ \A d \in Calls : timer'[d].pc # "none" => timer[d].pc # "none"
          /\ OwnEntries'
      BY <1>5, <3>1, <3>2, ReleaseType, ClearedEntries DEF Inv, CloseCurrent
    <3>4. CASE MarkOffline(s) /\ UNCHANGED panel
      BY <1>2, <1>5, <2>1, <3>3, <3>4, <1>4 DEF CloseCurrent, Inv, TypeOK, StartedCalls
    <3>5. CASE /\ Reachable(Peer(c, e))
               /\ Write(connections[Peer(c, e)], "ended", c)
               /\ Await(s, "closing", c, Peer(c, e))
               /\ UNCHANGED online
      <4>1. connections[Peer(c, e)] \in Sockets
        BY <3>1, <3>5 DEF Inv, TypeOK, Reachable
      <4>2. panel' \in [Endpoints -> Panel]
        BY <3>5, <4>1, WriteType, ClearedType DEF Inv
      <4>3. /\ handler' \in [Sockets -> Handler]
            /\ \A t \in Sockets : handler'[t].pc \in Sending =>
                 handler'[t] = handler[t] \/ handler'[t].call = c
        BY <3>1, <3>5, AwaitType DEF Inv, Sending
      <4>. QED
        BY <1>2, <1>5, <2>1, <3>1, <3>3, <3>5, <4>2, <4>3
        DEF CloseCurrent, Inv, TypeOK, StartedCalls
    <3>. QED
      BY <1>5, <2>3, <3>4, <3>5 DEF CloseCurrent
  <2>. QED
    BY <2>2, <2>3
<1>6. CASE ClosePeerTold(s)
  <2>1. connections' \in [Endpoints -> Sockets \cup {NoSocket}]
    BY <1>6, DropType, SendingType DEF ClosePeerTold, Inv, Sending
  <2>. QED
    BY <1>6, <1>4, <2>1 DEF ClosePeerTold, Inv, TypeOK, StartedCalls, OwnEntries, Parties
<1>. QED
  BY <1>1, <1>3, <1>5, <1>6 DEF CloseStep

\* A step that keeps the call objects keeps Inv if each variable stays typed
\* and no new task or entry names an unstarted call.
LEMMA SameCalls ==
    ASSUME Inv, UNCHANGED <<ws, online, call>>,
           connections' \in [Endpoints -> Sockets \cup {NoSocket}],
           sessions' \in [Endpoints -> Calls \cup {NoCall}],
           \A e \in Endpoints : sessions'[e] \in {NoCall, sessions[e]},
           timer' \in [Calls -> Timer],
           \A c \in Calls : timer'[c].pc # "none" => call[c] # NoSession,
           handler' \in [Sockets -> Handler],
           \A t \in Sockets : handler'[t].pc \in Sending =>
             handler'[t] = handler[t] \/ call[handler'[t].call] # NoSession,
           request' \in [Sockets -> Seq(Request)],
           panel' \in [Endpoints -> Panel],
           armed' \subseteq Calls
    PROVE  Inv'
BY ClearedEntries DEF Inv, TypeOK, StartedCalls

\* A refused or ignored message changes nothing but the panel.
LEMMA RefusedInv ==
    ASSUME Inv, NEW s \in Sockets, NEW type, Receive(s, type),
           Write(s, "rejected", NoCall) \/ UNCHANGED panel,
           UNCHANGED <<links, sessions, call, timer, handler, armed>>
    PROVE  Inv'
<1>1. request' \in [Sockets -> Seq(Request)]
  BY ReceiveType DEF Inv
<1>2. panel' \in [Endpoints -> Panel]
  BY WriteType, ClearedType DEF Inv, TypeOK
<1>. QED
  BY <1>1, <1>2, SameCalls DEF Inv, links, TypeOK, StartedCalls

\* A call ends: what EndCall leaves behind is typed.
LEMMA EndCallType ==
    ASSUME Inv, NEW s \in Sockets, NEW c \in Calls, call[c] # NoSession,
           NEW other \in Endpoints, NEW message \in {"ended", "rejected"},
           NEW pc \in Sending, EndCall(s, c, other, message, pc)
    PROVE  /\ sessions' \in [Endpoints -> Calls \cup {NoCall}]
           /\ \A e \in Endpoints : sessions'[e] \in {NoCall, sessions[e]}
           /\ timer' \in [Calls -> Timer]
           /\ \A d \in Calls : timer'[d].pc # "none" => call[d] # NoSession
           /\ handler' \in [Sockets -> Handler]
           /\ \A t \in Sockets : handler'[t].pc \in Sending =>
                handler'[t] = handler[t] \/ call[handler'[t].call] # NoSession
           /\ panel' \in [Endpoints -> Panel]
<1>1. Release(c)
  BY DEF EndCall
<1>2. CASE Reachable(other) /\ Write(connections[other], message, c)
           /\ Await(s, pc, c, other)
  <2>1. connections[other] \in Sockets
    BY <1>2 DEF Inv, TypeOK, Reachable
  <2>2. panel' \in [Endpoints -> Panel]
    BY <1>2, <2>1, WriteType, ClearedType DEF Inv
  <2>. QED
    BY <1>1, <1>2, <2>2, ReleaseType, AwaitType DEF Inv, StartedCalls
<1>3. CASE Write(s, "ended", c) /\ Done(s)
  BY <1>1, <1>3, ReleaseType, DoneType, WriteType, ClearedType DEF Inv, StartedCalls
<1>. QED
  BY <1>2, <1>3 DEF EndCall

\* The caller cannot be told that its call is active.
LEMMA CallerGoneType ==
    ASSUME Inv, NEW s \in Sockets, NEW c \in Calls, call[c] # NoSession,
           CallerGone(s, c)
    PROVE  /\ sessions' \in [Endpoints -> Calls \cup {NoCall}]
           /\ \A e \in Endpoints : sessions'[e] \in {NoCall, sessions[e]}
           /\ timer' \in [Calls -> Timer]
           /\ \A d \in Calls : timer'[d].pc # "none" => call[d] # NoSession
           /\ handler' \in [Sockets -> Handler]
           /\ \A t \in Sockets : handler'[t].pc \in Sending =>
                handler'[t] = handler[t] \/ call[handler'[t].call] # NoSession
           /\ panel' \in [Endpoints -> Panel]
<1>1. Release(c)
  BY DEF CallerGone
<1>2. CASE Reachable(Owner(s)) /\ Write(connections[Owner(s)], "ended", c)
           /\ Await(s, "rollback", c, Owner(s))
  <2>1. connections[Owner(s)] \in Sockets
    BY <1>2, OwnerType DEF Inv, TypeOK, Reachable
  <2>2. panel' \in [Endpoints -> Panel]
    BY <1>2, <2>1, WriteType, ClearedType DEF Inv
  <2>. QED
    BY <1>1, <1>2, <2>2, ReleaseType, AwaitType, OwnerType
    DEF Inv, StartedCalls, Sending
<1>3. CASE Write(s, "rejected", NoCall) /\ Done(s)
  BY <1>1, <1>3, ReleaseType, DoneType, WriteType, ClearedType DEF Inv, StartedCalls
<1>. QED
  BY <1>2, <1>3 DEF CallerGone

LEMMA StartInv ==
    ASSUME Inv, NEW s \in Sockets, StartStep(s)
    PROVE  Inv'
<1>1. CASE Start(s)
  <2>. DEFINE a == Owner(s)  t == Head(request[s]).target
  <2>1. t \in Endpoints /\ a \in Endpoints /\ request' \in [Sockets -> Seq(Request)]
    BY <1>1, OwnerType, ReceiveType, RequestTypes DEF Start, Inv, Receive
  <2>2. PICK c \in Fresh :
          /\ call' = [call EXCEPT ![c] = [source |-> a, target |-> t,
                                          state |-> "ringing"]]
          /\ sessions' = [sessions EXCEPT ![a] = c, ![t] = c]
          /\ Write(connections[t], "incoming", c)
          /\ Await(s, "ring", c, t)
    BY <1>1 DEF Start
  <2>3. c \in Calls /\ call[c] = NoSession /\ Reachable(t)
    BY <1>1 DEF Fresh, Start
  <2>4. connections[t] \in Sockets
    BY <2>1, <2>3 DEF Inv, TypeOK, Reachable
  <2>5. panel' \in [Endpoints -> Panel]
    BY <2>2, <2>3, <2>4, WriteType, ShownType DEF Inv
  <2>6. /\ handler' \in [Sockets -> Handler]
        /\ \A u \in Sockets : handler'[u].pc \in Sending =>
             handler'[u] = handler[u] \/ handler'[u].call = c
    BY <2>1, <2>2, <2>3, AwaitType DEF Inv, Sending
  <2>7. /\ call' \in [Calls -> Session \cup {NoSession}]
        /\ sessions' \in [Endpoints -> Calls \cup {NoCall}]
        /\ call'[c] # NoSession
        /\ \A d \in Calls : d # c => call'[d] = call[d]
    <3>1. [source |-> a, target |-> t, state |-> "ringing"] \in Session
      BY <2>1 DEF Session
    <3>2. sessions' \in [Endpoints -> Calls \cup {NoCall}]
      BY <2>1, <2>2, <2>3 DEF Inv, TypeOK
    <3>3. call' \in [Calls -> Session \cup {NoSession}]
      BY <2>2, <2>3, <3>1 DEF Inv, TypeOK
    <3>. QED
      BY <2>2, <2>3, <3>1, <3>2, <3>3, NoSessionAssumption DEF Inv, TypeOK
  <2>8. StartedCalls'
    <3>1. \A u \in Sockets : handler'[u].pc \in Sending =>
            call'[handler'[u].call] # NoSession
      BY <2>3, <2>6, <2>7, SendingType DEF Inv, StartedCalls
    <3>. QED
      BY <1>1, <2>7, <3>1 DEF Start, StartedCalls, Inv
  <2>9. OwnEntries'
    <3>. SUFFICES ASSUME NEW e \in Endpoints, sessions'[e] # NoCall
                  PROVE  /\ call'[sessions'[e]] # NoSession
                         /\ e \in {call'[sessions'[e]].source,
                                   call'[sessions'[e]].target}
      BY DEF OwnEntries, Parties
    <3>1. CASE e \in {a, t}
      BY <2>1, <2>2, <2>3, <2>7, <3>1 DEF Inv, TypeOK
    <3>2. CASE e \notin {a, t}
      <4>1. sessions'[e] = sessions[e] /\ sessions[e] # c
        BY <2>1, <2>2, <2>3, <3>2 DEF Inv, TypeOK, OwnEntries
      <4>2. sessions[e] \in Calls
        BY <4>1 DEF Inv, TypeOK
      <4>. QED
        BY <2>7, <4>1, <4>2 DEF Inv, OwnEntries, Parties
    <3>. QED
      BY <3>1, <3>2
  <2>. QED
    BY <1>1, <2>1, <2>5, <2>6, <2>7, <2>8, <2>9 DEF Start, links, Inv, TypeOK
<1>2. CASE StartRefused(s)
  BY <1>2, RefusedInv DEF StartRefused
<1>3. CASE StartRings(s)
  <2>. DEFINE c == handler[s].call
  <2>1. c \in Calls /\ call[c] # NoSession /\ handler[s].via \in Sockets
    BY <1>3, SendingType DEF StartRings, Sending, Inv, StartedCalls
  <2>2. panel' \in [Endpoints -> Panel]
    BY <1>3, <2>1, WriteType, ShownType DEF StartRings, Inv
  <2>3. /\ timer' \in [Calls -> Timer]
        /\ \A d \in Calls : timer'[d].pc # "none" => call[d] # NoSession
    BY <1>3, <2>1 DEF StartRings, Inv, TypeOK, Timer, TimerAt, StartedCalls
  <2>. QED
    BY <1>3, <2>1, <2>2, <2>3, DoneType, DropType, SameCalls
    DEF StartRings, Inv, TypeOK
<1>4. CASE StartUndelivered(s)
  <2>. DEFINE c == handler[s].call
  <2>1. c \in Calls /\ call[c] # NoSession /\ handler[s].via \in Sockets
    BY <1>4, SendingType DEF StartUndelivered, Sending, Inv, StartedCalls
  <2>2. panel' \in [Endpoints -> Panel]
    BY <1>4, <2>1, WriteType, ClearedType DEF StartUndelivered, Inv
  <2>. QED
    BY <1>4, <2>1, <2>2, DoneType, DropType, ReleaseType, SameCalls
    DEF StartUndelivered, Inv, TypeOK, StartedCalls
<1>. QED
  BY <1>1, <1>2, <1>3, <1>4 DEF StartStep

LEMMA AnswerInv ==
    ASSUME Inv, NEW s \in Sockets, AnswerStep(s)
    PROVE  Inv'
<1>1. CASE Accept(s)
  <2>. DEFINE e == Owner(s)  c == Head(request[s]).call
  <2>1. /\ sessions[e] = c /\ e \in Endpoints
        /\ request' \in [Sockets -> Seq(Request)]
        /\ Reachable(e) /\ c # NoCall
    <3>1. c \in Calls
      BY <1>1, ReceiveType, RequestTypes DEF Accept, Inv, Receive
    <3>. QED
      BY <1>1, <3>1, OwnerType, ReceiveType, NoSocketAssumption, NoCallAssumption
      DEF Accept, RingsAt, Inv, Reachable
  <2>2. c \in Calls /\ call[c] \in Session
    BY <2>1, ReservedType
  <2>3. panel' \in [Endpoints -> Panel]
    BY <1>1, <2>2, WriteType, ShownType DEF Accept, Inv
  <2>4. /\ handler' \in [Sockets -> Handler]
        /\ \A u \in Sockets : handler'[u].pc \in Sending =>
             handler'[u] = handler[u] \/ handler'[u].call = c
    BY <1>1, <2>1, <2>2, AwaitType DEF Accept, Inv, Sending
  <2>5. /\ call' \in [Calls -> Session \cup {NoSession}]
        /\ \A d \in Calls : /\ call[d] # NoSession => call'[d] # NoSession
                            /\ call'[d].source = call[d].source
                            /\ call'[d].target = call[d].target
    <3>1. call' = [call EXCEPT ![c].state = "active"]
      BY <1>1 DEF Accept
    <3>2. \A d \in Calls : call'[d] = IF d = c
                             THEN [call[c] EXCEPT !.state = "active"]
                             ELSE call[d]
      BY <3>1, <2>2 DEF Inv, TypeOK
    <3>3. [call[c] EXCEPT !.state = "active"] \in Session
      BY <2>2 DEF Session
    <3>4. call' \in [Calls -> Session \cup {NoSession}]
      BY <3>1, <3>3, <2>2 DEF Inv, TypeOK
    <3>5. \A d \in Calls : call[d] # NoSession => call'[d] # NoSession
      BY <3>2, <3>3, NoSessionAssumption
    <3>6. \A d \in Calls : /\ call'[d].source = call[d].source
                           /\ call'[d].target = call[d].target
      BY <3>2, <2>2 DEF Session
    <3>. QED
      BY <3>4, <3>5, <3>6
  <2>6. /\ timer' \in [Calls -> Timer]
        /\ \A d \in Calls : timer'[d].pc # "none" => timer[d].pc # "none"
    BY <1>1, <2>2 DEF Accept, Inv, TypeOK, Timer, TimerAt
  <2>7. StartedCalls'
    BY <2>2, <2>4, <2>5, <2>6, SendingType, NoSessionAssumption
    DEF Inv, StartedCalls
  <2>8. OwnEntries'
    <3>. SUFFICES ASSUME NEW x \in Endpoints, sessions'[x] # NoCall
                  PROVE  /\ call'[sessions'[x]] # NoSession
                         /\ x \in {call'[sessions'[x]].source,
                                   call'[sessions'[x]].target}
      BY DEF OwnEntries, Parties
    <3>1. sessions' = sessions /\ sessions[x] \in Calls
      BY <1>1 DEF Accept, Inv, TypeOK
    <3>2. call[sessions[x]] # NoSession /\ x \in Parties(sessions[x])
      BY <3>1 DEF Inv, OwnEntries
    <3>. QED
      BY <2>5, <3>1, <3>2 DEF Parties
  <2>9. armed' \subseteq Calls
    BY <1>1, <2>2 DEF Accept, Inv, TypeOK
  <2>. QED
    BY <1>1, <2>1, <2>3, <2>4, <2>5, <2>6, <2>7, <2>8, <2>9
    DEF Accept, links, Inv, TypeOK
<1>2. CASE AnswerRefused(s)
  BY <1>2, RefusedInv DEF AnswerRefused
<1>3. ASSUME handler[s].pc \in Sending
      PROVE  /\ handler[s].call \in Calls
             /\ call[handler[s].call] \in Session
             /\ call[handler[s].call] # NoSession
             /\ handler[s].via \in Sockets
  BY <1>3, SendingType DEF Inv, StartedCalls
<1>4. CASE TargetArmed(s)
  <2>. DEFINE c == handler[s].call  source == call[c].source
  <2>1. c \in Calls /\ call[c] # NoSession /\ source \in Endpoints
        /\ handler[s].via \in Sockets
    BY <1>3, <1>4 DEF TargetArmed, Sending, Session
  <2>2. connections' \in [Endpoints -> Sockets \cup {NoSocket}]
    BY <1>4, <2>1, DropType DEF TargetArmed, Inv
  <2>3. CASE /\ Reachable(source)
             /\ Write(connections[source], "active", c)
             /\ Await(s, "arm_source", c, source)
             /\ UNCHANGED <<sessions, timer>>
    <3>1. connections[source] \in Sockets
      BY <2>1, <2>3 DEF Inv, TypeOK, Reachable
    <3>2. panel' \in [Endpoints -> Panel]
      BY <2>1, <2>3, <3>1, WriteType, ShownType DEF Inv
    <3>3. /\ handler' \in [Sockets -> Handler]
          /\ \A t \in Sockets : handler'[t].pc \in Sending =>
               handler'[t] = handler[t] \/ handler'[t].call = c
      BY <2>1, <2>3, AwaitType DEF Inv, Sending
    <3>. QED
      BY <1>4, <2>1, <2>2, <2>3, <3>2, <3>3, SameCalls
      DEF TargetArmed, Inv, TypeOK, StartedCalls
  <2>4. CASE CallerGone(s, c)
    BY <1>4, <2>1, <2>2, <2>4, CallerGoneType, SameCalls DEF TargetArmed, Inv, TypeOK
  <2>. QED
    BY <1>4, <2>3, <2>4 DEF TargetArmed
<1>5. CASE TargetUnarmed(s)
  BY <1>3, <1>5, WriteType, ClearedType, DoneType, DropType, ReleaseType, SameCalls
  DEF TargetUnarmed, Sending, Inv, TypeOK, StartedCalls
<1>6. CASE SourceArmed(s)
  BY <1>3, <1>6, DoneType, DropType, SameCalls
  DEF SourceArmed, Sending, Inv, TypeOK, StartedCalls
<1>7. CASE SourceUnarmed(s)
  BY <1>3, <1>7, DropType, CallerGoneType, SameCalls
  DEF SourceUnarmed, Sending, Inv, TypeOK
<1>8. CASE RolledBack(s)
  BY <1>3, <1>8, WriteType, ClearedType, DoneType, DropType, SameCalls
  DEF RolledBack, Sending, Inv, TypeOK, StartedCalls
<1>9. CASE Decline(s)
  <2>. DEFINE c == Head(request[s]).call
  <2>1. c \in Calls /\ request' \in [Sockets -> Seq(Request)]
    BY <1>9, ReceiveType, RequestTypes DEF Decline, Inv, Receive
  <2>2. call[c] \in Session /\ call[c] # NoSession /\ call[c].source \in Endpoints
    BY <1>9, <2>1, OwnerType, ReservedType, NoCallAssumption
    DEF Decline, RingsAt, Inv, OwnEntries, Session
  <2>. QED
    BY <1>9, <2>1, <2>2, EndCallType, SameCalls
    DEF Decline, links, Sending, Inv, TypeOK
<1>. QED
  BY <1>1, <1>2, <1>4, <1>5, <1>6, <1>7, <1>8, <1>9 DEF AnswerStep

LEMMA TalkInv ==
    ASSUME Inv, NEW s \in Sockets, EndStep(s) \/ AudioStep(s)
    PROVE  Inv'
<1>1. ASSUME Receive(s, "end") \/ Receive(s, "audio"),
             sessions[Owner(s)] # NoCall
      PROVE  /\ sessions[Owner(s)] \in Calls
             /\ call[sessions[Owner(s)]] # NoSession
             /\ Peer(sessions[Owner(s)], Owner(s)) \in Endpoints
             /\ request' \in [Sockets -> Seq(Request)]
  BY <1>1, OwnerType, ReservedType, ReceiveType DEF Inv, OwnEntries
<1>2. CASE End(s)
  BY <1>1, <1>2, EndCallType, SameCalls
  DEF End, links, Sending, Inv, TypeOK
<1>3. CASE EndRefused(s)
  BY <1>3, RefusedInv DEF EndRefused
<1>4. ASSUME handler[s].pc \in Sending
      PROVE  /\ handler[s].call \in Calls
             /\ call[handler[s].call] # NoSession
             /\ handler[s].via \in Sockets
             /\ Peer(handler[s].call, Owner(s)) \in Endpoints
  BY <1>4, SendingType, OwnerType DEF Inv, StartedCalls
<1>5. CASE PeerTold(s)
  BY <1>4, <1>5, WriteType, ClearedType, DoneType, DropType, SameCalls
  DEF PeerTold, Sending, Inv, TypeOK, StartedCalls
<1>6. CASE AudioElsewhere(s)
  BY <1>6, RefusedInv DEF AudioElsewhere, links
<1>7. CASE ForwardAudio(s)
  <2>. DEFINE c == sessions[Owner(s)]  peer == Peer(c, Owner(s))
  <2>1. c \in Calls /\ call[c] # NoSession /\ peer \in Endpoints
        /\ request' \in [Sockets -> Seq(Request)]
    BY <1>1, <1>7 DEF ForwardAudio, Transmitting
  <2>2. /\ handler' \in [Sockets -> Handler]
        /\ \A t \in Sockets : handler'[t].pc \in Sending =>
             handler'[t] = handler[t] \/ handler'[t].call = c
    BY <1>7, <2>1, AwaitType DEF ForwardAudio, Inv, Sending
  <2>. QED
    BY <1>7, <2>1, <2>2, SameCalls DEF ForwardAudio, links, Inv, TypeOK, StartedCalls
<1>8. CASE AudioEndsCall(s)
  BY <1>1, <1>8, EndCallType, SameCalls
  DEF AudioEndsCall, Transmitting, links, Sending, Inv, TypeOK
<1>9. CASE AudioForwarded(s)
  BY <1>4, <1>9, DoneType, DropType, SameCalls
  DEF AudioForwarded, Sending, Inv, TypeOK, StartedCalls
<1>10. CASE AudioUndelivered(s)
  <2>. DEFINE c == handler[s].call  peer == Peer(c, Owner(s))
  <2>1. /\ c \in Calls /\ call[c] # NoSession /\ peer \in Endpoints
        /\ connections' \in [Endpoints -> Sockets \cup {NoSocket}]
    BY <1>4, <1>10, DropType DEF AudioUndelivered, Sending, Inv
  <2>2. CASE Write(s, "rejected", c) /\ Done(s)
             /\ (Release(c) \/ UNCHANGED <<sessions, timer>>)
    BY <1>10, <2>1, <2>2, WriteType, ClearedType, DoneType, ReleaseType, SameCalls
    DEF AudioUndelivered, Inv, TypeOK, StartedCalls
  <2>3. CASE /\ Release(c)
             /\ connections[peer] \notin {NoSocket, handler[s].via}
             /\ Write(connections[peer], "ended", c)
             /\ Await(s, "ending", c, peer)
    <3>1. connections[peer] \in Sockets /\ Reachable(peer)
      BY <2>1, <2>3 DEF Inv, TypeOK, Reachable
    <3>2. panel' \in [Endpoints -> Panel]
      BY <2>3, <3>1, WriteType, ClearedType DEF Inv
    <3>3. /\ handler' \in [Sockets -> Handler]
          /\ \A t \in Sockets : handler'[t].pc \in Sending =>
               handler'[t] = handler[t] \/ handler'[t].call = c
      BY <2>1, <2>3, <3>1, AwaitType DEF Inv, Sending
    <3>. QED
      BY <1>10, <2>1, <2>3, <3>2, <3>3, ReleaseType, SameCalls
      DEF AudioUndelivered, Inv, TypeOK, StartedCalls
  <2>. QED
    BY <1>10, <2>2, <2>3 DEF AudioUndelivered
<1>. QED
  BY <1>2, <1>3, <1>5, <1>6, <1>7, <1>8, <1>9, <1>10 DEF EndStep, AudioStep

\* What the expiry task leaves when it turns to the caller.
LEMMA TellCallerType ==
    ASSUME Inv, NEW c \in Calls, call[c] # NoSession, TellCaller(c)
    PROVE  /\ panel' \in [Endpoints -> Panel]
           /\ timer' \in [Calls -> Timer]
           /\ \A d \in Calls : d # c => timer'[d] = timer[d]
<1>1. call[c].source \in Endpoints
  BY DEF Inv, TypeOK, Session
<1>2. CASE ~ Reachable(call[c].source)
  BY <1>2 DEF TellCaller, Inv, TypeOK, Timer, TimerAt
<1>3. CASE Reachable(call[c].source)
  <2>1. connections[call[c].source] \in Sockets
    BY <1>1, <1>3 DEF Inv, TypeOK, Reachable
  <2>2. panel' \in [Endpoints -> Panel]
    BY <1>3, <2>1, WriteType, ClearedType DEF TellCaller, Inv
  <2>3. [pc |-> "no_answer", via |-> connections[call[c].source]] \in Timer
    BY <2>1 DEF Timer
  <2>. QED
    BY <1>3, <2>2, <2>3 DEF TellCaller, Inv, TypeOK
<1>. QED
  BY <1>2, <1>3

LEMMA TimerInv ==
    ASSUME Inv, NEW c \in Calls, TimerStep(c)
    PROVE  Inv'
<1>1. call[c] # NoSession /\ call[c] \in Session
  BY TimerType DEF TimerStep, Expire, ExpireStale, MissedTold, NoAnswerTold, Inv,
     StartedCalls
<1>2. ASSUME timer' = [timer EXCEPT ![c] = TimerAt("over")]
      PROVE  /\ timer' \in [Calls -> Timer]
             /\ \A d \in Calls : timer'[d].pc # "none" => call[d] # NoSession
  BY <1>1, <1>2 DEF Inv, TypeOK, Timer, TimerAt, StartedCalls
<1>3. CASE Expire(c)
  <2>. DEFINE target == call[c].target
  <2>1. target \in Endpoints
    BY <1>1 DEF Session
  <2>2. /\ sessions' \in [Endpoints -> Calls \cup {NoCall}]
        /\ \A e \in Endpoints : sessions'[e] \in {NoCall, sessions[e]}
    BY <1>3 DEF Expire, Inv, TypeOK
  <2>3. CASE /\ Reachable(target)
             /\ Write(connections[target], "ended", c)
             /\ timer' = [timer EXCEPT ![c] = [pc |-> "missed",
                                               via |-> connections[target]]]
    <3>1. connections[target] \in Sockets
      BY <2>1, <2>3 DEF Inv, TypeOK, Reachable
    <3>2. panel' \in [Endpoints -> Panel]
      BY <2>3, <3>1, WriteType, ClearedType DEF Inv
    <3>3. /\ timer' \in [Calls -> Timer]
          /\ \A d \in Calls : timer'[d].pc # "none" => call[d] # NoSession
      BY <1>1, <2>3, <3>1 DEF Inv, TypeOK, Timer, StartedCalls
    <3>. QED
      BY <1>3, <2>2, <3>2, <3>3, SameCalls DEF Expire, links, Inv, TypeOK
  <2>4. CASE TellCaller(c)
    <3>1. \A d \in Calls : timer'[d].pc # "none" => call[d] # NoSession
      BY <1>1, <2>4, TellCallerType DEF Inv, StartedCalls
    <3>. QED
      BY <1>1, <1>3, <2>2, <2>4, <3>1, TellCallerType, SameCalls
      DEF Expire, links, Inv, TypeOK
  <2>. QED
    BY <1>3, <2>3, <2>4 DEF Expire
<1>4. CASE ExpireStale(c)
  BY <1>2, <1>4, SameCalls DEF ExpireStale, links, Inv, TypeOK
<1>5. ASSUME Returned(timer[c].via), timer[c].pc \in {"missed", "no_answer"}
      PROVE  connections' \in [Endpoints -> Sockets \cup {NoSocket}]
  BY <1>5, TimerType, DropType DEF Inv
<1>6. CASE MissedTold(c)
  <2>1. \A d \in Calls : timer'[d].pc # "none" => call[d] # NoSession
    BY <1>1, <1>6, TellCallerType DEF MissedTold, Inv, StartedCalls
  <2>. QED
    BY <1>1, <1>5, <1>6, <2>1, TellCallerType, SameCalls DEF MissedTold, Inv, TypeOK
<1>7. CASE NoAnswerTold(c)
  BY <1>2, <1>5, <1>7, SameCalls DEF NoAnswerTold, Inv, TypeOK
<1>. QED
  BY <1>3, <1>4, <1>6, <1>7 DEF TimerStep

LEMMA OtherInv ==
    ASSUME Inv, NEW e \in Endpoints, OtherSendRaises(e)
    PROVE  Inv'
<1>1. connections[e] \in Sockets
  BY DEF OtherSendRaises, Reachable, Inv, TypeOK
<1>. QED
  BY <1>1, DropType, SameCalls DEF OtherSendRaises, Inv, TypeOK, StartedCalls

-----------------------------------------------------------------------------
(* Theorems                                                                *)

LEMMA InvInit == Init => Inv
BY NoCallAssumption DEF Init, Inv, ConnectionInit, TypeOK, LinkStates, Timer,
   TimerAt, Handler, At, Panel, StartedCalls, Sending, OwnEntries

LEMMA InvStep == Inv /\ [Next]_vars => Inv'
<1>. SUFFICES ASSUME Inv, [Next]_vars PROVE Inv'
  OBVIOUS
<1>1. CASE UNCHANGED vars
  BY <1>1 DEF vars, Inv, TypeOK, StartedCalls, OwnEntries, Parties
<1>2. ASSUME NEW s \in Sockets, EndpointStep(s) \/ HandlerStep(s) PROVE Inv'
  BY <1>2, EndpointInv, LifeInv, StartInv, AnswerInv, TalkInv DEF HandlerStep
<1>. QED
  BY <1>1, <1>2, TimerInv, OtherInv DEF Next

LEMMA InvAlways == Spec => []Inv
BY InvInit, InvStep, PTL DEF Spec

\* Every reachable state is one of the types: a handler that awaits a send
\* has a call and a socket, one that does not has neither.
THEOREM TypeCorrect == Spec => []TypeOK
BY InvAlways, PTL DEF Inv

\* Nobody is ever entered in a call of others, whatever links fail.
THEOREM EntriesAreOwn == Spec => []OwnEntries
BY InvAlways, PTL DEF Inv

-----------------------------------------------------------------------------
(* Without link failures, calls are reserved and released as a pair.  The  *)
(* argument: no send raises, so _release is only called for a call one of  *)
(* whose parties is still entered in it; by pairing both are, so it pops   *)
(* its own entries and no others.                                          *)

DistinctParties ==
    \A c \in Calls : call[c] # NoSession => call[c].source # call[c].target

\* No link is down and every caller is connected.
Steady ==
    /\ \A s \in Sockets : ws[s] \in {"unopened", "open"}
    /\ \A c \in Calls : call[c] # NoSession => Reachable(call[c].source)

PairInv == DistinctParties /\ (LinksFail \/ (Steady /\ Paired))

LEMMA ReleasePaired ==
    ASSUME Inv, Paired, DistinctParties, NEW c \in Calls,
           NEW e \in Endpoints, sessions[e] = c, UNCHANGED call,
           sessions' = [x \in Endpoints |->
                          IF x \in Parties(c) THEN NoCall ELSE sessions[x]]
    PROVE  Paired'
<1>1. \A y \in Parties(c) : y \in Endpoints /\ sessions[y] = c
  BY NoCallAssumption, NoSessionAssumption
  DEF Inv, TypeOK, OwnEntries, Paired, Parties, Peer, Session, DistinctParties
<1>. SUFFICES ASSUME NEW x \in Endpoints, sessions'[x] # NoCall
              PROVE  sessions'[Peer(sessions'[x], x)] = sessions'[x]
  BY DEF Paired, Peer
<1>. DEFINE d == sessions[x]  y == Peer(d, x)
<1>2. sessions'[x] = d /\ x \notin Parties(c) /\ d # NoCall
  OBVIOUS
<1>3. d # c
  BY <1>2 DEF Inv, OwnEntries
<1>4. y \in Endpoints /\ sessions[y] = d
  BY <1>2, ReservedType DEF Paired
<1>5. y \notin Parties(c)
  BY <1>1, <1>3, <1>4
<1>. QED
  BY <1>2, <1>4, <1>5

\* Steps that keep entries and call objects, and take no connection away.
LEMMA SamePairs ==
    ASSUME Inv, PairInv, UNCHANGED <<sessions, call>>,
           \/ LinksFail
           \/ /\ \A s \in Sockets : ws'[s] \in {"unopened", "open"}
              /\ \A e \in Endpoints :
                   connections[e] # NoSocket => connections'[e] # NoSocket
    PROVE  PairInv'
BY DEF Inv, TypeOK, Session, PairInv, DistinctParties, Steady, Reachable, Paired, Peer

\* Only Start and Accept write a call object.
LEMMA HandlerKeepsCalls ==
    ASSUME NEW s \in Sockets, EndpointStep(s) \/ HandlerStep(s),
           ~ Start(s), ~ Accept(s)
    PROVE  UNCHANGED call
BY DEF EndpointStep, EndpointConnects, EndpointLost, RequestStart,
   RequestAccept, RequestHangUp, RequestEnd, RequestAudio, Requests,
   HandlerStep, LossNoticed, Register, PreviousClosed, CloseStep,
   NeverRegistered, CloseReplaced, CloseCurrent, ClosePeerTold, StartStep,
   StartRefused, StartRings, StartUndelivered, AnswerStep, AnswerRefused,
   TargetArmed, TargetUnarmed, SourceArmed, SourceUnarmed, RolledBack,
   Decline, EndStep, End, EndRefused, PeerTold, AudioStep, AudioElsewhere,
   ForwardAudio, AudioEndsCall, AudioForwarded, AudioUndelivered

LEMMA CallsKept ==
    ASSUME Next, \A s \in Sockets : ~ Start(s) /\ ~ Accept(s)
    PROVE  UNCHANGED call
BY HandlerKeepsCalls DEF Next, TimerStep, Expire, ExpireStale, MissedTold,
   NoAnswerTold, OtherSendRaises

\* A start enters both parties of its call and nobody else.
LEMMA StartPaired ==
    ASSUME Inv, Paired, NEW s \in Sockets, Start(s)
    PROVE  Paired'
<1>. DEFINE a == Owner(s)  t == Head(request[s]).target
<1>1. t \in Endpoints /\ a \in Endpoints /\ a # t
  BY OwnerType, ReceiveType, RequestTypes DEF Start, Inv, Receive
<1>2. PICK c \in Fresh :
        /\ call' = [call EXCEPT ![c] = [source |-> a, target |-> t,
                                        state |-> "ringing"]]
        /\ sessions' = [sessions EXCEPT ![a] = c, ![t] = c]
  BY DEF Start
<1>3. c \in Calls /\ call[c] = NoSession
  BY DEF Fresh
<1>4. /\ call'[c].source = a /\ call'[c].target = t
      /\ \A d \in Calls : d # c => call'[d] = call[d]
  BY <1>2, <1>3 DEF Inv, TypeOK
<1>. DEFINE Other(d, x) == IF x = call'[d].source
                             THEN call'[d].target ELSE call'[d].source
<1>. SUFFICES ASSUME NEW x \in Endpoints, sessions'[x] # NoCall
              PROVE  sessions'[Other(sessions'[x], x)] = sessions'[x]
  BY DEF Paired, Peer
<1>5. CASE x \in {a, t}
  <2>1. sessions'[x] = c /\ sessions'[a] = c /\ sessions'[t] = c
    BY <1>1, <1>2, <1>5 DEF Inv, TypeOK
  <2>. QED
    BY <1>1, <1>4, <1>5, <2>1
<1>6. CASE x \notin {a, t}
  <2>. DEFINE d == sessions[x]
  <2>1. sessions'[x] = d /\ d # NoCall /\ d # c
    BY <1>1, <1>2, <1>3, <1>6 DEF Inv, TypeOK, OwnEntries
  <2>2. /\ d \in Calls /\ Peer(d, x) \in Endpoints
        /\ sessions[Peer(d, x)] = d
    BY <2>1, ReservedType DEF Paired
  <2>3. sessions[a] = NoCall /\ sessions[t] = NoCall
    BY DEF Start, Busy
  <2>4. Peer(d, x) \notin {a, t}
    BY <2>1, <2>2, <2>3
  <2>5. Other(d, x) = Peer(d, x)
    BY <1>4, <2>1, <2>2 DEF Peer
  <2>. QED
    BY <1>1, <1>2, <2>1, <2>2, <2>4, <2>5 DEF Inv, TypeOK
<1>. QED
  BY <1>5, <1>6

LEMMA StartPairs ==
    ASSUME Inv, PairInv, NEW s \in Sockets, Start(s)
    PROVE  PairInv'
<1>. DEFINE a == Owner(s)  t == Head(request[s]).target
<1>1. t \in Endpoints /\ a \in Endpoints /\ a # t
  BY OwnerType, ReceiveType, RequestTypes DEF Start, Inv, Receive
<1>2. PICK c \in Fresh :
        /\ call' = [call EXCEPT ![c] = [source |-> a, target |-> t,
                                        state |-> "ringing"]]
        /\ sessions' = [sessions EXCEPT ![a] = c, ![t] = c]
  BY DEF Start
<1>3. c \in Calls /\ call[c] = NoSession
  BY DEF Fresh
<1>4. /\ call'[c].source = a /\ call'[c].target = t
      /\ \A d \in Calls : d # c => call'[d] = call[d]
  BY <1>2, <1>3 DEF Inv, TypeOK
<1>5. DistinctParties'
  BY <1>1, <1>3, <1>4 DEF PairInv, DistinctParties
<1>6. ASSUME ~ LinksFail PROVE Steady'
  <2>1. connections[a] = s /\ UNCHANGED <<ws, connections>>
    BY ReceiveType DEF Start, Inv, links
  <2>2. connections[a] # NoSocket
    BY <2>1, NoSocketAssumption
  <2>3. \A d \in Calls : call'[d] # NoSession => Reachable(call'[d].source)
    BY <1>3, <1>4, <1>6, <2>2 DEF PairInv, Steady, Reachable
  <2>. QED
    BY <1>6, <2>1, <2>3 DEF PairInv, Steady, Reachable
<1>7. ASSUME ~ LinksFail PROVE Paired'
  BY <1>7, StartPaired DEF PairInv
<1>. QED
  BY <1>5, <1>6, <1>7 DEF PairInv

\* An acceptance changes no parties.
LEMMA AcceptParties ==
    ASSUME Inv, NEW s \in Sockets, Accept(s)
    PROVE  \A c \in Calls : /\ call[c] # NoSession <=> call'[c] # NoSession
                            /\ call'[c].source = call[c].source
                            /\ call'[c].target = call[c].target
<1>. DEFINE e == Owner(s)  c == Head(request[s]).call
<1>1. Head(request[s]) \in Request /\ Head(request[s]).type = "accept"
  BY ReceiveType DEF Accept, Inv, Receive
<1>2. c \in Calls
  BY <1>1, RequestTypes
<1>3. call[c] \in Session
  BY <1>2, OwnerType, ReservedType, NoCallAssumption DEF Accept, RingsAt
<1>4. \A d \in Calls : call'[d] = IF d = c
                         THEN [call[c] EXCEPT !.state = "active"]
                         ELSE call[d]
  BY <1>2 DEF Accept, Inv, TypeOK
<1>5. [call[c] EXCEPT !.state = "active"] \in Session
  BY <1>3 DEF Session
<1>. QED
  BY <1>3, <1>4, <1>5, NoSessionAssumption DEF Session

LEMMA AcceptPaired ==
    ASSUME Inv, Paired, NEW s \in Sockets, Accept(s)
    PROVE  Paired'
<1>. DEFINE Other(d, x) == IF x = call'[d].source
                             THEN call'[d].target ELSE call'[d].source
<1>1. UNCHANGED sessions
  BY DEF Accept
<1>. SUFFICES ASSUME NEW x \in Endpoints, sessions'[x] # NoCall
              PROVE  sessions'[Other(sessions'[x], x)] = sessions'[x]
  BY DEF Paired, Peer
<1>2. sessions[x] \in Calls /\ sessions[Peer(sessions[x], x)] = sessions[x]
  BY <1>1, ReservedType DEF Paired
<1>3. Other(sessions[x], x) = Peer(sessions[x], x)
  BY <1>1, <1>2, AcceptParties DEF Peer
<1>. QED
  BY <1>1, <1>2, <1>3

LEMMA AcceptPairs ==
    ASSUME Inv, PairInv, NEW s \in Sockets, Accept(s)
    PROVE  PairInv'
<1>1. UNCHANGED <<ws, connections>>
  BY DEF Accept, links
<1>2. DistinctParties'
  BY AcceptParties DEF PairInv, DistinctParties
<1>3. LinksFail \/ Steady'
  BY <1>1, AcceptParties DEF PairInv, Steady, Reachable
<1>. QED
  BY <1>2, <1>3, AcceptPaired DEF PairInv

\* What is left of the entries when a call is released.
Popped(c) ==
    [x \in Endpoints |-> IF x \in Parties(c) THEN NoCall ELSE sessions[x]]

\* A call one of whose parties is entered in it is released.
LEMMA ReleasePairs ==
    ASSUME Inv, PairInv, NEW c \in Calls, NEW e \in Endpoints, sessions[e] = c,
           sessions' = Popped(c), UNCHANGED <<ws, call, connections>>
    PROVE  PairInv'
BY ReleasePaired DEF Popped, PairInv, DistinctParties, Steady, Reachable

LEMMA EndpointPairs ==
    ASSUME Inv, PairInv, ~ LinksFail, NEW s \in Sockets,
           EndpointStep(s) \/ LossNoticed(s)
    PROVE  PairInv' /\ UNCHANGED <<sessions, call>>
<1>1. ~ EndpointLost(s) /\ ~ LossNoticed(s)
  BY DEF EndpointLost, LossNoticed, NoticeLoss, PairInv, Steady
<1>2. UNCHANGED <<sessions, call, connections>>
  BY <1>1 DEF EndpointStep, EndpointConnects, RequestStart, RequestAccept,
     RequestHangUp, RequestEnd, RequestAudio, Requests, links
<1>3. \A u \in Sockets : ws'[u] \in {"unopened", "open"}
  BY <1>1 DEF EndpointStep, EndpointConnects, OpenSocket, RequestStart,
     RequestAccept, RequestHangUp, RequestEnd, RequestAudio, Requests, links, PairInv,
     Steady, Inv, TypeOK
<1>. QED
  BY <1>2, <1>3, SamePairs

\* A handler that neither starts nor accepts a call releases one whose party
\* is entered in it, or leaves the entries as they are.
LEMMA HandlerReleases ==
    ASSUME Inv, PairInv, ~ LinksFail, NEW s \in Sockets,
           HandlerStep(s), ~ Start(s), ~ Accept(s)
    PROVE  /\ UNCHANGED <<call, ws>>
           /\ \A e \in Endpoints :
                connections[e] # NoSocket => connections'[e] # NoSocket
           /\ \/ UNCHANGED sessions
              \/ /\ UNCHANGED connections
                 /\ \E c \in Calls, e \in Endpoints :
                      sessions[e] = c /\ sessions' = Popped(c)
<1>. DEFINE Goal == /\ UNCHANGED <<call, ws>>
                    /\ \A e \in Endpoints :
                         connections[e] # NoSocket => connections'[e] # NoSocket
                    /\ \/ UNCHANGED sessions
                       \/ /\ UNCHANGED connections
                          /\ \E c \in Calls, e \in Endpoints :
                               sessions[e] = c /\ sessions' = Popped(c)
<1>1. \A u \in Sockets : ws[u] \in {"unopened", "open"} /\ ~ Raised(u)
  BY DEF PairInv, Steady, Raised
<1>2. ASSUME handler[s].pc \in Sending
      PROVE  handler[s].via \in Sockets /\ ~ Raised(handler[s].via)
  BY <1>1, <1>2, SendingType
<1>3. ~ StartUndelivered(s) /\ ~ TargetUnarmed(s) /\ ~ SourceUnarmed(s)
      /\ ~ AudioUndelivered(s)
  BY <1>2 DEF StartUndelivered, TargetUnarmed, SourceUnarmed, AudioUndelivered,
     Sending
<1>4. ~ CloseCurrent(s) /\ ~ NeverRegistered(s) /\ ~ LossNoticed(s)
  BY <1>1 DEF CloseCurrent, LoopEnds, NeverRegistered, LossNoticed, NoticeLoss
<1>5. ASSUME handler[s].pc = "arm_target"
      PROVE  Reachable(call[handler[s].call].source)
  BY <1>5, SendingType DEF Sending, Inv, StartedCalls, PairInv, Steady
<1>6. CASE UNCHANGED <<sessions, call, ws, connections>>
  BY <1>6 DEF Goal
<1>7. ASSUME NEW c \in Calls, NEW e \in Endpoints, sessions[e] = c, Release(c),
             UNCHANGED <<ws, call, connections>>
      PROVE  Goal
  <2>1. sessions' = Popped(c)
    BY <1>7 DEF Release, Popped
  <2>. QED
    BY <1>7, <2>1 DEF Goal
<1>8. CASE Register(s)
  BY <1>8, NoSocketAssumption DEF Register, Connect, Inv, TypeOK, Goal
<1>9. CASE Decline(s)
  <2>1. Head(request[s]) \in Request /\ Head(request[s]).type = "decline"
    BY <1>9, ReceiveType DEF Decline, Inv, Receive
  <2>. QED
    BY <1>7, <1>9, <2>1, RequestTypes, OwnerType
    DEF Decline, RingsAt, EndCall, links
<1>10. CASE End(s)
  BY <1>7, <1>10, OwnerType, ReservedType DEF End, EndCall, links
<1>11. CASE AudioEndsCall(s)
  BY <1>7, <1>11, OwnerType, ReservedType
  DEF AudioEndsCall, Transmitting, EndCall, links
<1>12. CASE TargetArmed(s)
  BY <1>5, <1>6, <1>12 DEF TargetArmed, Delivered
<1>13. CASE \/ PreviousClosed(s) \/ CloseReplaced(s) \/ ClosePeerTold(s)
            \/ StartRefused(s) \/ StartRings(s) \/ AnswerRefused(s)
            \/ SourceArmed(s) \/ RolledBack(s) \/ EndRefused(s) \/ PeerTold(s)
            \/ AudioElsewhere(s) \/ ForwardAudio(s) \/ AudioForwarded(s)
  BY <1>2, <1>6, <1>13
  DEF PreviousClosed, CloseReplaced, ClosePeerTold, StartRefused, StartRings,
      AnswerRefused, SourceArmed, RolledBack, EndRefused, PeerTold,
      AudioElsewhere, ForwardAudio, AudioForwarded, Returned, Delivered,
      Sending, links
<1>. QED
  BY <1>3, <1>4, <1>8, <1>9, <1>10, <1>11, <1>12, <1>13
  DEF HandlerStep, CloseStep, StartStep, AnswerStep, EndStep, AudioStep

LEMMA HandlerPairs ==
    ASSUME Inv, PairInv, ~ LinksFail, NEW s \in Sockets,
           HandlerStep(s), ~ Start(s), ~ Accept(s)
    PROVE  PairInv'
<1>1. CASE UNCHANGED sessions
  <2>1. \A u \in Sockets : ws'[u] \in {"unopened", "open"}
    BY HandlerReleases DEF PairInv, Steady
  <2>. QED
    BY <1>1, <2>1, HandlerReleases, SamePairs
<1>2. CASE /\ UNCHANGED connections
           /\ \E c \in Calls, e \in Endpoints :
                sessions[e] = c /\ sessions' = Popped(c)
  BY <1>2, HandlerReleases, ReleasePairs
<1>. QED
  BY <1>1, <1>2, HandlerReleases

\* And so does the expiry task.
LEMMA TimerReleases ==
    ASSUME Inv, PairInv, ~ LinksFail, NEW c \in Calls, TimerStep(c)
    PROVE  /\ UNCHANGED <<ws, call, connections>>
           /\ \/ UNCHANGED sessions
              \/ \E e \in Endpoints : sessions[e] = c /\ sessions' = Popped(c)
<1>1. \A u \in Sockets : ws[u] \in {"unopened", "open"} /\ ~ Raised(u)
  BY DEF PairInv, Steady, Raised
<1>2. ASSUME timer[c].pc \in {"missed", "no_answer"}
      PROVE  ~ Raised(timer[c].via)
  BY <1>1, <1>2, TimerType
<1>3. CASE Expire(c)
  <2>1. call[c].source \in Endpoints
    BY <1>3, TimerType DEF Expire, Session
  <2>. QED
    BY <1>3, <2>1 DEF Expire, Popped, links
<1>4. CASE ExpireStale(c) \/ MissedTold(c) \/ NoAnswerTold(c)
  BY <1>2, <1>4 DEF ExpireStale, MissedTold, NoAnswerTold, Returned, Delivered,
     links
<1>. QED
  BY <1>3, <1>4 DEF TimerStep

LEMMA TimerPairs ==
    ASSUME Inv, PairInv, ~ LinksFail, NEW c \in Calls, TimerStep(c)
    PROVE  PairInv'
<1>1. CASE UNCHANGED sessions
  BY <1>1, TimerReleases, SamePairs DEF PairInv, Steady
<1>2. CASE \E e \in Endpoints : sessions[e] = c /\ sessions' = Popped(c)
  BY <1>2, TimerReleases, ReleasePairs
<1>. QED
  BY <1>1, <1>2, TimerReleases

LEMMA PairStep == Inv /\ PairInv /\ [Next]_vars => PairInv'
<1>. SUFFICES ASSUME Inv, PairInv, [Next]_vars PROVE PairInv'
  OBVIOUS
<1>1. CASE UNCHANGED vars
  BY <1>1 DEF vars, PairInv, DistinctParties, Steady, Reachable, Paired, Peer
<1>2. CASE \E s \in Sockets : Start(s) \/ Accept(s)
  BY <1>2, StartPairs, AcceptPairs
<1>3. CASE Next /\ ~ \E s \in Sockets : Start(s) \/ Accept(s)
  <2>1. CASE LinksFail
    BY <1>3, <2>1, CallsKept DEF PairInv, DistinctParties
  <2>2. CASE ~ LinksFail
    <3>1. ASSUME NEW e \in Endpoints, OtherSendRaises(e) PROVE FALSE
      BY <2>2, <3>1 DEF OtherSendRaises, Reachable, Raised, PairInv, Steady, Inv,
         TypeOK
    <3>2. ASSUME NEW s \in Sockets, EndpointStep(s) \/ HandlerStep(s)
          PROVE  PairInv'
      BY <1>3, <2>2, <3>2, EndpointPairs, HandlerPairs
    <3>. QED
      BY <1>3, <2>2, <3>1, <3>2, TimerPairs DEF Next
  <2>. QED
    BY <2>1, <2>2
<1>. QED
  BY <1>1, <1>2, <1>3

LEMMA PairsAlways == Spec => []PairInv
<1>1. Init => PairInv
  BY DEF Init, ConnectionInit, PairInv, DistinctParties, Steady, Paired
<1>. QED
  BY <1>1, InvAlways, PairStep, PTL DEF Spec

\* As long as no link fails, in every interleaving of handlers and expiry
\* tasks both parties of a call are reserved together and released together.
THEOREM PairsHold == Spec => []PairedWithoutLoss
<1>1. PairInv => PairedWithoutLoss
  BY DEF PairInv, PairedWithoutLoss
<1>. QED
  BY <1>1, PairsAlways, PTL

-----------------------------------------------------------------------------
(* The receiver is armed first.  The argument: a call is active only once  *)
(* intercom.active was written to its target, so whoever is told of an     *)
(* active call, and whatever frame is routed, comes after.                 *)

Talking == {"arm_target", "arm_source", "audio"}

ArmedInv ==
    /\ \A e \in Endpoints : panel[e].phase = "active" => panel[e].call \in armed
    /\ \A s \in Sockets : handler[s].pc \in Talking => handler[s].call \in armed
    /\ \A c \in Calls : call[c] # NoSession /\ call[c].state = "active" => c \in armed

\* What a step does to the panels and to the handlers.
NoneActivated ==
    \A e \in Endpoints : panel'[e] = panel[e] \/ panel'[e].phase # "active"

NoneTalks ==
    \A s \in Sockets : handler'[s] = handler[s] \/ handler'[s].pc \notin Talking

LEMMA WriteActivates ==
    ASSUME TypeOK, NEW s \in Sockets, NEW message, NEW c, Write(s, message, c)
    PROVE  \A e \in Endpoints :
             \/ panel'[e] = panel[e]
             \/ panel'[e].phase # "active"
             \/ message = "active" /\ panel'[e].call = c
<1>1. Shown(message, c).phase = "active"
        => message = "active" /\ Shown(message, c).call = c
  BY DEF Shown, IdlePanel
<1>. QED
  BY <1>1 DEF Write, TypeOK

LEMMA DoneTalks ==
    ASSUME TypeOK, NEW s \in Sockets, NEW pc \in {"connecting", "idle", "done"},
           handler' = [handler EXCEPT ![s] = At(pc)]
    PROVE  NoneTalks
BY DEF TypeOK, At, NoneTalks, Talking

LEMMA AwaitTalks ==
    ASSUME TypeOK, NEW s \in Sockets, NEW pc \in Sending, NEW c, NEW e,
           Await(s, pc, c, e)
    PROVE  /\ pc \notin Talking => NoneTalks
           /\ \A t \in Sockets : handler'[t] = handler[t] \/ handler'[t].call = c
BY DEF TypeOK, Await, NoneTalks

\* EndCall and CallerGone end a call: nobody is told of an active one.
LEMMA EndCallTalks ==
    ASSUME TypeOK, NEW s \in Sockets, NEW c, NEW other,
           NEW message \in {"ended", "rejected"},
           NEW pc \in {"decline", "ending"}, EndCall(s, c, other, message, pc),
           Reachable(other) => connections[other] \in Sockets
    PROVE  NoneActivated /\ NoneTalks
<1>1. CASE Reachable(other) /\ Write(connections[other], message, c)
           /\ Await(s, pc, c, other)
  <2>1. NoneActivated
    BY <1>1, WriteActivates DEF NoneActivated
  <2>2. pc \in Sending /\ pc \notin Talking
    BY DEF Sending, Talking
  <2>3. NoneTalks
    BY <1>1, <2>2, AwaitTalks
  <2>. QED
    BY <2>1, <2>3
<1>2. CASE Write(s, "ended", c) /\ Done(s)
  <2>1. NoneActivated
    BY <1>2, WriteActivates DEF NoneActivated
  <2>. QED
    BY <1>2, <2>1, DoneTalks DEF Done
<1>. QED
  BY <1>1, <1>2 DEF EndCall

LEMMA CallerGoneTalks ==
    ASSUME TypeOK, NEW s \in Sockets, NEW c, CallerGone(s, c)
    PROVE  NoneActivated /\ NoneTalks
<1>1. CASE Reachable(Owner(s)) /\ Write(connections[Owner(s)], "ended", c)
           /\ Await(s, "rollback", c, Owner(s))
  <2>1. connections[Owner(s)] \in Sockets
    BY <1>1, OwnerType DEF TypeOK, Reachable
  <2>2. NoneActivated
    BY <1>1, <2>1, WriteActivates DEF NoneActivated
  <2>3. "rollback" \in Sending /\ "rollback" \notin Talking
    BY DEF Sending, Talking
  <2>. QED
    BY <1>1, <2>2, <2>3, AwaitTalks
<1>2. CASE Write(s, "rejected", NoCall) /\ Done(s)
  <2>1. NoneActivated
    BY <1>2, WriteActivates DEF NoneActivated
  <2>. QED
    BY <1>2, <2>1, DoneTalks DEF Done
<1>. QED
  BY <1>1, <1>2 DEF CallerGone

LEMMA TellCallerTalks ==
    ASSUME Inv, NEW c \in Calls, call[c] # NoSession, TellCaller(c)
    PROVE  NoneActivated
<1>1. call[c].source \in Endpoints
  BY DEF Inv, TypeOK, Session
<1>2. CASE UNCHANGED panel
  BY <1>2 DEF NoneActivated
<1>3. CASE Reachable(call[c].source) /\ Write(connections[call[c].source], "rejected", c)
  <2>1. connections[call[c].source] \in Sockets
    BY <1>1, <1>3 DEF Inv, TypeOK, Reachable
  <2>. QED
    BY <1>3, <2>1, WriteActivates DEF NoneActivated, Inv
<1>. QED
  BY <1>2, <1>3 DEF TellCaller

\* The steps of an endpoint, of a handler that opens or closes, of a start.
LEMMA LifeTalks ==
    ASSUME Inv, NEW s \in Sockets,
           \/ EndpointStep(s) \/ LossNoticed(s) \/ Register(s)
           \/ PreviousClosed(s) \/ CloseStep(s) \/ StartStep(s)
    PROVE  NoneActivated /\ NoneTalks
<1>1. CASE EndpointStep(s) \/ LossNoticed(s)
  <2>1. UNCHANGED handler
    BY <1>1 DEF EndpointStep, LossNoticed, EndpointConnects, EndpointLost,
       RequestStart, RequestAccept, RequestHangUp, RequestEnd, RequestAudio, Requests
  <2>2. NoneActivated
    BY <1>1, OwnerType DEF EndpointStep, LossNoticed, EndpointConnects,
       EndpointLost, RequestStart, RequestAccept, RequestHangUp, RequestEnd, RequestAudio,
       Requests, NoneActivated, IdlePanel, Inv, TypeOK, Panel
  <2>. QED
    BY <2>1, <2>2 DEF NoneTalks
<1>2. CASE \/ Register(s) \/ PreviousClosed(s) \/ NeverRegistered(s)
           \/ CloseReplaced(s) \/ ClosePeerTold(s)
  <2>1. UNCHANGED panel
    BY <1>2 DEF Register, PreviousClosed, NeverRegistered, CloseReplaced, ClosePeerTold
  <2>2. \E pc \in {"connecting", "idle", "done"} :
          handler' = [handler EXCEPT ![s] = At(pc)]
    BY <1>2 DEF Register, PreviousClosed, NeverRegistered, CloseReplaced,
       ClosePeerTold, MarkOffline, Done
  <2>. QED
    BY <2>1, <2>2, DoneTalks DEF Inv, NoneActivated
<1>3. CASE CloseCurrent(s)
  <2>. DEFINE e == Owner(s)  c == sessions[e]
  <2>1. CASE MarkOffline(s) /\ UNCHANGED panel
    BY <2>1, DoneTalks DEF MarkOffline, Inv, NoneActivated
  <2>2. CASE /\ c # NoCall
             /\ Reachable(Peer(c, e))
             /\ Write(connections[Peer(c, e)], "ended", c)
             /\ Await(s, "closing", c, Peer(c, e))
    <3>1. connections[Peer(c, e)] \in Sockets
      BY <2>2, OwnerType, ReservedType DEF Inv, TypeOK, Reachable
    <3>2. NoneActivated
      BY <2>2, <3>1, WriteActivates DEF NoneActivated, Inv
    <3>3. "closing" \in Sending /\ "closing" \notin Talking
      BY DEF Sending, Talking
    <3>. QED
      BY <2>2, <3>2, <3>3, AwaitTalks DEF Inv
  <2>. QED
    BY <1>3, <2>1, <2>2 DEF CloseCurrent
<1>4. CASE Start(s)
  <2>. DEFINE t == Head(request[s]).target
  <2>1. t \in Endpoints /\ connections[t] \in Sockets
    BY <1>4, ReceiveType, RequestTypes DEF Start, Inv, Receive, TypeOK, Reachable
  <2>2. PICK c \in Fresh : Write(connections[t], "incoming", c) /\ Await(s, "ring", c, t)
    BY <1>4 DEF Start
  <2>3. "ring" \in Sending /\ "ring" \notin Talking
    BY DEF Sending, Talking
  <2>4. NoneActivated
    BY <2>1, <2>2, WriteActivates DEF NoneActivated, Inv
  <2>. QED
    BY <2>2, <2>3, <2>4, AwaitTalks DEF Inv
<1>5. CASE StartRefused(s)
  BY <1>5, WriteActivates DEF StartRefused, NoneActivated, NoneTalks, Inv
<1>6. CASE StartRings(s) \/ StartUndelivered(s)
  <2>1. \E message \in {"ringing", "rejected"}, c \in Calls \cup {NoCall} :
          Write(s, message, c)
    BY <1>6, SendingType DEF StartRings, StartUndelivered, Sending
  <2>. QED
    BY <1>6, <2>1, WriteActivates, DoneTalks
    DEF StartRings, StartUndelivered, Done, NoneActivated, Inv
<1>. QED
  BY <1>1, <1>2, <1>3, <1>4, <1>5, <1>6 DEF CloseStep, StartStep

\* The steps of answers, ends and frames, but for the three that talk.
LEMMA TalkTalks ==
    ASSUME Inv, NEW s \in Sockets,
           AnswerStep(s) \/ EndStep(s) \/ AudioStep(s),
           ~ Accept(s), ~ TargetArmed(s), ~ ForwardAudio(s)
    PROVE  NoneActivated /\ NoneTalks
<1>1. CASE AnswerRefused(s) \/ EndRefused(s) \/ AudioElsewhere(s)
  <2>1. UNCHANGED handler /\ (Write(s, "rejected", NoCall) \/ UNCHANGED panel)
    BY <1>1 DEF AnswerRefused, EndRefused, AudioElsewhere
  <2>. QED
    BY <2>1, WriteActivates DEF NoneActivated, NoneTalks, Inv
<1>2. CASE \/ TargetUnarmed(s) \/ SourceArmed(s) \/ RolledBack(s) \/ PeerTold(s)
           \/ AudioForwarded(s)
  <2>1. Done(s)
    BY <1>2 DEF TargetUnarmed, SourceArmed, RolledBack, PeerTold, AudioForwarded
  <2>2. \/ UNCHANGED panel
        \/ Write(s, "rejected", NoCall) \/ Write(s, "ended", handler[s].call)
    BY <1>2 DEF TargetUnarmed, SourceArmed, RolledBack, PeerTold, AudioForwarded
  <2>3. NoneActivated
    BY <2>2, WriteActivates DEF NoneActivated, Inv
  <2>. QED
    BY <2>1, <2>3, DoneTalks DEF Done, Inv
<1>3. CASE SourceUnarmed(s)
  BY <1>3, CallerGoneTalks DEF SourceUnarmed, Inv
<1>4. ASSUME NEW c \in Calls, NEW other \in Endpoints,
             NEW message \in {"ended", "rejected"},
             NEW pc \in {"decline", "ending"}, EndCall(s, c, other, message, pc)
      PROVE  NoneActivated /\ NoneTalks
  BY <1>4, EndCallTalks DEF Inv, TypeOK, Reachable
<1>5. CASE Decline(s)
  <2>. DEFINE c == Head(request[s]).call
  <2>1. c \in Calls
    BY <1>5, ReceiveType, RequestTypes DEF Decline, Inv, Receive
  <2>2. call[c].source \in Endpoints
    BY <1>5, <2>1, OwnerType, ReservedType, NoCallAssumption
    DEF Decline, RingsAt, Session
  <2>. QED
    BY <1>4, <1>5, <2>1, <2>2 DEF Decline
<1>6. CASE End(s)
  <2>1. sessions[Owner(s)] \in Calls /\ Peer(sessions[Owner(s)], Owner(s)) \in Endpoints
    BY <1>6, OwnerType, ReservedType DEF End
  <2>. QED
    BY <1>4, <1>6, <2>1 DEF End
<1>7. CASE AudioEndsCall(s)
  <2>1. sessions[Owner(s)] \in Calls /\ Peer(sessions[Owner(s)], Owner(s)) \in Endpoints
    BY <1>7, OwnerType, ReservedType DEF AudioEndsCall, Transmitting
  <2>. QED
    BY <1>4, <1>7, <2>1 DEF AudioEndsCall
<1>8. CASE AudioUndelivered(s)
  <2>. DEFINE c == handler[s].call  peer == Peer(c, Owner(s))
  <2>1. c \in Calls /\ peer \in Endpoints
    BY <1>8, SendingType, OwnerType DEF AudioUndelivered, Sending
  <2>2. CASE Write(s, "rejected", c) /\ Done(s)
    <3>1. NoneActivated
      BY <2>2, WriteActivates DEF NoneActivated, Inv
    <3>. QED
      BY <2>2, <3>1, DoneTalks DEF Done, Inv
  <2>3. CASE /\ connections[peer] \notin {NoSocket, handler[s].via}
             /\ Write(connections[peer], "ended", c)
             /\ Await(s, "ending", c, peer)
    <3>1. connections[peer] \in Sockets
      BY <2>1, <2>3 DEF Inv, TypeOK
    <3>2. NoneActivated
      BY <2>3, <3>1, WriteActivates DEF NoneActivated, Inv
    <3>3. "ending" \in Sending /\ "ending" \notin Talking
      BY DEF Sending, Talking
    <3>. QED
      BY <2>3, <3>2, <3>3, AwaitTalks DEF Inv
  <2>. QED
    BY <1>8, <2>2, <2>3 DEF AudioUndelivered
<1>. QED
  BY <1>1, <1>2, <1>3, <1>5, <1>6, <1>7, <1>8 DEF AnswerStep, EndStep, AudioStep

LEMMA TimerTalks ==
    ASSUME Inv, NEW c \in Calls, TimerStep(c)
    PROVE  NoneActivated /\ NoneTalks
<1>1. UNCHANGED handler
  BY DEF TimerStep, Expire, ExpireStale, MissedTold, NoAnswerTold
<1>2. call[c] \in Session /\ call[c] # NoSession
  BY TimerType DEF TimerStep, Expire, ExpireStale, MissedTold, NoAnswerTold,
     Inv, StartedCalls
<1>3. CASE UNCHANGED panel
  BY <1>1, <1>3 DEF NoneActivated, NoneTalks
<1>4. CASE TellCaller(c)
  BY <1>1, <1>2, <1>4, TellCallerTalks DEF NoneTalks
<1>5. CASE Reachable(call[c].target) /\ Write(connections[call[c].target], "ended", c)
  <2>1. connections[call[c].target] \in Sockets
    BY <1>2, <1>5 DEF Session, Inv, TypeOK, Reachable
  <2>. QED
    BY <1>1, <1>5, <2>1, WriteActivates DEF NoneActivated, NoneTalks, Inv
<1>. QED
  BY <1>3, <1>4, <1>5 DEF TimerStep, Expire, ExpireStale, MissedTold, NoAnswerTold

\* The steps that arm nobody keep ArmedInv.
LEMMA ArmedKept ==
    ASSUME ArmedInv, NoneActivated, NoneTalks, UNCHANGED <<call, armed>>
    PROVE  ArmedInv'
BY DEF ArmedInv, NoneActivated, NoneTalks

LEMMA ArmedUnchanged ==
    ASSUME Inv, Next,
           \A s \in Sockets : ~ Accept(s)
    PROVE  UNCHANGED armed
<1>1. ASSUME NEW s \in Sockets, EndpointStep(s) PROVE UNCHANGED armed
  BY <1>1 DEF EndpointStep, EndpointConnects, EndpointLost, RequestStart,
     RequestAccept, RequestHangUp, RequestEnd, RequestAudio, Requests
<1>2. ASSUME NEW s \in Sockets, HandlerStep(s) PROVE UNCHANGED armed
  BY <1>2 DEF HandlerStep, LossNoticed, Register, PreviousClosed, CloseStep,
     NeverRegistered, CloseReplaced, CloseCurrent, ClosePeerTold, StartStep,
     Start, StartRefused, StartRings, StartUndelivered, AnswerStep, AnswerRefused,
     TargetArmed, TargetUnarmed, SourceArmed, SourceUnarmed, RolledBack,
     Decline, EndStep, End, EndRefused, PeerTold, AudioStep, AudioElsewhere,
     ForwardAudio, AudioEndsCall, AudioForwarded, AudioUndelivered
<1>. QED
  BY <1>1, <1>2 DEF Next, TimerStep, Expire, ExpireStale, MissedTold,
     NoAnswerTold, OtherSendRaises

LEMMA StartArmed ==
    ASSUME Inv, ArmedInv, NEW s \in Sockets, Start(s)
    PROVE  ArmedInv'
<1>1. NoneActivated /\ NoneTalks
  BY LifeTalks DEF StartStep
<1>2. PICK c \in Fresh :
        call' = [call EXCEPT ![c] = [source |-> Owner(s),
                                     target |-> Head(request[s]).target,
                                     state |-> "ringing"]]
  BY DEF Start
<1>3. \A d \in Calls : call'[d] = call[d] \/ call'[d].state = "ringing"
  BY <1>2 DEF Inv, TypeOK, Fresh
<1>4. UNCHANGED armed
  BY DEF Start
<1>. QED
  BY <1>1, <1>3, <1>4 DEF ArmedInv, NoneActivated, NoneTalks

LEMMA AcceptArmed ==
    ASSUME Inv, ArmedInv, NEW s \in Sockets, Accept(s)
    PROVE  ArmedInv'
<1>. DEFINE c == Head(request[s]).call
<1>1. /\ armed' = armed \cup {c}
      /\ Write(s, "active", c)
      /\ Await(s, "arm_target", c, Owner(s))
      /\ call' = [call EXCEPT ![c].state = "active"]
  BY DEF Accept
<1>2. \A e \in Endpoints : panel'[e] = panel[e] \/ panel'[e].phase # "active"
                             \/ panel'[e].call = c
  BY <1>1, WriteActivates DEF Inv
<1>3. "arm_target" \in Sending
  BY DEF Sending
<1>4. \A t \in Sockets : handler'[t] = handler[t] \/ handler'[t].call = c
  BY <1>1, <1>3, AwaitTalks DEF Inv
<1>5. \A d \in Calls : d # c => call'[d] = call[d]
  BY <1>1 DEF Inv, TypeOK
<1>. QED
  BY <1>1, <1>2, <1>4, <1>5 DEF ArmedInv

LEMMA TargetArmedArmed ==
    ASSUME Inv, ArmedInv, NEW s \in Sockets, TargetArmed(s)
    PROVE  ArmedInv'
<1>. DEFINE c == handler[s].call  source == call[c].source
<1>1. /\ UNCHANGED <<call, armed>>
      /\ c \in armed /\ c \in Calls /\ source \in Endpoints
  BY SendingType DEF TargetArmed, ArmedInv, Talking, Sending, Session
<1>2. CASE CallerGone(s, c)
  BY <1>1, <1>2, CallerGoneTalks, ArmedKept DEF Inv
<1>3. CASE /\ Reachable(source)
           /\ Write(connections[source], "active", c)
           /\ Await(s, "arm_source", c, source)
  <2>1. connections[source] \in Sockets
    BY <1>1, <1>3 DEF Inv, TypeOK, Reachable
  <2>2. \A e \in Endpoints : panel'[e] = panel[e] \/ panel'[e].phase # "active"
                               \/ panel'[e].call = c
    BY <1>3, <2>1, WriteActivates DEF Inv
  <2>3. "arm_source" \in Sending
    BY DEF Sending
  <2>4. \A t \in Sockets : handler'[t] = handler[t] \/ handler'[t].call = c
    BY <1>3, <2>3, AwaitTalks DEF Inv
  <2>. QED
    BY <1>1, <2>2, <2>4 DEF ArmedInv
<1>. QED
  BY <1>2, <1>3 DEF TargetArmed

LEMMA ForwardArmed ==
    ASSUME Inv, ArmedInv, NEW s \in Sockets, ForwardAudio(s)
    PROVE  ArmedInv'
<1>. DEFINE c == sessions[Owner(s)]
<1>1. UNCHANGED <<call, armed, panel>> /\ Await(s, "audio", c, Peer(c, Owner(s)))
  BY DEF ForwardAudio
<1>2. c \in Calls /\ call[c] \in Session /\ c \in armed
  <2>1. c \in Calls /\ call[c] \in Session /\ call[c].state = "active"
    BY OwnerType, ReservedType DEF ForwardAudio, Transmitting
  <2>. QED
    BY <2>1, NoSessionAssumption DEF ArmedInv
<1>3. "audio" \in Sending
  BY DEF Sending
<1>4. \A t \in Sockets : handler'[t] = handler[t] \/ handler'[t].call = c
  BY <1>1, <1>3, AwaitTalks DEF Inv
<1>. QED
  BY <1>1, <1>2, <1>4 DEF ArmedInv

LEMMA ArmedStep == Inv /\ ArmedInv /\ [Next]_vars => ArmedInv'
<1>. SUFFICES ASSUME Inv, ArmedInv, [Next]_vars PROVE ArmedInv'
  OBVIOUS
<1>1. CASE UNCHANGED vars
  BY <1>1 DEF vars, ArmedInv
<1>2. CASE \E s \in Sockets :
             Start(s) \/ Accept(s) \/ TargetArmed(s) \/ ForwardAudio(s)
  BY <1>2, StartArmed, AcceptArmed, TargetArmedArmed, ForwardArmed
<1>3. CASE Next /\ ~ \E s \in Sockets :
                       Start(s) \/ Accept(s) \/ TargetArmed(s) \/ ForwardAudio(s)
  <2>1. UNCHANGED <<call, armed>>
    BY <1>3, CallsKept, ArmedUnchanged
  <2>2. ASSUME NEW s \in Sockets, EndpointStep(s) \/ HandlerStep(s)
        PROVE  NoneActivated /\ NoneTalks
    BY <1>3, <2>2, LifeTalks, TalkTalks DEF HandlerStep
  <2>3. ASSUME NEW e \in Endpoints, OtherSendRaises(e)
        PROVE  NoneActivated /\ NoneTalks
    BY <2>3 DEF OtherSendRaises, NoneActivated, NoneTalks
  <2>. QED
    BY <1>3, <2>1, <2>2, <2>3, TimerTalks, ArmedKept DEF Next
<1>. QED
  BY <1>1, <1>2, <1>3

\* target_status: "Arm the receiver before allowing the caller to send PCM."
\* Whatever links fail and however tasks interleave, nobody is told that a
\* call is active, and no frame of it is routed, before intercom.active was
\* written to its target.
THEOREM ReceiverFirst == Spec => []ReceiverArmedFirst
<1>1. Init => ArmedInv
  BY DEF Init, ArmedInv, IdlePanel, At, Talking
<1>2. ArmedInv => ReceiverArmedFirst
  BY DEF ArmedInv, ReceiverArmedFirst, Talking
<1>. QED
  BY <1>1, <1>2, InvAlways, ArmedStep, PTL DEF Spec

-----------------------------------------------------------------------------
(* The timeout.  The argument: what has left the sleep found the call      *)
(* entered and took both entries, or found it gone; a call is entered      *)
(* once, by the start that makes it.                                       *)

ExpiredInv ==
    \A c \in Calls :
      /\ timer[c].pc \in {"missed", "no_answer", "over"}
      /\ call[c] # NoSession /\ call[c].state = "ringing"
      => \A e \in Endpoints : sessions[e] # c

\* A step takes entries away, and leaves the sleep to the expiry task.
OnlyReleases ==
    /\ \A e \in Endpoints : sessions'[e] \in {NoCall, sessions[e]}
    /\ \A c \in Calls :
         timer'[c] = timer[c] \/ timer'[c].pc \in {"sleeping", "cancelled"}

LEMMA ReleasesOnly ==
    ASSUME TypeOK, NEW c \in Calls, Release(c)
    PROVE  OnlyReleases
BY DEF TypeOK, Release, TimerAt, OnlyReleases

LEMMA HandlerOnlyReleases ==
    ASSUME Inv, NEW s \in Sockets, EndpointStep(s) \/ HandlerStep(s), ~ Start(s)
    PROVE  OnlyReleases
<1>1. ASSUME handler[s].pc \in Sending PROVE handler[s].call \in Calls
  BY <1>1, SendingType
<1>2. ASSUME NEW m, Receive(s, m), m \in {"accept", "decline"}
      PROVE  Head(request[s]).call \in Calls
  BY <1>2, ReceiveType, RequestTypes DEF Inv, Receive
<1>3. CASE UNCHANGED <<sessions, timer>>
  BY <1>3 DEF OnlyReleases
<1>4. CASE EndpointStep(s)
  BY <1>3, <1>4 DEF EndpointStep, EndpointConnects, EndpointLost,
     RequestStart, RequestAccept, RequestHangUp, RequestEnd, RequestAudio, Requests
<1>5. CASE \/ LossNoticed(s) \/ Register(s) \/ PreviousClosed(s)
           \/ NeverRegistered(s) \/ CloseReplaced(s) \/ ClosePeerTold(s)
           \/ StartRefused(s) \/ AnswerRefused(s) \/ SourceArmed(s)
           \/ RolledBack(s) \/ EndRefused(s) \/ PeerTold(s) \/ AudioElsewhere(s)
           \/ ForwardAudio(s) \/ AudioForwarded(s)
  BY <1>3, <1>5 DEF LossNoticed, Register, PreviousClosed, NeverRegistered,
     CloseReplaced, ClosePeerTold, StartRefused, AnswerRefused, SourceArmed,
     RolledBack, EndRefused, PeerTold, AudioElsewhere, ForwardAudio,
     AudioForwarded
<1>6. CASE CloseCurrent(s)
  BY <1>3, <1>6, OwnerType, ReservedType, ReleasesOnly DEF CloseCurrent, Inv
<1>7. CASE StartRings(s)
  BY <1>7 DEF StartRings, TimerAt, OnlyReleases, Inv, TypeOK
<1>8. CASE StartUndelivered(s) \/ TargetUnarmed(s)
  BY <1>1, <1>8, ReleasesOnly DEF StartUndelivered, TargetUnarmed, Sending, Inv
<1>9. CASE Accept(s)
  BY <1>2, <1>9 DEF Accept, TimerAt, OnlyReleases, Inv, TypeOK
<1>10. CASE TargetArmed(s) \/ SourceUnarmed(s)
  BY <1>1, <1>3, <1>10, ReleasesOnly
  DEF TargetArmed, SourceUnarmed, CallerGone, Sending, Inv
<1>11. CASE Decline(s) \/ End(s)
  <2>1. CASE Decline(s)
    BY <1>2, <2>1, ReleasesOnly DEF Decline, EndCall, Inv
  <2>2. CASE End(s)
    BY <2>2, OwnerType, ReservedType, ReleasesOnly DEF End, EndCall, Inv
  <2>. QED
    BY <1>11, <2>1, <2>2
<1>12. CASE AudioEndsCall(s)
  BY <1>12, OwnerType, ReservedType, ReleasesOnly
  DEF AudioEndsCall, Transmitting, EndCall, Inv
<1>13. CASE AudioUndelivered(s)
  BY <1>1, <1>3, <1>13, ReleasesOnly DEF AudioUndelivered, Sending, Inv
<1>. QED
  BY <1>4, <1>5, <1>6, <1>7, <1>8, <1>9, <1>10, <1>11, <1>12, <1>13
  DEF HandlerStep, CloseStep, StartStep, AnswerStep, EndStep, AudioStep

\* Steps that only release keep ExpiredInv, and an accepted call rings no more.
LEMMA ExpiredKept ==
    ASSUME Inv, ExpiredInv, OnlyReleases,
           \A c \in Calls : call'[c] = call[c] \/ call'[c].state = "active"
    PROVE  ExpiredInv'
BY NoCallAssumption DEF ExpiredInv, OnlyReleases

LEMMA StartExpired ==
    ASSUME Inv, ExpiredInv, NEW s \in Sockets, Start(s)
    PROVE  ExpiredInv'
<1>. DEFINE t == Head(request[s]).target
<1>1. PICK c \in Fresh :
        /\ call' = [call EXCEPT ![c] = [source |-> Owner(s), target |-> t,
                                        state |-> "ringing"]]
        /\ sessions' = [sessions EXCEPT ![Owner(s)] = c, ![t] = c]
  BY DEF Start
<1>2. UNCHANGED timer /\ timer[c].pc = "none"
  BY DEF Start, Inv, StartedCalls, Fresh
<1>3. \A e \in Endpoints : sessions'[e] \in {c, sessions[e]}
  BY <1>1 DEF Inv, TypeOK
<1>4. \A d \in Calls : d # c => call'[d] = call[d]
  BY <1>1 DEF Inv, TypeOK
<1>. QED
  BY <1>2, <1>3, <1>4 DEF ExpiredInv

LEMMA TimerExpired ==
    ASSUME Inv, Paired, ExpiredInv, NEW c \in Calls, TimerStep(c)
    PROVE  ExpiredInv'
<1>1. /\ UNCHANGED call
      /\ \A e \in Endpoints : sessions'[e] \in {NoCall, sessions[e]}
  BY DEF TimerStep, Expire, ExpireStale, MissedTold, NoAnswerTold
<1>2. call[c] # NoSession /\ call[c] \in Session
  BY TimerType DEF TimerStep, Expire, ExpireStale, MissedTold, NoAnswerTold,
     Inv, StartedCalls
<1>3. \A d \in Calls : d # c => timer'[d] = timer[d]
  <2>1. CASE TellCaller(c)
    BY <1>2, <2>1, TellCallerType
  <2>2. CASE \/ timer' = [timer EXCEPT ![c] = TimerAt("over")]
             \/ timer' = [timer EXCEPT ![c] = [pc |-> "missed",
                            via |-> connections[call[c].target]]]
    BY <2>2 DEF Inv, TypeOK
  <2>. QED
    BY <2>1, <2>2 DEF TimerStep, Expire, ExpireStale, MissedTold, NoAnswerTold
<1>4. ASSUME NEW d \in Calls, d # c,
             timer'[d].pc \in {"missed", "no_answer", "over"},
             call'[d] # NoSession, call'[d].state = "ringing", NEW e \in Endpoints
      PROVE  sessions'[e] # d
  <2>1. sessions[e] # d
    BY <1>1, <1>3, <1>4 DEF ExpiredInv
  <2>. QED
    BY <1>1, <2>1, NoCallAssumption
<1>5. ASSUME call[c].state = "ringing", NEW e \in Endpoints
      PROVE  sessions'[e] # c
  <2>1. CASE Expire(c)
    <3>1. \A x \in Endpoints : sessions[x] = c => x \in Parties(c)
      BY NoCallAssumption DEF Inv, OwnEntries
    <3>. QED
      BY <2>1, <3>1, NoCallAssumption DEF Expire
  <2>2. CASE ExpireStale(c)
    <3>1. sessions[call[c].source] # c
      BY <1>5, <2>2 DEF ExpireStale
    <3>2. \A x \in Endpoints : sessions[x] = c =>
            x \in Parties(c) /\ sessions[Peer(c, x)] = c
      BY NoCallAssumption DEF Inv, OwnEntries, Paired
    <3>3. sessions[e] # c
      BY <3>1, <3>2 DEF Parties, Peer
    <3>. QED
      BY <1>1, <3>3, NoCallAssumption
  <2>3. CASE MissedTold(c) \/ NoAnswerTold(c)
    <3>1. sessions[e] # c
      BY <1>2, <1>5, <2>3 DEF MissedTold, NoAnswerTold, ExpiredInv
    <3>. QED
      BY <1>1, <3>1, NoCallAssumption
  <2>. QED
    BY <2>1, <2>2, <2>3 DEF TimerStep
<1>. QED
  BY <1>1, <1>4, <1>5 DEF ExpiredInv

LEMMA ExpiredStep == Inv /\ Paired /\ ExpiredInv /\ [Next]_vars => ExpiredInv'
<1>. SUFFICES ASSUME Inv, Paired, ExpiredInv, [Next]_vars PROVE ExpiredInv'
  OBVIOUS
<1>1. CASE UNCHANGED vars
  BY <1>1 DEF vars, ExpiredInv
<1>2. ASSUME NEW s \in Sockets, EndpointStep(s) \/ HandlerStep(s) PROVE ExpiredInv'
  <2>1. CASE Start(s)
    BY <2>1, StartExpired
  <2>2. CASE ~ Start(s)
    <3>1. \A c \in Calls : call'[c] = call[c] \/ call'[c].state = "active"
      <4>1. CASE Accept(s)
        <5>1. call' = [call EXCEPT ![Head(request[s]).call].state = "active"]
          BY <4>1 DEF Accept
        <5>2. Head(request[s]).call \in Calls
          BY <4>1, ReceiveType, RequestTypes DEF Accept, Inv, Receive
        <5>3. call[Head(request[s]).call] \in Session
          BY <4>1, <5>2, OwnerType, ReservedType, NoCallAssumption DEF Accept, RingsAt
        <5>. QED
          BY <5>1, <5>2, <5>3 DEF Inv, TypeOK, Session
      <4>2. CASE ~ Accept(s)
        BY <1>2, <2>2, <4>2, HandlerKeepsCalls
      <4>. QED
        BY <4>1, <4>2
    <3>. QED
      BY <1>2, <2>2, <3>1, HandlerOnlyReleases, ExpiredKept
  <2>. QED
    BY <2>1, <2>2
<1>3. ASSUME NEW e \in Endpoints, OtherSendRaises(e) PROVE ExpiredInv'
  BY <1>3 DEF OtherSendRaises, ExpiredInv
<1>. QED
  BY <1>1, <1>2, <1>3, TimerExpired DEF Next

\* protocol/messages.md: "The call rings for at most 30 seconds". As long as
\* no link fails, however the expiry task interleaves with the handlers, once
\* it has run to its end no endpoint is left in the call it timed.
THEOREM RingsTimed == Spec => []RingsAtMostThirtySeconds
<1>1. Init => LinksFail \/ ExpiredInv
  BY DEF Init, ExpiredInv, TimerAt
<1>2. /\ Inv /\ PairInv /\ (LinksFail \/ ExpiredInv) /\ [Next]_vars
      => (LinksFail \/ ExpiredInv)'
  BY ExpiredStep DEF PairInv
<1>3. Inv /\ (LinksFail \/ ExpiredInv) => RingsAtMostThirtySeconds
  BY DEF ExpiredInv, RingsAtMostThirtySeconds, Inv, StartedCalls
<1>. QED
  BY <1>1, <1>2, <1>3, InvAlways, PairsAlways, PTL DEF Spec

-----------------------------------------------------------------------------
(* The connections.  The argument: an entry names a socket of its own      *)
(* endpoint whose handler has registered, and a handler only registers     *)
(* while no later socket of the endpoint has.                              *)

ServedInv ==
    \A e \in Endpoints : Reachable(e) =>
      /\ Owner(connections[e]) = e
      /\ handler[connections[e]].pc # "unregistered"

\* An entry stays, goes with its dead link, or goes to a registering socket.
LEMMA EntrySteps ==
    ASSUME Inv, Next, NEW e \in Endpoints
    PROVE  \/ connections'[e] = connections[e]
           \/ ws[connections[e]] = "dead" /\ connections'[e] = NoSocket
           \/ \E s \in Sockets :
                Register(s) /\ Owner(s) = e /\ connections'[e] = s
<1>. DEFINE Kept == \/ connections'[e] = connections[e]
                    \/ ws[connections[e]] = "dead" /\ connections'[e] = NoSocket
<1>1. ASSUME NEW s \in Sockets, Returned(s) \/ Delivered(s) \/ Raised(s)
      PROVE  Kept
  BY <1>1, OwnerType DEF Returned, Delivered, Raised, Disconnect, Without, Inv, TypeOK
<1>2. CASE UNCHANGED connections
  BY <1>2
<1>3. ASSUME NEW s \in Sockets, EndpointStep(s) PROVE UNCHANGED connections
  BY <1>3 DEF EndpointStep, EndpointConnects, EndpointLost, RequestStart,
     RequestAccept, RequestHangUp, RequestEnd, RequestAudio, Requests, links
<1>4. ASSUME NEW s \in Sockets, HandlerStep(s), ~ Register(s) PROVE Kept
  <2>1. ASSUME handler[s].pc \in Sending PROVE handler[s].via \in Sockets
    BY <2>1, SendingType
  <2>2. CASE \/ LossNoticed(s) \/ PreviousClosed(s) \/ NeverRegistered(s)
             \/ CloseReplaced(s) \/ Start(s) \/ StartRefused(s) \/ Accept(s)
             \/ AnswerRefused(s) \/ Decline(s) \/ End(s) \/ EndRefused(s)
             \/ AudioElsewhere(s) \/ ForwardAudio(s) \/ AudioEndsCall(s)
    BY <1>2, <2>2 DEF LossNoticed, PreviousClosed, NeverRegistered,
       CloseReplaced, Start, StartRefused, Accept, AnswerRefused, Decline, End,
       EndRefused, AudioElsewhere, ForwardAudio, AudioEndsCall, links
  <2>3. CASE \/ ClosePeerTold(s) \/ StartRings(s) \/ StartUndelivered(s)
             \/ TargetArmed(s) \/ TargetUnarmed(s) \/ SourceArmed(s)
             \/ SourceUnarmed(s) \/ RolledBack(s) \/ PeerTold(s)
             \/ AudioForwarded(s) \/ AudioUndelivered(s)
    <3>1. /\ handler[s].pc \in Sending
          /\ \/ Returned(handler[s].via) \/ Delivered(handler[s].via)
             \/ Raised(handler[s].via)
      BY <2>3 DEF ClosePeerTold, StartRings, StartUndelivered, TargetArmed,
         TargetUnarmed, SourceArmed, SourceUnarmed, RolledBack, PeerTold,
         AudioForwarded, AudioUndelivered, Sending
    <3>. QED
      BY <1>1, <2>1, <3>1
  <2>4. CASE CloseCurrent(s)
    <3>1. ws[s] = "dead" /\ Disconnect(s)
      BY <2>4 DEF CloseCurrent, LoopEnds
    <3>. QED
      BY <1>1, <3>1 DEF Raised
  <2>. QED
    BY <1>4, <2>2, <2>3, <2>4
    DEF HandlerStep, CloseStep, StartStep, AnswerStep, EndStep, AudioStep
<1>5. ASSUME NEW s \in Sockets, Register(s)
      PROVE  connections'[e] = connections[e] \/ (Owner(s) = e /\ connections'[e] = s)
  BY <1>5, OwnerType DEF Register, Connect, Inv, TypeOK
<1>6. ASSUME NEW c \in Calls, TimerStep(c) PROVE Kept
  <2>1. CASE Expire(c) \/ ExpireStale(c)
    BY <1>2, <2>1 DEF Expire, ExpireStale, links
  <2>2. CASE MissedTold(c) \/ NoAnswerTold(c)
    <3>1. Returned(timer[c].via) /\ timer[c].pc \in {"missed", "no_answer"}
      BY <2>2 DEF MissedTold, NoAnswerTold
    <3>2. timer[c].via \in Sockets
      BY <3>1, TimerType
    <3>. QED
      BY <1>1, <3>1, <3>2
  <2>. QED
    BY <1>6, <2>1, <2>2 DEF TimerStep
<1>7. ASSUME NEW x \in Endpoints, OtherSendRaises(x) PROVE Kept
  <2>1. connections[x] \in Sockets /\ Raised(connections[x])
    BY <1>7 DEF OtherSendRaises, Reachable, Inv, TypeOK
  <2>. QED
    BY <1>1, <2>1
<1>. QED
  BY <1>2, <1>3, <1>4, <1>5, <1>6, <1>7 DEF Next

\* Nobody unregisters.
LEMMA RegisteredStays ==
    ASSUME Inv, Next, NEW u \in Sockets, handler'[u].pc = "unregistered"
    PROVE  handler[u].pc = "unregistered" /\ ~ Register(u)
<1>1. ASSUME NEW s \in Sockets, NEW pc \in {"connecting", "idle", "done"},
             handler' = [handler EXCEPT ![s] = At(pc)]
      PROVE  handler[u].pc = "unregistered" /\ u # s
  BY <1>1 DEF At, Inv, TypeOK
<1>2. ASSUME NEW s \in Sockets, NEW pc \in Sending, NEW c, NEW e, Await(s, pc, c, e)
      PROVE  handler[u].pc = "unregistered"
  BY <1>2 DEF Await, Sending, Inv, TypeOK
<1>3. ~ Register(u)
  BY <1>1 DEF Register, Done
<1>4. CASE UNCHANGED handler
  BY <1>3, <1>4
<1>5. ASSUME NEW s \in Sockets, EndpointStep(s) PROVE UNCHANGED handler
  BY <1>5 DEF EndpointStep, EndpointConnects, EndpointLost, RequestStart,
     RequestAccept, RequestHangUp, RequestEnd, RequestAudio, Requests
<1>6. ASSUME NEW s \in Sockets, HandlerStep(s)
      PROVE  handler[u].pc = "unregistered"
  <2>1. CASE \/ LossNoticed(s) \/ StartRefused(s) \/ AnswerRefused(s)
             \/ EndRefused(s) \/ AudioElsewhere(s)
    BY <1>4, <2>1 DEF LossNoticed, StartRefused, AnswerRefused, EndRefused, AudioElsewhere
  <2>2. CASE \/ Register(s) \/ PreviousClosed(s) \/ NeverRegistered(s)
             \/ CloseReplaced(s) \/ ClosePeerTold(s) \/ StartRings(s)
             \/ StartUndelivered(s) \/ TargetUnarmed(s) \/ SourceArmed(s)
             \/ RolledBack(s) \/ PeerTold(s) \/ AudioForwarded(s)
    BY <1>1, <2>2 DEF Register, PreviousClosed, NeverRegistered, CloseReplaced,
       ClosePeerTold, MarkOffline, StartRings, StartUndelivered, TargetUnarmed,
       SourceArmed, RolledBack, PeerTold, AudioForwarded, Done
  <2>3. CASE CloseCurrent(s)
    BY <1>1, <1>2, <2>3 DEF CloseCurrent, MarkOffline, Sending
  <2>4. CASE Start(s) \/ Accept(s) \/ ForwardAudio(s)
    BY <1>2, <2>4 DEF Start, Accept, ForwardAudio, Sending
  <2>5. CASE TargetArmed(s) \/ SourceUnarmed(s)
    BY <1>1, <1>2, <2>5 DEF TargetArmed, SourceUnarmed, CallerGone, Done, Sending
  <2>6. CASE Decline(s) \/ End(s) \/ AudioEndsCall(s)
    BY <1>1, <1>2, <2>6 DEF Decline, End, AudioEndsCall, EndCall, Done, Sending
  <2>7. CASE AudioUndelivered(s)
    BY <1>1, <1>2, <2>7 DEF AudioUndelivered, Done, Sending
  <2>. QED
    BY <1>6, <2>1, <2>2, <2>3, <2>4, <2>5, <2>6, <2>7
    DEF HandlerStep, CloseStep, StartStep, AnswerStep, EndStep, AudioStep
<1>7. ASSUME NEW c \in Calls, TimerStep(c) PROVE UNCHANGED handler
  BY <1>7 DEF TimerStep, Expire, ExpireStale, MissedTold, NoAnswerTold
<1>8. ASSUME NEW e \in Endpoints, OtherSendRaises(e) PROVE UNCHANGED handler
  BY <1>8 DEF OtherSendRaises
<1>. QED
  BY <1>3, <1>4, <1>5, <1>6, <1>7, <1>8 DEF Next

LEMMA ServedStep == Inv /\ ServedInv /\ [Next]_vars => ServedInv'
<1>. SUFFICES ASSUME Inv, ServedInv, [Next]_vars PROVE ServedInv'
  OBVIOUS
<1>1. CASE UNCHANGED vars
  BY <1>1 DEF vars, ServedInv, Reachable
<1>2. CASE Next
  <2>. SUFFICES ASSUME NEW e \in Endpoints, connections'[e] # NoSocket
                PROVE  /\ Owner(connections'[e]) = e
                       /\ handler'[connections'[e]].pc # "unregistered"
    BY DEF ServedInv, Reachable
  <2>1. CASE connections'[e] = connections[e]
    <3>1. connections[e] \in Sockets
      BY <2>1 DEF Inv, TypeOK
    <3>2. Owner(connections[e]) = e /\ handler[connections[e]].pc # "unregistered"
      BY <2>1 DEF ServedInv, Reachable
    <3>. QED
      BY <1>2, <2>1, <3>1, <3>2, RegisteredStays
  <2>2. CASE \E s \in Sockets : Register(s) /\ Owner(s) = e /\ connections'[e] = s
    BY <1>2, <2>2, RegisteredStays
  <2>. QED
    BY <1>2, <2>1, <2>2, EntrySteps
<1>. QED
  BY <1>1, <1>2

LEMMA ServedAlways == Spec => []ServedInv
<1>1. Init => ServedInv
  BY DEF Init, ConnectionInit, ServedInv, Reachable
<1>. QED
  BY <1>1, InvAlways, ServedStep, PTL DEF Spec

EntryOutlived ==
    \A e \in Endpoints :
      connections[e] # NoSocket /\ connections'[e] # connections[e]
        => \/ ws[connections[e]] = "dead"
           \/ connections'[e] # NoSocket /\ connections'[e][2] > connections[e][2]

\* Whatever links fail and however late a replaced socket is cleaned up or a
\* send to it fails: an entry of the connection table goes with its own dead
\* link, or to a later socket of its endpoint.
THEOREM SuccessorsStay == Spec => SuccessorStays
<1>1. Inv /\ ServedInv /\ [Next]_vars => [EntryOutlived]_vars
  <2>. SUFFICES ASSUME Inv, ServedInv, Next PROVE EntryOutlived
    OBVIOUS
  <2>. SUFFICES ASSUME NEW e \in Endpoints, connections[e] # NoSocket,
                       NEW s \in Sockets, Register(s), Owner(s) = e,
                       connections'[e] = s, s # connections[e]
                PROVE  s # NoSocket /\ s[2] > connections[e][2]
    BY EntrySteps DEF EntryOutlived
  <2>. DEFINE t == connections[e]
  <2>1. t \in Sockets /\ Owner(t) = e /\ handler[t].pc # "unregistered"
    BY DEF ServedInv, Reachable, Inv, TypeOK
  <2>2. ~ (t[2] > s[2])
    BY <2>1 DEF Register
  <2>3. /\ s = <<e, s[2]>> /\ t = <<e, t[2]>>
        /\ s[2] \in Nat /\ t[2] \in Nat
    BY <2>1, MaxReconnectsAssumption DEF Sockets, Owner
  <2>. QED
    BY <2>2, <2>3, NoSocketAssumption
<1>. QED
  BY <1>1, InvAlways, ServedAlways, PTL DEF Spec, SuccessorStays, EntryOutlived

-----------------------------------------------------------------------------
(* Frames                                                                  *)

FramesOwn ==
    \A s \in Sockets :
      handler[s].pc = "idle" /\ handler'[s].pc = "audio"
        => sessions[Owner(handler'[s].via)] = handler'[s].call

\* A frame goes to the peer, which is in the call by pairing.
LEMMA FrameStep == Inv /\ Paired /\ ServedInv /\ [Next]_vars => [FramesOwn]_vars
<1>. SUFFICES ASSUME Inv, Paired, ServedInv, Next,
                     NEW s \in Sockets, handler[s].pc = "idle",
                     handler'[s].pc = "audio"
              PROVE  sessions[Owner(handler'[s].via)] = handler'[s].call
  BY DEF FramesOwn
<1>1. ~ NoneTalks
  BY DEF NoneTalks, Talking
<1>2. PICK u \in Sockets : Accept(u) \/ TargetArmed(u) \/ ForwardAudio(u)
  <2>1. ASSUME NEW e \in Endpoints, OtherSendRaises(e) PROVE NoneTalks
    BY <2>1 DEF OtherSendRaises, NoneTalks
  <2>. QED
    BY <1>1, <2>1, LifeTalks, TalkTalks, TimerTalks DEF Next, HandlerStep
<1>3. ASSUME NEW pc \in {"arm_target", "arm_source"}, NEW c, NEW e,
             Await(u, pc, c, e)
      PROVE  FALSE
  BY <1>3 DEF Await, Inv, TypeOK
<1>4. ~ Accept(u)
  BY <1>3 DEF Accept
<1>5. ~ TargetArmed(u)
  BY <1>1, <1>3, CallerGoneTalks DEF TargetArmed, Inv
<1>. DEFINE c == sessions[Owner(u)]  peer == Peer(c, Owner(u))
<1>6. Await(u, "audio", c, peer) /\ Reachable(peer) /\ c # NoCall
  BY <1>2, <1>4, <1>5 DEF ForwardAudio, Transmitting
<1>7. peer \in Endpoints /\ sessions[peer] = c
  BY <1>6, OwnerType, ReservedType DEF Paired
<1>8. Owner(connections[peer]) = peer
  BY <1>6, <1>7 DEF ServedInv
<1>9. handler'[s].via = connections[peer] /\ handler'[s].call = c
  BY <1>6 DEF Await, Inv, TypeOK
<1>. QED
  BY <1>7, <1>8, <1>9

\* protocol/messages.md: "An endpoint can participate in only one call at a
\* time." As long as no link fails, a frame is only sent to an endpoint that
\* is in the sender's call, whatever the frame's call went through before.
THEOREM FramesInCall ==
    ASSUME ~ LinksFail
    PROVE  Spec => FramesStayInCall
<1>1. PairInv => Paired
  BY DEF PairInv
<1>. QED
  BY <1>1, FrameStep, InvAlways, PairsAlways, ServedAlways, PTL
  DEF Spec, FramesStayInCall, FramesOwn

-----------------------------------------------------------------------------
(* The call book.  The argument: a call is live in the book while one of   *)
(* its parties is entered in it, and by pairing both are; so a start finds *)
(* both parties free, and a release ends one live call and touches no      *)
(* other.                                                                  *)

Book ==
    [c \in Calls |->
       IF call[c] = NoSession \/ \E e \in Parties(c) : sessions[e] = c
         THEN call[c]
         ELSE [call[c] EXCEPT !.state = "over"]]

Entered(c) == \E e \in Parties(c) : sessions[e] = c

LEMMA BookEntry ==
    ASSUME Inv, NEW c \in Calls
    PROVE  /\ call[c] = NoSession => Book[c] = NoSession
           /\ call[c] # NoSession =>
                /\ Book[c] # NoSession
                /\ Book[c].source = call[c].source
                /\ Book[c].target = call[c].target
                /\ Entered(c) => Book[c] = call[c] /\ Book[c].state # "over"
                /\ ~ Entered(c) => Book[c].state = "over"
<1>1. CASE call[c] = NoSession
  BY <1>1 DEF Book
<1>2. CASE call[c] # NoSession
  <2>1. /\ call[c] \in Session
        /\ [call[c] EXCEPT !.state = "over"] \in CallBook!Entry
        /\ call[c] \in CallBook!Entry
    BY <1>2 DEF Inv, TypeOK, Session, CallBook!Entry
  <2>2. CASE Entered(c)
    BY <1>2, <2>1, <2>2 DEF Book, Entered, Session
  <2>3. CASE ~ Entered(c)
    <3>1. Book[c] = [call[c] EXCEPT !.state = "over"]
      BY <1>2, <2>3 DEF Book, Entered
    <3>. QED
      BY <1>2, <2>1, <2>3, <3>1, NoEntryAssumption DEF Session
  <2>. QED
    BY <2>2, <2>3
<1>. QED
  BY <1>1, <1>2

\* By pairing a live call has both its parties entered.
LEMMA EnteredBoth ==
    ASSUME Inv, Paired, NEW c \in Calls, Entered(c), call[c] # NoSession
    PROVE  \A x \in Parties(c) : x \in Endpoints /\ sessions[x] = c
<1>1. PICK e \in Parties(c) : sessions[e] = c
  BY DEF Entered
<1>2. call[c] \in Session /\ e \in Endpoints
  BY DEF Inv, TypeOK, Parties, Session
<1>3. sessions[Peer(c, e)] = c
  BY <1>1, <1>2, NoCallAssumption DEF Paired
<1>. QED
  BY <1>1, <1>2, <1>3 DEF Parties, Peer, Session

\* Two calls in each of which somebody is entered have no party in common.
OneCallEach ==
    \A c, d \in Calls :
      /\ call[c] # NoSession /\ Entered(c)
      /\ call[d] # NoSession /\ Entered(d)
      /\ Parties(c) \cap Parties(d) # {}
      => c = d

\* protocol/messages.md: "An endpoint can participate in only one call at a
\* time." As long as no link fails, no two calls that are not over for both
\* their parties share a party.
THEOREM OneCallAtATime ==
    ASSUME ~ LinksFail
    PROVE  Spec => []OneCallEach
<1>1. Inv /\ PairInv => OneCallEach
  <2>. SUFFICES ASSUME Inv, PairInv, NEW c \in Calls, NEW d \in Calls,
                       call[c] # NoSession, Entered(c),
                       call[d] # NoSession, Entered(d),
                       NEW x \in Parties(c), x \in Parties(d)
                PROVE  c = d
    BY DEF OneCallEach
  <2>1. sessions[x] = c
    BY EnteredBoth DEF PairInv
  <2>2. sessions[x] = d
    BY EnteredBoth DEF PairInv
  <2>. QED
    BY <2>1, <2>2
<1>. QED
  BY <1>1, InvAlways, PairsAlways, PTL

\* An endpoint that is in no call is a party of none that is live.
LEMMA FreeParty ==
    ASSUME Inv, Paired, NEW e \in Endpoints, sessions[e] = NoCall
    PROVE  CallBook!Free(e)
<1>. SUFFICES ASSUME NEW d \in Calls, Book[d] # NoSession, Book[d].state # "over"
              PROVE  e \notin {Book[d].source, Book[d].target}
  BY DEF CallBook!Free, CallBook!Live, Book
<1>1. call[d] # NoSession /\ Entered(d)
  BY BookEntry
<1>2. e \notin Parties(d)
  BY <1>1, EnteredBoth, NoCallAssumption
<1>. QED
  BY <1>1, <1>2, BookEntry DEF Parties

\* The book changes at one call.
LEMMA BookUpdate ==
    ASSUME NEW c \in Calls, NEW v, Book'[c] = v,
           \A d \in Calls : d # c => Book'[d] = Book[d]
    PROVE  Book' = [Book EXCEPT ![c] = v]
<1>1. Book = [d \in Calls |-> Book[d]]
  BY DEF Book
<1>2. Book' = [d \in Calls |-> Book'[d]]
  BY DEF Book
<1>3. \A f, g : /\ f = [d \in Calls |-> f[d]] /\ g = [d \in Calls |-> g[d]]
                /\ g[c] = v /\ \A d \in Calls : d # c => g[d] = f[d]
                => g = [f EXCEPT ![c] = v]
  OBVIOUS
<1>. QED
  BY <1>1, <1>2, <1>3

\* A start places a call in the book.
LEMMA StartBook ==
    ASSUME Inv, Inv', Paired, NEW s \in Sockets, Start(s)
    PROVE  CallBook!Next
<1>1. PICK a \in Endpoints : a = Owner(s)
  BY OwnerType
<1>t. PICK t \in Endpoints : t = Head(request[s]).target
  BY ReceiveType, RequestTypes DEF Start, Inv, Receive
<1>2. a # t /\ sessions[a] = NoCall /\ sessions[t] = NoCall
  BY <1>1, <1>t DEF Start, Busy
<1>3. PICK c \in Fresh :
        /\ call' = [call EXCEPT ![c] = [source |-> a, target |-> t,
                                        state |-> "ringing"]]
        /\ sessions' = [sessions EXCEPT ![a] = c, ![t] = c]
  BY <1>1, <1>t DEF Start
<1>4. c \in Calls /\ call[c] = NoSession
  BY DEF Fresh
<1>. DEFINE entry == [source |-> a, target |-> t, state |-> "ringing"]
<1>5. call'[c] = entry /\ \A d \in Calls : d # c => call'[d] = call[d]
  BY <1>3, <1>4 DEF Inv, TypeOK
<1>6. /\ \A e \in Endpoints : sessions'[e] = IF e \in {a, t} THEN c ELSE sessions[e]
  BY <1>1, <1>3 DEF Inv, TypeOK
<1>7. Book'[c] = entry
  BY <1>1, <1>4, <1>5, <1>6 DEF Book, Parties
<1>8. ASSUME NEW d \in Calls, d # c PROVE Book'[d] = Book[d]
  <2>1. call'[d] = call[d] /\ Parties(d)' = Parties(d)
    BY <1>5, <1>8 DEF Parties
  <2>2. CASE call[d] = NoSession
    BY <2>1, <2>2 DEF Book
  <2>3. CASE call[d] # NoSession
    <3>1. Parties(d) \subseteq Endpoints
      BY <2>3 DEF Inv, TypeOK, Parties, Session
    <3>2. \A e \in Parties(d) : sessions'[e] = d <=> sessions[e] = d
      BY <1>2, <1>6, <1>8, <3>1, NoCallAssumption
    <3>. QED
      BY <2>1, <3>2 DEF Book
  <2>. QED
    BY <2>2, <2>3
<1>9. Book' = [Book EXCEPT ![c] = entry]
  BY <1>4, <1>7, <1>8, BookUpdate
<1>10. CallBook!Free(a) /\ CallBook!Free(t) /\ Book[c] = NoSession
  BY <1>1, <1>2, <1>4, FreeParty, BookEntry
<1>11. CallBook!Place(c, a, t)
  BY <1>2, <1>9, <1>10 DEF CallBook!Place, Book
<1>. QED
  BY <1>1, <1>4, <1>11 DEF CallBook!Next

\* An acceptance answers a ringing call of the book.
LEMMA AcceptBook ==
    ASSUME Inv, Inv', NEW s \in Sockets, Accept(s)
    PROVE  CallBook!Next
<1>1. PICK c \in Calls : c = Head(request[s]).call
  BY ReceiveType, RequestTypes DEF Accept, Inv, Receive
<1>e. PICK e \in Endpoints : e = Owner(s)
  BY OwnerType
<1>2. /\ sessions[e] = c /\ call[c].target = e /\ call[c].state = "ringing"
      /\ call' = [call EXCEPT ![c].state = "active"]
      /\ UNCHANGED sessions
  BY <1>1, <1>e DEF Accept, RingsAt
<1>3. call[c] \in Session /\ call[c] # NoSession
  BY <1>1, <1>2, ReservedType, NoCallAssumption, NoSessionAssumption
<1>4. Entered(c)
  BY <1>2 DEF Entered, Parties
<1>5. /\ call'[c] = [call[c] EXCEPT !.state = "active"]
      /\ \A d \in Calls : d # c => call'[d] = call[d]
  BY <1>1, <1>2 DEF Inv, TypeOK
<1>6. Book[c] = call[c]
  BY <1>1, <1>3, <1>4, BookEntry
<1>7. Book'[c] = [Book[c] EXCEPT !.state = "active"]
  <2>1. Parties(c)' = Parties(c)
    BY <1>3, <1>5 DEF Parties, Session
  <2>2. Entered(c)'
    BY <1>2, <1>4, <2>1 DEF Entered
  <2>. QED
    BY <1>1, <1>5, <1>6, <2>2 DEF Book, Entered
<1>8. ASSUME NEW d \in Calls, d # c PROVE Book'[d] = Book[d]
  BY <1>2, <1>5, <1>8 DEF Book, Parties
<1>9. Book' = [Book EXCEPT ![c].state = "active"]
  BY <1>7, <1>8, BookUpdate
<1>10. CallBook!Live(c) /\ Book[c].state = "ringing"
  BY <1>2, <1>3, <1>6 DEF CallBook!Live, Book
<1>11. CallBook!Answer(c)
  BY <1>9, <1>10 DEF CallBook!Answer, Book
<1>. QED
  BY <1>1, <1>11 DEF CallBook!Next

\* A release ends one call of the book.
LEMMA ReleaseBook ==
    ASSUME Inv, Paired, NEW c \in Calls, NEW e \in Endpoints,
           sessions[e] = c, sessions' = Popped(c), UNCHANGED call
    PROVE  CallBook!Next
<1>1. call[c] # NoSession /\ call[c] \in Session /\ e \in Parties(c)
  BY ReservedType, NoCallAssumption DEF Inv, OwnEntries
<1>2. Entered(c)
  BY <1>1 DEF Entered
<1>3. \A x \in Parties(c) : x \in Endpoints /\ sessions[x] = c
  BY <1>1, <1>2, EnteredBoth
<1>4. \A d \in Calls : Parties(d)' = Parties(d)
  BY DEF Parties
<1>5. Book[c] = call[c] /\ Book[c].state # "over"
  BY <1>1, <1>2, BookEntry
<1>6. Book'[c] = [Book[c] EXCEPT !.state = "over"]
  <2>1. ~ Entered(c)'
    BY <1>3, <1>4, NoCallAssumption DEF Entered, Popped
  <2>. QED
    BY <1>1, <1>5, <2>1 DEF Book, Entered
<1>7. ASSUME NEW d \in Calls, d # c PROVE Book'[d] = Book[d]
  <2>1. CASE call[d] = NoSession
    BY <2>1 DEF Book
  <2>2. CASE call[d] # NoSession
    <3>1. Parties(d) \subseteq Endpoints
      BY <2>2 DEF Inv, TypeOK, Parties, Session
    <3>2. \A x \in Parties(d) : sessions'[x] = d <=> sessions[x] = d
      BY <1>3, <1>7, <3>1, NoCallAssumption DEF Popped
    <3>. QED
      BY <1>4, <3>2 DEF Book
  <2>. QED
    BY <2>1, <2>2
<1>8. Book' = [Book EXCEPT ![c].state = "over"]
  BY <1>6, <1>7, BookUpdate
<1>9. CallBook!Live(c)
  BY <1>1, <1>5 DEF CallBook!Live, Book
<1>10. CallBook!Finish(c)
  BY <1>8, <1>9 DEF CallBook!Finish, Book
<1>. QED
  BY <1>10 DEF CallBook!Next

LEMMA SameBook ==
    ASSUME UNCHANGED <<sessions, call>>
    PROVE  UNCHANGED Book
BY DEF Book, Parties

LEMMA BookStep ==
    ASSUME ~ LinksFail, Inv, Inv', PairInv, [Next]_vars
    PROVE  [CallBook!Next]_Book
<1>p. Paired
  BY DEF PairInv
<1>1. CASE UNCHANGED vars
  BY <1>1, SameBook DEF vars
<1>2. ASSUME NEW s \in Sockets, EndpointStep(s) PROVE [CallBook!Next]_Book
  BY <1>2, EndpointPairs, SameBook
<1>3. ASSUME NEW s \in Sockets, HandlerStep(s), ~ Start(s), ~ Accept(s)
      PROVE  [CallBook!Next]_Book
  BY <1>p, <1>3, HandlerReleases, SameBook, ReleaseBook
<1>4. ASSUME NEW c \in Calls, TimerStep(c) PROVE [CallBook!Next]_Book
  BY <1>p, <1>4, TimerReleases, SameBook, ReleaseBook
<1>5. ASSUME NEW e \in Endpoints, OtherSendRaises(e) PROVE [CallBook!Next]_Book
  BY <1>5, SameBook DEF OtherSendRaises
<1>6. ASSUME NEW s \in Sockets, Start(s) \/ Accept(s) PROVE [CallBook!Next]_Book
  BY <1>p, <1>6, StartBook, AcceptBook
<1>. QED
  BY <1>1, <1>2, <1>3, <1>4, <1>5, <1>6 DEF Next

\* protocol/messages.md, "Room-to-room intercom": as long as no link fails,
\* the handlers, their suspended sends and the expiry tasks together do with
\* calls what the call book allows: a call is placed between two endpoints
\* that are in none, answered while it rings, and finished for both at once.
THEOREM CallBookKept ==
    ASSUME ~ LinksFail
    PROVE  Spec => KeepsCallBook
<1>1. Init => CallBook!Init
  BY DEF Init, CallBook!Init
<1>2. Inv /\ Inv' /\ PairInv /\ [Next]_vars => [CallBook!Next]_Book
  BY BookStep
<1>. QED
  BY <1>1, <1>2, InvAlways, PairsAlways, PTL
  DEF Spec, KeepsCallBook, CallBook!Spec, Book
=============================================================================
