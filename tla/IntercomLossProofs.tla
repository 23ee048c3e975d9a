------------------------- MODULE IntercomLossProofs -------------------------
(***************************************************************************)
(* Proofs about Intercom with failing links and endpoints that reconnect.  *)
(* What holds there holds as long as one call is not disturbed by another: *)
(* because sends do not suspend, or because there is only one call.  The   *)
(* argument: a call is started only while no task is in the middle of one, *)
(* so a task that releases a call, however late, releases nothing else.    *)
(***************************************************************************)
EXTENDS IntercomProofs, FiniteSetTheorems

USE DEF ConnectionTypeOK

Undisturbed ==
    \/ ~ SlowSends
    \/ IsFiniteSet(Endpoints) /\ \A c, d \in Calls : c = d

\* The first socket of an endpoint: it has not reconnected yet.
First(e) == <<e, 1>>

\* e is in an active call, or it is the caller of one.
Engaged(e) ==
    /\ sessions[e] # NoCall
    /\ \/ call[sessions[e]].state = "active"
       \/ call[sessions[e]].source = e

\* Nothing happens on a socket before it is opened, an endpoint opens its
\* sockets one after the other, and only one that opened its first is called.
OpenedInv ==
    /\ \A s \in Sockets : ws[s] = "unopened" => handler[s].pc = "unregistered"
    /\ \A s, t \in Sockets :
         Owner(t) = Owner(s) /\ t[2] < s[2] /\ ws[s] # "unopened"
           => ws[t] \in {"lost", "dead"}
    /\ \A e \in Endpoints : sessions[e] # NoCall => ws[First(e)] # "unopened"

\* Only the target of a call sees it come in.
IncomingInv ==
    \A e \in Endpoints :
      panel[e].phase = "incoming" =>
        call[panel[e].call] # NoSession /\ call[panel[e].call].target = e

\* Nobody entered in another call is a party of c.
NoneElsewhere(c) == \A x \in Parties(c) : sessions[x] \in {c, NoCall}

AllReleased(c) == \A x \in Parties(c) : sessions[x] = NoCall

\* Whose task it is, and whether its call is released.
HandlerOk(s) ==
    LET h == handler[s] IN
    /\ h.pc = "ring" => call[h.call].source = Owner(s)
    /\ h.pc \in {"arm_target", "arm_source", "rollback"} =>
         call[h.call].target = Owner(s)
    /\ h.pc \in {"ending", "decline", "audio"} => Owner(s) \in Parties(h.call)
    /\ h.pc \in {"ring", "arm_target", "arm_source", "audio"} =>
         NoneElsewhere(h.call)
    /\ h.pc \in {"rollback", "decline", "ending"} => AllReleased(h.call)

HandlerInv == \A s \in Sockets : HandlerOk(s)

MissedInv == \A c \in Calls : timer[c].pc = "missed" => AllReleased(c)

\* An engaged endpoint has asked for nothing but to end this very call, or
\* whatever call it has.
RequestInv ==
    /\ \A s \in Sockets : Len(request[s]) <= 1
    /\ \A e \in Endpoints :
         LET m == Head(request[First(e)]) IN
         /\ ws[First(e)] = "open"
         /\ request[First(e)] # <<>>
         /\ Engaged(e)
         => m.type = "audio" \/ (m.type = "end" /\ m.call \in {sessions[e], NoCall})

\* An engaged endpoint shows its call, unless it is the caller whose own
\* handler has yet to tell it that the call rings.
ShownInv ==
    \A e \in Endpoints :
      ws[First(e)] = "open" /\ Engaged(e) =>
        \/ panel[e].call = sessions[e] /\ panel[e].phase # "incoming"
        \/ handler[First(e)].pc = "ring" /\ handler[First(e)].call = sessions[e]

-----------------------------------------------------------------------------
(* Steps                                                                   *)

LEMMA FirstType ==
    ASSUME NEW e \in Endpoints
    PROVE  First(e) \in Sockets /\ Owner(First(e)) = e
BY MaxReconnectsAssumption DEF First, Sockets, Owner

\* Where the first socket is still open, an open one is the first.
LEMMA FirstOpen ==
    ASSUME OpenedInv, NEW s \in Sockets, ws[s] # "unopened",
           ws[First(Owner(s))] = "open"
    PROVE  s = First(Owner(s))
<1>1. s = <<Owner(s), s[2]>> /\ s[2] \in Nat \ {0} /\ Owner(s) \in Endpoints
  BY MaxReconnectsAssumption DEF Sockets, Owner
<1>2. First(Owner(s)) \in Sockets /\ Owner(First(Owner(s))) = Owner(s)
  BY <1>1, FirstType
<1>3. ~ (1 < s[2])
  BY <1>2 DEF OpenedInv, First
<1>. QED
  BY <1>1, <1>3 DEF First

\* A call starts only while no task stands in the middle of one.
LEMMA StartAlone ==
    ASSUME Undisturbed, Inv, NEW s \in Sockets, Start(s)
    PROVE  Settled
<1>1. CASE ~ SlowSends
  BY <1>1 DEF Start, Receive, MayBegin
<1>2. CASE \A c, d \in Calls : c = d
  <2>1. \A c \in Calls : call[c] = NoSession
    BY <1>2 DEF Start, Fresh
  <2>2. \A u \in Sockets : handler[u].pc \notin Sending
    BY <2>1, SendingType DEF Inv, StartedCalls
  <2>3. \A c \in Calls : timer[c].pc \notin {"missed", "no_answer"}
    BY <2>1 DEF Inv, StartedCalls
  <2>. QED
    BY <2>2, <2>3 DEF Settled
<1>. QED
  BY <1>1, <1>2 DEF Undisturbed

\* A call that was started keeps its parties.
LEMMA CallStays ==
    ASSUME Inv, Next, NEW c \in Calls, call[c] # NoSession
    PROVE  /\ call'[c] # NoSession
           /\ call'[c].source = call[c].source
           /\ call'[c].target = call[c].target
           /\ \/ call'[c] = call[c]
              \/ \E s \in Sockets : Accept(s) /\ sessions[Owner(s)] = c
<1>1. CASE UNCHANGED call
  BY <1>1
<1>2. ASSUME NEW s \in Sockets, Start(s) PROVE call'[c] = call[c]
  BY <1>2 DEF Start, Fresh, Inv, TypeOK
<1>3. ASSUME NEW s \in Sockets, Accept(s)
      PROVE  /\ call'[c] # NoSession
             /\ call'[c].source = call[c].source
             /\ call'[c].target = call[c].target
             /\ call'[c] = call[c] \/ sessions[Owner(s)] = c
  <2>. DEFINE d == Head(request[s]).call
  <2>1. d \in Calls /\ sessions[Owner(s)] = d
    BY <1>3, ReceiveType, RequestTypes DEF Accept, Inv, Receive, RingsAt
  <2>2. call[c] \in Session
    BY DEF Inv, TypeOK
  <2>3. call' = [call EXCEPT ![d].state = "active"]
    BY <1>3 DEF Accept
  <2>4. d # c => call'[c] = call[c]
    BY <2>1, <2>3 DEF Inv, TypeOK
  <2>5. d = c => call'[c] = [call[c] EXCEPT !.state = "active"]
    BY <2>1, <2>3 DEF Inv, TypeOK
  <2>6. [call[c] EXCEPT !.state = "active"] \in Session
    BY <2>2 DEF Session
  <2>. QED
    BY <2>1, <2>2, <2>4, <2>5, <2>6, NoSessionAssumption DEF Session
<1>. QED
  BY <1>1, <1>2, <1>3, CallsKept

\* Only a start enters anybody.
LEMMA EntriesKept ==
    ASSUME Inv, Next, \A s \in Sockets : ~ Start(s)
    PROVE  \A e \in Endpoints : sessions'[e] \in {NoCall, sessions[e]}
<1>1. ASSUME NEW c \in Calls, TimerStep(c)
      PROVE  \A e \in Endpoints : sessions'[e] \in {NoCall, sessions[e]}
  BY <1>1 DEF TimerStep, Expire, ExpireStale, MissedTold, NoAnswerTold
<1>2. ASSUME NEW e \in Endpoints, OtherSendRaises(e) PROVE UNCHANGED sessions
  BY <1>2 DEF OtherSendRaises
<1>. QED
  BY <1>1, <1>2, HandlerOnlyReleases DEF Next, OnlyReleases

\* A handler's step leaves the other handlers where they are, and a handler
\* of an unopened socket takes none.
LEMMA OtherHandlers ==
    ASSUME Inv, NEW s \in Sockets, HandlerStep(s)
    PROVE  \A u \in Sockets \ {s} : handler'[u] = handler[u]
<1>1. ASSUME NEW pc, handler' = [handler EXCEPT ![s] = At(pc)]
      PROVE  \A u \in Sockets \ {s} : handler'[u] = handler[u]
  BY <1>1 DEF Inv, TypeOK
<1>2. ASSUME NEW pc, NEW c, NEW e, Await(s, pc, c, e)
      PROVE  \A u \in Sockets \ {s} : handler'[u] = handler[u]
  BY <1>2 DEF Await, Inv, TypeOK
<1>3. CASE \/ LossNoticed(s) \/ StartRefused(s) \/ AnswerRefused(s)
           \/ EndRefused(s) \/ AudioElsewhere(s)
  BY <1>3 DEF LossNoticed, StartRefused, AnswerRefused, EndRefused, AudioElsewhere
<1>4. CASE \/ Register(s) \/ PreviousClosed(s) \/ NeverRegistered(s)
           \/ CloseReplaced(s) \/ ClosePeerTold(s) \/ StartRings(s)
           \/ StartUndelivered(s) \/ TargetUnarmed(s) \/ SourceArmed(s)
           \/ RolledBack(s) \/ PeerTold(s) \/ AudioForwarded(s)
  BY <1>1, <1>4 DEF Register, PreviousClosed, NeverRegistered, CloseReplaced,
     ClosePeerTold, MarkOffline, StartRings, StartUndelivered, TargetUnarmed,
     SourceArmed, RolledBack, PeerTold, AudioForwarded, Done
<1>5. CASE CloseCurrent(s)
  BY <1>1, <1>2, <1>5 DEF CloseCurrent, MarkOffline
<1>6. CASE Start(s) \/ Accept(s) \/ ForwardAudio(s)
  BY <1>2, <1>6 DEF Start, Accept, ForwardAudio
<1>7. CASE TargetArmed(s) \/ SourceUnarmed(s)
  BY <1>1, <1>2, <1>7 DEF TargetArmed, SourceUnarmed, CallerGone, Done
<1>8. CASE Decline(s) \/ End(s) \/ AudioEndsCall(s)
  BY <1>1, <1>2, <1>8 DEF Decline, End, AudioEndsCall, EndCall, Done
<1>9. CASE AudioUndelivered(s)
  BY <1>1, <1>2, <1>9 DEF AudioUndelivered, Done
<1>. QED
  BY <1>3, <1>4, <1>5, <1>6, <1>7, <1>8, <1>9
  DEF HandlerStep, CloseStep, StartStep, AnswerStep, EndStep, AudioStep

LEMMA HandlerAwake ==
    ASSUME Inv, OpenedInv, NEW s \in Sockets, HandlerStep(s)
    PROVE  ws[s] # "unopened"
<1>1. handler[s].pc # "unregistered" => ws[s] # "unopened"
  BY DEF OpenedInv
<1>. QED
  BY <1>1 DEF HandlerStep, LossNoticed, NoticeLoss, Register, PreviousClosed,
     CloseStep, NeverRegistered, CloseReplaced, CloseCurrent, LoopEnds,
     ClosePeerTold, StartStep, Start, StartRefused, StartRings,
     StartUndelivered, AnswerStep, Accept, AnswerRefused, TargetArmed,
     TargetUnarmed, SourceArmed, SourceUnarmed, RolledBack, Decline, EndStep,
     End, EndRefused, PeerTold, AudioStep, AudioElsewhere, ForwardAudio,
     AudioEndsCall, AudioForwarded, AudioUndelivered, Receive

LEMMA HandlersStay ==
    ASSUME Inv, Next, NEW u \in Sockets, ~ HandlerStep(u)
    PROVE  handler'[u] = handler[u]
<1>1. ASSUME NEW s \in Sockets, EndpointStep(s) PROVE UNCHANGED handler
  BY <1>1 DEF EndpointStep, EndpointConnects, EndpointLost, RequestStart,
     RequestAccept, RequestHangUp, RequestEnd, RequestAudio, Requests
<1>. QED
  BY <1>1, OtherHandlers DEF Next, TimerStep, Expire, ExpireStale, MissedTold,
     NoAnswerTold, OtherSendRaises

-----------------------------------------------------------------------------
(* Sockets                                                                 *)

\* How the link of a socket changes.
LEMMA LinkSteps ==
    ASSUME Inv, Next, NEW u \in Sockets
    PROVE  \/ ws'[u] = ws[u]
           \/ EndpointConnects(u)
           \/ ws[u] \in {"open", "lost"} /\ ws'[u] \in {"lost", "dead"}
<1>1. ASSUME NEW s \in Sockets, EndpointStep(s) \/ LossNoticed(s)
      PROVE  \/ ws'[u] = ws[u]
             \/ EndpointConnects(u)
             \/ ws[u] \in {"open", "lost"} /\ ws'[u] \in {"lost", "dead"}
  <2>0. ws \in [Sockets -> LinkStates]
    BY DEF Inv, TypeOK
  <2>1. CASE EndpointConnects(s)
    <3>1. ws' = [ws EXCEPT ![s] = "open"]
      BY <2>1 DEF EndpointConnects, OpenSocket
    <3>. QED
      BY <2>0, <2>1, <3>1
  <2>2. CASE EndpointLost(s) \/ LossNoticed(s)
    <3>1. /\ ws[s] \in {"open", "lost"}
          /\ \E state \in {"lost", "dead"} : ws' = [ws EXCEPT ![s] = state]
      BY <2>2 DEF EndpointLost, LoseSocket, LossNoticed, NoticeLoss
    <3>. QED
      BY <2>0, <3>1
  <2>3. CASE UNCHANGED ws
    BY <2>3
  <2>. QED
    BY <1>1, <2>1, <2>2, <2>3 DEF EndpointStep, RequestStart, RequestAccept,
       RequestHangUp, RequestEnd, RequestAudio, Requests, links
<1>2. ASSUME NEW s \in Sockets, HandlerStep(s), ~ LossNoticed(s)
      PROVE  UNCHANGED ws
  BY <1>2 DEF HandlerStep, Register, PreviousClosed, CloseStep,
     NeverRegistered, CloseReplaced, CloseCurrent, ClosePeerTold, StartStep,
     Start, StartRefused, StartRings, StartUndelivered, AnswerStep, Accept,
     AnswerRefused, TargetArmed, TargetUnarmed, SourceArmed, SourceUnarmed,
     RolledBack, Decline, EndStep, End, EndRefused, PeerTold, AudioStep,
     AudioElsewhere, ForwardAudio, AudioEndsCall, AudioForwarded,
     AudioUndelivered, links
<1>3. ASSUME NEW c \in Calls, TimerStep(c) PROVE UNCHANGED ws
  BY <1>3 DEF TimerStep, Expire, ExpireStale, MissedTold, NoAnswerTold, links
<1>4. ASSUME NEW e \in Endpoints, OtherSendRaises(e) PROVE UNCHANGED ws
  BY <1>4 DEF OtherSendRaises
<1>. QED
  BY <1>1, <1>2, <1>3, <1>4 DEF Next

\* What is connected has been opened.
LEMMA ConnectedOpened ==
    ASSUME Inv, ServedInv, OpenedInv, NEW e \in Endpoints, Reachable(e)
    PROVE  /\ connections[e] \in Sockets
           /\ Owner(connections[e]) = e
           /\ ws[connections[e]] # "unopened"
<1>1. connections[e] \in Sockets
  BY DEF Inv, TypeOK, Reachable
<1>2. Owner(connections[e]) = e /\ handler[connections[e]].pc # "unregistered"
  BY DEF ServedInv
<1>. QED
  BY <1>1, <1>2 DEF OpenedInv

LEMMA OpenedFirst ==
    ASSUME OpenedInv, NEW s \in Sockets, ws[s] # "unopened"
    PROVE  ws[First(Owner(s))] # "unopened"
<1>1. s = <<Owner(s), s[2]>> /\ s[2] \in Nat \ {0} /\ Owner(s) \in Endpoints
  BY MaxReconnectsAssumption DEF Sockets, Owner
<1>2. /\ First(Owner(s)) \in Sockets
      /\ Owner(First(Owner(s))) = Owner(s)
      /\ First(Owner(s))[2] = 1
  BY <1>1, FirstType DEF First
<1>3. CASE s[2] = 1
  BY <1>1, <1>3 DEF First
<1>4. CASE 1 < s[2]
  BY <1>2, <1>4 DEF OpenedInv
<1>. QED
  BY <1>1, <1>3, <1>4

LEMMA OpenedStep == Inv /\ ServedInv /\ OpenedInv /\ [Next]_vars => OpenedInv'
<1>. SUFFICES ASSUME Inv, ServedInv, OpenedInv, [Next]_vars PROVE OpenedInv'
  OBVIOUS
<1>1. CASE UNCHANGED vars
  BY <1>1 DEF vars, OpenedInv
<1>2. CASE Next
  <2>1. ASSUME NEW s \in Sockets, ws'[s] = "unopened"
        PROVE  handler'[s].pc = "unregistered"
    <3>1. ws[s] = "unopened"
      BY <1>2, <2>1, LinkSteps DEF EndpointConnects, OpenSocket, Inv, TypeOK
    <3>. QED
      BY <1>2, <3>1, HandlerAwake, HandlersStay DEF OpenedInv
  <2>2. ASSUME NEW s \in Sockets, NEW t \in Sockets, Owner(t) = Owner(s),
               t[2] < s[2], ws'[s] # "unopened"
        PROVE  ws'[t] \in {"lost", "dead"}
    <3>1. ws[t] \in {"lost", "dead"}
      BY <1>2, <2>2, LinkSteps DEF OpenedInv, EndpointConnects, OpenSocket
    <3>. QED
      BY <1>2, <3>1, LinkSteps DEF EndpointConnects, OpenSocket
  <2>3. ASSUME NEW e \in Endpoints, sessions'[e] # NoCall
        PROVE  ws'[First(e)] # "unopened"
    <3>1. ws[First(e)] # "unopened"
      <4>1. CASE \A s \in Sockets : ~ Start(s)
        BY <1>2, <2>3, <4>1, EntriesKept DEF OpenedInv
      <4>2. ASSUME NEW s \in Sockets, Start(s)
            PROVE  ws[First(e)] # "unopened"
        <5>. DEFINE t == Head(request[s]).target
        <5>1. t \in Endpoints /\ Reachable(t)
          BY <4>2, ReceiveType, RequestTypes DEF Start, Inv, Receive
        <5>2. sessions[e] # NoCall \/ e = Owner(s) \/ e = t
          BY <2>3, <4>2 DEF Start, Inv, TypeOK
        <5>3. HandlerStep(s)
          BY <4>2 DEF HandlerStep, StartStep
        <5>. QED
          BY <5>1, <5>2, <5>3, HandlerAwake, ConnectedOpened, OpenedFirst
          DEF OpenedInv
      <4>. QED
        BY <4>1, <4>2
    <3>. QED
      BY <1>2, <3>1, FirstType, LinkSteps DEF EndpointConnects, OpenSocket
  <2>. QED
    BY <2>1, <2>2, <2>3 DEF OpenedInv
<1>. QED
  BY <1>1, <1>2

-----------------------------------------------------------------------------
(* Entries: a release takes the entries of its own call and no other.      *)

LEMMA PartyType ==
    ASSUME Inv, NEW c \in Calls, call[c] # NoSession
    PROVE  call[c] \in Session /\ Parties(c) \subseteq Endpoints
BY DEF Inv, TypeOK, Session, Parties

\* Who is entered in a call has its peer entered in it too.
LEMMA EnteredParties ==
    ASSUME Inv, Paired, NEW e \in Endpoints, sessions[e] # NoCall
    PROVE  /\ e \in Parties(sessions[e])
           /\ \A x \in Parties(sessions[e]) : sessions[x] = sessions[e]
<1>1. sessions[e] \in Calls /\ call[sessions[e]] \in Session
  BY ReservedType
<1>2. e \in Parties(sessions[e]) /\ sessions[Peer(sessions[e], e)] = sessions[e]
  BY DEF Inv, OwnEntries, Paired
<1>. QED
  BY <1>1, <1>2 DEF Parties, Peer

\* A step releases one call and nothing else.
ReleasesOne ==
    \E c \in Calls :
      call[c] # NoSession /\ NoneElsewhere(c) /\ sessions' = Popped(c)

LEMMA ReleaseOne ==
    ASSUME NEW c \in Calls, call[c] # NoSession, NoneElsewhere(c), Release(c)
    PROVE  ReleasesOne
BY DEF ReleasesOne, Release, Popped

LEMMA ReleaseEntered ==
    ASSUME Inv, Paired, NEW e \in Endpoints, sessions[e] # NoCall,
           Release(sessions[e])
    PROVE  ReleasesOne
<1>1. sessions[e] \in Calls /\ call[sessions[e]] # NoSession
  BY ReservedType DEF Inv, OwnEntries
<1>2. NoneElsewhere(sessions[e])
  BY EnteredParties DEF NoneElsewhere
<1>. QED
  BY <1>1, <1>2, ReleaseOne

LEMMA HandlerReleasesOne ==
    ASSUME Inv, HandlerInv, Paired, NEW s \in Sockets, HandlerStep(s), ~ Start(s)
    PROVE  UNCHANGED sessions \/ ReleasesOne
<1>1. ASSUME handler[s].pc \in {"ring", "arm_target", "arm_source", "audio"},
             Release(handler[s].call)
      PROVE  ReleasesOne
  <2>1. handler[s].call \in Calls /\ call[handler[s].call] # NoSession
    BY <1>1, SendingType DEF Sending, Inv, StartedCalls
  <2>2. NoneElsewhere(handler[s].call)
    BY <1>1 DEF HandlerInv, HandlerOk
  <2>. QED
    BY <1>1, <2>1, <2>2, ReleaseOne
<1>2. CASE \/ LossNoticed(s) \/ Register(s) \/ PreviousClosed(s)
           \/ NeverRegistered(s) \/ CloseReplaced(s) \/ ClosePeerTold(s)
           \/ StartRefused(s) \/ StartRings(s) \/ Accept(s)
           \/ AnswerRefused(s) \/ SourceArmed(s) \/ RolledBack(s)
           \/ EndRefused(s) \/ PeerTold(s) \/ AudioElsewhere(s)
           \/ ForwardAudio(s) \/ AudioForwarded(s)
  BY <1>2 DEF LossNoticed, Register, PreviousClosed, NeverRegistered,
     CloseReplaced, ClosePeerTold, StartRefused, StartRings, Accept,
     AnswerRefused, SourceArmed, RolledBack, EndRefused, PeerTold,
     AudioElsewhere, ForwardAudio, AudioForwarded
<1>3. CASE CloseCurrent(s)
  BY <1>3, OwnerType, ReleaseEntered DEF CloseCurrent
<1>4. CASE StartUndelivered(s) \/ TargetUnarmed(s)
  BY <1>1, <1>4 DEF StartUndelivered, TargetUnarmed
<1>5. CASE TargetArmed(s) \/ SourceUnarmed(s)
  BY <1>1, <1>5 DEF TargetArmed, SourceUnarmed, CallerGone
<1>6. CASE Decline(s) \/ End(s)
  <2>1. sessions[Owner(s)] \in Calls
    <3>1. Decline(s) => Head(request[s]).call \in Calls
      BY ReceiveType, RequestTypes DEF Decline, Inv, Receive
    <3>. QED
      BY <1>6, <3>1, OwnerType, ReservedType, NoCallAssumption DEF Decline, End, RingsAt
  <2>2. Release(sessions[Owner(s)])
    BY <1>6 DEF Decline, End, RingsAt, EndCall
  <2>. QED
    BY <2>1, <2>2, OwnerType, ReleaseEntered, NoCallAssumption
<1>7. CASE AudioEndsCall(s)
  BY <1>7, OwnerType, ReleaseEntered DEF AudioEndsCall, Transmitting, EndCall
<1>8. CASE AudioUndelivered(s)
  BY <1>1, <1>8 DEF AudioUndelivered
<1>. QED
  BY <1>2, <1>3, <1>4, <1>5, <1>6, <1>7, <1>8
  DEF HandlerStep, CloseStep, StartStep, AnswerStep, EndStep, AudioStep

LEMMA TimerReleasesOne ==
    ASSUME Inv, Paired, NEW c \in Calls, TimerStep(c)
    PROVE  UNCHANGED sessions \/ ReleasesOne
<1>1. CASE Expire(c)
  <2>1. call[c] \in Session /\ call[c] # NoSession
    BY <1>1, TimerType DEF Expire, Inv, StartedCalls
  <2>2. call[c].source \in Endpoints /\ sessions[call[c].source] = c
    BY <1>1, <2>1 DEF Expire, Session
  <2>3. NoneElsewhere(c)
    BY <2>2, EnteredParties, NoCallAssumption DEF NoneElsewhere
  <2>4. sessions' = Popped(c)
    BY <1>1 DEF Expire, Popped
  <2>. QED
    BY <2>1, <2>3, <2>4 DEF ReleasesOne
<1>2. CASE ExpireStale(c) \/ MissedTold(c) \/ NoAnswerTold(c)
  BY <1>2 DEF ExpireStale, MissedTold, NoAnswerTold
<1>. QED
  BY <1>1, <1>2 DEF TimerStep

LEMMA StepReleasesOne ==
    ASSUME Inv, HandlerInv, Paired, Next, \A s \in Sockets : ~ Start(s)
    PROVE  UNCHANGED sessions \/ ReleasesOne
<1>1. ASSUME NEW s \in Sockets, EndpointStep(s) PROVE UNCHANGED sessions
  BY <1>1 DEF EndpointStep, EndpointConnects, EndpointLost, RequestStart,
     RequestAccept, RequestHangUp, RequestEnd, RequestAudio, Requests
<1>2. ASSUME NEW e \in Endpoints, OtherSendRaises(e) PROVE UNCHANGED sessions
  BY <1>2 DEF OtherSendRaises
<1>. QED
  BY <1>1, <1>2, HandlerReleasesOne, TimerReleasesOne DEF Next

\* What is left is paired.
LEMMA ReleaseLeavesPairs ==
    ASSUME Inv, Paired, ReleasesOne, UNCHANGED call
    PROVE  Paired'
<1>1. PICK c \in Calls :
        call[c] # NoSession /\ NoneElsewhere(c) /\ sessions' = Popped(c)
  BY DEF ReleasesOne
<1>. SUFFICES ASSUME NEW x \in Endpoints, sessions'[x] # NoCall
              PROVE  sessions'[Peer(sessions'[x], x)] = sessions'[x]
  BY DEF Paired, Peer
<1>. DEFINE d == sessions[x]  y == Peer(d, x)
<1>2. sessions'[x] = d /\ x \notin Parties(c) /\ d # NoCall
  BY <1>1 DEF Popped
<1>3. x \in Parties(d) /\ y \in Parties(d) /\ y \in Endpoints /\ sessions[y] = d
  BY <1>2, EnteredParties, ReservedType DEF Peer, Parties
<1>4. y \notin Parties(c)
  BY <1>1, <1>2, <1>3 DEF NoneElsewhere
<1>. QED
  BY <1>1, <1>2, <1>3, <1>4 DEF Popped

LEMMA PairedStep ==
    ASSUME Inv, HandlerInv, Paired, [Next]_vars
    PROVE  Paired'
<1>1. CASE UNCHANGED <<sessions, call>>
  BY <1>1 DEF Paired, Peer
<1>2. CASE Next /\ \E s \in Sockets : Start(s) \/ Accept(s)
  BY <1>2, StartPaired, AcceptPaired
<1>3. CASE Next /\ \A s \in Sockets : ~ Start(s) /\ ~ Accept(s)
  BY <1>1, <1>3, CallsKept, StepReleasesOne, ReleaseLeavesPairs
<1>. QED
  BY <1>1, <1>2, <1>3 DEF vars

-----------------------------------------------------------------------------
(* Tasks: whoever is told about a call is entered in it or in none.        *)

\* What is true of a started call's parties stays true but for a start.
LEMMA PartiesKept ==
    ASSUME Undisturbed, Inv, Next, ~ Settled, NEW c \in Calls, call[c] # NoSession
    PROVE  /\ Parties(c)' = Parties(c)
           /\ NoneElsewhere(c) => NoneElsewhere(c)'
           /\ AllReleased(c) => AllReleased(c)'
<1>1. Parties(c)' = Parties(c)
  BY CallStays DEF Parties
<1>2. \A x \in Parties(c) : sessions'[x] \in {NoCall, sessions[x]}
  BY PartyType, StartAlone, EntriesKept
<1>. QED
  BY <1>1, <1>2 DEF NoneElsewhere, AllReleased

LEMMA HandlerKept ==
    ASSUME Undisturbed, Inv, Next, NEW u \in Sockets, HandlerOk(u),
           handler'[u] = handler[u]
    PROVE  HandlerOk(u)'
<1>1. CASE handler[u].pc \notin Sending
  BY <1>1 DEF HandlerOk, Sending
<1>2. CASE handler[u].pc \in Sending
  <2>. DEFINE c == handler[u].call
  <2>1. c \in Calls /\ call[c] # NoSession /\ ~ Settled
    BY <1>2, SendingType DEF Inv, StartedCalls, Settled
  <2>. QED
    BY <2>1, PartiesKept, CallStays DEF HandlerOk
<1>. QED
  BY <1>1, <1>2

\* Release(c) leaves none of the parties of c entered.
LEMMA ReleasedAll ==
    ASSUME Inv, NEW c \in Calls, call[c] # NoSession, Release(c), UNCHANGED call
    PROVE  AllReleased(c)'
<1>1. Parties(c)' = Parties(c) /\ Parties(c) \subseteq Endpoints
  BY PartyType DEF Parties
<1>. QED
  BY <1>1 DEF Release, AllReleased

LEMMA AwaitsAt ==
    ASSUME Inv, NEW s \in Sockets, NEW pc, NEW c, NEW e, Await(s, pc, c, e)
    PROVE  handler'[s].pc = pc /\ handler'[s].call = c
BY DEF Await, Inv, TypeOK

LEMMA RestsAt ==
    ASSUME Inv, NEW s \in Sockets, NEW pc \in {"connecting", "idle", "done"},
           handler' = [handler EXCEPT ![s] = At(pc)]
    PROVE  HandlerOk(s)'
<1>1. handler'[s].pc = pc
  BY DEF Inv, TypeOK, At
<1>. QED
  BY <1>1 DEF HandlerOk

\* EndCall and CallerGone release the call before anybody is told.
LEMMA EndCallTask ==
    ASSUME Inv, NEW s \in Sockets, NEW c \in Calls, call[c] # NoSession,
           Owner(s) \in Parties(c), UNCHANGED call,
           NEW other, NEW message, NEW pc \in {"decline", "ending"},
           EndCall(s, c, other, message, pc)
    PROVE  HandlerOk(s)'
<1>1. AllReleased(c)' /\ Parties(c)' = Parties(c)
  BY ReleasedAll DEF EndCall, Parties
<1>2. CASE Await(s, pc, c, other)
  <2>1. handler'[s].pc = pc /\ handler'[s].call = c
    BY <1>2, AwaitsAt
  <2>. QED
    BY <1>1, <2>1 DEF HandlerOk
<1>3. CASE Done(s)
  BY <1>3, RestsAt DEF Done
<1>. QED
  BY <1>2, <1>3 DEF EndCall

LEMMA CallerGoneTask ==
    ASSUME Inv, NEW s \in Sockets, NEW c \in Calls, call[c] # NoSession,
           call[c].target = Owner(s), UNCHANGED call, CallerGone(s, c)
    PROVE  HandlerOk(s)'
<1>1. AllReleased(c)'
  BY ReleasedAll DEF CallerGone
<1>2. CASE Await(s, "rollback", c, Owner(s))
  <2>1. handler'[s].pc = "rollback" /\ handler'[s].call = c
    BY <1>2, AwaitsAt
  <2>. QED
    BY <1>1, <2>1 DEF HandlerOk
<1>3. CASE Done(s)
  BY <1>3, RestsAt DEF Done
<1>. QED
  BY <1>2, <1>3 DEF CallerGone

LEMMA HandlerTask ==
    ASSUME Inv, Paired, HandlerInv, NEW s \in Sockets,
           HandlerStep(s), handler'[s] # handler[s]
    PROVE  HandlerOk(s)'
<1>. USE OwnerType
<1>1. CASE \/ Register(s) \/ PreviousClosed(s) \/ NeverRegistered(s)
           \/ CloseReplaced(s) \/ ClosePeerTold(s) \/ StartRings(s)
           \/ StartUndelivered(s) \/ TargetUnarmed(s) \/ SourceArmed(s)
           \/ RolledBack(s) \/ PeerTold(s) \/ AudioForwarded(s)
  BY <1>1, RestsAt DEF Register, PreviousClosed, NeverRegistered, CloseReplaced,
     ClosePeerTold, MarkOffline, StartRings, StartUndelivered, TargetUnarmed,
     SourceArmed, RolledBack, PeerTold, AudioForwarded, Done
<1>2. CASE CloseCurrent(s)
  <2>1. CASE MarkOffline(s)
    BY <2>1, RestsAt DEF MarkOffline
  <2>2. ASSUME NEW c, NEW e, Await(s, "closing", c, e) PROVE HandlerOk(s)'
    <3>1. handler'[s].pc = "closing"
      BY <2>2, AwaitsAt
    <3>. QED
      BY <3>1 DEF HandlerOk
  <2>. QED
    BY <1>2, <2>1, <2>2 DEF CloseCurrent
<1>3. CASE Start(s)
  <2>1. PICK t \in Endpoints, c \in Fresh :
          /\ call' = [call EXCEPT ![c] = [source |-> Owner(s), target |-> t,
                                          state |-> "ringing"]]
          /\ sessions' = [sessions EXCEPT ![Owner(s)] = c, ![t] = c]
          /\ Await(s, "ring", c, t)
    BY <1>3, ReceiveType, RequestTypes DEF Start, Inv, Receive
  <2>2. /\ handler'[s].pc = "ring" /\ handler'[s].call = c
        /\ call'[c].source = Owner(s) /\ call'[c].target = t
        /\ sessions'[Owner(s)] = c /\ sessions'[t] = c
    BY <2>1, AwaitsAt DEF Inv, TypeOK, Fresh
  <2>. QED
    BY <2>2 DEF HandlerOk, NoneElsewhere, Parties
<1>4. CASE Accept(s)
  <2>1. PICK c \in Calls : c = Head(request[s]).call
    BY <1>4, ReceiveType, RequestTypes DEF Accept, Inv, Receive
  <2>2. /\ sessions[Owner(s)] = c /\ call[c].target = Owner(s)
        /\ UNCHANGED sessions /\ Await(s, "arm_target", c, Owner(s))
    BY <1>4, <2>1 DEF Accept, RingsAt
  <2>3. handler'[s].pc = "arm_target" /\ handler'[s].call = c
    BY <2>2, AwaitsAt
  <2>4. call'[c].target = Owner(s) /\ Parties(c)' = Parties(c)
    BY <1>4, <2>1, <2>2, AcceptParties DEF Parties
  <2>5. NoneElsewhere(c)
    BY <2>1, <2>2, EnteredParties, NoCallAssumption DEF NoneElsewhere
  <2>6. NoneElsewhere(c)'
    BY <2>2, <2>4, <2>5 DEF NoneElsewhere
  <2>. QED
    BY <2>3, <2>4, <2>6 DEF HandlerOk
<1>5. CASE TargetArmed(s) \/ SourceUnarmed(s)
  <2>0. PICK c \in Calls : c = handler[s].call
    BY <1>5, SendingType DEF TargetArmed, SourceUnarmed, Sending
  <2>1. call[c] # NoSession /\ UNCHANGED call
    BY <1>5, <2>0 DEF TargetArmed, SourceUnarmed, Sending, Inv, StartedCalls
  <2>2. call[c].target = Owner(s) /\ NoneElsewhere(c)
    BY <1>5, <2>0 DEF TargetArmed, SourceUnarmed, HandlerInv, HandlerOk
  <2>3. CASE CallerGone(s, c)
    BY <2>1, <2>2, <2>3, CallerGoneTask
  <2>4. CASE Await(s, "arm_source", c, call[c].source) /\ UNCHANGED sessions
    <3>1. handler'[s].pc = "arm_source" /\ handler'[s].call = c
      BY <2>4, AwaitsAt
    <3>2. NoneElsewhere(c)'
      BY <2>1, <2>2, <2>4 DEF NoneElsewhere, Parties
    <3>. QED
      BY <2>1, <2>2, <3>1, <3>2 DEF HandlerOk
  <2>. QED
    BY <1>5, <2>0, <2>3, <2>4 DEF TargetArmed, SourceUnarmed
<1>6. CASE Decline(s) \/ End(s)
  <2>. DEFINE c == sessions[Owner(s)]
  <2>0. Decline(s) => Head(request[s]).call \in Calls
    BY ReceiveType, RequestTypes DEF Decline, Inv, Receive
  <2>1. c \in Calls /\ UNCHANGED call
    BY <1>6, <2>0, OwnerType, ReservedType, NoCallAssumption DEF Decline, End, RingsAt
  <2>2. call[c] # NoSession /\ Owner(s) \in Parties(c)
    BY <2>1, NoCallAssumption DEF Inv, OwnEntries
  <2>3. CASE EndCall(s, c, call[c].source, "rejected", "decline")
    BY <2>1, <2>2, <2>3, EndCallTask
  <2>4. CASE EndCall(s, c, Peer(c, Owner(s)), "ended", "ending")
    BY <2>1, <2>2, <2>4, EndCallTask
  <2>5. CASE Decline(s)
    <3>1. PICK d \in Calls : d = Head(request[s]).call
      BY <2>0, <2>5
    <3>2. RingsAt(Owner(s), d) /\ EndCall(s, d, call[d].source, "rejected", "decline")
      BY <2>5, <3>1 DEF Decline
    <3>3. d = c
      BY <3>2 DEF RingsAt
    <3>. QED
      BY <2>3, <3>2, <3>3
  <2>6. CASE End(s)
    BY <2>4, <2>6 DEF End
  <2>. QED
    BY <1>6, <2>5, <2>6
<1>7. CASE AudioEndsCall(s)
  <2>. DEFINE c == sessions[Owner(s)]
  <2>1. c \in Calls /\ c # NoCall
    BY <1>7, ReservedType DEF AudioEndsCall, Transmitting
  <2>2. call[c] # NoSession /\ Owner(s) \in Parties(c)
    BY <2>1 DEF Inv, OwnEntries
  <2>3. EndCall(s, c, Peer(c, Owner(s)), "ended", "ending") /\ UNCHANGED call
    BY <1>7 DEF AudioEndsCall
  <2>. QED
    BY <2>1, <2>2, <2>3, EndCallTask
<1>8. CASE ForwardAudio(s)
  <2>. DEFINE c == sessions[Owner(s)]
  <2>1. /\ c # NoCall /\ UNCHANGED <<sessions, call>>
        /\ Await(s, "audio", c, Peer(c, Owner(s)))
    BY <1>8 DEF ForwardAudio, Transmitting
  <2>2. Owner(s) \in Parties(c) /\ NoneElsewhere(c)
    BY <2>1, EnteredParties DEF NoneElsewhere
  <2>3. handler'[s].pc = "audio" /\ handler'[s].call = c
    BY <2>1, AwaitsAt
  <2>. QED
    BY <2>1, <2>2, <2>3 DEF HandlerOk, NoneElsewhere, Parties
<1>9. CASE AudioUndelivered(s)
  <2>0. PICK c \in Calls : c = handler[s].call
    BY <1>9, SendingType DEF AudioUndelivered, Sending
  <2>1. call[c] # NoSession /\ UNCHANGED call
    BY <1>9, <2>0 DEF AudioUndelivered, Sending, Inv, StartedCalls
  <2>2. Owner(s) \in Parties(c)
    BY <1>9, <2>0 DEF AudioUndelivered, HandlerInv, HandlerOk
  <2>3. CASE Done(s)
    BY <2>3, RestsAt DEF Done
  <2>4. CASE Release(c) /\ Await(s, "ending", c, Peer(c, Owner(s)))
    <3>1. handler'[s].pc = "ending" /\ handler'[s].call = c
      BY <2>4, AwaitsAt
    <3>2. AllReleased(c)' /\ Parties(c)' = Parties(c)
      BY <2>1, <2>4, ReleasedAll DEF Parties
    <3>. QED
      BY <2>2, <3>1, <3>2 DEF HandlerOk
  <2>. QED
    BY <1>9, <2>0, <2>3, <2>4 DEF AudioUndelivered
<1>10. CASE \/ LossNoticed(s) \/ StartRefused(s) \/ AnswerRefused(s)
            \/ EndRefused(s) \/ AudioElsewhere(s)
  BY <1>10 DEF LossNoticed, StartRefused, AnswerRefused, EndRefused, AudioElsewhere
<1>. QED
  BY <1>1, <1>2, <1>3, <1>4, <1>5, <1>6, <1>7, <1>8, <1>9, <1>10
  DEF HandlerStep, CloseStep, StartStep, AnswerStep, EndStep, AudioStep

LEMMA HandlersStep ==
    ASSUME Undisturbed, Inv, Paired, HandlerInv, [Next]_vars
    PROVE  HandlerInv'
<1>1. CASE UNCHANGED vars
  BY <1>1 DEF vars, HandlerInv, HandlerOk, NoneElsewhere, AllReleased, Parties
<1>2. ASSUME Next, NEW u \in Sockets PROVE HandlerOk(u)'
  BY <1>2, HandlersStay, HandlerKept, HandlerTask DEF HandlerInv
<1>. QED
  BY <1>1, <1>2 DEF HandlerInv

\* The expiry task of a call that was missed has popped its entries.
LEMMA MissedStep ==
    ASSUME Undisturbed, Inv, MissedInv, [Next]_vars
    PROVE  MissedInv'
<1>1. CASE UNCHANGED vars
  BY <1>1 DEF vars, MissedInv, AllReleased, Parties
<1>2. ASSUME Next, NEW d \in Calls, timer'[d].pc = "missed",
             timer[d].pc = "missed"
      PROVE  AllReleased(d)'
  <2>1. call[d] # NoSession /\ ~ Settled
    BY <1>2 DEF Inv, StartedCalls, Settled
  <2>. QED
    BY <1>2, <2>1, PartiesKept DEF MissedInv
<1>3. ASSUME Next, NEW d \in Calls, timer'[d].pc = "missed",
             timer[d].pc # "missed"
      PROVE  AllReleased(d)'
  <2>1. ~ \E s \in Sockets : EndpointStep(s) \/ HandlerStep(s)
    <3>1. ASSUME NEW s \in Sockets, EndpointStep(s) \/ HandlerStep(s) PROVE FALSE
      <4>1. CASE Start(s)
        BY <1>3, <4>1 DEF Start
      <4>2. CASE ~ Start(s)
        BY <1>3, <3>1, <4>2, HandlerOnlyReleases DEF OnlyReleases
      <4>. QED
        BY <4>1, <4>2
    <3>. QED
      BY <3>1
  <2>2. PICK c \in Calls : TimerStep(c)
    BY <1>3, <2>1 DEF Next, OtherSendRaises
  <2>3. Expire(c) /\ d = c
    <3>1. call[c] \in Session
      BY <2>2, TimerType DEF TimerStep, Expire, ExpireStale, MissedTold,
         NoAnswerTold
    <3>2. timer \in [Calls -> Timer]
      BY DEF Inv, TypeOK
    <3>3. ASSUME NEW task, task.pc # "missed", timer' = [timer EXCEPT ![c] = task]
          PROVE  FALSE
      BY <1>3, <3>2, <3>3
    <3>4. ~ TellCaller(c) /\ ~ (timer' = [timer EXCEPT ![c] = TimerAt("over")])
          /\ timer' # timer
      BY <1>3, <3>3 DEF TellCaller, TimerAt
    <3>5. Expire(c)
      BY <2>2, <3>4 DEF TimerStep, ExpireStale, MissedTold, NoAnswerTold
    <3>6. \E task : timer' = [timer EXCEPT ![c] = task]
      BY <3>4, <3>5 DEF Expire
    <3>. QED
      BY <1>3, <3>2, <3>5, <3>6
  <2>4. call[d] # NoSession /\ UNCHANGED call
    BY <2>3 DEF Expire, Inv, StartedCalls
  <2>. QED
    BY <2>3, <2>4, PartyType DEF Expire, AllReleased, Parties
<1>. QED
  BY <1>1, <1>2, <1>3 DEF MissedInv

\* The invariant of the entries, whatever links fail.
EntryInv == Paired /\ HandlerInv /\ MissedInv

LEMMA EntriesAlways ==
    ASSUME Undisturbed
    PROVE  Spec => []EntryInv
<1>1. Init => EntryInv
  BY DEF Init, EntryInv, Paired, HandlerInv, HandlerOk, MissedInv, At, TimerAt
<1>2. Inv /\ EntryInv /\ [Next]_vars => EntryInv'
  BY PairedStep, HandlersStep, MissedStep DEF EntryInv
<1>. QED
  BY <1>1, <1>2, InvAlways, PTL DEF Spec

-----------------------------------------------------------------------------
(* What a lost link cannot break                                           *)

\* Links fail and endpoints reconnect, and yet: while calls do not disturb
\* each other, both parties of a call are entered in it or neither is.
THEOREM PairsSurviveLoss ==
    ASSUME Undisturbed
    PROVE  Spec => []Paired
BY EntriesAlways, PTL DEF EntryInv

\* Each step is one of the call book: a release of a call in which somebody is
\* entered finishes it, a second release of it changes nothing.
LEMMA LossBookStep ==
    ASSUME Inv, Inv', EntryInv, [Next]_vars
    PROVE  [CallBook!Next]_Book
<1>1. CASE UNCHANGED <<sessions, call>>
  BY <1>1, SameBook
<1>2. ASSUME NEW s \in Sockets, Start(s) \/ Accept(s) PROVE [CallBook!Next]_Book
  BY <1>2, StartBook, AcceptBook DEF EntryInv
<1>3. CASE Next /\ \A s \in Sockets : ~ Start(s) /\ ~ Accept(s)
  <2>1. UNCHANGED call /\ (UNCHANGED sessions \/ ReleasesOne)
    BY <1>3, CallsKept, StepReleasesOne DEF EntryInv
  <2>2. CASE ReleasesOne
    <3>1. PICK c \in Calls :
            call[c] # NoSession /\ NoneElsewhere(c) /\ sessions' = Popped(c)
      BY <2>2 DEF ReleasesOne
    <3>2. CASE \E x \in Parties(c) : sessions[x] = c
      BY <2>1, <3>1, <3>2, PartyType, ReleaseBook DEF EntryInv
    <3>3. CASE \A x \in Parties(c) : sessions[x] # c
      <4>1. \A x \in Endpoints : Popped(c)[x] = sessions[x]
        BY <3>1, <3>3 DEF NoneElsewhere, Popped
      <4>2. UNCHANGED sessions
        BY <3>1, <4>1 DEF Popped, Inv, TypeOK
      <4>. QED
        BY <1>1, <2>1, <4>2
    <3>. QED
      BY <3>2, <3>3
  <2>. QED
    BY <1>1, <2>1, <2>2
<1>. QED
  BY <1>1, <1>2, <1>3 DEF vars

\* The call book is kept too: with failing links as without them, a call is
\* placed between two endpoints that are in none, answered while it rings,
\* and finished for both at once, however late a suspended task finds out
\* that its link is dead.
THEOREM CallBookSurvivesLoss ==
    ASSUME Undisturbed
    PROVE  Spec => KeepsCallBook
<1>1. Init => CallBook!Init
  BY DEF Init, CallBook!Init
<1>2. Inv /\ Inv' /\ EntryInv /\ [Next]_vars => [CallBook!Next]_Book
  BY LossBookStep
<1>. QED
  BY <1>1, <1>2, InvAlways, EntriesAlways, PTL
  DEF Spec, KeepsCallBook, CallBook!Spec, Book

\* A frame is only sent to an endpoint that is in the sender's call, also to
\* one that has reconnected in the middle of it.
THEOREM FramesSurviveLoss ==
    ASSUME Undisturbed
    PROVE  Spec => FramesStayInCall
BY FrameStep, InvAlways, EntriesAlways, ServedAlways, PTL
DEF Spec, EntryInv, FramesStayInCall, FramesOwn

\* RingsAtMostThirtySeconds, with links that fail.
RingsOut ==
    \A c \in Calls :
      timer[c].pc = "over" /\ call[c].state = "ringing" =>
        \A e \in Endpoints : sessions[e] # c

\* protocol/messages.md: "The call rings for at most 30 seconds". When a party
\* of a ringing call loses its link, the expiry task still finds its call
\* entered by both or by neither, and leaves neither in it.
THEOREM TimeoutSurvivesLoss ==
    ASSUME Undisturbed
    PROVE  Spec => []RingsOut
<1>1. Init => ExpiredInv
  BY DEF Init, ExpiredInv, TimerAt
<1>2. Inv /\ EntryInv /\ ExpiredInv /\ [Next]_vars => ExpiredInv'
  BY ExpiredStep DEF EntryInv
<1>3. Inv /\ ExpiredInv => RingsOut
  BY DEF ExpiredInv, RingsOut, Inv, StartedCalls
<1>. QED
  BY <1>1, <1>2, <1>3, InvAlways, EntriesAlways, PTL DEF Spec

-----------------------------------------------------------------------------
(* What the endpoints show.  The argument: a message that clears a call    *)
(* goes to an endpoint the server has just released, or it answers a       *)
(* request; and an engaged endpoint, which shows its call, has asked for   *)
(* nothing but to end it.                                                  *)

\* What a step may let e see: its own call, or anything if e is not engaged.
Told(e) ==
    \/ panel'[e] = panel[e]
    \/ /\ panel'[e].phase # "incoming"
       /\ \/ panel'[e].call = panel[e].call
          \/ panel'[e].call = sessions[e]
          \/ ws'[First(e)] # "open"
          \/ ~ Engaged(e)'

AllTold == \A e \in Endpoints : Told(e)

LEMMA WriteTold ==
    ASSUME Inv, OpenedInv, UNCHANGED ws, NEW s \in Sockets,
           NEW message \in {"ringing", "active", "ended", "rejected"}, NEW c,
           Write(s, message, c),
           s = First(Owner(s)) =>
             \/ ~ Engaged(Owner(s))'
             \/ message \in {"ringing", "active"} /\ c = sessions[Owner(s)]
    PROVE  AllTold
<1>. SUFFICES ASSUME NEW e \in Endpoints, panel'[e] # panel[e],
                     ws'[First(e)] = "open", Engaged(e)'
              PROVE  /\ panel'[e].phase # "incoming"
                     /\ panel'[e].call = sessions[e]
  <2>1. \A e \in Endpoints : panel'[e] # panel[e] => panel'[e].phase # "incoming"
    BY DEF Write, Shown, IdlePanel, Inv, TypeOK
  <2>. QED
    BY <2>1 DEF AllTold, Told
<1>1. e = Owner(s) /\ ws[s] = "open" /\ panel'[e] = Shown(message, c)
  BY DEF Write, Inv, TypeOK
<1>2. s = First(Owner(s))
  BY <1>1, FirstOpen
<1>. QED
  BY <1>1, <1>2 DEF Shown

\* Nobody who is released is engaged.
LEMMA ReleasedIdle ==
    ASSUME NEW e \in Endpoints, sessions'[e] = NoCall
    PROVE  ~ Engaged(e)'
BY DEF Engaged

\* The refusal of a stale request reaches nobody who is engaged.
LEMMA RefusalTold ==
    ASSUME Inv, OpenedInv, RequestInv, NEW s \in Sockets, NEW type,
           Receive(s, type), HandlerStep(s),
           UNCHANGED <<ws, sessions, call>>,
           \/ type \in {"start", "accept", "decline"}
           \/ /\ type = "end"
              /\ \/ sessions[Owner(s)] = NoCall
                 \/ Head(request[s]).call \notin {sessions[Owner(s)], NoCall},
           Write(s, "rejected", NoCall)
    PROVE  AllTold
<1>1. ASSUME s = First(Owner(s)), Engaged(Owner(s)), ws[s] = "open" PROVE FALSE
  BY <1>1, OwnerType DEF RequestInv, Receive, Engaged
<1>2. CASE ws[s] = "open"
  <2>1. Engaged(Owner(s))' <=> Engaged(Owner(s))
    BY DEF Engaged
  <2>. QED
    BY <1>1, <1>2, <2>1, WriteTold
<1>3. CASE ws[s] # "open"
  BY <1>3 DEF Write, AllTold, Told
<1>. QED
  BY <1>2, <1>3

LEMMA ReleaseTold ==
    ASSUME Inv, OpenedInv, UNCHANGED ws, NEW s \in Sockets, NEW c \in Calls,
           call[c] # NoSession, Owner(s) \in Parties(c), Release(c),
           NEW message \in {"ended", "rejected"}, NEW d, Write(s, message, d)
    PROVE  AllTold
<1>1. sessions'[Owner(s)] = NoCall
  BY OwnerType DEF Release
<1>. QED
  BY <1>1, OwnerType, ReleasedIdle, WriteTold

LEMMA EndCallTold ==
    ASSUME Inv, OpenedInv, ServedInv, UNCHANGED ws, NEW s \in Sockets,
           NEW c \in Calls, call[c] # NoSession, Owner(s) \in Parties(c),
           NEW other \in Parties(c), NEW message \in {"ended", "rejected"},
           NEW pc, EndCall(s, c, other, message, pc)
    PROVE  AllTold
<1>1. other \in Endpoints /\ Release(c)
  BY PartyType DEF EndCall
<1>2. CASE Reachable(other) /\ Write(connections[other], message, c)
  BY <1>1, <1>2, ConnectedOpened, ReleaseTold
<1>3. CASE Write(s, "ended", c)
  BY <1>1, <1>3, ReleaseTold
<1>. QED
  BY <1>2, <1>3 DEF EndCall

LEMMA CallerGoneTold ==
    ASSUME Inv, OpenedInv, ServedInv, UNCHANGED ws, NEW s \in Sockets,
           NEW c \in Calls, call[c] # NoSession, call[c].target = Owner(s),
           CallerGone(s, c)
    PROVE  AllTold
<1>1. Owner(s) \in Parties(c) /\ Owner(s) \in Endpoints /\ Release(c)
  BY OwnerType DEF CallerGone, Parties
<1>2. CASE Reachable(Owner(s)) /\ Write(connections[Owner(s)], "ended", c)
  BY <1>1, <1>2, ConnectedOpened, ReleaseTold
<1>3. CASE Write(s, "rejected", NoCall)
  BY <1>1, <1>3, ReleaseTold
<1>. QED
  BY <1>2, <1>3 DEF CallerGone

\* The caller of an expired call is released when it hears of it.
LEMMA TellCallerTold ==
    ASSUME Inv, OpenedInv, ServedInv, UNCHANGED ws, NEW c \in Calls,
           call[c] # NoSession, sessions'[call[c].source] = NoCall, TellCaller(c)
    PROVE  AllTold
<1>1. call[c].source \in Endpoints
  BY PartyType DEF Session
<1>2. CASE UNCHANGED panel
  BY <1>2 DEF AllTold, Told
<1>3. CASE Reachable(call[c].source) /\ Write(connections[call[c].source], "rejected", c)
  BY <1>1, <1>3, ConnectedOpened, ReleasedIdle, WriteTold
<1>. QED
  BY <1>2, <1>3 DEF TellCaller

LEMMA EndpointTold ==
    ASSUME Inv, OpenedInv, NEW s \in Sockets, EndpointStep(s)
    PROVE  AllTold
<1>. DEFINE o == Owner(s)
<1>1. CASE UNCHANGED panel
  BY <1>1 DEF AllTold, Told
<1>2. CASE EndpointLost(s)
  <2>1. ws[s] = "open" /\ ws' = [ws EXCEPT ![s] = "lost"]
    BY <1>2 DEF EndpointLost, LoseSocket
  <2>2. ws[First(o)] = "open" => s = First(o)
    BY <2>1, FirstOpen
  <2>3. ws'[First(o)] # "open"
    BY <2>1, <2>2, OwnerType, FirstType DEF Inv, TypeOK
  <2>. QED
    BY <1>2, <2>3, OwnerType DEF EndpointLost, IdlePanel, AllTold, Told, Inv, TypeOK
<1>3. CASE RequestHangUp(s)
  <2>1. panel[o] \in Panel /\ panel' = [panel EXCEPT ![o].phase = "ending"]
    BY <1>3, OwnerType DEF RequestHangUp, Inv, TypeOK
  <2>2. panel'[o].phase = "ending" /\ panel'[o].call = panel[o].call
    BY <2>1, OwnerType DEF Panel, IdlePanel, Inv, TypeOK
  <2>3. \A e \in Endpoints : e # o => panel'[e] = panel[e]
    BY <2>1 DEF Inv, TypeOK
  <2>. QED
    BY <2>2, <2>3 DEF AllTold, Told
<1>. QED
  BY <1>1, <1>2, <1>3 DEF EndpointStep, EndpointConnects, RequestStart,
     RequestAccept, RequestEnd, RequestAudio

LEMMA LifeTold ==
    ASSUME Inv, OpenedInv, ServedInv, HandlerInv, RequestInv, NEW s \in Sockets,
           \/ LossNoticed(s) \/ Register(s) \/ PreviousClosed(s)
           \/ CloseStep(s) \/ StartStep(s),
           ~ Start(s)
    PROVE  AllTold
<1>1. CASE UNCHANGED panel
  BY <1>1 DEF AllTold, Told
<1>2. CASE CloseCurrent(s)
  <2>. DEFINE e == Owner(s)  c == sessions[e]  peer == Peer(c, e)
  <2>1. CASE c # NoCall /\ Release(c) /\ Reachable(peer)
             /\ Write(connections[peer], "ended", c) /\ UNCHANGED ws
    <3>1. c \in Calls /\ call[c] # NoSession /\ peer \in Endpoints
      BY <2>1, OwnerType, ReservedType DEF Inv, OwnEntries
    <3>2. peer \in Parties(c)
      BY DEF Peer, Parties
    <3>. QED
      BY <2>1, <3>1, <3>2, ConnectedOpened, ReleaseTold
  <2>. QED
    BY <1>1, <1>2, <2>1 DEF CloseCurrent
<1>3. CASE StartRefused(s)
  <2>1. HandlerStep(s)
    BY <1>3 DEF HandlerStep, StartStep
  <2>. QED
    BY <1>3, <2>1, RefusalTold DEF StartRefused, links
<1>4. CASE StartRings(s) \/ StartUndelivered(s)
  <2>1. PICK c \in Calls : c = handler[s].call
    BY <1>4, SendingType DEF StartRings, StartUndelivered, Sending
  <2>2. /\ call[c] # NoSession /\ UNCHANGED ws
        /\ Owner(s) \in Parties(c) /\ NoneElsewhere(c)
    BY <1>4, <2>1 DEF StartRings, StartUndelivered, Inv, StartedCalls, Sending,
       HandlerInv, HandlerOk, Parties
  <2>3. CASE StartUndelivered(s)
    BY <2>1, <2>2, <2>3, ReleaseTold DEF StartUndelivered
  <2>4. CASE StartRings(s)
    <3>1. Write(s, "ringing", c) /\ UNCHANGED sessions
      BY <2>1, <2>4 DEF StartRings
    <3>2. c = sessions[Owner(s)] \/ ~ Engaged(Owner(s))'
      BY <2>2, <3>1 DEF NoneElsewhere, Engaged
    <3>. QED
      BY <2>2, <3>1, <3>2, WriteTold
  <2>. QED
    BY <1>4, <2>3, <2>4
<1>. QED
  BY <1>1, <1>2, <1>3, <1>4 DEF LossNoticed, Register, PreviousClosed, CloseStep,
     NeverRegistered, CloseReplaced, ClosePeerTold, StartStep

LEMMA AnswerTold ==
    ASSUME Inv, OpenedInv, ServedInv, HandlerInv, RequestInv, NEW s \in Sockets,
           AnswerStep(s)
    PROVE  AllTold
<1>1. CASE UNCHANGED panel
  BY <1>1 DEF AllTold, Told
<1>2. CASE Accept(s)
  <2>1. /\ Write(s, "active", Head(request[s]).call) /\ UNCHANGED ws
        /\ sessions[Owner(s)] = Head(request[s]).call
    BY <1>2 DEF Accept, RingsAt, links
  <2>. QED
    BY <2>1, WriteTold
<1>3. CASE AnswerRefused(s)
  <2>1. HandlerStep(s)
    BY <1>3 DEF HandlerStep, AnswerStep
  <2>. QED
    BY <1>3, <2>1, RefusalTold DEF AnswerRefused, links
<1>4. CASE \/ TargetArmed(s) \/ TargetUnarmed(s) \/ SourceUnarmed(s)
           \/ RolledBack(s)
  <2>1. PICK c \in Calls : c = handler[s].call
    BY <1>4, SendingType
    DEF TargetArmed, TargetUnarmed, SourceUnarmed, RolledBack, Sending
  <2>2. /\ call[c] # NoSession /\ UNCHANGED ws
        /\ call[c].target = Owner(s) /\ Owner(s) \in Parties(c)
    BY <1>4, <2>1 DEF TargetArmed, TargetUnarmed, SourceUnarmed, RolledBack,
       Inv, StartedCalls, Sending, HandlerInv, HandlerOk, Parties
  <2>3. CASE CallerGone(s, c)
    BY <2>2, <2>3, CallerGoneTold
  <2>4. CASE TargetUnarmed(s)
    BY <2>1, <2>2, <2>4, ReleaseTold DEF TargetUnarmed
  <2>5. CASE RolledBack(s)
    <3>1. sessions'[Owner(s)] = NoCall /\ Write(s, "rejected", NoCall)
      BY <2>1, <2>2, <2>5 DEF RolledBack, HandlerInv, HandlerOk, AllReleased
    <3>. QED
      BY <2>2, <3>1, OwnerType, ReleasedIdle, WriteTold
  <2>6. CASE /\ TargetArmed(s) /\ UNCHANGED sessions
             /\ Reachable(call[c].source)
             /\ Write(connections[call[c].source], "active", c)
    <3>1. PICK x \in Endpoints : x = call[c].source /\ x \in Parties(c)
      BY <2>2, PartyType DEF Parties
    <3>2. sessions[x] \in {c, NoCall}
      BY <2>1, <2>6, <3>1 DEF TargetArmed, HandlerInv, HandlerOk, NoneElsewhere
    <3>3. c = sessions[x] \/ ~ Engaged(x)'
      BY <2>6, <3>2 DEF Engaged
    <3>4. connections[x] \in Sockets /\ Owner(connections[x]) = x
      BY <2>6, <3>1, ConnectedOpened
    <3>. QED
      BY <2>2, <2>6, <3>1, <3>3, <3>4, WriteTold
  <2>. QED
    BY <1>4, <2>1, <2>3, <2>4, <2>5, <2>6 DEF TargetArmed, SourceUnarmed
<1>5. CASE Decline(s)
  <2>1. PICK c \in Calls : c = Head(request[s]).call
    BY <1>5, ReceiveType, RequestTypes DEF Decline, Inv, Receive
  <2>2. /\ sessions[Owner(s)] = c /\ UNCHANGED ws
        /\ EndCall(s, c, call[c].source, "rejected", "decline")
    BY <1>5, <2>1 DEF Decline, RingsAt, links
  <2>3. call[c] # NoSession /\ Owner(s) \in Parties(c) /\ call[c].source \in Parties(c)
    BY <2>2, OwnerType, NoCallAssumption DEF Inv, OwnEntries, Parties
  <2>. QED
    BY <2>2, <2>3, EndCallTold
<1>. QED
  BY <1>1, <1>2, <1>3, <1>4, <1>5 DEF AnswerStep, SourceArmed

LEMMA EndTold ==
    ASSUME Inv, OpenedInv, ServedInv, HandlerInv, RequestInv, NEW s \in Sockets,
           EndStep(s) \/ AudioStep(s)
    PROVE  AllTold
<1>1. CASE UNCHANGED panel
  BY <1>1 DEF AllTold, Told
<1>2. ASSUME NEW c \in Calls, sessions[Owner(s)] = c, UNCHANGED ws,
             EndCall(s, c, Peer(c, Owner(s)), "ended", "ending")
      PROVE  AllTold
  <2>1. /\ call[c] # NoSession /\ Owner(s) \in Parties(c)
        /\ Peer(c, Owner(s)) \in Parties(c)
    BY <1>2, OwnerType, NoCallAssumption DEF Inv, OwnEntries, Parties, Peer
  <2>. QED
    BY <1>2, <2>1, EndCallTold
<1>3. CASE End(s)
  BY <1>2, <1>3, OwnerType, ReservedType DEF End, links
<1>4. CASE AudioEndsCall(s)
  BY <1>2, <1>4, OwnerType, ReservedType DEF AudioEndsCall, Transmitting, links
<1>5. CASE EndRefused(s)
  <2>1. HandlerStep(s)
    BY <1>5 DEF HandlerStep, EndStep
  <2>. QED
    BY <1>5, <2>1, RefusalTold DEF EndRefused, links
<1>6. CASE PeerTold(s) \/ AudioUndelivered(s)
  <2>1. PICK c \in Calls : c = handler[s].call
    BY <1>6, SendingType DEF PeerTold, AudioUndelivered, Sending
  <2>2. call[c] # NoSession /\ UNCHANGED ws /\ Owner(s) \in Parties(c)
    BY <1>6, <2>1 DEF PeerTold, AudioUndelivered, Inv, StartedCalls, Sending,
       HandlerInv, HandlerOk
  <2>3. CASE PeerTold(s)
    <3>1. sessions'[Owner(s)] = NoCall /\ Write(s, "ended", c)
      BY <2>1, <2>2, <2>3 DEF PeerTold, HandlerInv, HandlerOk, AllReleased
    <3>. QED
      BY <2>2, <3>1, OwnerType, ReleasedIdle, WriteTold
  <2>4. CASE AudioUndelivered(s)
    <3>. DEFINE peer == Peer(c, Owner(s))
    <3>1. CASE Release(c) /\ connections[peer] \notin {NoSocket, handler[s].via}
               /\ Write(connections[peer], "ended", c)
      <4>1. peer \in Parties(c) /\ peer \in Endpoints /\ Reachable(peer)
        BY <2>2, <3>1, PartyType DEF Peer, Parties, Reachable
      <4>. QED
        BY <2>2, <3>1, <4>1, ConnectedOpened, ReleaseTold
    <3>2. CASE Release(c) /\ Write(s, "rejected", c)
      BY <2>2, <3>2, ReleaseTold
    <3>3. CASE sessions[Owner(s)] # c /\ UNCHANGED sessions /\ Write(s, "rejected", c)
      <4>1. sessions'[Owner(s)] = NoCall
        BY <2>1, <2>2, <2>4, <3>3
        DEF AudioUndelivered, HandlerInv, HandlerOk, NoneElsewhere
      <4>. QED
        BY <2>2, <3>3, <4>1, OwnerType, ReleasedIdle, WriteTold
    <3>. QED
      BY <2>1, <2>4, <3>1, <3>2, <3>3 DEF AudioUndelivered
  <2>. QED
    BY <1>6, <2>3, <2>4
<1>. QED
  BY <1>1, <1>3, <1>4, <1>5, <1>6 DEF EndStep, AudioStep, AudioElsewhere,
     ForwardAudio, AudioForwarded

LEMMA TimerTold ==
    ASSUME Inv, OpenedInv, ServedInv, MissedInv, NEW c \in Calls, TimerStep(c)
    PROVE  AllTold
<1>1. CASE UNCHANGED panel
  BY <1>1 DEF AllTold, Told
<1>2. CASE Expire(c)
  <2>1. /\ call[c] # NoSession /\ UNCHANGED ws
        /\ call[c].source \in Endpoints /\ call[c].target \in Endpoints
        /\ sessions'[call[c].source] = NoCall /\ sessions'[call[c].target] = NoCall
    BY <1>2, TimerType DEF Expire, Inv, StartedCalls, Session, Parties, links
  <2>2. CASE TellCaller(c)
    BY <2>1, <2>2, TellCallerTold
  <2>3. CASE Reachable(call[c].target) /\ Write(connections[call[c].target], "ended", c)
    BY <2>1, <2>3, ConnectedOpened, ReleasedIdle, WriteTold
  <2>. QED
    BY <1>2, <2>2, <2>3 DEF Expire
<1>3. CASE MissedTold(c)
  <2>1. call[c] # NoSession /\ UNCHANGED ws /\ sessions'[call[c].source] = NoCall
    BY <1>3 DEF MissedTold, Inv, StartedCalls, MissedInv, AllReleased, Parties
  <2>. QED
    BY <1>3, <2>1, TellCallerTold DEF MissedTold
<1>. QED
  BY <1>1, <1>2, <1>3 DEF TimerStep, ExpireStale, NoAnswerTold

LEMMA StepTold ==
    ASSUME Inv, OpenedInv, ServedInv, HandlerInv, MissedInv, RequestInv, Next,
           \A s \in Sockets : ~ Start(s)
    PROVE  AllTold
<1>1. ASSUME NEW e \in Endpoints, OtherSendRaises(e) PROVE AllTold
  BY <1>1 DEF OtherSendRaises, AllTold, Told
<1>. QED
  BY <1>1, EndpointTold, LifeTold, AnswerTold, EndTold, TimerTold
  DEF Next, HandlerStep

\* What a start does to the endpoints.
LEMMA StartEffect ==
    ASSUME Inv, ServedInv, OpenedInv, NEW s \in Sockets, Start(s)
    PROVE  \E t \in Endpoints, c \in Calls :
             /\ t # Owner(s) /\ call[c] = NoSession
             /\ sessions[Owner(s)] = NoCall /\ sessions[t] = NoCall
             /\ call' = [call EXCEPT ![c] = [source |-> Owner(s), target |-> t,
                                             state |-> "ringing"]]
             /\ sessions' = [sessions EXCEPT ![Owner(s)] = c, ![t] = c]
             /\ handler'[s].pc = "ring" /\ handler'[s].call = c
             /\ \A e \in Endpoints : \/ panel'[e] = panel[e]
                                     \/ e = t /\ panel'[e].call = c
<1>1. PICK t \in Endpoints : t = Head(request[s]).target
  BY ReceiveType, RequestTypes DEF Start, Inv, Receive
<1>2. PICK c \in Fresh :
        /\ call' = [call EXCEPT ![c] = [source |-> Owner(s), target |-> t,
                                        state |-> "ringing"]]
        /\ sessions' = [sessions EXCEPT ![Owner(s)] = c, ![t] = c]
        /\ Write(connections[t], "incoming", c)
        /\ Await(s, "ring", c, t)
  BY <1>1 DEF Start
<1>3. t # Owner(s) /\ sessions[Owner(s)] = NoCall /\ sessions[t] = NoCall
      /\ Reachable(t)
  BY <1>1 DEF Start, Busy
<1>4. handler'[s].pc = "ring" /\ handler'[s].call = c
  BY <1>2, AwaitsAt
<1>5. Owner(connections[t]) = t
  BY <1>3, ConnectedOpened
<1>6. ASSUME NEW e \in Endpoints
      PROVE  panel'[e] = panel[e] \/ (e = t /\ panel'[e].call = c)
  BY <1>2, <1>5 DEF Write, Shown, Inv, TypeOK
<1>. QED
  BY <1>2, <1>3, <1>4, <1>6 DEF Fresh

\* Who is engaged after a step was so before, or has just started a call, or
\* accepted one.
LEMMA BecomesEngaged ==
    ASSUME Inv, ServedInv, OpenedInv, Next, NEW e \in Endpoints, Engaged(e)',
           ws'[First(e)] = "open"
    PROVE  /\ ws[First(e)] = "open"
           /\ \/ Engaged(e) /\ sessions'[e] = sessions[e]
              \/ Start(First(e))
              \/ Accept(First(e)) /\ sessions'[e] = sessions[e]
<1>1. ASSUME NEW s \in Sockets, HandlerStep(s), Owner(s) = e, ws[First(e)] = "open"
      PROVE  s = First(e)
  BY <1>1, HandlerAwake, FirstOpen
<1>2. ws[First(e)] = "open"
  <2>1. CASE EndpointConnects(First(e))
    <3>1. ws[First(e)] = "unopened" /\ UNCHANGED sessions
      BY <2>1 DEF EndpointConnects, OpenSocket
    <3>. QED
      BY <3>1 DEF OpenedInv, Engaged
  <2>. QED
    BY <2>1, FirstType, LinkSteps
<1>3. ASSUME NEW s \in Sockets, Start(s)
      PROVE  s = First(e) \/ (Engaged(e) /\ sessions'[e] = sessions[e])
  <2>1. PICK t \in Endpoints, c \in Calls :
             /\ t # Owner(s) /\ call[c] = NoSession
             /\ call' = [call EXCEPT ![c] = [source |-> Owner(s), target |-> t,
                                             state |-> "ringing"]]
             /\ sessions' = [sessions EXCEPT ![Owner(s)] = c, ![t] = c]
    BY <1>3, StartEffect
  <2>2. CASE e = Owner(s)
    BY <1>1, <1>2, <1>3, <2>2 DEF HandlerStep, StartStep
  <2>3. e # t
    BY <2>1 DEF Engaged, Inv, TypeOK
  <2>4. CASE e \notin {Owner(s), t}
    <3>1. sessions'[e] = sessions[e]
      BY <2>1, <2>4 DEF Inv, TypeOK
    <3>2. sessions[e] \in Calls /\ sessions[e] # c
      BY <2>1, <3>1, ReservedType, NoSessionAssumption DEF Engaged
    <3>3. call'[sessions[e]] = call[sessions[e]]
      BY <2>1, <3>2 DEF Inv, TypeOK
    <3>. QED
      BY <3>1, <3>3 DEF Engaged
  <2>. QED
    BY <2>2, <2>3, <2>4
<1>4. CASE \A s \in Sockets : ~ Start(s)
  <2>1. sessions'[e] = sessions[e] /\ sessions[e] # NoCall
    BY <1>4, EntriesKept DEF Engaged
  <2>2. PICK c \in Calls : c = sessions[e] /\ call[c] # NoSession
    BY <2>1, ReservedType DEF Inv, OwnEntries
  <2>3. CASE call'[c] = call[c]
    BY <1>2, <2>1, <2>2, <2>3 DEF Engaged
  <2>4. ASSUME NEW s \in Sockets, Accept(s), sessions[Owner(s)] = c
        PROVE  Engaged(e) \/ s = First(e)
    <3>1. call[c].target = Owner(s)
      BY <2>4 DEF Accept, RingsAt
    <3>2. e \in Parties(c)
      BY <2>1, <2>2 DEF Inv, OwnEntries
    <3>3. CASE e = call[c].source
      BY <2>1, <2>2, <3>3 DEF Engaged
    <3>4. CASE e = Owner(s)
      BY <1>1, <1>2, <2>4, <3>4 DEF HandlerStep, AnswerStep
    <3>. QED
      BY <3>1, <3>2, <3>3, <3>4 DEF Parties
  <2>. QED
    BY <1>2, <2>1, <2>2, <2>3, <2>4, CallStays
<1>. QED
  BY <1>2, <1>3, <1>4

LEMMA IncomingStep ==
    ASSUME Inv, ServedInv, OpenedInv, HandlerInv, MissedInv, RequestInv,
           IncomingInv, Next
    PROVE  IncomingInv'
<1>. SUFFICES ASSUME NEW e \in Endpoints, panel'[e].phase = "incoming"
              PROVE  /\ call'[panel'[e].call] # NoSession
                     /\ call'[panel'[e].call].target = e
  BY DEF IncomingInv
<1>1. CASE panel'[e] = panel[e]
  <2>1. panel[e] \in Panel /\ panel[e].phase = "incoming"
    BY <1>1 DEF Inv, TypeOK
  <2>2. PICK c \in Calls : c = panel[e].call
    BY <2>1 DEF Panel, IdlePanel
  <2>. QED
    BY <1>1, <2>1, <2>2, CallStays DEF IncomingInv
<1>2. ASSUME NEW s \in Sockets, Start(s), panel'[e] # panel[e]
      PROVE  /\ call'[panel'[e].call] # NoSession
             /\ call'[panel'[e].call].target = e
  <2>1. PICK c \in Calls :
          /\ call' = [call EXCEPT ![c] = [source |-> Owner(s), target |-> e,
                                          state |-> "ringing"]]
          /\ panel'[e].call = c
    BY <1>2, StartEffect
  <2>2. call'[c] = [source |-> Owner(s), target |-> e, state |-> "ringing"]
    BY <2>1 DEF Inv, TypeOK
  <2>3. call'[c] \in Session
    BY <2>2, OwnerType DEF Session
  <2>. QED
    BY <2>1, <2>2, <2>3, NoSessionAssumption
<1>3. CASE \A s \in Sockets : ~ Start(s)
  BY <1>1, <1>3, StepTold DEF AllTold, Told
<1>. QED
  BY <1>1, <1>2, <1>3

\* What happens to the messages of a socket that has at most one in flight.
Asks(s, m) ==
    /\ MayBegin
    /\ \/ RequestStart(s)
       \/ panel[Owner(s)].phase = "incoming"
       \/ m.type = "end" /\ m.call = panel[Owner(s)].call
       \/ m.type = "audio"

LEMMA RequestEffect ==
    ASSUME Inv, Next, MaxInFlight <= 1, NEW u \in Sockets, Len(request[u]) <= 1
    PROVE  \/ request'[u] = request[u]
           \/ request'[u] = <<>>
           \/ \E m : request'[u] = <<m>> /\ Asks(u, m)
<1>0. request[u] \in Seq(Request)
  BY DEF Inv, TypeOK
<1>1. ASSUME NEW s \in Sockets, NEW m, Requests(s, m), s = u => Asks(s, m)
      PROVE  \/ request'[u] = request[u]
             \/ \E n : request'[u] = <<n>> /\ Asks(u, n)
  <2>1. CASE s = u
    <3>1. Len(request[u]) = 0
      BY <1>0, <1>1, <2>1, KnobAssumption DEF Requests
    <3>2. request[u] = <<>>
      BY <1>0, <3>1
    <3>3. request'[u] = Append(<<>>, m)
      BY <1>1, <2>1, <3>2 DEF Requests, Inv, TypeOK
    <3>4. Append(<<>>, m) = <<m>>
      OBVIOUS
    <3>. QED
      BY <1>1, <2>1, <3>3, <3>4
  <2>2. CASE s # u
    BY <1>1, <2>2 DEF Requests, Inv, TypeOK
  <2>. QED
    BY <2>1, <2>2
<1>2. ASSUME NEW s \in Sockets, NEW type, Receive(s, type)
      PROVE  request'[u] = request[u] \/ request'[u] = <<>>
  <2>1. CASE s = u
    <3>1. request[u] # <<>> /\ request'[u] = Tail(request[u])
      BY <1>2, <2>1 DEF Receive, Inv, TypeOK
    <3>2. Tail(request[u]) = <<>>
      BY <1>0, <3>1
    <3>. QED
      BY <3>1, <3>2
  <2>2. CASE s # u
    BY <1>2, <2>2 DEF Receive, Inv, TypeOK
  <2>. QED
    BY <2>1, <2>2
<1>3. ASSUME NEW s \in Sockets, EndpointStep(s)
      PROVE  \/ request'[u] = request[u]
             \/ \E m : request'[u] = <<m>> /\ Asks(u, m)
  <2>1. CASE RequestStart(s)
    <3>1. PICK m : Requests(s, m)
      BY <2>1 DEF RequestStart
    <3>. QED
      BY <1>1, <2>1, <3>1 DEF Asks, Requests
  <2>2. CASE RequestAccept(s)
    <3>. DEFINE n == [type |-> "accept", call |-> panel[Owner(s)].call]
    <3>0. Requests(s, n) /\ panel[Owner(s)].phase = "incoming"
      BY <2>2 DEF RequestAccept
    <3>. HIDE DEF n
    <3>1. PICK m : Requests(s, m) /\ panel[Owner(s)].phase = "incoming"
      BY <3>0
    <3>. QED
      BY <1>1, <3>1 DEF Asks, Requests
  <2>3. CASE RequestHangUp(s)
    <3>1. PICK m : Requests(s, m)
                   /\ \/ panel[Owner(s)].phase = "incoming"
                      \/ m = [type |-> "end", call |-> panel[Owner(s)].call]
      BY <2>3 DEF RequestHangUp
    <3>. QED
      BY <1>1, <3>1 DEF Asks, Requests
  <2>6. CASE RequestEnd(s)
    <3>1. PICK m : Requests(s, m) /\ m = [type |-> "end", call |-> panel[Owner(s)].call]
      BY <2>6 DEF RequestEnd
    <3>. QED
      BY <1>1, <3>1 DEF Asks, Requests
  <2>4. CASE RequestAudio(s)
    <3>1. PICK valid \in Frames : Requests(s, [type |-> "audio", valid |-> valid])
      BY <2>4 DEF RequestAudio
    <3>. QED
      BY <1>1, <3>1 DEF Asks, Requests
  <2>5. CASE EndpointConnects(s) \/ EndpointLost(s)
    BY <2>5 DEF EndpointConnects, EndpointLost
  <2>. QED
    BY <1>3, <2>1, <2>2, <2>3, <2>4, <2>5, <2>6 DEF EndpointStep
<1>4. ASSUME NEW s \in Sockets, HandlerStep(s)
      PROVE  request'[u] = request[u] \/ request'[u] = <<>>
  BY <1>2, <1>4 DEF HandlerStep, LossNoticed, Register, PreviousClosed,
     CloseStep, NeverRegistered, CloseReplaced, CloseCurrent, ClosePeerTold,
     StartStep, Start, StartRefused, StartRings, StartUndelivered, AnswerStep,
     Accept, AnswerRefused, TargetArmed, TargetUnarmed, SourceArmed,
     SourceUnarmed, RolledBack, Decline, EndStep, End, EndRefused, PeerTold,
     AudioStep, AudioElsewhere, ForwardAudio, AudioEndsCall, AudioForwarded,
     AudioUndelivered, LoopEnds, Inv, TypeOK
<1>5. ASSUME NEW c \in Calls, TimerStep(c) PROVE UNCHANGED request
  BY <1>5 DEF TimerStep, Expire, ExpireStale, MissedTold, NoAnswerTold
<1>6. ASSUME NEW e \in Endpoints, OtherSendRaises(e) PROVE UNCHANGED request
  BY <1>6 DEF OtherSendRaises
<1>. QED
  BY <1>3, <1>4, <1>5, <1>6 DEF Next

LEMMA NobodyStarts ==
    ASSUME IsFiniteSet(Endpoints), NEW s \in Sockets, RequestStart(s)
    PROVE  Fresh # {}
<1>1. IsFiniteSet(Sockets)
  <2>1. IsFiniteSet(1 .. MaxReconnects + 1)
    BY MaxReconnectsAssumption, FS_Interval
  <2>. QED
    BY <2>1, FS_Product DEF Sockets
<1>2. Cardinality(InFlight("start")) \in Nat
  <2>1. IsFiniteSet(InFlight("start"))
    BY <1>1, FS_Subset DEF InFlight
  <2>. QED
    BY <2>1, FS_CardinalityType
<1>. QED
  BY <1>2, FS_EmptySet DEF RequestStart

\* What an engaged endpoint may ask for.
LEMMA EngagedAsks ==
    ASSUME Undisturbed, Inv, DistinctParties, HandlerInv, IncomingInv, ShownInv,
           NEW e \in Endpoints, ws[First(e)] = "open", Engaged(e),
           NEW m, Asks(First(e), m)
    PROVE  m.type = "audio" \/ (m.type = "end" /\ m.call \in {sessions[e], NoCall})
<1>. DEFINE s == First(e)
<1>0. s \in Sockets /\ Owner(s) = e /\ panel[e] \in Panel
  BY FirstType DEF Inv, TypeOK
<1>1. PICK c \in Calls : c = sessions[e] /\ call[c] # NoSession
  BY ReservedType DEF Engaged, Inv, OwnEntries
<1>2. CASE panel[e].call = c /\ panel[e].phase # "incoming"
  <2>1. ~ RequestStart(s)
    BY <1>0, <1>1, <1>2, NoCallAssumption DEF RequestStart, Panel, IdlePanel
  <2>. QED
    BY <1>0, <1>1, <1>2, <2>1 DEF Asks
<1>3. CASE handler[s].pc = "ring" /\ handler[s].call = c
  <2>1. ~ Settled
    BY <1>0, <1>3 DEF Settled, Sending
  <2>2. IsFiniteSet(Endpoints) /\ \A d \in Calls : d = c
    BY <2>1 DEF Undisturbed, Asks, MayBegin
  <2>3. ~ RequestStart(s)
    BY <1>0, <1>1, <2>2, NobodyStarts DEF Fresh
  <2>4. call[c].source = e /\ call[c].target # e
    BY <1>0, <1>1, <1>3 DEF HandlerInv, HandlerOk, DistinctParties
  <2>5. panel[e].phase # "idle" => panel[e].call = c
    BY <1>0, <2>2 DEF Panel, IdlePanel
  <2>6. panel[e].phase # "incoming"
    BY <2>4, <2>5 DEF IncomingInv
  <2>7. panel[e].call \in {c, NoCall}
    BY <1>0, <2>5 DEF Panel, IdlePanel
  <2>. QED
    BY <1>0, <1>1, <2>3, <2>6, <2>7 DEF Asks
<1>. QED
  BY <1>1, <1>2, <1>3 DEF ShownInv

LEMMA RequestStep ==
    ASSUME Undisturbed, MaxInFlight <= 1, Inv, DistinctParties, ServedInv,
           OpenedInv, HandlerInv, IncomingInv, RequestInv, ShownInv, Next
    PROVE  RequestInv'
<1>0. ASSUME NEW m PROVE Len(<<m>>) = 1 /\ <<m>> # <<>> /\ Head(<<m>>) = m
  OBVIOUS
<1>1. ASSUME NEW s \in Sockets PROVE Len(request'[s]) <= 1
  <2>1. Len(request[s]) <= 1
    BY DEF RequestInv
  <2>2. CASE request'[s] = <<>>
    BY <2>2
  <2>3. ASSUME NEW m, request'[s] = <<m>> PROVE Len(request'[s]) <= 1
    BY <1>0, <2>3
  <2>. QED
    BY <2>1, <2>2, <2>3, RequestEffect
<1>2. ASSUME NEW e \in Endpoints, ws'[First(e)] = "open",
             request'[First(e)] # <<>>, Engaged(e)'
      PROVE  LET m == Head(request'[First(e)]) IN
             m.type = "audio" \/ (m.type = "end" /\ m.call \in {sessions'[e], NoCall})
  <2>. DEFINE s == First(e)
  <2>0. s \in Sockets /\ Len(request[s]) <= 1 /\ request[s] \in Seq(Request)
    BY FirstType DEF RequestInv, Inv, TypeOK
  <2>1. ws[s] = "open"
    BY <1>2, BecomesEngaged
  <2>2. ~ Start(s) /\ ~ Accept(s)
    <3>1. ASSUME NEW type, Receive(s, type) PROVE FALSE
      <4>1. request[s] # <<>> /\ request'[s] = Tail(request[s])
        BY <2>0, <3>1 DEF Receive, Inv, TypeOK
      <4>2. Tail(request[s]) = <<>>
        BY <2>0, <4>1
      <4>. QED
        BY <1>2, <4>1, <4>2
    <3>. QED
      BY <3>1 DEF Start, Accept
  <2>3. Engaged(e) /\ sessions'[e] = sessions[e]
    BY <1>2, <2>2, BecomesEngaged
  <2>4. CASE request'[s] = request[s]
    BY <1>2, <2>1, <2>3, <2>4 DEF RequestInv
  <2>5. ASSUME NEW m, request'[s] = <<m>>, Asks(s, m)
        PROVE  m.type = "audio" \/ (m.type = "end" /\ m.call \in {sessions'[e], NoCall})
    BY <2>1, <2>3, <2>5, EngagedAsks
  <2>. QED
    BY <1>0, <1>2, <2>0, <2>4, <2>5, RequestEffect
<1>3. RequestInv' <=>
        /\ \A s \in Sockets : Len(request'[s]) <= 1
        /\ \A e \in Endpoints :
             /\ ws'[First(e)] = "open"
             /\ request'[First(e)] # <<>>
             /\ Engaged(e)'
             => LET m == Head(request'[First(e)]) IN
                m.type = "audio" \/ (m.type = "end" /\ m.call \in {sessions'[e], NoCall})
  BY DEF RequestInv, First
<1>. QED
  BY <1>1, <1>2, <1>3

LEMMA ShownStep ==
    ASSUME Inv, ServedInv, OpenedInv, HandlerInv, MissedInv, RequestInv,
           ShownInv, Next
    PROVE  ShownInv'
<1>. SUFFICES ASSUME NEW e \in Endpoints, ws'[First(e)] = "open", Engaged(e)'
              PROVE  \/ /\ panel'[e].call = sessions'[e]
                        /\ panel'[e].phase # "incoming"
                     \/ /\ handler'[First(e)].pc = "ring"
                        /\ handler'[First(e)].call = sessions'[e]
  BY DEF ShownInv, First
<1>. DEFINE s == First(e)
<1>0. s \in Sockets /\ Owner(s) = e /\ ws[s] = "open"
  BY FirstType, BecomesEngaged
<1>1. CASE Start(s)
  <2>1. PICK t \in Endpoints, c \in Calls :
          /\ t # e
          /\ sessions' = [sessions EXCEPT ![e] = c, ![t] = c]
          /\ handler'[s].pc = "ring" /\ handler'[s].call = c
    BY <1>0, <1>1, StartEffect
  <2>. QED
    BY <2>1 DEF Inv, TypeOK
<1>2. CASE Accept(s)
  <2>1. PICK c : /\ sessions[e] = c /\ UNCHANGED sessions
                 /\ Write(s, "active", c)
    BY <1>0, <1>2 DEF Accept, RingsAt
  <2>2. panel'[e] = [phase |-> "active", call |-> c]
    BY <1>0, <2>1 DEF Write, Shown, Inv, TypeOK
  <2>. QED
    BY <2>1, <2>2
<1>3. CASE Engaged(e) /\ sessions'[e] = sessions[e] /\ ~ Start(s)
  <2>1. PICK c \in Calls : c = sessions[e] /\ call[c] # NoSession
    BY <1>3, ReservedType DEF Engaged, Inv, OwnEntries
  <2>2. \/ panel[e].call = c /\ panel[e].phase # "incoming"
        \/ handler[s].pc = "ring" /\ handler[s].call = c
    BY <1>0, <1>3, <2>1 DEF ShownInv
  <2>3. CASE \E u \in Sockets : Start(u)
    <3>1. PICK u \in Sockets : Start(u)
      BY <2>3
    <3>2. panel'[e] = panel[e]
      BY <1>3, <3>1, StartEffect DEF Engaged
    <3>3. handler'[s] = handler[s]
      BY <1>0, <1>3, <3>1, OtherHandlers DEF HandlerStep, StartStep
    <3>. QED
      BY <1>3, <2>1, <2>2, <3>2, <3>3
  <2>4. CASE \A u \in Sockets : ~ Start(u)
    <3>1. Told(e)
      BY <2>4, StepTold DEF AllTold
    <3>2. CASE panel[e].call = c /\ panel[e].phase # "incoming"
      BY <1>3, <2>1, <3>1, <3>2 DEF Told
    <3>3. CASE handler[s].pc = "ring" /\ handler[s].call = c
      <4>1. CASE handler'[s] = handler[s]
        BY <1>3, <2>1, <3>3, <4>1
      <4>2. CASE StartRings(s)
        <5>1. Write(s, "ringing", c)
          BY <3>3, <4>2 DEF StartRings
        <5>2. panel'[e] = [phase |-> "outgoing", call |-> c]
          BY <1>0, <5>1 DEF Write, Shown, Inv, TypeOK
        <5>. QED
          BY <1>3, <2>1, <5>2
      <4>3. CASE StartUndelivered(s)
        <5>1. Release(c)
          BY <3>3, <4>3 DEF StartUndelivered
        <5>2. call[c].source = e
          BY <1>0, <3>3 DEF HandlerInv, HandlerOk
        <5>3. sessions'[e] = NoCall
          BY <5>1, <5>2 DEF Release, Parties
        <5>. QED
          BY <5>3 DEF Engaged
      <4>4. HandlerStep(s) => \/ handler'[s] = handler[s]
                              \/ StartRings(s) \/ StartUndelivered(s)
        BY <3>3 DEF HandlerStep, LossNoticed, Register, PreviousClosed,
           CloseStep, NeverRegistered, CloseReplaced, CloseCurrent, LoopEnds,
           ClosePeerTold, StartStep, Start, StartRefused, AnswerStep, Accept,
           AnswerRefused, TargetArmed, TargetUnarmed, SourceArmed,
           SourceUnarmed, RolledBack, Decline, EndStep, End, EndRefused,
           PeerTold, AudioStep, AudioElsewhere, ForwardAudio, AudioEndsCall,
           AudioForwarded, AudioUndelivered, Receive
      <4>. QED
        BY <1>0, <4>1, <4>2, <4>3, <4>4, HandlersStay
    <3>. QED
      BY <2>2, <3>2, <3>3
  <2>. QED
    BY <2>3, <2>4
<1>. QED
  BY <1>1, <1>2, <1>3, BecomesEngaged

\* What the endpoints show, as an inductive invariant.
SeenInv == OpenedInv /\ IncomingInv /\ RequestInv /\ ShownInv

LEMMA SeenStep ==
    ASSUME Undisturbed, MaxInFlight <= 1, Inv, DistinctParties, ServedInv,
           EntryInv, SeenInv, [Next]_vars
    PROVE  SeenInv'
<1>1. CASE UNCHANGED vars
  BY <1>1 DEF vars, SeenInv, OpenedInv, IncomingInv, RequestInv, ShownInv, Engaged
<1>2. CASE Next
  BY <1>2, OpenedStep, IncomingStep, RequestStep, ShownStep DEF SeenInv, EntryInv
<1>. QED
  BY <1>1, <1>2

LEMMA SeenAlways ==
    ASSUME Undisturbed, MaxInFlight <= 1
    PROVE  Spec => []SeenInv
<1>1. Init => SeenInv
  BY FirstType DEF Init, ConnectionInit, SeenInv, OpenedInv, IncomingInv,
     RequestInv, ShownInv, Engaged, At, IdlePanel
<1>2. /\ Inv /\ PairInv /\ ServedInv /\ EntryInv /\ SeenInv /\ [Next]_vars
      => SeenInv'
  BY SeenStep DEF PairInv
<1>. QED
  BY <1>1, <1>2, InvAlways, PairsAlways, ServedAlways, EntriesAlways, PTL
  DEF Spec

\* ActiveCallIsShown, of an endpoint that has not reconnected.
FirstCallIsShown ==
    Quiet => \A e \in Endpoints :
               Transmitting(e) /\ ws[First(e)] = "open"
                 => panel[e].call = sessions[e]

\* An endpoint knows the id of its active call as long as its first link is
\* up, whichever links of other endpoints fail and come back.
THEOREM FirstCallsShown ==
    ASSUME Undisturbed, MaxInFlight <= 1
    PROVE  Spec => []FirstCallIsShown
<1>1. SeenInv => FirstCallIsShown
  BY FirstType DEF SeenInv, ShownInv, FirstCallIsShown, Quiet, Settled, Sending,
     Transmitting, Engaged
<1>. QED
  BY <1>1, SeenAlways, PTL

\* While nobody reconnects, an endpoint in an active call knows the id it has
\* to name to end it, whichever links fail: a call that fails half-way to
\* active is over for both.
THEOREM ActiveCallsShown ==
    ASSUME Undisturbed, MaxInFlight <= 1, MaxReconnects = 0
    PROVE  Spec => []ActiveCallIsShown
<1>1. \A s \in Sockets : s = First(Owner(s))
  BY DEF Sockets, First, Owner
<1>2. Inv /\ ServedInv /\ FirstCallIsShown => ActiveCallIsShown
  <2>1. ASSUME Inv, ServedInv, NEW e \in Endpoints, Reachable(e)
        PROVE  connections[e] = First(e)
    <3>1. connections[e] \in Sockets /\ Owner(connections[e]) = e
      BY <2>1 DEF Inv, TypeOK, Reachable, ServedInv
    <3>. QED
      BY <1>1, <3>1
  <2>. QED
    BY <2>1 DEF FirstCallIsShown, ActiveCallIsShown
<1>. QED
  BY <1>2, InvAlways, ServedAlways, FirstCallsShown, PTL
=============================================================================
