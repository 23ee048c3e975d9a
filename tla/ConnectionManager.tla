------------------------- MODULE ConnectionManager -------------------------
(***************************************************************************)
(* The WebSocket table of the server: roomhub/server/app/core/             *)
(* connection_manager.py.  Which socket currently speaks for an endpoint,  *)
(* how a reconnect replaces it and how a failed send removes it.  The      *)
(* modules that talk to endpoints extend this one.                         *)
(*                                                                         *)
(* A socket <<e, n>> is the n-th WebSocket that endpoint e opens.          *)
(***************************************************************************)
EXTENDS Naturals, FiniteSets

CONSTANTS
    Endpoints,      \* the endpoint identities (device_id)
    MaxReconnects,  \* bound: how often endpoints, together, connect again
    NoSocket        \* "no entry in manager.connections"

Sockets == Endpoints \X (1 .. MaxReconnects + 1)

ASSUME MaxReconnectsAssumption == MaxReconnects \in Nat
ASSUME NoSocketAssumption == NoSocket \notin Sockets

VARIABLES
    connections,  \* manager.connections: endpoint -> its current socket
    ws            \* the state of the link below each socket

\* "lost": the endpoint has gone or given the socket up, and the server does
\* not know; "dead": the transport has noticed.
LinkStates == {"unopened", "open", "lost", "dead"}

ConnectionTypeOK ==
    /\ connections \in [Endpoints -> Sockets \cup {NoSocket}]
    /\ ws \in [Sockets -> LinkStates]

ConnectionInit ==
    /\ connections = [e \in Endpoints |-> NoSocket]
    /\ ws = [s \in Sockets |-> "unopened"]

Owner(s) == s[1]

\* manager.get(e) is not None
Reachable(e) == connections[e] # NoSocket

IsCurrent(s) == connections[Owner(s)] = s

\* ConnectionManager.connect up to its await: the new socket takes the entry.
\* (The endpoint gave the previous one up before, so closing it costs time
\* and nothing else.)
Connect(s) == connections' = [connections EXCEPT ![Owner(s)] = s]

\* Mutant: the entry goes whichever socket asks.
WithoutAny(s) == [connections EXCEPT ![Owner(s)] = NoSocket]

\* ConnectionManager.disconnect(Owner(s), s): the table without socket s; an
\* entry that names another socket stays.
Without(s) == [connections EXCEPT ![Owner(s)] = IF @ = s THEN NoSocket ELSE @]

Disconnect(s) == connections' = Without(s)

\* An awaited send on socket s comes back without an error as long as the
\* transport believes in the link (the bytes may be buffered for nobody) ...
Delivered(s) == ws[s] # "dead" /\ UNCHANGED connections

\* ... and raises when it does not: the entry is dropped, and that is all.
Raised(s) == ws[s] = "dead" /\ Disconnect(s)

Returned(s) == Delivered(s) \/ Raised(s)

\* The endpoint opens its next socket; it has given up the previous one.
OpenSocket(s) ==
    /\ ws[s] = "unopened"
    /\ s[2] > 1 =>
         Cardinality({t \in Sockets : t[2] > 1 /\ ws[t] # "unopened"})
           < MaxReconnects
    /\ \A t \in Sockets :
         Owner(t) = Owner(s) /\ t[2] < s[2] => ws[t] \in {"lost", "dead"}
    /\ ws' = [ws EXCEPT ![s] = "open"]

\* WiFi loss, power loss or a restart of the endpoint.
LoseSocket(s) ==
    /\ ws[s] = "open"
    /\ ws' = [ws EXCEPT ![s] = "lost"]

\* The transport notices: a reset, the keep-alive timeout or the end of the
\* close handshake. All sends on s raise and the handler's receive ends.
NoticeLoss(s) ==
    /\ ws[s] = "lost"
    /\ ws' = [ws EXCEPT ![s] = "dead"]
=============================================================================
