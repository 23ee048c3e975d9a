------------------------------ MODULE CallBook ------------------------------
(***************************************************************************)
(* What the intercom promises (protocol/messages.md, "Room-to-room         *)
(* intercom"): a call has two parties, rings, may become active, and is    *)
(* over for both at once; an endpoint is in one call at a time.            *)
(***************************************************************************)
CONSTANTS Endpoints, Calls, NoSession

VARIABLE book  \* what is known of each call

Entry == [source : Endpoints, target : Endpoints,
          state : {"ringing", "active", "over"}]

TypeOK == book \in [Calls -> Entry \cup {NoSession}]

Init == book = [c \in Calls |-> NoSession]

Live(c) == book[c] # NoSession /\ book[c].state # "over"

Free(e) ==
    \A c \in Calls : Live(c) => e \notin {book[c].source, book[c].target}

Place(c, a, b) ==
    /\ book[c] = NoSession
    /\ a # b /\ Free(a) /\ Free(b)
    /\ book' = [book EXCEPT
                  ![c] = [source |-> a, target |-> b, state |-> "ringing"]]

Answer(c) ==
    /\ Live(c) /\ book[c].state = "ringing"
    /\ book' = [book EXCEPT ![c].state = "active"]

Finish(c) ==
    /\ Live(c)
    /\ book' = [book EXCEPT ![c].state = "over"]

Next ==
    \E c \in Calls :
      \/ \E a, b \in Endpoints : Place(c, a, b)
      \/ Answer(c)
      \/ Finish(c)

Spec == Init /\ [][Next]_book
=============================================================================
