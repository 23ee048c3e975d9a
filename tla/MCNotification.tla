--------------------------- MODULE MCNotification ---------------------------
(* Instances of Notification for TLC. *)
EXTENDS Notification

CONSTANTS Kitchen, Hall

Kind(aim, display, speak, timed, queue, button) ==
    [aim |-> aim \cap Endpoints, display |-> display, speak |-> speak, timed |-> timed,
     queue |-> queue, button |-> button]

Scenario(reqs, lost, n) ==
    [requests |-> reqs, unstable |-> lost, stops |-> n]

Question == Kind({Kitchen}, TRUE, FALSE, FALSE, FALSE, TRUE)
Queued == Kind({Kitchen}, TRUE, FALSE, TRUE, TRUE, FALSE)
Spoken == Kind({Hall}, FALSE, TRUE, FALSE, TRUE, FALSE)
Announcement == Kind({Kitchen, Hall}, TRUE, TRUE, TRUE, FALSE, FALSE)
AreaQuestion == Kind({Kitchen, Hall}, TRUE, FALSE, TRUE, TRUE, TRUE)

\* A full queue; losses while one waits; an announcement that is stopped; an
\* area or a speech of which the endpoint is lost; two questions to the
\* area; two messages that are spoken.
RoomScenarios ==
    {Scenario(<<Question, Queued, Queued, Question>>, {}, 0),
     Scenario(<<Question, Queued>>, {Kitchen}, 0),
     Scenario(<<Announcement>>, {}, 1),
     Scenario(<<AreaQuestion>>, {Hall}, 0),
     Scenario(<<Spoken>>, {Hall}, 1),
     Scenario(<<AreaQuestion, AreaQuestion>>, {}, 0),
     Scenario(<<Spoken, Spoken>>, {}, 0)}
=============================================================================
