------------------------------- MODULE Panels -------------------------------
(***************************************************************************)
(* A panel's place in the house: how it is paired and registers            *)
(* (endpoint_pairing_service.py, endpoint_service.py, websocket_endpoint), *)
(* how the management page moves and configures it                         *)
(* (endpoint_assignment_service.py, endpoint_dashboard_preferences_        *)
(* service.py, endpoint_display_preferences_service.py), the dashboard it  *)
(* is sent (room_dashboard_service.py) and the controls on it              *)
(* (dashboard_handler.py).                                                 *)
(*                                                                         *)
(* One number, the level, stands for the part of an entity's state that    *)
(* a control is about: brightness, temperature, the index of a mode; Low   *)
(* is also off and locked.  Home Assistant is external: levels change when *)
(* it says so, and entities stay in their areas.                           *)
(***************************************************************************)
EXTENDS ConnectionManager, Integers, Sequences, FiniteSetsExt

CONSTANTS
    Areas, NoArea,
    CodeArea,    \* the pairing codes of the management page, with their areas
    NoCode,
    Entities, AreaOf, KindOf,
    Low, High,   \* bound: the levels
    Limit,       \* maximum_entities_for_firmware, of each panel
    MediaLimit,  \* 8, for every panel
    Scenarios    \* bound: what may happen in a behaviour

Codes == DOMAIN CodeArea

\* What a control of each kind of entity does beside "activate"; a slider's
\* value is clamped as a step up or down is.
Takes == [light |-> {"down", "up"}, fan |-> {"down", "up"},
          number |-> {"down", "up"}, climate |-> {"down", "up", "next"},
          media_player |-> {"next"}, select |-> {"next"}, cover |-> {"open"},
          lock |-> {}, scene |-> {}, button |-> {}, switch |-> {}]
Presses == {"activate"} \cup UNION Range(Takes)

\* EndpointManagementUpdate for panel id, or (not full) the area alone.  An
\* empty order asks for the present one.
UpdateType == [id : Endpoints, area : Areas, full : BOOLEAN,
               hide : SUBSET Entities, order : Seq(Entities),
               pin : SUBSET Entities]

\* A scenario: the code each panel is provisioned with, the panels assigned
\* before there were codes, the updates that are requested, how many levels
\* change, controls are pressed and times the server restarts, and whose links
\* fail.
ScenarioType == [token : [Endpoints -> Codes \cup {NoCode}],
                 legacy : [Endpoints -> Areas \cup {NoArea}],
                 updates : Seq(UpdateType),
                 changes : Nat, presses : Nat, restarts : Nat,
                 unstable : SUBSET Endpoints]

ASSUME PanelsAssumption ==
    /\ CodeArea \in [Codes -> Areas] /\ NoCode \notin Codes
    /\ NoArea \notin Areas
    /\ IsFiniteSet(Endpoints)
    /\ Entities \subseteq Nat /\ IsFiniteSet(Entities)
    /\ AreaOf \in [Entities -> Areas] /\ KindOf \in [Entities -> DOMAIN Takes]
    /\ Low \in Nat /\ High \in Nat /\ Low < High
    /\ Limit \in [Endpoints -> Nat \ {0}] /\ MediaLimit \in Nat \ {0}
    /\ Scenarios \subseteq ScenarioType

VARIABLES
    scenario,    \* the one of this behaviour, with what is left of it
    codes,       \* endpoint_pairing_codes: not yet, valid, or used or expired
    credentials, \* endpoint_credentials
    assignments, \* endpoint_assignments
    hidden,      \* endpoint_entity_exclusions
    pinned,      \* endpoint_entity_preferences: the flag and the position
    rank,
    known,       \* the keys of registry.endpoints, in their order
    online,      \* Endpoint.connected and Endpoint.area_id of each
    area,
    level,       \* entity_registry.states
    fanout,      \* where handle_state_changed stands
    task,        \* where each management update stands
    handler,     \* where websocket_endpoint stands for each socket
    down,        \* dashboards on their way to the panel
    up,          \* its presses the handler has not read
    shown,       \* the dashboard on the screen
    admitted,    \* history: the panels that were accepted with their code
    refused,     \* history: those that were rejected since
    commands,    \* history: the commands published
    missed       \* history: the panels a loop that broke off did not reach, or
                 \* that were marked offline behind the socket they have

choices == <<hidden, pinned, rank>>
tables == <<codes, credentials, assignments, choices>>
memory == <<known, online, area>>
links == <<connections, ws, down, up, shown>>
pairing == <<codes, credentials, admitted, refused>>
vars == <<scenario, tables, memory, level, fanout, task, handler, links,
          admitted, refused, commands, missed>>

-----------------------------------------------------------------------------
(* State                                                                   *)

Levels == Low .. High
Tasks == 1 .. Len(scenario.updates)
Idle == [entity |-> 0, at |-> 1, size |-> 0]
NoDashboard == [area |-> NoArea, items |-> <<>>, media |-> <<>>]
CommandNames == {"set", "toggle", "turn_on", "turn_off", "lock", "unlock", "press"}
Items == [entity : Entities, pinned : BOOLEAN, level : Levels]
Dashboards == [area : Areas \cup {NoArea}, items : Seq(Items), media : Seq(Items)]

\* Every table and message is of its type, and no published command asks for
\* a level outside the entity's limits, whatever the core knew of it when the
\* control was pressed (dashboard_handler.py).
TypeOK ==
    /\ ConnectionTypeOK
    /\ scenario \in ScenarioType
    /\ codes \in [Codes -> {"future", "valid", "past"}]
    /\ credentials \in [Endpoints -> Codes \cup {NoCode}]
    /\ assignments \in [Endpoints -> Areas \cup {NoArea}]
    /\ hidden \in [Endpoints -> SUBSET Entities]
    /\ pinned \in [Endpoints -> SUBSET Entities]
    /\ rank \in [Endpoints -> [Entities -> 0 .. Cardinality(Entities)]]
    /\ known \in Seq(Endpoints) /\ IsInjective(known)
    /\ online \in [Endpoints -> BOOLEAN]
    /\ area \in [Endpoints -> Areas \cup {NoArea}]
    /\ level \in [Entities -> Levels]
    /\ fanout = Idle \/ fanout \in [entity : Entities,
                                    at : 1 .. Cardinality(Endpoints) + 1,
                                    size : 0 .. Cardinality(Endpoints)]
    /\ task \in [Tasks -> {"new", "assigned", "arranged", "saved", "refused", "gone"}]
    /\ handler \in [Sockets -> {"unregistered", "replacing", "serving",
                                "leaving", "done"}]
    /\ down \in [Sockets -> Seq(Dashboards)]
    /\ up \in [Sockets -> Seq([entity : Entities, press : Presses])]
    /\ shown \in [Endpoints -> Dashboards]
    /\ admitted \subseteq Endpoints /\ refused \subseteq Endpoints
    /\ commands \subseteq [entity : Entities, command : CommandNames, level : Levels]
    /\ missed \subseteq Endpoints

Init ==
    /\ scenario \in Scenarios
    /\ codes = [c \in Codes |-> "future"]
    /\ credentials = [e \in Endpoints |-> NoCode]
    /\ assignments = scenario.legacy
    /\ hidden = [e \in Endpoints |-> {}] /\ pinned = hidden
    /\ rank = [e \in Endpoints |-> [x \in Entities |-> 0]]
    /\ known = <<>> /\ online = [e \in Endpoints |-> FALSE]
    /\ area = [e \in Endpoints |-> NoArea]
    /\ level = [x \in Entities |-> Low] /\ fanout = Idle
    /\ task = [u \in Tasks |-> "new"]
    /\ handler = [s \in Sockets |-> "unregistered"]
    /\ ConnectionInit
    /\ down = [s \in Sockets |-> <<>>] /\ up = down
    /\ shown = [e \in Endpoints |-> NoDashboard]
    /\ admitted = {} /\ refused = {} /\ commands = {} /\ missed = {}

-----------------------------------------------------------------------------
(* The dashboard                                                           *)

\* eligible_entities; every kind is manageable here.
Eligible(e) == {x \in Entities : AreaOf[x] = area[e]}

\* Pinned entities come first, then goes the position, then type and name.
Before(pins, ranks, x, y) ==
    \/ x \in pins /\ y \notin pins
    \/ /\ x \in pins <=> y \in pins
       /\ \/ ranks[x] < ranks[y]
          \/ ranks[x] = ranks[y] /\ x < y

Place(S, pins, ranks, x) == Cardinality({y \in S : Before(pins, ranks, y, x)}) + 1

Sorted(S, pins, ranks) ==
    [i \in 1 .. Cardinality(S) |-> CHOOSE x \in S : Place(S, pins, ranks, x) = i]

\* The first n of an order, as items of a dashboard.
Listed(e, order, n) ==
    [i \in 1 .. Min({Len(order), n}) |->
       [entity |-> order[i], pinned |-> order[i] \in pinned[e], level |-> level[order[i]]]]

\* snapshot: as many as the firmware holds, and beside them the media players,
\* a list of their own, by name whatever is pinned or moved.
Snapshot(e) ==
    LET visible == Eligible(e) \ hidden[e]
        players == {x \in visible : KindOf[x] = "media_player"} IN
    [area |-> area[e],
     items |-> Listed(e, Sorted(visible \ players, pinned[e], rank[e]), Limit[e]),
     media |-> Listed(e, Sorted(players, {}, [x \in Entities |-> 0]), MediaLimit)]

\* send: composed at once from what the step leaves behind (its other
\* assignments come first), and awaited.
SendDashboard(e) ==
    IF e \in Range(known) /\ online[e] /\ Reachable(e)
      THEN LET s == connections[e] IN
           /\ Returned(s)
           /\ down' = IF ws[s] = "open" THEN [down EXCEPT ![s] = Append(@, Snapshot(e)')]
                      ELSE down
           /\ missed' = missed \ {e}
      ELSE UNCHANGED <<connections, down, missed>>

\* A level changes: entity_registry.handle_state_changed, then the panels in
\* turn.  The connection to Home Assistant awaits the one before the next.
ChangeLevel(x, v) ==
    /\ scenario.changes > 0 /\ fanout = Idle /\ v # level[x]
    /\ scenario' = [scenario EXCEPT !.changes = @ - 1]
    /\ level' = [level EXCEPT ![x] = v]
    /\ fanout' = [entity |-> x, at |-> 1, size |-> Len(known)]
    /\ UNCHANGED <<tables, memory, task, handler, links, admitted, refused,
                   commands, missed>>

\* The next panel of the loop over registry.endpoints, which breaks off when
\* the dictionary has grown since the loop began.
NextPanel ==
    /\ fanout # Idle
    /\ UNCHANGED <<scenario, tables, memory, level, task, handler, ws, up, shown,
                   admitted, refused, commands>>
    /\ LET there == {i \in fanout.at .. Len(known) :
                       online[known[i]] /\ area[known[i]] = AreaOf[fanout.entity]} IN
       \/ /\ Len(known) # fanout.size
          /\ fanout' = Idle /\ missed' = missed \cup Range(known)
          /\ UNCHANGED <<connections, down>>
       \/ /\ Len(known) = fanout.size /\ there = {}
          /\ fanout' = Idle
          /\ UNCHANGED <<connections, down, missed>>
       \/ /\ Len(known) = fanout.size /\ there # {}
          /\ fanout' = [fanout EXCEPT !.at = Min(there) + 1]
          /\ \E e \in Endpoints : e = known[Min(there)] /\ SendDashboard(e)

-----------------------------------------------------------------------------
(* Pairing and registration                                                *)

CreateCode(c) ==
    /\ codes[c] = "future" /\ c \in Range(scenario.token)
    /\ codes' = [codes EXCEPT ![c] = "valid"]
    /\ UNCHANGED <<scenario, credentials, assignments, choices, memory, level,
                   fanout, task, handler, links, admitted, refused, commands, missed>>

\* PAIRING_LIFETIME
ExpireCode(c) ==
    /\ codes[c] = "valid"
    /\ codes' = [codes EXCEPT ![c] = "past"]
    /\ UNCHANGED <<scenario, credentials, assignments, choices, memory, level,
                   fanout, task, handler, links, admitted, refused, commands, missed>>

Open(s) ==
    /\ OpenSocket(s)
    /\ UNCHANGED <<scenario, tables, memory, level, fanout, task, handler,
                   connections, down, up, shown, admitted, refused, commands, missed>>

Lose(s) ==
    /\ Owner(s) \in scenario.unstable /\ LoseSocket(s)
    /\ down' = [down EXCEPT ![s] = <<>>] /\ up' = [up EXCEPT ![s] = <<>>]
    /\ UNCHANGED <<scenario, tables, memory, level, fanout, task, handler,
                   connections, shown, admitted, refused, commands, missed>>

Notice(s) ==
    /\ NoticeLoss(s)
    /\ UNCHANGED <<scenario, tables, memory, level, fanout, task, handler,
                   connections, down, up, shown, admitted, refused, commands, missed>>

\* Mutant: the token is looked for among the pairing codes.
AuthenticatedByCode(e, token) ==
    /\ credentials[e] # NoCode /\ token = credentials[e]
    /\ codes[token] = "valid"

Authenticated(e, token) == credentials[e] # NoCode /\ token = credentials[e]

Paired(e, token) ==
    /\ credentials[e] = NoCode /\ token # NoCode
    /\ codes[token] = "valid"

\* "Existing assigned endpoints are grandfathered until reprovisioned."
Grandfathered(e, token) ==
    /\ credentials[e] = NoCode /\ ~ Paired(e, token)
    /\ assignments[e] # NoArea

\* register_endpoint with the assignment as the table has it now, and the
\* answer with a dashboard.
RegisterEndpoint(s, table) ==
    LET e == Owner(s) IN
    /\ known' = IF e \in Range(known) THEN known ELSE Append(known, e)
    /\ online' = [online EXCEPT ![e] = TRUE]
    /\ area' = [area EXCEPT ![e] = table[e]]
    /\ handler' = [handler EXCEPT ![s] = "serving"]
    /\ down' = IF ws[s] = "open" THEN [down EXCEPT ![s] = Append(@, Snapshot(e)')]
               ELSE down
    /\ missed' = IF connections'[e] = s THEN missed \ {e} ELSE missed

\* authenticate and connect: one transaction, then the new socket takes the
\* table's entry; a previous one is closed and awaited before the endpoint is
\* registered.
Register(s) ==
    LET e == Owner(s)
        token == scenario.token[e]
        pairs == Paired(e, token) IN
    /\ ws[s] = "open" /\ handler[s] = "unregistered"
    /\ pairs \/ Authenticated(e, token) \/ Grandfathered(e, token)
    /\ credentials' = IF pairs THEN [credentials EXCEPT ![e] = token] ELSE credentials
    /\ codes' = IF pairs THEN [codes EXCEPT ![token] = "past"] ELSE codes
    /\ assignments' = IF pairs THEN [assignments EXCEPT ![e] = CodeArea[token]]
                      ELSE assignments
    /\ admitted' = IF credentials'[e] = NoCode THEN admitted ELSE admitted \cup {e}
    /\ Connect(s)
    /\ UNCHANGED <<scenario, choices, level, fanout, task, ws, up, shown, refused,
                   commands>>
    /\ IF Reachable(e)
         THEN /\ handler' = [handler EXCEPT ![s] = "replacing"]
              /\ UNCHANGED <<memory, down, missed>>
         ELSE RegisterEndpoint(s, assignments')

\* The panel may try again, on this link or the next.
Reject(s) ==
    LET e == Owner(s)
        token == scenario.token[e] IN
    /\ ws[s] = "open" /\ handler[s] = "unregistered"
    /\ ~ (Authenticated(e, token) \/ Paired(e, token) \/ Grandfathered(e, token))
    /\ refused' = IF e \in admitted THEN refused \cup {e} ELSE refused
    /\ UNCHANGED <<scenario, tables, memory, level, fanout, task, handler, links,
                   admitted, commands, missed>>

\* Mutant: the area stays what the registry has.
PreviousClosedKeepingArea(s) ==
    /\ handler[s] = "replacing"
    /\ UNCHANGED <<scenario, tables, level, fanout, task, connections, ws, up,
                   shown, admitted, refused, commands>>
    /\ RegisterEndpoint(s, IF Owner(s) \in Range(known) THEN area ELSE assignments)

\* The previous socket is closed; meanwhile the panel may have been moved.
PreviousClosed(s) ==
    /\ handler[s] = "replacing"
    /\ UNCHANGED <<scenario, tables, level, fanout, task, connections, ws, up,
                   shown, admitted, refused, commands>>
    /\ RegisterEndpoint(s, assignments)

\* The handler's receive ends.
Leave(s) ==
    /\ ws[s] = "dead" /\ handler[s] \in {"unregistered", "serving"}
    /\ handler' = [handler EXCEPT ![s] = IF IsCurrent(s) THEN "leaving" ELSE "done"]
    /\ Disconnect(s)
    /\ UNCHANGED <<scenario, tables, memory, level, fanout, task, ws, down, up,
                   shown, admitted, refused, commands, missed>>

\* After its calls are closed, the endpoint is marked offline, whichever
\* socket speaks for it by then.  If one does, it is sent nothing until the
\* endpoint registers again.
MarkOffline(s) ==
    /\ handler[s] = "leaving"
    /\ handler' = [handler EXCEPT ![s] = "done"]
    /\ online' = [online EXCEPT ![Owner(s)] = FALSE]
    /\ missed' = IF Reachable(Owner(s)) THEN missed \cup {Owner(s)} ELSE missed
    /\ UNCHANGED <<scenario, tables, known, area, level, fanout, task, links,
                   admitted, refused, commands>>

\* The process ends; the database and the levels come back.
Restart ==
    /\ scenario.restarts > 0
    /\ scenario' = [scenario EXCEPT !.restarts = @ - 1]
    /\ known' = <<>> /\ online' = [e \in Endpoints |-> FALSE]
    /\ area' = [e \in Endpoints |-> NoArea]
    /\ fanout' = Idle /\ missed' = {}
    /\ task' = [u \in Tasks |-> IF task[u] \in {"assigned", "arranged"} THEN "gone"
                                ELSE task[u]]
    /\ connections' = [e \in Endpoints |-> NoSocket]
    /\ ws' = [s \in Sockets |-> IF ws[s] = "unopened" THEN "unopened" ELSE "dead"]
    /\ handler' = [s \in Sockets |-> IF ws[s] = "unopened" THEN handler[s] ELSE "done"]
    /\ down' = [s \in Sockets |-> <<>>] /\ up' = down'
    /\ UNCHANGED <<tables, level, shown, admitted, refused, commands>>

-----------------------------------------------------------------------------
(* Management                                                              *)

\* endpoint_assignment_service.assign
Assign(u) ==
    LET update == scenario.updates[u]
        e == update.id IN
    /\ task[u] = "new"
    /\ UNCHANGED <<scenario, codes, credentials, choices, known, online, level,
                   fanout, handler, ws, up, shown, admitted, refused, commands>>
    /\ IF e \notin Range(known)
         THEN /\ task' = [task EXCEPT ![u] = "refused"]
              /\ UNCHANGED <<assignments, area, connections, down, missed>>
         ELSE /\ task' = [task EXCEPT ![u] = IF update.full THEN "assigned" ELSE "saved"]
              /\ assignments' = [assignments EXCEPT ![e] = update.area]
              /\ area' = [area EXCEPT ![e] = update.area]
              /\ SendDashboard(e)

\* replace_exclusions, in the area the panel has by now: what is chosen for
\* the entities of other areas is kept.
ReplaceExclusions(u) ==
    LET update == scenario.updates[u]
        e == update.id
        eligible == Eligible(e)
        order == IF update.order = <<>> THEN Sorted(eligible, pinned[e], rank[e])
                 ELSE update.order IN
    /\ task[u] = "assigned"
    /\ UNCHANGED <<scenario, codes, credentials, assignments, memory, level, fanout,
                   handler, ws, up, shown, admitted, refused, commands>>
    /\ IF /\ update.hide \subseteq eligible /\ update.pin \subseteq eligible
          /\ Range(order) = eligible /\ IsInjective(order)
         THEN /\ task' = [task EXCEPT ![u] = "arranged"]
              /\ hidden' = [hidden EXCEPT ![e] = (@ \ eligible) \cup update.hide]
              /\ pinned' = [pinned EXCEPT ![e] = (@ \ eligible) \cup update.pin]
              /\ rank' = [rank EXCEPT ![e] = [x \in Entities |->
                            IF x \in eligible THEN CHOOSE i \in DOMAIN order : order[i] = x
                            ELSE @[x]]]
              /\ SendDashboard(e)
         ELSE /\ task' = [task EXCEPT ![u] = "refused"]
              /\ UNCHANGED <<choices, connections, down, missed>>

\* endpoint_display_preferences_service.save; the preferences themselves are
\* left out.
SaveDisplay(u) ==
    /\ task[u] = "arranged"
    /\ task' = [task EXCEPT ![u] = "saved"]
    /\ UNCHANGED <<scenario, tables, memory, level, fanout, handler, ws, up, shown,
                   admitted, refused, commands>>
    /\ SendDashboard(scenario.updates[u].id)

-----------------------------------------------------------------------------
(* The panel and its controls                                              *)

Deliver(s) ==
    /\ ws[s] = "open" /\ down[s] # <<>>
    /\ shown' = [shown EXCEPT ![Owner(s)] = Head(down[s])]
    /\ down' = [down EXCEPT ![s] = Tail(@)]
    /\ UNCHANGED <<scenario, tables, memory, level, fanout, task, handler,
                   connections, ws, up, admitted, refused, commands, missed>>

\* A control of an item of either list.
Press(s, item, press) ==
    /\ ws[s] = "open" /\ scenario.presses > 0
    /\ item \in Range(shown[Owner(s)].items) \cup Range(shown[Owner(s)].media)
    /\ press \in {"activate"} \cup Takes[KindOf[item.entity]]
    /\ scenario' = [scenario EXCEPT !.presses = @ - 1]
    /\ up' = [up EXCEPT ![s] = Append(@, [entity |-> item.entity, press |-> press])]
    /\ UNCHANGED <<tables, memory, level, fanout, task, handler, connections, ws,
                   down, shown, admitted, refused, commands, missed>>

\* Mutant: without the limits.
TargetUnbounded(x, press) ==
    CASE press = "up" -> level[x] + 1
      [] press = "down" -> level[x] - 1
      [] press = "next" -> IF level[x] = High THEN Low ELSE level[x] + 1
      [] OTHER -> level[x]

\* What a control asks of entity x, by the level the core knows; a light's
\* brightness does not go to off.
Target(x, press) ==
    LET least == IF KindOf[x] = "light" THEN Low + 1 ELSE Low IN
    CASE press = "up" -> Min({High, level[x] + 1})
      [] press = "down" -> Max({least, level[x] - 1})
      [] press = "next" -> IF level[x] = High THEN Low ELSE level[x] + 1
      [] OTHER -> level[x]

CommandFor(x, press) ==
    LET off == level[x] = Low IN
    IF press # "activate" THEN "set"
    ELSE CASE KindOf[x] = "climate" -> IF off THEN "turn_on" ELSE "turn_off"
           [] KindOf[x] = "lock" -> IF off THEN "unlock" ELSE "lock"
           [] KindOf[x] = "scene" -> "turn_on"
           [] KindOf[x] = "button" -> "press"
           [] OTHER -> "toggle"

\* handle_dashboard_activate, for a panel that is registered or not yet: the
\* command is published, whatever becomes of it; an entity outside the panel's
\* present area is rejected.
HandlePress(s) ==
    LET x == Head(up[s]).entity
        press == Head(up[s]).press IN
    /\ up[s] # <<>> /\ handler[s] \in {"unregistered", "serving"}
    /\ up' = [up EXCEPT ![s] = Tail(@)]
    /\ commands' = IF x \in Eligible(Owner(s))
                     THEN commands \cup {[entity |-> x, command |-> CommandFor(x, press),
                                          level |-> Target(x, press)]}
                     ELSE commands
    /\ UNCHANGED <<scenario, tables, memory, level, fanout, task, handler,
                   connections, ws, down, shown, admitted, refused, missed>>

-----------------------------------------------------------------------------
(* Specification                                                           *)

Socket(s) ==
    \/ Open(s) \/ Lose(s) \/ Notice(s) \/ Register(s) \/ Reject(s)
    \/ PreviousClosed(s) \/ Leave(s) \/ MarkOffline(s)
    \/ Deliver(s) \/ HandlePress(s)
    \/ \E item \in Items, p \in Presses : Press(s, item, p)

Management(u) == Assign(u) \/ ReplaceExclusions(u) \/ SaveDisplay(u)

Next ==
    \/ \E c \in Codes : CreateCode(c) \/ ExpireCode(c)
    \/ \E x \in Entities, v \in Levels : ChangeLevel(x, v)
    \/ NextPanel
    \/ \E s \in Sockets : Socket(s)
    \/ \E u \in Tasks : Management(u)
    \/ Restart

Spec == Init /\ [][Next]_vars

-----------------------------------------------------------------------------
(* Properties                                                              *)

\* When nothing is on its way, a panel that is served and known to be online
\* shows the area it is assigned to, with the present levels and choices, and
\* in their order: no update, no level that changes, no registration and no
\* reconnect that crosses another leaves an older dashboard on the screen.
\* Only a panel that joins while the loop of a level runs keeps the others
\* from hearing of it, and one that a superseded socket marks offline hears of
\* nothing (even if another superseded socket marks it online again) until it
\* registers.
ShownIsCurrent ==
    \A s \in Sockets :
        LET e == Owner(s) IN
        /\ ws[s] = "open" /\ IsCurrent(s) /\ handler[s] = "serving" /\ online[e]
        /\ down[s] = <<>> /\ fanout = Idle /\ e \notin missed
        => shown[e] = Snapshot(e) /\ area[e] = assignments[e]

\* A panel that was accepted with its code, and keeps it, is accepted for good:
\* after the code is used or expires, after moves and restarts; and a code
\* admits one panel.
AcceptedComesBack ==
    /\ refused = {}
    /\ \A d, e \in Endpoints :
         credentials[d] = credentials[e] => d = e \/ credentials[e] = NoCode
=============================================================================
