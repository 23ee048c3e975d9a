------------------------- MODULE NotificationProofs -------------------------
(***************************************************************************)
(* Theorems about Notification, for any endpoints, requests, links and     *)
(* lost messages: types, that a notification has one outcome, that what    *)
(* counts as finished is on no screen, that a script runs once and in      *)
(* time, and that the whole keeps the delivery book.                       *)
(***************************************************************************)
EXTENDS Notification, TLAPS, SequenceTheorems

-----------------------------------------------------------------------------
(* Queues                                                                  *)

Has(q, S) == \E i \in DOMAIN q : q[i] \in S

Once(q, S) == \A i, j \in DOMAIN q : q[i] \in S /\ q[j] \in S => i = j

\* What of S and what of T are in the queue are in this order.
Before(q, S, T) == \A i, j \in DOMAIN q : q[i] \in S /\ q[j] \in T => i < j

LEMMA Empty ==
    ASSUME NEW S, NEW T
    PROVE  ~ Has(<<>>, S) /\ Once(<<>>, S) /\ Before(<<>>, S, T)
<1>1. DOMAIN <<>> = {}
    OBVIOUS
<1> QED
  BY <1>1 DEF Has, Once, Before

LEMMA Appended ==
    ASSUME NEW M, NEW q \in Seq(M), NEW m \in M, NEW S
    PROVE  /\ Append(q, m) \in Seq(M) /\ Len(Append(q, m)) = Len(q) + 1
           /\ Has(Append(q, m), S) <=> (Has(q, S) \/ m \in S)
           /\ m \notin S => (Once(q, S) => Once(Append(q, m), S))
           /\ ~ Has(q, S) => Once(Append(q, m), S)
           /\ \A T : /\ Before(q, S, T) /\ m \notin S => Before(Append(q, m), S, T)
                     /\ ~ Has(q, T) /\ m \notin T => Before(Append(q, m), S, T)
<1> DEFINE n == Len(q)
           r == Append(q, m)
<1>1. /\ n \in Nat /\ DOMAIN q = 1 .. n /\ r \in Seq(M) /\ DOMAIN r = 1 .. n + 1
      /\ Len(r) = n + 1 /\ r[n + 1] = m /\ \A i \in 1 .. n : r[i] = q[i]
    BY AppendProperties, LenProperties
<1> HIDE DEF n, r
<1>2. \A i \in 1 .. n + 1 : i = n + 1 \/ i \in 1 .. n
    BY <1>1
<1>3. n + 1 \in 1 .. n + 1 /\ \A i \in 1 .. n : i \in 1 .. n + 1 /\ i < n + 1
    BY <1>1
<1>4. \A U : Has(r, U) <=> (Has(q, U) \/ m \in U)
    BY <1>1, <1>2, <1>3 DEF Has
<1>5. m \notin S => (Once(q, S) => Once(r, S))
    BY <1>1, <1>2, <1>3 DEF Once
<1>6. ~ Has(q, S) => Once(r, S)
    BY <1>1, <1>2, <1>3 DEF Once, Has
<1>7. \A T : Before(q, S, T) /\ m \notin S => Before(r, S, T)
    BY <1>1, <1>2, <1>3 DEF Before
<1>8. \A T : ~ Has(q, T) /\ m \notin T => Before(r, S, T)
    BY <1>4 DEF Before, Has
<1> QED
  BY <1>1, <1>4, <1>5, <1>6, <1>7, <1>8 DEF n, r

LEMMA Taken ==
    ASSUME NEW M, NEW q \in Seq(M), q # <<>>, NEW S
    PROVE  /\ Head(q) \in M /\ Tail(q) \in Seq(M) /\ Len(Tail(q)) <= Len(q)
           /\ Head(q) \in S => Has(q, S)
           /\ Has(Tail(q), S) => Has(q, S)
           /\ Has(q, S) => Head(q) \in S \/ Has(Tail(q), S)
           /\ Once(q, S) => Once(Tail(q), S)
           /\ Once(q, S) /\ Head(q) \in S => ~ Has(Tail(q), S)
           /\ \A T : Before(q, S, T) => /\ Before(Tail(q), S, T)
                                        /\ Head(q) \in T => ~ Has(Tail(q), S)
<1> DEFINE n == Len(q)
           r == Tail(q)
<1>1. /\ n \in Nat \ {0} /\ DOMAIN q = 1 .. n /\ r \in Seq(M) /\ DOMAIN r = 1 .. n - 1
      /\ Len(r) = n - 1 /\ Head(q) = q[1] /\ Head(q) \in M
      /\ \A i \in 1 .. n - 1 : r[i] = q[i + 1]
    BY EmptySeq, HeadTailProperties, LenProperties
<1> HIDE DEF n, r
<1>2. 1 \in 1 .. n /\ \A i \in 1 .. n - 1 : i + 1 \in 1 .. n /\ i + 1 # 1 /\ ~ (i + 1 < 1)
    BY <1>1
<1>3. Head(q) \in S => Has(q, S)
    BY <1>1, <1>2 DEF Has
<1>4. Has(r, S) => Has(q, S)
    BY <1>1, <1>2 DEF Has
<1>5. Once(q, S) => Once(r, S)
  <2> SUFFICES ASSUME Once(q, S), NEW i \in 1 .. n - 1, NEW j \in 1 .. n - 1,
                      r[i] \in S, r[j] \in S
               PROVE  i = j
      BY <1>1 DEF Once
  <2>1. i + 1 = j + 1
      BY <1>1, <1>2 DEF Once
  <2> QED
    BY <2>1
<1>6. Once(q, S) /\ Head(q) \in S => ~ Has(r, S)
    BY <1>1, <1>2 DEF Once, Has
<1>7. ASSUME NEW T, Before(q, S, T)
      PROVE  Before(r, S, T) /\ (Head(q) \in T => ~ Has(r, S))
  <2>1. Before(r, S, T)
    <3> SUFFICES ASSUME NEW i \in 1 .. n - 1, NEW j \in 1 .. n - 1, r[i] \in S, r[j] \in T
                 PROVE  i < j
        BY <1>1 DEF Before
    <3>1. i + 1 < j + 1
        BY <1>1, <1>2, <1>7 DEF Before
    <3> QED
      BY <3>1
  <2>2. Head(q) \in T => ~ Has(r, S)
      BY <1>1, <1>2, <1>7 DEF Before, Has
  <2> QED
    BY <2>1, <2>2
<1>8. Has(q, S) => Head(q) \in S \/ Has(r, S)
  <2> SUFFICES ASSUME NEW i \in 1 .. n, q[i] \in S, i # 1
               PROVE  Has(r, S)
      BY <1>1 DEF Has
  <2>1. i - 1 \in 1 .. n - 1 /\ (i - 1) + 1 = i
      BY <1>1
  <2>2. r[i - 1] \in S
      BY <1>1, <2>1
  <2> QED
    BY <1>1, <2>1, <2>2 DEF Has
<1> QED
  BY <1>1, <1>3, <1>4, <1>5, <1>6, <1>7, <1>8 DEF n, r

-----------------------------------------------------------------------------
(* Types                                                                   *)

Statuses == Terminal \cup Interim
ChannelMaps == UNION {[C -> Statuses] : C \in SUBSET {"visual", "audio"}}
Logged == [kind : KindType, actor : SUBSET Endpoints,
           channels : UNION {[T -> ChannelMaps] : T \in SUBSET Endpoints}]
Doing == [pc : {"showing", "playing", "done", "failed"} \cup Speech, left : SUBSET Endpoints]

\* What TypeOK says of a delivery, and whom its task is about to show it to.
WellLogged(d) ==
    /\ log[d].kind \in Range(Requests)
    /\ \A e \in DOMAIN log[d].channels :
         /\ DOMAIN log[d].channels[e] = Channel(log[d].kind, e)
         /\ \A c \in DOMAIN log[d].channels[e] :
              log[d].channels[e][c] \in Outcomes[c] \cup Interim
    /\ log[d].actor \subseteq DOMAIN log[d].channels
    /\ task[d].left \subseteq DOMAIN log[d].channels
    /\ task[d].pc = "showing" => task[d].left \subseteq With(d, "visual")

LogTypes ==
    /\ scenario \in Scenarios
    /\ next \in Nat /\ Len(log) <= next /\ next <= Len(Requests)
    /\ log \in Seq(Logged) /\ task \in Seq(Doing) /\ Len(task) = Len(log)
    /\ \A d \in Deliveries : WellLogged(d)

\* A handler that awaits a command has a delivery and a panel to record.
HandlerTypes ==
    /\ handler \in [Sockets ->
                      [pc : {"unregistered", "serving", "leaving", "done"},
                       delivery : {0}]
                        \cup [pc : {"activating"}, delivery : Ids]]
    /\ \A s \in Sockets : handler[s].pc = "activating" =>
         /\ handler[s].delivery \in Deliveries
         /\ Owner(s) \in DOMAIN log[handler[s].delivery].channels

LinkTypes ==
    /\ ConnectionTypeOK
    /\ online \in [Endpoints -> BOOLEAN]
    /\ stops \in 0 .. scenario.stops

DownTypes == down \in [Sockets -> Seq(Commands)]
UpTypes == up \in [Sockets -> Seq(Reports)]

ScreenTypes ==
    /\ overlay \in [Endpoints -> 0 .. MaxNotifications]
    /\ pending \in [Endpoints -> Seq(Ids)]
    /\ \A e \in Endpoints : Len(pending[e]) <= MaxPending
    /\ swept \in [Endpoints -> SUBSET Ids] /\ unsaid \in [Endpoints -> SUBSET Ids]
    /\ pressed \in [Endpoints -> BOOLEAN]

SoundTypes ==
    /\ sound \in [Endpoints -> [Ids -> {"none", "queued", "playing", "over"}]]
    /\ reply \in [Endpoints -> 0 .. MaxNotifications]

RanTypes == ran \in [Ids \X Endpoints -> Nat]

Typed ==
    /\ LogTypes /\ HandlerTypes /\ LinkTypes /\ DownTypes /\ UpTypes
    /\ ScreenTypes /\ SoundTypes /\ RanTypes

LEMMA TypedImplies == Typed => TypeOK
<1> SUFFICES ASSUME Typed PROVE TypeOK
    OBVIOUS
<1>1. /\ ConnectionTypeOK /\ online \in [Endpoints -> BOOLEAN]
      /\ Len(log) <= next /\ next <= Len(Requests) /\ Len(task) = Len(log)
      /\ scenario \in Scenarios /\ stops \in 0 .. scenario.stops
      /\ handler \in [Sockets ->
                        [pc : {"unregistered", "serving", "leaving", "done"},
                         delivery : {0}]
                          \cup [pc : {"activating"}, delivery : Ids]]
    BY Zenon DEF Typed, LogTypes, LinkTypes, HandlerTypes
<1>2. ASSUME NEW d \in Deliveries
      PROVE  /\ log[d].kind \in Range(Requests)
             /\ \A e \in DOMAIN log[d].channels :
                  /\ DOMAIN log[d].channels[e] = Channel(log[d].kind, e)
                  /\ \A c \in DOMAIN log[d].channels[e] :
                       log[d].channels[e][c] \in Outcomes[c] \cup Interim
             /\ log[d].actor \subseteq DOMAIN log[d].channels
             /\ task[d] \in [pc : {"showing", "playing", "done", "failed"} \cup Speech,
                             left : SUBSET DOMAIN log[d].channels]
  <2>1. WellLogged(d) /\ task \in Seq(Doing) /\ d \in 1 .. Len(task)
      BY DEF Typed, LogTypes, Deliveries
  <2>2. task[d] \in Doing
      BY <2>1, ElementOfSeq
  <2>3. task[d] \in [pc : {"showing", "playing", "done", "failed"} \cup Speech,
                     left : SUBSET DOMAIN log[d].channels]
      BY <2>1, <2>2 DEF Doing, WellLogged
  <2> QED
    BY <2>1, <2>3, Zenon DEF WellLogged
<1>3. /\ down \in [Sockets -> Seq(Commands)] /\ up \in [Sockets -> Seq(Reports)]
      /\ overlay \in [Endpoints -> 0 .. MaxNotifications]
      /\ pending \in [Endpoints -> Seq(Ids)]
      /\ \A e \in Endpoints : Len(pending[e]) <= MaxPending
      /\ sound \in [Endpoints -> [Ids -> {"none", "queued", "playing", "over"}]]
      /\ reply \in [Endpoints -> 0 .. MaxNotifications]
      /\ ran \in [Ids \X Endpoints -> Nat]
      /\ swept \in [Endpoints -> SUBSET Ids] /\ unsaid \in [Endpoints -> SUBSET Ids]
      /\ pressed \in [Endpoints -> BOOLEAN]
    BY DEF Typed, DownTypes, UpTypes, ScreenTypes, SoundTypes, RanTypes
<1> QED
  BY <1>1, <1>2, <1>3, Zenon DEF TypeOK

LEMMA Constants ==
    /\ Ids' = Ids /\ Sockets' = Sockets /\ LinkStates' = LinkStates
    /\ Commands' = Commands /\ Outcomes' = Outcomes /\ Interim' = Interim
    /\ Reports' = Reports /\ Terminal' = Terminal /\ Statuses' = Statuses
    /\ Logged' = Logged /\ Doing' = Doing
    /\ \A k, e : Channel(k, e)' = Channel(k, e)
    /\ \A s : Owner(s)' = Owner(s)
<1>1. Ids' = Ids /\ Sockets' = Sockets /\ LinkStates' = LinkStates
    BY DEF Ids, Sockets, LinkStates
<1>2. Commands' = Commands /\ Outcomes' = Outcomes /\ Interim' = Interim
    BY <1>1 DEF Commands, Outcomes, Interim
<1>3. Reports' = Reports /\ Terminal' = Terminal /\ Statuses' = Statuses
    BY <1>1, <1>2 DEF Reports, Terminal, Statuses
<1>4. Logged' = Logged /\ Doing' = Doing
    BY <1>3 DEF Logged, Doing, KindType, ChannelMaps, Speech
<1>5. \A k, e : Channel(k, e)' = Channel(k, e)
    BY DEF Channel
<1>6. \A s : Owner(s)' = Owner(s)
    BY DEF Owner
<1> QED
  BY <1>1, <1>2, <1>3, <1>4, <1>5, <1>6

LEMMA Owners == \A s \in Sockets : Owner(s) \in Endpoints
BY DEF Sockets, Owner

LEMMA PartsKept ==
    /\ LogTypes /\ UNCHANGED <<scenario, next, log, task>> => LogTypes'
    /\ HandlerTypes /\ UNCHANGED <<handler, log>> => HandlerTypes'
    /\ LinkTypes /\ UNCHANGED <<connections, ws, online, stops, scenario>> => LinkTypes'
    /\ DownTypes /\ UNCHANGED down => DownTypes'
    /\ UpTypes /\ UNCHANGED up => UpTypes'
    /\ ScreenTypes /\ UNCHANGED screen => ScreenTypes'
    /\ SoundTypes /\ UNCHANGED <<sound, reply>> => SoundTypes'
    /\ RanTypes /\ UNCHANGED ran => RanTypes'
<1>1. LogTypes /\ UNCHANGED <<scenario, next, log, task>> => LogTypes'
    BY Constants DEF LogTypes, WellLogged, Requests, Deliveries, With
<1>2. HandlerTypes /\ UNCHANGED <<handler, log>> => HandlerTypes'
    BY Constants DEF HandlerTypes, Deliveries
<1>3. LinkTypes /\ UNCHANGED <<connections, ws, online, stops, scenario>> => LinkTypes'
    BY Constants DEF LinkTypes, ConnectionTypeOK
<1>4. DownTypes /\ UNCHANGED down => DownTypes'
    BY Constants DEF DownTypes
<1>5. UpTypes /\ UNCHANGED up => UpTypes'
    BY Constants DEF UpTypes
<1>6. ScreenTypes /\ UNCHANGED screen => ScreenTypes'
    BY Constants DEF ScreenTypes, screen
<1>7. SoundTypes /\ UNCHANGED <<sound, reply>> => SoundTypes'
    BY Constants DEF SoundTypes
<1>8. RanTypes /\ UNCHANGED ran => RanTypes'
    BY Constants DEF RanTypes
<1> QED
  BY <1>1, <1>2, <1>3, <1>4, <1>5, <1>6, <1>7, <1>8

LEMMA TypedInit == Init => Typed
<1> SUFFICES ASSUME Init PROVE Typed
    OBVIOUS
<1>1. \A S : <<>> \in Seq(S) /\ Len(<<>>) = 0
    BY EmptySeq
<1>2. LogTypes
  <2>1. scenario \in Scenarios /\ Len(Requests) \in Nat /\ next = 0 /\ log = <<>> /\ task = <<>>
      BY NotificationAssumption, LenProperties DEF Init, ScenarioType, Requests
  <2>2. Deliveries = {}
      BY <1>1, <2>1 DEF Deliveries
  <2> QED
    BY <1>1, <2>1, <2>2 DEF LogTypes
<1>3. HandlerTypes
    BY DEF Init, HandlerTypes, At
<1>4. LinkTypes
  <2>1. \A e \in Endpoints : <<e, 1>> \in Sockets
      BY MaxReconnectsAssumption DEF Sockets
  <2>2. scenario.stops \in Nat
      BY NotificationAssumption DEF Init, ScenarioType
  <2> QED
    BY <2>1, <2>2 DEF Init, LinkTypes, ConnectionTypeOK, LinkStates
<1>5. DownTypes /\ UpTypes
    BY <1>1 DEF Init, DownTypes, UpTypes
<1>6. ScreenTypes
    BY <1>1, NotificationAssumption DEF Init, ScreenTypes
<1>7. SoundTypes /\ RanTypes
    BY NotificationAssumption DEF Init, SoundTypes, RanTypes
<1> QED
  BY <1>2, <1>3, <1>4, <1>5, <1>6, <1>7 DEF Typed

-----------------------------------------------------------------------------
(* What a step does to the deliveries                                      *)

LEMMA DeliveriesAreIds ==
    LogTypes => /\ Deliveries \subseteq Ids /\ Deliveries \subseteq Nat \ {0}
                /\ Len(log) \in Nat /\ Len(Requests) \in Nat /\ Requests \in Seq(KindType)
                /\ scenario.stops \in Nat /\ Len(Requests) <= MaxNotifications
<1> SUFFICES ASSUME LogTypes
             PROVE  /\ Deliveries \subseteq Ids /\ Deliveries \subseteq Nat \ {0}
                    /\ Len(log) \in Nat /\ Len(Requests) \in Nat /\ Requests \in Seq(KindType)
                    /\ scenario.stops \in Nat /\ Len(Requests) <= MaxNotifications
    OBVIOUS
<1>1. Requests \in Seq(KindType) /\ Len(Requests) <= MaxNotifications /\ scenario.stops \in Nat
    BY NotificationAssumption DEF LogTypes, ScenarioType, Requests
<1>2. Len(log) \in Nat /\ Len(Requests) \in Nat /\ Len(log) <= Len(Requests)
  <2>1. Len(log) \in Nat /\ Len(Requests) \in Nat
      BY <1>1, LenProperties DEF LogTypes
  <2> QED
    BY <2>1 DEF LogTypes
<1> QED
  BY <1>1, <1>2, NotificationAssumption DEF Deliveries, Ids

\* Deliveries are never dropped, and have their targets and channels for good.
Grows ==
    /\ Deliveries \subseteq Deliveries'
    /\ \A d \in Deliveries :
         /\ log'[d].kind = log[d].kind
         /\ DOMAIN log'[d].channels = DOMAIN log[d].channels
         /\ \A e \in DOMAIN log[d].channels :
              DOMAIN log'[d].channels[e] = DOMAIN log[d].channels[e]

LEMMA HandlerKept == HandlerTypes /\ Grows /\ handler' = handler => HandlerTypes'
<1> SUFFICES ASSUME HandlerTypes, Grows, handler' = handler PROVE HandlerTypes'
    OBVIOUS
<1>1. ASSUME NEW s \in Sockets, handler[s].pc = "activating"
      PROVE  /\ handler[s].delivery \in Deliveries'
             /\ Owner(s) \in DOMAIN log'[handler[s].delivery].channels
    BY <1>1 DEF HandlerTypes, Grows
<1> QED
  BY <1>1, Constants DEF HandlerTypes

LEMMA ChannelsOf ==
    ASSUME log \in Seq(Logged), NEW d \in 1 .. Len(log)
    PROVE  /\ log[d] \in Logged
           /\ DOMAIN log[d].channels \subseteq Endpoints
           /\ log[d].channels \in [DOMAIN log[d].channels -> ChannelMaps]
           /\ \A e \in DOMAIN log[d].channels :
                /\ DOMAIN log[d].channels[e] \subseteq {"visual", "audio"}
                /\ log[d].channels[e] \in [DOMAIN log[d].channels[e] -> Statuses]
<1>1. log[d] \in Logged
    BY ElementOfSeq
<1>2. PICK T \in SUBSET Endpoints : log[d].channels \in [T -> ChannelMaps]
    BY <1>1 DEF Logged
<1>3. ASSUME NEW e \in T
      PROVE  /\ DOMAIN log[d].channels[e] \subseteq {"visual", "audio"}
             /\ log[d].channels[e] \in [DOMAIN log[d].channels[e] -> Statuses]
  <2>1. log[d].channels[e] \in ChannelMaps
      BY <1>2
  <2>2. PICK C \in SUBSET {"visual", "audio"} : log[d].channels[e] \in [C -> Statuses]
      BY <2>1 DEF ChannelMaps
  <2>3. DOMAIN log[d].channels[e] = C
      BY <2>2
  <2> QED
    BY <2>2, <2>3
<1> QED
  BY <1>1, <1>2, <1>3

LEMMA LogUpdated ==
    ASSUME log \in Seq(Logged), NEW d \in 1 .. Len(log), NEW e \in DOMAIN log[d].channels,
           NEW c \in DOMAIN log[d].channels[e], NEW status \in Statuses,
           log' = [log EXCEPT ![d].channels[e][c] = status]
    PROVE  /\ log' \in Seq(Logged) /\ Len(log') = Len(log) /\ Grows
           /\ \A b \in 1 .. Len(log) :
                /\ log'[b].actor = log[b].actor
                /\ \A f \in DOMAIN log[b].channels, x \in {"visual", "audio"} :
                     x \in DOMAIN log[b].channels[f] =>
                       log'[b].channels[f][x] =
                         IF b = d /\ f = e /\ x = c THEN status ELSE log[b].channels[f][x]
<1> DEFINE map == [log[d].channels[e] EXCEPT ![c] = status]
           maps == [log[d].channels EXCEPT ![e] = map]
           entry == [log[d] EXCEPT !.channels = maps]
<1>1. log' = [log EXCEPT ![d] = entry]
    OBVIOUS
<1>2. /\ log[d] \in Logged /\ log[d].channels \in [DOMAIN log[d].channels -> ChannelMaps]
      /\ DOMAIN log[d].channels \subseteq Endpoints
      /\ DOMAIN log[d].channels[e] \subseteq {"visual", "audio"}
      /\ log[d].channels[e] \in [DOMAIN log[d].channels[e] -> Statuses]
    BY ChannelsOf
<1>3. /\ map \in ChannelMaps /\ DOMAIN map = DOMAIN log[d].channels[e]
      /\ \A x \in DOMAIN log[d].channels[e] :
           map[x] = IF x = c THEN status ELSE log[d].channels[e][x]
  <2>1. map \in [DOMAIN log[d].channels[e] -> Statuses]
      BY <1>2
  <2> QED
    BY <1>2, <2>1 DEF ChannelMaps
<1> HIDE DEF map
<1>4. /\ maps \in [DOMAIN log[d].channels -> ChannelMaps]
      /\ \A f \in DOMAIN log[d].channels : maps[f] = IF f = e THEN map ELSE log[d].channels[f]
    BY <1>2, <1>3
<1> HIDE DEF maps
<1>5. /\ entry \in Logged /\ entry.channels = maps /\ entry.kind = log[d].kind
      /\ entry.actor = log[d].actor
  <2>1. PICK T \in SUBSET Endpoints : T = DOMAIN log[d].channels
      BY <1>2
  <2>2. maps \in UNION {[U -> ChannelMaps] : U \in SUBSET Endpoints}
      BY <1>4, <2>1
  <2> QED
    BY <1>2, <2>2 DEF Logged
<1> HIDE DEF entry
<1>6. /\ log' \in Seq(Logged) /\ Len(log') = Len(log)
      /\ \A b \in 1 .. Len(log) : log'[b] = IF b = d THEN entry ELSE log[b]
  <2>1. PICK new \in Logged : new = entry
      BY <1>5
  <2>2. log' = [log EXCEPT ![d] = new]
      BY <1>1, <2>1
  <2>3. /\ [log EXCEPT ![d] = new] \in Seq(Logged)
        /\ Len([log EXCEPT ![d] = new]) = Len(log)
        /\ \A b \in 1 .. Len(log) : [log EXCEPT ![d] = new][b] = IF b = d THEN new ELSE log[b]
      BY ExceptSeq
  <2> QED
    BY <2>1, <2>2, <2>3
<1>7. DOMAIN maps = DOMAIN log[d].channels
    BY <1>4
<1>8. Grows
  <2>1. Deliveries' = Deliveries
      BY <1>6 DEF Deliveries
  <2>2. ASSUME NEW b \in Deliveries
        PROVE  /\ log'[b].kind = log[b].kind
               /\ DOMAIN log'[b].channels = DOMAIN log[b].channels
               /\ \A f \in DOMAIN log[b].channels :
                    DOMAIN log'[b].channels[f] = DOMAIN log[b].channels[f]
    <3>1. CASE b = d
        BY <1>3, <1>4, <1>5, <1>6, <1>7, <3>1
    <3>2. CASE b # d
        BY <1>6, <3>2 DEF Deliveries
    <3> QED
      BY <3>1, <3>2
  <2> QED
    BY <2>1, <2>2 DEF Grows
<1>9. ASSUME NEW b \in 1 .. Len(log)
      PROVE  /\ log'[b].actor = log[b].actor
             /\ \A f \in DOMAIN log[b].channels, x \in {"visual", "audio"} :
                  x \in DOMAIN log[b].channels[f] =>
                    log'[b].channels[f][x] =
                      IF b = d /\ f = e /\ x = c THEN status ELSE log[b].channels[f][x]
  <2>1. CASE b = d
      BY <1>3, <1>4, <1>5, <1>6, <2>1
  <2>2. CASE b # d
      BY <1>6, <2>2
  <2> QED
    BY <2>1, <2>2
<1> QED
  BY <1>6, <1>8, <1>9

\* An entry whose targets, channels and statuses stay well stays well.
LEMMA WellKept ==
    ASSUME LogTypes, Grows, UNCHANGED <<scenario, next, task>>, Len(log') = Len(log),
           log' \in Seq(Logged),
           \A d \in Deliveries :
             /\ log'[d].actor \subseteq DOMAIN log[d].channels
             /\ \A e \in DOMAIN log[d].channels : \A c \in DOMAIN log[d].channels[e] :
                  log'[d].channels[e][c] \in Outcomes[c] \cup Interim
    PROVE  LogTypes'
<1>1. Deliveries' = Deliveries /\ Requests' = Requests
    BY DEF Deliveries, Requests
<1>2. ASSUME NEW d \in Deliveries
      PROVE  WellLogged(d)'
  <2>1. WellLogged(d) /\ log'[d].kind = log[d].kind
        /\ DOMAIN log'[d].channels = DOMAIN log[d].channels
        /\ \A e \in DOMAIN log[d].channels :
             DOMAIN log'[d].channels[e] = DOMAIN log[d].channels[e]
      BY DEF LogTypes, Grows
  <2>2. With(d, "visual")' = With(d, "visual")
      BY <2>1 DEF With
  <2> QED
    BY <1>1, <2>1, <2>2, Constants DEF WellLogged
<1> QED
  BY <1>1, <1>2, Constants DEF LogTypes

LEMMA StatusTyped ==
    ASSUME LogTypes, HandlerTypes, NEW d \in Ids, NEW e \in Endpoints,
           NEW channel \in {"visual", "audio"}, NEW status \in Outcomes[channel] \cup Interim,
           UpdateStatus(d, e, channel, status), UNCHANGED <<scenario, next, task>>
    PROVE  /\ LogTypes' /\ Grows /\ Deliveries' = Deliveries
           /\ \A b \in Deliveries : \A f \in DOMAIN log[b].channels :
                \A x \in DOMAIN log[b].channels[f] :
                  ~ (b = d /\ f = e /\ x = channel)
                    => log'[b].channels[f][x] = log[b].channels[f][x]
<1>1. CASE d \in Deliveries /\ e \in With(d, channel)
  <2>1. /\ d \in 1 .. Len(log) /\ e \in DOMAIN log[d].channels
        /\ channel \in DOMAIN log[d].channels[e] /\ log \in Seq(Logged)
      BY <1>1 DEF Deliveries, With, LogTypes
  <2>2. status \in Statuses
      BY DEF Statuses, Terminal, Outcomes
  <2>3. log' = [log EXCEPT ![d].channels[e][channel] = status]
      BY <1>1 DEF UpdateStatus
  <2>4. /\ log' \in Seq(Logged) /\ Len(log') = Len(log) /\ Grows
        /\ \A b \in 1 .. Len(log) :
             /\ log'[b].actor = log[b].actor
             /\ \A f \in DOMAIN log[b].channels, x \in {"visual", "audio"} :
                  x \in DOMAIN log[b].channels[f] =>
                    log'[b].channels[f][x] =
                      IF b = d /\ f = e /\ x = channel THEN status ELSE log[b].channels[f][x]
    <3> USE <2>1, <2>2, <2>3
    <3>1. log' \in Seq(Logged) /\ Len(log') = Len(log) /\ Grows
        BY LogUpdated
    <3>2. \A b \in 1 .. Len(log) :
            /\ log'[b].actor = log[b].actor
            /\ \A f \in DOMAIN log[b].channels, x \in {"visual", "audio"} :
                 x \in DOMAIN log[b].channels[f] =>
                   log'[b].channels[f][x] =
                     IF b = d /\ f = e /\ x = channel THEN status ELSE log[b].channels[f][x]
        BY LogUpdated
    <3> QED
      BY <3>1, <3>2
  <2>5. \A b \in Deliveries : \A f \in DOMAIN log[b].channels :
          DOMAIN log[b].channels[f] \subseteq {"visual", "audio"}
      BY <2>1, ChannelsOf DEF Deliveries
  <2>6. \A b \in Deliveries : \A f \in DOMAIN log[b].channels :
          \A x \in DOMAIN log[b].channels[f] :
            log'[b].channels[f][x] =
              IF b = d /\ f = e /\ x = channel THEN status ELSE log[b].channels[f][x]
      BY <2>4, <2>5 DEF Deliveries
  <2>7. ASSUME NEW b \in Deliveries
        PROVE  /\ log'[b].actor \subseteq DOMAIN log[b].channels
               /\ \A f \in DOMAIN log[b].channels : \A x \in DOMAIN log[b].channels[f] :
                    log'[b].channels[f][x] \in Outcomes[x] \cup Interim
    <3>1. WellLogged(b)
        BY DEF LogTypes
    <3> QED
      BY <2>4, <2>6, <3>1 DEF WellLogged, Deliveries
  <2>8. LogTypes'
      BY <2>4, <2>7, WellKept
  <2> QED
    BY <2>4, <2>6, <2>8 DEF Deliveries
<1>2. CASE ~ (d \in Deliveries /\ e \in With(d, channel))
  <2>1. log' = log
      BY <1>2 DEF UpdateStatus
  <2> QED
    BY <2>1, PartsKept DEF Grows, Deliveries
<1> QED
  BY <1>1, <1>2

LEMMA ActorRecorded ==
    ASSUME LogTypes, NEW d \in Deliveries, NEW e \in DOMAIN log[d].channels,
           log' = [log EXCEPT ![d].actor = {e}], UNCHANGED <<scenario, next, task>>
    PROVE  /\ LogTypes' /\ Grows /\ Deliveries' = Deliveries
           /\ \A b \in Deliveries : log'[b].channels = log[b].channels
<1> DEFINE entry == [log[d] EXCEPT !.actor = {e}]
<1>1. log \in Seq(Logged) /\ d \in 1 .. Len(log) /\ log' = [log EXCEPT ![d] = entry]
    BY DEF LogTypes, Deliveries
<1>2. entry \in Logged /\ entry.kind = log[d].kind /\ entry.actor = {e}
      /\ entry.channels = log[d].channels
  <2>1. log[d] \in Logged /\ DOMAIN log[d].channels \subseteq Endpoints
      BY <1>1, ChannelsOf
  <2>2. PICK old \in Logged : old = log[d]
      BY <2>1
  <2>3. {e} \in SUBSET Endpoints
      BY <2>1
  <2>4. \A A \in SUBSET Endpoints :
          LET new == [old EXCEPT !.actor = A] IN
          /\ new \in Logged
          /\ new.kind = old.kind /\ new.actor = A /\ new.channels = old.channels
      BY DEF Logged
  <2> QED
      BY <2>2, <2>3, <2>4
<1> HIDE DEF entry
<1>3. /\ log' \in Seq(Logged) /\ Len(log') = Len(log)
      /\ \A b \in 1 .. Len(log) : log'[b] = IF b = d THEN entry ELSE log[b]
  <2>1. PICK new \in Logged : new = entry
      BY <1>2
  <2>2. log' = [log EXCEPT ![d] = new]
      BY <1>1, <2>1
  <2>3. /\ [log EXCEPT ![d] = new] \in Seq(Logged)
        /\ Len([log EXCEPT ![d] = new]) = Len(log)
        /\ \A b \in 1 .. Len(log) : [log EXCEPT ![d] = new][b] = IF b = d THEN new ELSE log[b]
      BY <1>1, ExceptSeq
  <2> QED
    BY <2>1, <2>2, <2>3
<1>4. /\ Deliveries' = Deliveries
      /\ \A b \in Deliveries : log'[b].channels = log[b].channels /\ log'[b].kind = log[b].kind
      /\ \A b \in Deliveries : log'[b].actor = IF b = d THEN {e} ELSE log[b].actor
    BY <1>2, <1>3 DEF Deliveries
<1>5. Grows
    BY <1>4 DEF Grows
<1>6. \A b \in Deliveries : WellLogged(b)
    BY DEF LogTypes
<1>7. ASSUME NEW b \in Deliveries
      PROVE  /\ log'[b].actor \subseteq DOMAIN log[b].channels
             /\ \A f \in DOMAIN log[b].channels : \A x \in DOMAIN log[b].channels[f] :
                  log'[b].channels[f][x] \in Outcomes[x] \cup Interim
    BY <1>4, <1>6 DEF WellLogged
<1>8. LogTypes'
    BY <1>3, <1>5, <1>7, WellKept
<1> QED
  BY <1>4, <1>5, <1>8

LEMMA TaskChanged ==
    ASSUME LogTypes, UNCHANGED <<scenario, next, log>>, NEW d \in Deliveries, NEW x \in Doing,
           task' = [task EXCEPT ![d] = x], x.left \subseteq DOMAIN log[d].channels,
           x.pc = "showing" => x.left \subseteq With(d, "visual")
    PROVE  LogTypes' /\ \A b \in Deliveries : task'[b] = IF b = d THEN x ELSE task[b]
<1>1. /\ task' \in Seq(Doing) /\ Len(task') = Len(task) /\ d \in 1 .. Len(task)
      /\ \A b \in 1 .. Len(task) : task'[b] = IF b = d THEN x ELSE task[b]
  <2>1. task \in Seq(Doing) /\ d \in 1 .. Len(task)
      BY DEF LogTypes, Deliveries
  <2>2. /\ [task EXCEPT ![d] = x] \in Seq(Doing)
        /\ Len([task EXCEPT ![d] = x]) = Len(task)
        /\ \A b \in 1 .. Len(task) : [task EXCEPT ![d] = x][b] = IF b = d THEN x ELSE task[b]
      BY <2>1, ExceptSeq
  <2> QED
    BY <2>1, <2>2
<1>2. /\ Deliveries' = Deliveries /\ Requests' = Requests
      /\ \A b \in Deliveries : With(b, "visual")' = With(b, "visual")
      /\ \A b \in Deliveries : task'[b] = IF b = d THEN x ELSE task[b]
    BY <1>1 DEF Deliveries, Requests, With, LogTypes
<1>3. ASSUME NEW b \in Deliveries
      PROVE  WellLogged(b)'
  <2>1. WellLogged(b)
      BY DEF LogTypes
  <2> QED
    BY <1>2, <2>1, Constants DEF WellLogged
<1> QED
  BY <1>1, <1>2, <1>3, Constants DEF LogTypes

\* What notify records.
NewEntry(k) ==
    [kind |-> k, actor |-> {},
     channels |-> [e \in Targets(k) |-> [c \in Channel(k, e) |-> "sent"]]]
NewTask(k) ==
    Showing(k, Targets(k), {e \in Targets(k) : "visual" \in Channel(k, e)})

LEMMA Notified ==
    ASSUME LogTypes, Notify, log' # log
    PROVE  \E k \in Range(Requests) :
             /\ log' = Append(log, NewEntry(k)) /\ task' = Append(task, NewTask(k))
             /\ LogTypes' /\ Grows
             /\ Deliveries' = Deliveries \cup {Len(log) + 1}
             /\ Len(log) + 1 \notin Deliveries
             /\ \A b \in Deliveries : log'[b] = log[b] /\ task'[b] = task[b]
             /\ log'[Len(log) + 1] = NewEntry(k) /\ task'[Len(log) + 1] = NewTask(k)
<1>1. /\ Len(log) \in Nat /\ Requests \in Seq(KindType) /\ Len(Requests) \in Nat
      /\ log \in Seq(Logged) /\ task \in Seq(Doing) /\ Len(task) = Len(log)
      /\ next \in Nat /\ next < Len(Requests) /\ Len(log) <= next
    BY DeliveriesAreIds DEF LogTypes, Notify
<1>2. PICK k \in KindType : k = Requests[next + 1] /\ k \in Range(Requests)
  <2>1. next + 1 \in 1 .. Len(Requests) /\ DOMAIN Requests = 1 .. Len(Requests)
      BY <1>1, LenProperties
  <2> QED
    BY <1>1, <2>1, ElementOfSeq DEF Range
<1>3. log' = Append(log, NewEntry(k)) /\ task' = Append(task, NewTask(k)) /\ next' = next + 1
      /\ scenario' = scenario
    BY <1>2 DEF Notify, NewEntry, NewTask
<1>4. NewEntry(k) \in Logged
  <2> DEFINE T == Targets(k)
             maps == [e \in T |-> [c \in Channel(k, e) |-> "sent"]]
  <2>1. T \in SUBSET Endpoints
      BY DEF Targets, KindType
  <2>2. \A e \in T : [c \in Channel(k, e) |-> "sent"] \in ChannelMaps
    <3>1. \A e \in T : Channel(k, e) \in SUBSET {"visual", "audio"}
        BY DEF Channel
    <3>2. \A C : [c \in C |-> "sent"] \in [C -> Statuses]
        BY DEF Statuses, Interim
    <3> QED
      BY <3>1, <3>2 DEF ChannelMaps
  <2>3. maps \in [T -> ChannelMaps]
      BY <2>2
  <2> HIDE DEF T, maps
  <2>4. [kind |-> k, actor |-> {}, channels |-> maps] \in Logged
      BY <2>1, <2>3 DEF Logged
  <2> QED
    BY <2>4 DEF NewEntry, T, maps
<1>5. /\ NewTask(k) \in Doing /\ NewTask(k).left \subseteq Targets(k)
      /\ NewTask(k).pc = "showing" =>
           \A e \in NewTask(k).left : "visual" \in Channel(k, e)
  <2> DEFINE left == {e \in Targets(k) : "visual" \in Channel(k, e)}
  <2>1. left \in SUBSET Endpoints
      BY DEF Targets, KindType
  <2> DEFINE pc == IF left # {} THEN "showing"
                   ELSE IF \E e \in Targets(k) : "audio" \in Channel(k, e)
                     THEN "connecting" ELSE "done"
  <2>3. NewTask(k) = [pc |-> pc, left |-> left]
      BY DEF NewTask, Showing
  <2>4. pc \in {"showing", "playing", "done", "failed"} \cup Speech
      BY DEF Speech
  <2> HIDE DEF pc, left
  <2>2. NewTask(k).left = left /\ NewTask(k) \in Doing
      BY <2>1, <2>3, <2>4 DEF Doing
  <2> USE DEF left
  <2> QED
    BY <2>2
<1>6. /\ log' \in Seq(Logged) /\ Len(log') = Len(log) + 1
      /\ task' \in Seq(Doing) /\ Len(task') = Len(task) + 1
      /\ \A b \in 1 .. Len(log) : log'[b] = log[b] /\ task'[b] = task[b]
      /\ log'[Len(log) + 1] = NewEntry(k) /\ task'[Len(log) + 1] = NewTask(k)
  <2>1. PICK x \in Logged, y \in Doing : x = NewEntry(k) /\ y = NewTask(k)
      BY <1>4, <1>5
  <2>2. log' = Append(log, x) /\ task' = Append(task, y)
      BY <1>3, <2>1
  <2> QED
    BY <1>1, <2>1, <2>2, AppendProperties
<1>7. Deliveries' = Deliveries \cup {Len(log) + 1} /\ Len(log) + 1 \notin Deliveries
    BY <1>1, <1>6 DEF Deliveries
<1>8. \A b \in Deliveries : log'[b] = log[b] /\ task'[b] = task[b]
    BY <1>6 DEF Deliveries
<1>9. Grows
    BY <1>7, <1>8 DEF Grows
<1>10. LogTypes'
  <2>1. ASSUME NEW b \in Deliveries
        PROVE  WellLogged(b)'
    <3>1. WellLogged(b) /\ With(b, "visual")' = With(b, "visual") /\ Requests' = Requests
        BY <1>3, <1>8 DEF LogTypes, With, Requests
    <3> QED
      BY <1>8, <3>1, Constants DEF WellLogged
  <2>2. PICK n : n = Len(log) + 1
      OBVIOUS
  <2>3. WellLogged(n)'
    <3>2. log'[n] = NewEntry(k) /\ task'[n] = NewTask(k)
        BY <1>6, <2>2
    <3>3. /\ log'[n].kind = k /\ log'[n].actor = {}
          /\ log'[n].channels = [e \in Targets(k) |-> [c \in Channel(k, e) |-> "sent"]]
        BY <3>2 DEF NewEntry
    <3>4. task'[n].pc = "showing" => task'[n].left \subseteq With(n, "visual")'
        BY <1>5, <3>2, <3>3 DEF With
    <3> QED
      BY <1>2, <1>3, <1>5, <3>2, <3>3, <3>4, Constants DEF WellLogged, Requests, Interim
  <2>4. Requests' = Requests
      BY <1>3 DEF Requests
  <2>5. \A b \in Deliveries' : WellLogged(b)'
      BY <1>7, <2>1, <2>2, <2>3
  <2> QED
    BY <1>1, <1>3, <1>6, <2>4, <2>5, Constants DEF LogTypes
<1> QED
  BY <1>2, <1>3, <1>6, <1>7, <1>8, <1>9, <1>10

\* Without a target nothing is recorded.
LEMMA NotNotified ==
    ASSUME LogTypes, Notify, log' = log
    PROVE  task' = task
<1>1. LET k == Requests[next + 1] IN Targets(k) # {} => log' = Append(log, NewEntry(k))
    BY DEF Notify, NewEntry
<1>2. \A x : Append(log, x) # log
  <2>1. Len(log) \in Nat /\ \A x : Len(Append(log, x)) = Len(log) + 1
      BY DeliveriesAreIds DEF LogTypes
  <2> QED
    BY <2>1
<1> QED
  BY <1>1, <1>2 DEF Notify

-----------------------------------------------------------------------------
(* Every step keeps the types                                              *)

LEMMA SendSteps ==
    ASSUME LinkTypes, DownTypes, NEW e \in Endpoints, NEW type \in {"show", "play", "stop"},
           NEW d \in Ids, Send(e, type, d)
    PROVE  /\ connections' \in [Endpoints -> Sockets \cup {NoSocket}] /\ DownTypes'
           /\ \/ connections' = connections
              \/ \E s \in Sockets : ws[s] = "dead" /\ connections' = Without(s)
           /\ \/ down' = down
              \/ \E s \in Sockets :
                   /\ connections[e] = s /\ ws[s] = "open"
                   /\ down' = [down EXCEPT ![s] = Append(down[s], [type |-> type, delivery |-> d])]
<1>1. connections \in [Endpoints -> Sockets \cup {NoSocket}]
    BY DEF LinkTypes, ConnectionTypeOK
<1>2. [type |-> type, delivery |-> d] \in Commands
    BY DEF Commands
<1>3. CASE Reachable(e) /\ ws[connections[e]] = "open"
  <2>1. PICK s \in Sockets : s = connections[e]
      BY <1>1, <1>3 DEF Reachable
  <2>2. /\ connections' = connections
        /\ down' = [down EXCEPT ![s] = Append(down[s], [type |-> type, delivery |-> d])]
      BY <1>3, <2>1 DEF Send
  <2>3. Append(down[s], [type |-> type, delivery |-> d]) \in Seq(Commands)
      BY <1>2, AppendProperties DEF DownTypes
  <2>4. down' \in [Sockets -> Seq(Commands)]
      BY <2>2, <2>3 DEF DownTypes
  <2> QED
    BY <1>1, <1>3, <2>1, <2>2, <2>4, Constants DEF DownTypes
<1>4. CASE ~ (Reachable(e) /\ ws[connections[e]] = "open")
  <2>1. down' = down
      BY <1>4 DEF Send
  <2>2. \/ connections' = connections
        \/ \E s \in Sockets : ws[s] = "dead" /\ connections' = Without(s)
      BY <1>1, <1>4 DEF Send, Reachable, Returned, Delivered, Raised, Disconnect
  <2>3. connections' \in [Endpoints -> Sockets \cup {NoSocket}]
      BY <1>1, <2>2, Owners DEF Without
  <2> QED
    BY <2>1, <2>2, <2>3, PartsKept
<1> QED
  BY <1>3, <1>4

LEMMA TellTyped ==
    ASSUME UpTypes, NEW e, NEW message \in Reports, Tell(e, message)
    PROVE  UpTypes'
<1>1. \A s \in Sockets : Append(up[s], message) \in Seq(Reports)
    BY AppendProperties DEF UpTypes
<1>2. up' \in [Sockets -> Seq(Reports)]
    BY <1>1 DEF Tell, UpTypes
<1> QED
  BY <1>2, Constants DEF UpTypes

LEMMA ReportsTyped ==
    ASSUME NEW d \in Ids
    PROVE  /\ \A status \in Outcomes.visual : Report(d, "visual", status) \in Reports
           /\ \A status \in Outcomes.audio \cup Interim : Report(d, "audio", status) \in Reports
           /\ Report(d, "action", "turn_on") \in Reports
BY DEF Report, Reports

\* What could not be reported is remembered.
LEMMA ConcludeTyped ==
    ASSUME UpTypes, ScreenTypes, NEW e \in Endpoints, NEW d \in Ids,
           NEW status \in Outcomes.visual, Conclude(e, d, status)
    PROVE  /\ UpTypes' /\ unsaid' \in [Endpoints -> SUBSET Ids]
           /\ Tell(e, Report(d, "visual", status))
<1>1. Tell(e, Report(d, "visual", status)) /\ Report(d, "visual", status) \in Reports
    BY ReportsTyped DEF Conclude
<1>2. unsaid' \in [Endpoints -> SUBSET Ids]
    BY DEF Conclude, ScreenTypes
<1> QED
  BY <1>1, <1>2, TellTyped

\* A message that is read is of its type, and the queue without it too.
LEMMA ArrivesTyped ==
    ASSUME DownTypes, NEW s \in Sockets, NEW type, Arrives(s, type)
    PROVE  /\ DownTypes' /\ down' = [down EXCEPT ![s] = Tail(down[s])]
           /\ Head(down[s]) \in Commands /\ Head(down[s]).delivery \in Ids
           /\ Head(down[s]).type = type
<1>1. down[s] \in Seq(Commands) /\ down[s] # <<>> /\ Head(down[s]).type = type
    BY DEF Arrives, DownTypes
<1>2. Head(down[s]) \in Commands /\ Tail(down[s]) \in Seq(Commands)
    BY <1>1, HeadTailProperties
<1>3. down' = [down EXCEPT ![s] = Tail(down[s])]
    BY DEF Arrives
<1> QED
  BY <1>1, <1>2, <1>3, Constants DEF DownTypes, Commands

LEMMA ReceivesTyped ==
    ASSUME UpTypes, NEW s \in Sockets, Receives(s)
    PROVE  /\ UpTypes' /\ up' = [up EXCEPT ![s] = Tail(up[s])] /\ up[s] # <<>>
           /\ Head(up[s]) \in Reports /\ Head(up[s]).delivery \in Ids
           /\ Head(up[s]).channel = "visual" => Head(up[s]).status \in Outcomes.visual
           /\ Head(up[s]).channel = "audio" =>
                Head(up[s]).status \in Outcomes.audio \cup Interim
<1>1. up[s] \in Seq(Reports) /\ up[s] # <<>> /\ up' = [up EXCEPT ![s] = Tail(up[s])]
    BY DEF Receives, UpTypes
<1>2. Head(up[s]) \in Reports /\ Tail(up[s]) \in Seq(Reports)
    BY <1>1, HeadTailProperties
<1>3. \A m \in Reports : /\ m.delivery \in Ids
                         /\ m.channel = "visual" => m.status \in Outcomes.visual
                         /\ m.channel = "audio" => m.status \in Outcomes.audio \cup Interim
    BY DEF Reports
<1> QED
  BY <1>1, <1>2, <1>3, Constants DEF UpTypes

LEMMA TypedLinks ==
    ASSUME Typed, NEW s \in Sockets,
           Register(s) \/ Lose(s) \/ Notice(s) \/ Leave(s) \/ LeaveEnds(s)
    PROVE  Typed' /\ Grows
<1>1. UNCHANGED <<scenario, next, log, task, stops, panel, ran>>
    BY DEF Register, Lose, Notice, Leave, LeaveEnds, server
<1>2. LogTypes' /\ ScreenTypes' /\ SoundTypes' /\ RanTypes' /\ Grows
    BY <1>1, PartsKept DEF Typed, panel, screen, Grows, Deliveries
<1>3. HandlerTypes'
  <2>1. \/ handler' = handler
        \/ \E pc \in {"unregistered", "serving", "leaving", "done"} :
             handler' = [handler EXCEPT ![s] = At(pc)]
      BY DEF Register, Lose, Notice, Leave, LeaveEnds, server
  <2> QED
    BY <1>1, <2>1, Constants DEF Typed, HandlerTypes, At, Deliveries
<1>4. LinkTypes'
    BY <1>1, Owners, Constants
    DEF Typed, LinkTypes, ConnectionTypeOK, Register, Lose, Notice, Leave, LeaveEnds, server,
        OpenSocket, LoseSocket, NoticeLoss, Connect, Disconnect, Without, LinkStates
<1>5. DownTypes' /\ UpTypes'
  <2>1. \A S : <<>> \in Seq(S)
      BY EmptySeq
  <2> QED
    BY <2>1, Constants DEF Typed, DownTypes, UpTypes, Register, Lose, Notice, Leave, LeaveEnds
<1> QED
  BY <1>2, <1>3, <1>4, <1>5 DEF Typed

LEMMA TypedServer ==
    ASSUME Typed,
           \/ Notify
           \/ \E d \in Deliveries : Notifying(d)
           \/ \E d \in Deliveries, e \in Endpoints : StopSpeech(d, e)
    PROVE  Typed' /\ Grows
<1>1. Deliveries \subseteq Ids
    BY DeliveriesAreIds DEF Typed
<1>2. CASE Notify
  <2>1. UNCHANGED <<scenario, connections, online, handler, stops, panel, ws, down, up, ran>>
      BY <1>2 DEF Notify
  <2>2. LogTypes' /\ Grows
    <3>1. CASE log' # log
        BY <1>2, <3>1, Notified DEF Typed
    <3>2. CASE log' = log
      <4>1. Requests' = Requests /\ Deliveries' = Deliveries /\ next' = next + 1
            /\ next < Len(Requests) /\ next \in Nat /\ Len(Requests) \in Nat /\ Len(log) \in Nat
          BY <1>2, <2>1, <3>2, DeliveriesAreIds DEF Notify, Requests, Deliveries, Typed, LogTypes
      <4>2. task' = task
          BY <1>2, <3>2, NotNotified DEF Typed
      <4>3. next' \in Nat /\ Len(log') <= next' /\ next' <= Len(Requests')
          BY <3>2, <4>1 DEF Typed, LogTypes
      <4>4. \A d \in Deliveries : WellLogged(d)'
          BY <2>1, <3>2, <4>1, <4>2, Constants DEF Typed, LogTypes, WellLogged, With
      <4> QED
        BY <2>1, <3>2, <4>1, <4>2, <4>3, <4>4, Constants DEF Typed, LogTypes, Grows
    <3> QED
      BY <3>1, <3>2
  <2> QED
    BY <2>1, <2>2, PartsKept, HandlerKept DEF Typed, panel, screen
<1>3. ASSUME NEW d \in Deliveries, NEW e \in Endpoints, ShowTo(d, e) \/ PlayTo(d, e)
      PROVE  Typed' /\ Grows
  <2>1. /\ UNCHANGED <<scenario, online, next, log, handler, stops, panel, ws, up, ran>>
        /\ \E type \in {"show", "play"} : Send(e, type, d)
        /\ task[d].pc \in {"showing", "playing"} /\ e \in task[d].left
      BY <1>3 DEF ShowTo, PlayTo
  <2>2. \E x \in Doing :
          /\ task' = [task EXCEPT ![d] = x] /\ x.left = task[d].left \ {e}
          /\ x.pc = "showing" => task[d].pc = "showing"
    <3>1. PICK left : left = task[d].left \ {e}
        OBVIOUS
    <3>2. left \in SUBSET Endpoints
      <4>1. task[d] \in Doing
          BY ElementOfSeq DEF Typed, LogTypes, Deliveries
      <4> QED
        BY <3>1, <4>1 DEF Doing
    <3>3. PICK pc \in {"showing", "playing", "done", "failed"} \cup Speech :
            /\ task' = [task EXCEPT ![d] = [pc |-> pc, left |-> left]]
            /\ pc = "showing" => task[d].pc = "showing"
      <4>1. CASE ShowTo(d, e)
        <5> DEFINE pc == IF left # {} THEN "showing"
                         ELSE IF \E f \in DOMAIN log[d].channels :
                                   "audio" \in Channel(log[d].kind, f)
                           THEN "connecting" ELSE "done"
        <5>1. task' = [task EXCEPT ![d] = [pc |-> pc, left |-> left]]
            BY <3>1, <4>1 DEF ShowTo, Showing
        <5>2. pc \in {"showing", "playing", "done", "failed"} \cup Speech
              /\ task[d].pc = "showing"
            BY <4>1 DEF Speech, ShowTo
        <5> HIDE DEF pc
        <5> QED
          BY <5>1, <5>2, Zenon
      <4>2. CASE PlayTo(d, e)
        <5>1. task[d].pc = "playing"
              /\ task' = [task EXCEPT ![d] = [pc |-> IF left = {} THEN "done" ELSE "playing",
                                              left |-> left]]
            BY <3>1, <4>2 DEF PlayTo, Goes
        <5>2. PICK q : q = IF left = {} THEN "done" ELSE "playing"
            OBVIOUS
        <5>3. q \in {"showing", "playing", "done", "failed"} \cup Speech /\ q # "showing"
            BY <5>2
        <5>4. task' = [task EXCEPT ![d] = [pc |-> q, left |-> left]]
            BY <5>1, <5>2
        <5> QED
          BY <5>3, <5>4, Zenon
      <4> QED
        BY <1>3, <4>1, <4>2
    <3>4. [pc |-> pc, left |-> left] \in Doing
        BY <3>2 DEF Doing
    <3> QED
      BY <3>1, <3>3, <3>4
  <2>3. LogTypes'
    <3>1. PICK x \in Doing :
            /\ task' = [task EXCEPT ![d] = x] /\ x.left = task[d].left \ {e}
            /\ x.pc = "showing" => task[d].pc = "showing"
        BY <2>2
    <3>2. /\ task[d].left \subseteq DOMAIN log[d].channels
          /\ task[d].pc = "showing" => task[d].left \subseteq With(d, "visual")
        BY DEF Typed, LogTypes, WellLogged
    <3> QED
      BY <2>1, <3>1, <3>2, TaskChanged DEF Typed
  <2>4. connections' \in [Endpoints -> Sockets \cup {NoSocket}] /\ DownTypes'
      BY <1>1, <2>1, SendSteps DEF Typed
  <2>5. LinkTypes'
      BY <2>1, <2>4, Constants DEF Typed, LinkTypes, ConnectionTypeOK
  <2> QED
    BY <2>1, <2>3, <2>4, <2>5, PartsKept DEF Typed, panel, screen, Grows, Deliveries
<1>4. ASSUME NEW d \in Deliveries, Synthesize(d) \/ SynthesisFails(d)
      PROVE  Typed' /\ Grows
  <2>1. UNCHANGED <<scenario, connections, online, next, log, handler, stops, panel, ws, down,
                    up, ran>>
      BY <1>4 DEF Synthesize, SynthesisFails
  <2>2. PICK pc \in {"authenticating", "running", "playing", "failed"},
             left \in SUBSET DOMAIN log[d].channels :
          task' = [task EXCEPT ![d] = [pc |-> pc, left |-> left]]
      BY <1>4 DEF Synthesize, SynthesisFails, Goes, With
  <2>3. DOMAIN log[d].channels \subseteq Endpoints
      BY ChannelsOf DEF Typed, LogTypes, Deliveries
  <2>4. [pc |-> pc, left |-> left] \in Doing
      BY <2>2, <2>3 DEF Doing, Speech
  <2>5. PICK x \in Doing : x = [pc |-> pc, left |-> left]
      BY <2>4
  <2>6. task' = [task EXCEPT ![d] = x] /\ x.pc # "showing" /\ x.left = left
      BY <2>2, <2>5
  <2>7. LogTypes'
      BY <2>1, <2>2, <2>6, TaskChanged DEF Typed
  <2> QED
    BY <2>1, <2>7, PartsKept DEF Typed, panel, screen, Grows, Deliveries
<1>5. ASSUME NEW d \in Deliveries, NEW e \in Endpoints, StopSpeech(d, e)
      PROVE  Typed' /\ Grows
  <2>1. /\ UNCHANGED <<scenario, online, next, log, task, handler, panel, ws, up, ran>>
        /\ Send(e, "stop", d) /\ stops < scenario.stops /\ stops' = stops + 1
      BY <1>5 DEF StopSpeech
  <2>2. connections' \in [Endpoints -> Sockets \cup {NoSocket}] /\ DownTypes'
      BY <1>1, <2>1, SendSteps DEF Typed
  <2>3. stops' \in 0 .. scenario'.stops
      BY <2>1, DeliveriesAreIds DEF Typed, LinkTypes
  <2>4. LinkTypes'
      BY <2>1, <2>2, <2>3, Constants DEF Typed, LinkTypes, ConnectionTypeOK
  <2> QED
    BY <2>1, <2>2, <2>4, PartsKept DEF Typed, panel, screen, Grows, Deliveries
<1> QED
  BY <1>2, <1>3, <1>4, <1>5 DEF Notifying

LEMMA TypedHandler ==
    ASSUME Typed, NEW s \in Sockets,
           \/ VisualStatus(s) \/ AudioStatus(s) \/ ActionPublished(s)
           \/ \E known \in BOOLEAN : ActivateAction(s, known)
    PROVE  Typed' /\ Grows
<1> DEFINE m == Head(up[s])
           e == Owner(s)
<1>1. e \in Endpoints
    BY Owners
<1>2. CASE VisualStatus(s) \/ AudioStatus(s)
  <2>1. /\ UNCHANGED <<scenario, connections, online, next, task, handler, stops,
                       panel, ws, down, ran>>
        /\ Receives(s)
        /\ \E channel \in {"visual", "audio"} :
             m.channel = channel /\ UpdateStatus(m.delivery, e, channel, m.status)
      BY <1>2 DEF VisualStatus, AudioStatus
  <2>2. PICK channel \in {"visual", "audio"} :
          m.channel = channel /\ UpdateStatus(m.delivery, e, channel, m.status)
      BY <2>1
  <2>3. UpTypes' /\ m.delivery \in Ids /\ m.status \in Outcomes[channel] \cup Interim
    <3>1. /\ UpTypes' /\ m.delivery \in Ids
          /\ m.channel = "visual" => m.status \in Outcomes.visual
          /\ m.channel = "audio" => m.status \in Outcomes.audio \cup Interim
        BY <2>1, ReceivesTyped DEF Typed
    <3> QED
      BY <2>2, <3>1
  <2>4. PICK d \in Ids, status \in Outcomes[channel] \cup Interim :
          d = m.delivery /\ status = m.status
      BY <2>3
  <2>5. UpdateStatus(d, e, channel, status)
      BY <2>2, <2>4
  <2>6. LogTypes' /\ Grows
      BY <1>1, <2>1, <2>5, StatusTyped DEF Typed
  <2> QED
    BY <2>1, <2>3, <2>6, PartsKept, HandlerKept DEF Typed, panel, screen
<1>3. CASE \E known \in BOOLEAN : ActivateAction(s, known)
  <2>1. /\ UNCHANGED <<scenario, connections, online, next, log, task, stops, panel, ws, down>>
        /\ Receives(s)
        /\ \/ UNCHANGED <<ran, handler>>
           \/ /\ m.delivery \in Deliveries /\ e \in DOMAIN log[m.delivery].channels
              /\ ran' = [ran EXCEPT ![<<m.delivery, e>>] = ran[<<m.delivery, e>>] + 1]
              /\ handler' = [handler EXCEPT ![s] = [pc |-> "activating",
                                                    delivery |-> m.delivery]]
      BY <1>3 DEF ActivateAction
  <2>2. UpTypes' /\ m.delivery \in Ids
      BY <2>1, ReceivesTyped DEF Typed
  <2>3. RanTypes'
      BY <1>1, <2>1, <2>2, Constants DEF Typed, RanTypes
  <2>4. HandlerTypes'
    <3>1. CASE UNCHANGED handler
        BY <2>1, <3>1, PartsKept DEF Typed
    <3>2. CASE /\ m.delivery \in Deliveries /\ e \in DOMAIN log[m.delivery].channels
               /\ handler' = [handler EXCEPT ![s] = [pc |-> "activating",
                                                     delivery |-> m.delivery]]
      <4>1. PICK d \in Ids : d = m.delivery
          BY <2>2
      <4> HIDE DEF m
      <4>2. handler' = [handler EXCEPT ![s] = [pc |-> "activating", delivery |-> d]]
          BY <3>2, <4>1
      <4>3. d \in Deliveries /\ Owner(s) \in DOMAIN log[d].channels
          BY <3>2, <4>1
      <4> QED
        BY <2>1, <4>2, <4>3, Constants DEF Typed, HandlerTypes, Deliveries
    <3> QED
      BY <2>1, <3>1, <3>2
  <2> QED
    BY <2>1, <2>2, <2>3, <2>4, PartsKept DEF Typed, panel, screen, Grows, Deliveries
<1>4. CASE ActionPublished(s)
  <2>1. /\ UNCHANGED <<scenario, connections, online, next, task, stops, panel, ws, down, up, ran>>
        /\ handler[s].pc = "activating"
        /\ log' = [log EXCEPT ![handler[s].delivery].actor = {e}]
        /\ handler' = [handler EXCEPT ![s] = At("serving")]
      BY <1>4 DEF ActionPublished
  <2>2. PICK d \in Deliveries : d = handler[s].delivery /\ e \in DOMAIN log[d].channels
      BY <2>1 DEF Typed, HandlerTypes
  <2>3. log' = [log EXCEPT ![d].actor = {e}]
      BY <2>1, <2>2
  <2>4. LogTypes' /\ Grows
      BY <2>1, <2>2, <2>3, ActorRecorded DEF Typed
  <2>5. HandlerTypes'
    <3>1. At("serving") \in [pc : {"unregistered", "serving", "leaving", "done"},
                             delivery : {0}]
        BY DEF At
    <3>2. \A t \in Sockets : handler'[t].pc = "activating" => t # s /\ handler'[t] = handler[t]
        BY <2>1 DEF Typed, HandlerTypes, At
    <3> QED
      BY <2>1, <2>4, <3>1, <3>2, Constants DEF Typed, HandlerTypes, Grows
  <2> QED
    BY <2>1, <2>4, <2>5, PartsKept DEF Typed, panel, screen
<1> QED
  BY <1>2, <1>3, <1>4

\* The three ways a notification leaves the screen by itself.
Closing(e) == Dismiss(e) \/ Expire(e) \/ PressCloses(e)

LEMMA FinishTyped ==
    ASSUME Typed, NEW e \in Endpoints, Closing(e)
    PROVE  overlay[e] \in Ids /\ \E status \in Outcomes.visual : Finish(e, status)
<1>1. Finish(e, "dismissed") \/ Finish(e, "expired")
    BY DEF Closing, Dismiss, Expire, PressCloses
<1>2. overlay[e] # 0 /\ overlay[e] \in 0 .. MaxNotifications
    BY <1>1 DEF Finish, Typed, ScreenTypes
<1> QED
  BY <1>1, <1>2, NotificationAssumption DEF Ids, Outcomes

LEMMA TypedScreen ==
    ASSUME Typed,
           \/ \E s \in Sockets : ShowQueued(s) \/ ShowOverflow(s) \/ Show(s)
           \/ \E e \in Endpoints : Closing(e) \/ Press(e)
    PROVE  Typed' /\ Grows
<1>1. ASSUME NEW s \in Sockets, ShowQueued(s) \/ ShowOverflow(s) \/ Show(s)
      PROVE  Typed' /\ Grows
  <2> DEFINE e == Owner(s)
  <2>1. e \in Endpoints /\ Arrives(s, "show")
        /\ UNCHANGED <<server, pressed, sound, reply, ws, ran>>
    <3>1. Arrives(s, "show") /\ UNCHANGED <<server, pressed, sound, reply, ws, ran>>
        BY <1>1, Zenon DEF ShowQueued, ShowOverflow, Show
    <3> QED
      BY <3>1, Owners
  <2>2. PICK d \in Ids : d = Head(down[s]).delivery
      BY <2>1, ArrivesTyped DEF Typed
  <2>3. DownTypes'
      BY <2>1, ArrivesTyped DEF Typed
  <2>4. UpTypes' /\ ScreenTypes'
    <3>1. CASE ShowQueued(s)
      <4>1. /\ up' = up /\ UNCHANGED <<overlay, swept, unsaid>>
            /\ Len(pending[e]) < MaxPending
            /\ pending' = [pending EXCEPT ![e] = Append(pending[e], d)]
          BY <2>2, <3>1 DEF ShowQueued
      <4>2. pending[e] \in Seq(Ids) /\ Len(pending[e]) \in Nat
          BY <2>1, LenProperties DEF Typed, ScreenTypes
      <4>3. Append(pending[e], d) \in Seq(Ids) /\ Len(Append(pending[e], d)) = Len(pending[e]) + 1
          BY <4>2, AppendProperties
      <4>4. Len(Append(pending[e], d)) <= MaxPending
          BY <4>1, <4>2, <4>3, NotificationAssumption
      <4>5. PICK q \in Seq(Ids) : q = Append(pending[e], d)
          BY <4>3
      <4>6. ScreenTypes'
          BY <2>1, <4>1, <4>4, <4>5, Constants DEF Typed, ScreenTypes
      <4> QED
        BY <4>1, <4>6, PartsKept DEF Typed
    <3>2. CASE ShowOverflow(s)
      <4>1. Conclude(e, d, "replaced") /\ UNCHANGED <<overlay, pending, swept>>
          BY <2>2, <3>2 DEF ShowOverflow
      <4>2. UpTypes' /\ unsaid' \in [Endpoints -> SUBSET Ids]
          BY <2>1, <4>1, ConcludeTyped DEF Typed, Outcomes
      <4> QED
        BY <2>1, <4>1, <4>2, Constants DEF Typed, ScreenTypes
    <3>3. CASE Show(s)
      <4>1. /\ overlay' = [overlay EXCEPT ![e] = d]
            /\ pending' = [pending EXCEPT ![e] = <<>>]
            /\ swept' = [swept EXCEPT ![e] = swept[e] \cup Range(pending[e])]
            /\ IF overlay[e] = 0 THEN UNCHANGED <<up, unsaid>>
                                 ELSE Conclude(e, overlay[e], "replaced")
          BY <2>2, <3>3 DEF Show
      <4>2. d \in 0 .. MaxNotifications /\ overlay[e] \in 0 .. MaxNotifications
          BY <2>1, NotificationAssumption DEF Ids, Typed, ScreenTypes
      <4>3. UpTypes' /\ unsaid' \in [Endpoints -> SUBSET Ids]
        <5>1. CASE overlay[e] = 0
            BY <4>1, <5>1, PartsKept DEF Typed, ScreenTypes
        <5>2. CASE overlay[e] # 0
          <6>1. overlay[e] \in Ids
              BY <4>2, <5>2, NotificationAssumption DEF Ids
          <6> QED
            BY <2>1, <4>1, <5>2, <6>1, ConcludeTyped DEF Typed, Outcomes
        <5> QED
          BY <5>1, <5>2
      <4>4. Range(pending[e]) \subseteq Ids
        <5>1. pending[e] \in [1 .. Len(pending[e]) -> Ids]
            BY <2>1, LenProperties DEF Typed, ScreenTypes
        <5> QED
          BY <5>1 DEF Range
      <4>5. <<>> \in Seq(Ids) /\ Len(<<>>) <= MaxPending
          BY EmptySeq, NotificationAssumption
      <4>6. ScreenTypes'
          BY <2>1, <4>1, <4>2, <4>3, <4>4, <4>5, Constants DEF Typed, ScreenTypes
      <4> QED
        BY <4>3, <4>6
    <3> QED
      BY <1>1, <3>1, <3>2, <3>3
  <2> QED
    BY <2>1, <2>3, <2>4, PartsKept DEF Typed, server, Grows, Deliveries
<1>2. ASSUME NEW e \in Endpoints, Closing(e)
      PROVE  Typed' /\ Grows
  <2>1. PICK status \in Outcomes.visual : Finish(e, status)
      BY <1>2, FinishTyped
  <2>2. UpTypes' /\ unsaid' \in [Endpoints -> SUBSET Ids]
    <3>1. overlay[e] \in Ids /\ Conclude(e, overlay[e], status)
        BY <1>2, <2>1, FinishTyped DEF Finish
    <3> QED
      BY <3>1, ConcludeTyped DEF Typed
  <2>3. /\ UNCHANGED <<server, sound, reply, swept, ws, down, ran>>
        /\ pressed' = [pressed EXCEPT ![e] = FALSE]
      BY <2>1 DEF Finish
  <2>4. ScreenTypes'
    <3>1. CASE pending[e] = <<>>
      <4>1. overlay' = [overlay EXCEPT ![e] = 0] /\ pending' = pending
          BY <2>1, <3>1 DEF Finish
      <4> QED
        BY <2>2, <2>3, <4>1, NotificationAssumption, Constants DEF Typed, ScreenTypes
    <3>2. CASE pending[e] # <<>>
      <4> DEFINE d == Head(pending[e])
                 q == Tail(pending[e])
      <4>1. d = Head(pending[e]) /\ q = Tail(pending[e])
          OBVIOUS
      <4>2. overlay' = [overlay EXCEPT ![e] = d] /\ pending' = [pending EXCEPT ![e] = q]
          BY <2>1, <3>2 DEF Finish
      <4> HIDE DEF d, q
      <4>3. d \in Ids /\ q \in Seq(Ids) /\ Len(q) <= MaxPending
        <5>1. /\ pending[e] \in Seq(Ids) /\ Len(pending[e]) \in Nat
              /\ Len(pending[e]) <= MaxPending
            BY LenProperties DEF Typed, ScreenTypes
        <5>2. d \in Ids /\ q \in Seq(Ids) /\ Len(q) = Len(pending[e]) - 1
            BY <3>2, <4>1, <5>1, HeadTailProperties
        <5> QED
          BY <5>1, <5>2, NotificationAssumption
      <4>4. d \in 0 .. MaxNotifications
          BY <4>3, NotificationAssumption DEF Ids
      <4> QED
        BY <2>2, <2>3, <4>2, <4>3, <4>4, Constants DEF Typed, ScreenTypes
    <3> QED
      BY <3>1, <3>2
  <2> QED
    BY <2>2, <2>3, <2>4, PartsKept DEF Typed, server, Grows, Deliveries
<1>3. ASSUME NEW e \in Endpoints, Press(e)
      PROVE  Typed' /\ Grows
  <2>1. overlay[e] \in Ids
      BY <1>3, NotificationAssumption DEF Press, Pressable, Typed, ScreenTypes, Ids
  <2>2. /\ Tell(e, Report(overlay[e], "action", "turn_on"))
        /\ pressed' = [pressed EXCEPT ![e] = TRUE]
        /\ UNCHANGED <<server, overlay, pending, sound, reply, swept, unsaid, ws, down, ran>>
      BY <1>3 DEF Press
  <2>3. UpTypes'
      BY <2>1, <2>2, ReportsTyped, TellTyped DEF Typed
  <2>4. ScreenTypes'
      BY <2>2, Constants DEF Typed, ScreenTypes
  <2> QED
    BY <2>2, <2>3, <2>4, PartsKept DEF Typed, server, Grows, Deliveries
<1> QED
  BY <1>1, <1>2, <1>3

LEMMA TypedSound ==
    ASSUME Typed,
           \/ \E s \in Sockets : Play(s) \/ Stop(s)
           \/ \E e \in Endpoints : Speaking(e)
    PROVE  Typed' /\ Grows
<1>1. ASSUME NEW e \in Endpoints, NEW d \in Ids, NEW r \in Reports,
             UNCHANGED <<server, screen, ws, ran>>, Tell(e, r) \/ up' = up,
             DownTypes',
             \/ sound' = sound
             \/ \E state \in {"none", "queued", "playing", "over"} : Sound(e, d, state),
             reply' = reply \/ reply' = [reply EXCEPT ![e] = 0] \/ reply' = [reply EXCEPT ![e] = d]
      PROVE  Typed' /\ Grows
  <2>1. UpTypes'
      BY <1>1, TellTyped, PartsKept DEF Typed
  <2>2. SoundTypes'
    <3> DEFINE States == {"none", "queued", "playing", "over"}
    <3>0. /\ sound' = sound \/ \E state \in States : sound' = [sound EXCEPT ![e][d] = state]
          /\ reply' = reply \/ reply' = [reply EXCEPT ![e] = 0]
               \/ reply' = [reply EXCEPT ![e] = d]
          /\ sound \in [Endpoints -> [Ids -> States]]
          /\ reply \in [Endpoints -> 0 .. MaxNotifications]
          /\ d \in 0 .. MaxNotifications /\ 0 \in 0 .. MaxNotifications
        BY <1>1, NotificationAssumption DEF Sound, Typed, SoundTypes, Ids
    <3>1. sound' \in [Endpoints -> [Ids -> States]]
      <4> HIDE DEF States
      <4>1. CASE sound' = sound
          BY <3>0, <4>1
      <4>2. ASSUME NEW state \in States, sound' = [sound EXCEPT ![e][d] = state]
            PROVE  sound' \in [Endpoints -> [Ids -> States]]
        <5>1. [sound[e] EXCEPT ![d] = state] \in [Ids -> States]
            BY <3>0
        <5>2. sound' = [sound EXCEPT ![e] = [sound[e] EXCEPT ![d] = state]]
            BY <4>2
        <5> QED
          BY <3>0, <5>1, <5>2
      <4> QED
        BY <3>0, <4>1, <4>2
    <3>2. reply' \in [Endpoints -> 0 .. MaxNotifications]
        BY <3>0
    <3> QED
      BY <3>1, <3>2, Constants DEF SoundTypes
  <2> QED
    BY <1>1, <2>1, <2>2, PartsKept DEF Typed, server, Grows, Deliveries
<1>2. ASSUME NEW s \in Sockets, Play(s) \/ Stop(s)
      PROVE  Typed' /\ Grows
  <2>1. PICK e \in Endpoints : e = Owner(s)
      BY Owners
  <2>2. \E type \in {"play", "stop"} : Arrives(s, type)
      BY <1>2 DEF Play, Stop
  <2>3. DownTypes' /\ Head(down[s]).delivery \in Ids
      BY <2>2, ArrivesTyped DEF Typed
  <2>4. PICK d \in Ids : d = Head(down[s]).delivery
      BY <2>3
  <2>5. CASE Play(s)
    <3>1. Report(d, "audio", "rejected") \in Reports
        BY ReportsTyped DEF Interim
    <3>2. UNCHANGED <<server, screen, ws, ran>>
        BY <2>5 DEF Play
    <3>3. \/ /\ Sound(e, d, "queued")
             /\ reply' = [reply EXCEPT ![e] = d]
             /\ UNCHANGED up
          \/ /\ Tell(e, Report(d, "audio", "rejected"))
             /\ UNCHANGED <<sound, reply>>
        BY <2>1, <2>4, <2>5 DEF Play
    <3> QED
      BY <1>1, <2>3, <3>1, <3>2, <3>3
  <2>6. CASE Stop(s)
    <3>1. \E status \in {"stopped", "not_found"} : Tell(e, Report(d, "audio", status))
        BY <2>1, <2>4, <2>6 DEF Stop
    <3>2. PICK status \in {"stopped", "not_found"} : Tell(e, Report(d, "audio", status))
        BY <3>1
    <3>3. Report(d, "audio", status) \in Reports
        BY ReportsTyped DEF Outcomes
    <3>4. /\ UNCHANGED <<server, screen, reply, ws, ran>>
          /\ Sound(e, d, "over") \/ sound' = sound
        BY <2>1, <2>4, <2>6 DEF Stop
    <3> QED
      BY <1>1, <2>3, <3>2, <3>3, <3>4
  <2> QED
    BY <1>2, <2>5, <2>6
<1>3. ASSUME NEW e \in Endpoints, Accept(e)
      PROVE  Typed' /\ Grows
  <2>1. reply[e] \in Ids
      BY <1>3, NotificationAssumption DEF Accept, Typed, SoundTypes, Ids
  <2>2. PICK d \in Ids : d = reply[e]
      BY <2>1
  <2>3. Report(d, "audio", "accepted") \in Reports
      BY ReportsTyped DEF Interim
  <2>4. /\ Tell(e, Report(d, "audio", "accepted")) /\ reply' = [reply EXCEPT ![e] = 0]
        /\ UNCHANGED <<server, screen, sound, ws, down, ran>>
      BY <1>3, <2>2 DEF Accept
  <2>5. DownTypes'
      BY <2>4, PartsKept DEF Typed
  <2> QED
    BY <1>1, <2>3, <2>4, <2>5
<1>4. ASSUME NEW e \in Endpoints, NEW d \in Ids,
             \/ SoundStarts(e, d)
             \/ \E result \in {"completed", "interrupted", "failed"} : SoundEnds(e, d, result)
      PROVE  Typed' /\ Grows
  <2>1. PICK status \in {"playing", "completed", "interrupted", "failed"} :
          /\ Tell(e, Report(d, "audio", status))
          /\ \E state \in {"playing", "over"} : Sound(e, d, state)
          /\ UNCHANGED <<server, screen, reply, ws, down, ran>>
      BY <1>4 DEF SoundStarts, SoundEnds
  <2>2. Report(d, "audio", status) \in Reports
      BY ReportsTyped DEF Outcomes, Interim
  <2>3. DownTypes'
      BY <2>1, PartsKept DEF Typed
  <2> QED
    BY <1>1, <2>1, <2>2, <2>3
<1> QED
  BY <1>2, <1>3, <1>4 DEF Speaking

LEMMA TypedStep == Typed /\ [Next]_vars => Typed' /\ Grows
<1> SUFFICES ASSUME Typed, [Next]_vars PROVE Typed' /\ Grows
    OBVIOUS
<1>1. CASE UNCHANGED vars
    BY <1>1, PartsKept DEF vars, server, panel, screen, Typed, Grows, Deliveries
<1>2. CASE \E s \in Sockets : Register(s) \/ Lose(s) \/ Notice(s)
    BY <1>2, TypedLinks
<1>3. CASE \E s \in Sockets : Serving(s) \/ Arriving(s)
    BY <1>3, TypedLinks, TypedHandler, TypedScreen, TypedSound, Zenon DEF Serving, Arriving
<1>4. CASE \E e \in Endpoints : Closing(e) \/ Press(e) \/ Speaking(e)
    BY <1>4, TypedScreen, TypedSound
<1> QED
  BY <1>1, <1>2, <1>3, <1>4, TypedServer DEF Next, Closing

\* Deliveries, messages and screens keep their types for any requests: every
\* delivery has exactly the channels its endpoints have, and no more wait
\* behind an overlay than may (tab5_bringup.cpp).
THEOREM NotificationTypes == Spec => []TypeOK
<1>1. Typed /\ [Next]_vars => Typed'
    BY TypedStep
<1> QED
  BY TypedInit, TypedImplies, <1>1, PTL DEF Spec

-----------------------------------------------------------------------------
(* Where a notification stands for a display                               *)

ShowOf(d) == [type |-> "show", delivery |-> d]
VisualOf(d) == {m \in Reports : m.channel = "visual" /\ m.delivery = d}
ActionOf(d) == {m \in Reports : m.channel = "action" /\ m.delivery = d}

Coming(d, e) == \E s \in Sockets : Owner(s) = e /\ Has(down[s], {ShowOf(d)})
Held(d, e) == overlay[e] = d \/ Has(pending[e], {d})
Pressed(d, e) == overlay[e] = d /\ pressed[e]
Reported(d, e) == \E s \in Sockets : Owner(s) = e /\ Has(up[s], VisualOf(d))
Unsaid(d, e) == d \in unsaid[e]

\* The press that the server is still to read, and the outcome that it reads
\* over the same link: what came over an earlier one is read by nobody.
Acting(d, e) ==
    \E s \in Sockets : Owner(s) = e /\ IsCurrent(s) /\ Has(up[s], ActionOf(d))
Telling(d, e) ==
    \E s \in Sockets : Owner(s) = e /\ IsCurrent(s) /\ Has(up[s], VisualOf(d))

\* An endpoint opens its sockets one after the other, the table names one of
\* its own and the open one, and messages are on their way over open links alone.
Ordered ==
    \A s, t \in Sockets :
        Owner(s) = Owner(t) /\ s[2] < t[2] /\ ws[t] # "unopened" => ws[s] \in {"lost", "dead"}
Own == \A e \in Endpoints : connections[e] # NoSocket => Owner(connections[e]) = e
OpenOnly == \A s \in Sockets : ws[s] # "open" => down[s] = <<>>
Current == \A s \in Sockets : ws[s] = "open" => IsCurrent(s)

Links == Ordered /\ Own /\ OpenOnly /\ Current

\* Nothing comes from a socket that is not there yet.
Fresh == \A s \in Sockets : ws[s] = "unopened" => up[s] = <<>>

\* No queue holds a notification, or a report of it, twice; its reports are
\* all on one socket, and no press comes after the outcome.
DownCopies == \A d \in Ids, s \in Sockets : Once(down[s], {ShowOf(d)})
UpCopies ==
    \A d \in Ids :
        /\ \A s \in Sockets : /\ Once(up[s], VisualOf(d)) /\ Once(up[s], ActionOf(d))
                              /\ Before(up[s], ActionOf(d), VisualOf(d))
        /\ \A s, t \in Sockets :
             Owner(s) = Owner(t) /\ Has(up[s], VisualOf(d)) /\ Has(up[t], VisualOf(d)) => s = t
ScreenCopies ==
    \A d \in Ids, e \in Endpoints :
        Once(pending[e], {d}) /\ (overlay[e] = d => ~ Has(pending[e], {d}))

\* At most one of the stages, and only for the displays it was meant for.
OneStage(d, e) ==
    /\ ToSend(d, e) =>
         ~ (Coming(d, e) \/ Held(d, e) \/ Reported(d, e) \/ Unsaid(d, e) \/ Settled(d, e))
    /\ Coming(d, e) => ~ (Held(d, e) \/ Reported(d, e) \/ Unsaid(d, e) \/ Settled(d, e))
    /\ Held(d, e) => ~ (Reported(d, e) \/ Unsaid(d, e) \/ Settled(d, e))
    /\ Reported(d, e) => ~ (Unsaid(d, e) \/ Settled(d, e))
    /\ Unsaid(d, e) => ~ Settled(d, e)
    /\ Coming(d, e) \/ Held(d, e) \/ Reported(d, e) \/ Unsaid(d, e)
         => d \in Deliveries /\ e \in With(d, "visual")

\* A press that is to be read is of a notification that is being closed, or was
\* closed without the outcome having been read.
Answered(d, e) == Acting(d, e) => Pressed(d, e) \/ Unsaid(d, e) \/ Telling(d, e)

\* What has run is neither to be pressed nor to be run again.
RunsOnce(d, e) ==
    /\ ran[<<d, e>>] <= 1
    /\ ran[<<d, e>>] # 0 =>
         /\ d \in Deliveries
         /\ ~ (ToSend(d, e) \/ Coming(d, e) \/ Acting(d, e))
         /\ Held(d, e) => Pressed(d, e)

Stages ==
    /\ Typed /\ Links /\ Fresh /\ DownCopies /\ UpCopies /\ ScreenCopies
    /\ \A d \in Ids, e \in Endpoints : OneStage(d, e) /\ Answered(d, e) /\ RunsOnce(d, e)

LEMMA Kinds ==
    /\ \A d : VisualOf(d)' = VisualOf(d) /\ ActionOf(d)' = ActionOf(d) /\ ShowOf(d)' = ShowOf(d)
    /\ \A d, b : VisualOf(d) \cap ActionOf(b) = {}
    /\ \A d, b : d # b => /\ VisualOf(d) \cap VisualOf(b) = {}
                          /\ ActionOf(d) \cap ActionOf(b) = {} /\ ShowOf(d) # ShowOf(b)
    /\ \A d, m : m \in VisualOf(d) => m.channel = "visual" /\ m.delivery = d
    /\ \A d, m : m \in ActionOf(d) => m.channel = "action" /\ m.delivery = d
    /\ \A m \in Reports : m.channel = "visual" => m \in VisualOf(m.delivery)
    /\ \A m \in Reports : m.channel = "action" => m \in ActionOf(m.delivery)
    /\ \A d : ShowOf(d).type = "show" /\ ShowOf(d).delivery = d
<1>1. \A d : VisualOf(d)' = VisualOf(d) /\ ActionOf(d)' = ActionOf(d) /\ ShowOf(d)' = ShowOf(d)
    BY Constants DEF VisualOf, ActionOf, ShowOf
<1>2. /\ \A d, b : d # b => ShowOf(d) # ShowOf(b)
      /\ \A d : ShowOf(d).type = "show" /\ ShowOf(d).delivery = d
    BY DEF ShowOf
<1>3. /\ \A d, m : m \in VisualOf(d) => m.channel = "visual" /\ m.delivery = d
      /\ \A d, m : m \in ActionOf(d) => m.channel = "action" /\ m.delivery = d
      /\ \A m \in Reports : m.channel = "visual" => m \in VisualOf(m.delivery)
      /\ \A m \in Reports : m.channel = "action" => m \in ActionOf(m.delivery)
    BY DEF VisualOf, ActionOf
<1>4. \A d, b : VisualOf(d) \cap ActionOf(b) = {}
    BY <1>3
<1>5. \A d, b : d # b => VisualOf(d) \cap VisualOf(b) = {} /\ ActionOf(d) \cap ActionOf(b) = {}
    BY <1>3
<1> QED
  BY <1>1, <1>2, <1>3, <1>4, <1>5

LEMMA OneOpen ==
    ASSUME Ordered, NEW s \in Sockets, NEW t \in Sockets, Owner(s) = Owner(t),
           ws[s] = "open", ws[t] = "open"
    PROVE  s = t
<1>1. PICK e \in Endpoints, n \in 1 .. MaxReconnects + 1 : s = <<e, n>>
    BY DEF Sockets
<1>2. PICK f \in Endpoints, k \in 1 .. MaxReconnects + 1 : t = <<f, k>>
    BY DEF Sockets
<1>3. e = f /\ ~ (n < k) /\ ~ (k < n)
    BY <1>1, <1>2 DEF Owner, Ordered
<1>4. n \in Nat /\ k \in Nat
    BY MaxReconnectsAssumption
<1> QED
  BY <1>1, <1>2, <1>3, <1>4

\* A reopened display has a socket later than all its earlier ones.
LEMMA OrderedStep ==
    ASSUME ConnectionTypeOK, Ordered, NEW s \in Sockets,
           OpenSocket(s) \/ LoseSocket(s) \/ NoticeLoss(s)
    PROVE  Ordered'
<1> SUFFICES ASSUME NEW a \in Sockets, NEW b \in Sockets, Owner(a) = Owner(b), a[2] < b[2],
                    ws'[b] # "unopened"
             PROVE  ws'[a] \in {"lost", "dead"}
    BY Constants DEF Ordered, Owner
<1>1. ws \in [Sockets -> LinkStates]
    BY DEF ConnectionTypeOK
<1>2. CASE OpenSocket(s)
  <2>1. /\ ws[s] = "unopened" /\ ws' = [ws EXCEPT ![s] = "open"]
        /\ \A t \in Sockets : Owner(t) = Owner(s) /\ t[2] < s[2] => ws[t] \in {"lost", "dead"}
      BY <1>2 DEF OpenSocket
  <2>2. CASE b = s
    <3>1. ws[a] \in {"lost", "dead"} /\ a # s
        BY <2>1, <2>2
    <3> QED
      BY <1>1, <2>1, <3>1
  <2>3. CASE b # s
    <3>1. ws[a] \in {"lost", "dead"} /\ a # s
        BY <1>1, <2>1, <2>3 DEF Ordered
    <3> QED
      BY <1>1, <2>1, <3>1
  <2> QED
    BY <2>2, <2>3
<1>3. CASE LoseSocket(s) \/ NoticeLoss(s)
  <2>1. \E state \in {"lost", "dead"} : ws' = [ws EXCEPT ![s] = state]
      BY <1>3 DEF LoseSocket, NoticeLoss
  <2>2. ws[s] # "unopened"
      BY <1>3 DEF LoseSocket, NoticeLoss
  <2>3. ws[b] # "unopened"
      BY <1>1, <2>1, <2>2
  <2>4. ws[a] \in {"lost", "dead"}
      BY <2>3 DEF Ordered
  <2> QED
    BY <1>1, <2>1, <2>4
<1> QED
  BY <1>2, <1>3

\* Only over a socket of its own does the server reach an endpoint.
LEMMA OwnKept ==
    ASSUME Own, ConnectionTypeOK,
           \/ connections' = connections
           \/ \E s \in Sockets : Connect(s) \/ Disconnect(s)
    PROVE  Own'
<1>1. connections \in [Endpoints -> Sockets \cup {NoSocket}]
    BY DEF ConnectionTypeOK
<1>2. CASE connections' = connections
    BY <1>2, Constants DEF Own
<1>3. ASSUME NEW s \in Sockets, Connect(s) \/ Disconnect(s)
      PROVE  Own'
  <2>1. \E x \in {s, connections[Owner(s)], NoSocket} :
          connections' = [connections EXCEPT ![Owner(s)] = x]
    <3>1. CASE Connect(s)
        BY <3>1 DEF Connect
    <3>2. CASE Disconnect(s)
        BY <3>2 DEF Disconnect, Without
    <3> QED
      BY <1>3, <3>1, <3>2
  <2> QED
    BY <1>1, <2>1, Owners, Constants DEF Own, Owner
<1> QED
  BY <1>2, <1>3

\* The open socket keeps the entry: only one that is gone gives it up.
LEMMA CurrentKept ==
    ASSUME Current, ConnectionTypeOK, \A s \in Sockets : ws'[s] = "open" => ws[s] = "open",
           \/ connections' = connections
           \/ \E s \in Sockets : ws[s] = "dead" /\ connections' = Without(s)
    PROVE  /\ Current'
           /\ \A t \in Sockets : IsCurrent(t)' => IsCurrent(t)
<1>1. connections \in [Endpoints -> Sockets \cup {NoSocket}]
    BY DEF ConnectionTypeOK
<1>2. CASE connections' = connections
    BY <1>2, Constants DEF Current, IsCurrent, Owner
<1>3. ASSUME NEW s \in Sockets, ws[s] = "dead", connections' = Without(s)
      PROVE  /\ Current'
             /\ \A t \in Sockets : IsCurrent(t)' => IsCurrent(t)
  <2>1. \A t \in Sockets : t # NoSocket
      BY NoSocketAssumption
  <2>2. \A e \in Endpoints :
          /\ connections[e] # s => connections'[e] = connections[e]
          /\ connections[e] = s => connections'[e] \in {s, NoSocket}
      BY <1>1, <1>3 DEF Without
  <2>3. \A t \in Sockets : ws[t] = "open" => t # s
      BY <1>3
  <2>4. ASSUME NEW t \in Sockets, ws'[t] = "open" PROVE IsCurrent(t)'
      BY <2>2, <2>3, <2>4, Owners DEF Current, IsCurrent, Owner
  <2>5. ASSUME NEW t \in Sockets, IsCurrent(t)' PROVE IsCurrent(t)
      BY <2>1, <2>2, <2>5, Owners DEF IsCurrent, Owner
  <2> QED
    BY <2>4, <2>5, Constants DEF Current
<1> QED
  BY <1>2, <1>3

-----------------------------------------------------------------------------
(* Messages on their way to an endpoint                                    *)

\* A show reaches the queue of the one display it is sent to.
LEMMA DownSent ==
    ASSUME Typed, Links, DownCopies, NEW e \in Endpoints, NEW d \in Ids,
           NEW type \in {"show", "play", "stop"}, Send(e, type, d), ws' = ws,
           type = "show" => ~ Coming(d, e)
    PROVE  /\ Links' /\ DownCopies'
           /\ \A t \in Sockets : IsCurrent(t)' => IsCurrent(t)
           /\ \A b \in Ids, f \in Endpoints :
                Coming(b, f)' => Coming(b, f) \/ (type = "show" /\ b = d /\ f = e)
<1>1. LinkTypes /\ DownTypes /\ ConnectionTypeOK
    BY DEF Typed, LinkTypes
<1>2. /\ \/ connections' = connections
         \/ \E s \in Sockets : ws[s] = "dead" /\ connections' = Without(s)
      /\ \/ down' = down
         \/ \E s \in Sockets :
              /\ connections[e] = s /\ ws[s] = "open"
              /\ down' = [down EXCEPT ![s] = Append(down[s], [type |-> type, delivery |-> d])]
    BY <1>1, SendSteps
<1>3. /\ Own' /\ Ordered' /\ Current'
      /\ \A t \in Sockets : IsCurrent(t)' => IsCurrent(t)
  <2>1. Own' /\ Ordered'
      BY <1>1, <1>2, OwnKept, Constants DEF Links, Disconnect, Ordered
  <2>2. Current' /\ \A t \in Sockets : IsCurrent(t)' => IsCurrent(t)
      BY <1>1, <1>2, CurrentKept DEF Links
  <2> QED
    BY <2>1, <2>2
<1>4. CASE down' = down
    BY <1>3, <1>4, Kinds, Constants DEF Links, OpenOnly, DownCopies, Coming
<1>5. ASSUME NEW s \in Sockets, connections[e] = s, ws[s] = "open",
             down' = [down EXCEPT ![s] = Append(down[s], [type |-> type, delivery |-> d])]
      PROVE  /\ Links' /\ DownCopies'
             /\ \A b \in Ids, f \in Endpoints :
                  Coming(b, f)' => Coming(b, f) \/ (type = "show" /\ b = d /\ f = e)
  <2>1. Owner(s) = e
      BY <1>5, NoSocketAssumption DEF Links, Own
  <2>2. PICK m \in Commands : m = [type |-> type, delivery |-> d]
      BY DEF Commands
  <2>3. \A b : m = ShowOf(b) => type = "show" /\ b = d
      BY <2>2, Kinds
  <2>4. /\ down' = [down EXCEPT ![s] = Append(down[s], m)]
        /\ down[s] \in Seq(Commands) /\ DOMAIN down = Sockets
      BY <1>1, <1>5, <2>2 DEF DownTypes
  <2>5. \A b \in Ids :
          /\ Has(down'[s], {ShowOf(b)}) <=> (Has(down[s], {ShowOf(b)}) \/ m = ShowOf(b))
          /\ m # ShowOf(b) => (Once(down[s], {ShowOf(b)}) => Once(down'[s], {ShowOf(b)}))
          /\ ~ Has(down[s], {ShowOf(b)}) => Once(down'[s], {ShowOf(b)})
    <3> TAKE b \in Ids
    <3>1. down'[s] = Append(down[s], m) /\ down[s] \in Seq(Commands)
        BY <2>4
    <3> QED
      BY <3>1, Appended
  <2>6. DownCopies'
    <3> SUFFICES ASSUME NEW b \in Ids, NEW t \in Sockets
                 PROVE  Once(down'[t], {ShowOf(b)})
        BY Kinds, Constants DEF DownCopies
    <3>1. CASE t # s
        BY <2>4, <3>1 DEF DownCopies
    <3>2. CASE t = s /\ m # ShowOf(b)
        BY <2>5, <3>2 DEF DownCopies
    <3>3. CASE t = s /\ m = ShowOf(b)
        BY <2>1, <2>3, <2>5, <3>3 DEF Coming
    <3> QED
      BY <3>1, <3>2, <3>3
  <2>7. OpenOnly'
      BY <1>5, <2>4, Constants DEF Links, OpenOnly
  <2>8. ASSUME NEW b \in Ids, NEW f \in Endpoints, Coming(b, f)'
        PROVE  Coming(b, f) \/ (type = "show" /\ b = d /\ f = e)
    <3>1. PICK t \in Sockets : Owner(t) = f /\ Has(down'[t], {ShowOf(b)})
        BY <2>8, Kinds, Constants DEF Coming
    <3>2. CASE t = s
        BY <2>1, <2>3, <2>5, <3>1, <3>2 DEF Coming
    <3>3. CASE t # s
        BY <2>4, <3>1, <3>3 DEF Coming
    <3> QED
      BY <3>2, <3>3
  <2> QED
    BY <1>3, <2>6, <2>7, <2>8 DEF Links
<1> QED
  BY <1>2, <1>3, <1>4, <1>5

\* A show that is read is no longer on its way.
LEMMA DownRead ==
    ASSUME Typed, Links, DownCopies, NEW s \in Sockets, NEW type, Arrives(s, type), ws' = ws,
           connections' = connections
    PROVE  /\ Links' /\ DownCopies'
           /\ \A b \in Ids, f \in Endpoints : Coming(b, f)' => Coming(b, f)
           /\ type = "show" => \A d \in Ids : d = Head(down[s]).delivery =>
                                 Coming(d, Owner(s)) /\ ~ Coming(d, Owner(s))'
<1>1. /\ down' = [down EXCEPT ![s] = Tail(down[s])] /\ Head(down[s]) \in Commands
      /\ Head(down[s]).delivery \in Ids /\ Head(down[s]).type = type
      /\ down[s] \in Seq(Commands) /\ DOMAIN down = Sockets
      /\ down[s] # <<>> /\ ws[s] = "open"
  <2>1. down[s] # <<>> /\ ws[s] = "open"
      BY DEF Arrives
  <2>2. down[s] \in Seq(Commands) /\ DOMAIN down = Sockets
      BY DEF Typed, DownTypes
  <2> QED
    BY <2>1, <2>2, ArrivesTyped DEF Typed
<1>2. PICK d \in Ids : d = Head(down[s]).delivery
    BY <1>1
<1>3. \A b : /\ Head(down[s]) \in {ShowOf(b)} => Has(down[s], {ShowOf(b)})
             /\ Has(Tail(down[s]), {ShowOf(b)}) => Has(down[s], {ShowOf(b)})
             /\ Once(down[s], {ShowOf(b)}) => Once(Tail(down[s]), {ShowOf(b)})
             /\ Once(down[s], {ShowOf(b)}) /\ Head(down[s]) \in {ShowOf(b)}
                  => ~ Has(Tail(down[s]), {ShowOf(b)})
  <2> TAKE b
  <2>1. down[s] \in Seq(Commands) /\ down[s] # <<>>
      BY <1>1
  <2> QED
    BY <2>1, Taken
<1>4. \A t \in Sockets : down'[t] = IF t = s THEN Tail(down[s]) ELSE down[t]
    BY <1>1
<1>5. DownCopies'
  <2> SUFFICES ASSUME NEW b \in Ids, NEW t \in Sockets
               PROVE  Once(down'[t], {ShowOf(b)})
      BY Kinds, Constants DEF DownCopies
  <2>1. Once(down[t], {ShowOf(b)})
      BY DEF DownCopies
  <2> QED
    BY <1>3, <1>4, <2>1
<1>6. Links'
  <2>1. Ordered' /\ Own' /\ Current'
      BY Constants DEF Links, Ordered, Own, Current, IsCurrent, Owner
  <2>2. OpenOnly'
      BY <1>1, <1>4, Constants DEF Links, OpenOnly
  <2> QED
    BY <2>1, <2>2 DEF Links
<1>7. ASSUME NEW b \in Ids, NEW f \in Endpoints, Coming(b, f)'
      PROVE  Coming(b, f)
  <2>1. PICK t \in Sockets : Owner(t) = f /\ Has(down'[t], {ShowOf(b)})
      BY <1>7, Kinds, Constants DEF Coming
  <2> QED
    BY <1>3, <1>4, <2>1 DEF Coming
<1>8. ASSUME type = "show"
      PROVE  Coming(d, Owner(s)) /\ ~ Coming(d, Owner(s))'
  <2>1. Head(down[s]) = ShowOf(d)
      BY <1>1, <1>2, <1>8 DEF ShowOf, Commands
  <2>2. Coming(d, Owner(s))
      BY <1>3, <2>1 DEF Coming
  <2>3. ASSUME NEW t \in Sockets, Owner(t) = Owner(s), Has(down'[t], {ShowOf(d)})
        PROVE  FALSE
    <3>1. t # s
        BY <1>3, <1>4, <2>1, <2>3 DEF DownCopies
    <3>2. down'[t] = down[t] /\ down[t] # <<>>
        BY <1>4, <2>3, <3>1, Empty
    <3> QED
      BY <1>1, <2>3, <3>1, <3>2, OneOpen DEF Links, OpenOnly
  <2> QED
    BY <2>2, <2>3, Kinds, Constants DEF Coming
<1> QED
  BY <1>2, <1>5, <1>6, <1>7, <1>8

\* A link that goes takes along what was on its way.
LEMMA DownLinks ==
    ASSUME Typed, Links, DownCopies, NEW s \in Sockets,
           Register(s) \/ Lose(s) \/ Notice(s) \/ Leave(s) \/ LeaveEnds(s)
    PROVE  /\ Links' /\ DownCopies'
           /\ \A t \in Sockets : IsCurrent(t)' => IsCurrent(t) \/ (t = s /\ Register(s))
           /\ \A b \in Ids, f \in Endpoints : Coming(b, f)' => Coming(b, f)
<1>1. ConnectionTypeOK /\ down \in [Sockets -> Seq(Commands)]
    BY DEF Typed, LinkTypes, DownTypes
<1>2. Own'
  <2>1. connections' = connections \/ Connect(s) \/ Disconnect(s)
      BY DEF Register, Lose, Notice, Leave, LeaveEnds, server
  <2> QED
    BY <1>1, <2>1, OwnKept DEF Links
<1>3. Ordered'
  <2>1. CASE OpenSocket(s) \/ LoseSocket(s) \/ NoticeLoss(s)
      BY <1>1, <2>1, OrderedStep DEF Links
  <2>2. CASE ws' = ws
      BY <2>2, Constants DEF Links, Ordered
  <2> QED
    BY <2>1, <2>2 DEF Register, Lose, Notice, Leave, LeaveEnds
<1>4. down' = down \/ down' = [down EXCEPT ![s] = <<>>]
    BY DEF Register, Lose, Notice, Leave, LeaveEnds
<1>5. \A t \in Sockets : down'[t] = down[t] \/ down'[t] = <<>>
    BY <1>1, <1>4
<1>6. OpenOnly'
  <2>1. CASE Lose(s)
      BY <1>1, <1>5, <2>1, Constants DEF Links, OpenOnly, Lose, LoseSocket, ConnectionTypeOK
  <2>2. CASE Register(s) \/ Notice(s)
      BY <1>1, <2>2, Constants
      DEF Links, OpenOnly, Register, Notice, OpenSocket, NoticeLoss, ConnectionTypeOK
  <2>3. CASE Leave(s) \/ LeaveEnds(s)
      BY <2>3, Constants DEF Links, OpenOnly, Leave, LeaveEnds
  <2> QED
    BY <2>1, <2>2, <2>3
<1>7. DownCopies'
  <2> SUFFICES ASSUME NEW b \in Ids, NEW t \in Sockets
               PROVE  Once(down'[t], {ShowOf(b)})
      BY Kinds, Constants DEF DownCopies
  <2>1. Once(down[t], {ShowOf(b)})
      BY DEF DownCopies
  <2> QED
    BY <1>5, <2>1, Empty
<1>8. ASSUME NEW b \in Ids, NEW f \in Endpoints, Coming(b, f)'
      PROVE  Coming(b, f)
  <2>1. PICK t \in Sockets : Owner(t) = f /\ Has(down'[t], {ShowOf(b)})
      BY <1>8, Kinds, Constants DEF Coming
  <2> QED
    BY <1>5, <2>1, Empty DEF Coming
<1>9. /\ Current'
      /\ \A t \in Sockets : IsCurrent(t)' => IsCurrent(t) \/ (t = s /\ Register(s))
  <2>1. CASE Register(s)
    <3>1. /\ connections' = [connections EXCEPT ![Owner(s)] = s]
          /\ ws' = [ws EXCEPT ![s] = "open"]
        BY <2>1 DEF Register, Connect, OpenSocket
    <3>2. /\ connections'[Owner(s)] = s
          /\ \A f \in Endpoints : f # Owner(s) => connections'[f] = connections[f]
        BY <1>1, <3>1, Owners DEF ConnectionTypeOK
    <3>3. ASSUME NEW t \in Sockets, ws'[t] = "open" PROVE IsCurrent(t)'
      <4>1. CASE Owner(t) = Owner(s)
        <5>1. ws'[s] = "open" /\ Owner(t)' = Owner(s)'
            BY <1>1, <3>1, <4>1, Constants DEF ConnectionTypeOK
        <5>2. t = s
          <6>1. \A a, b \in Sockets :
                  Owner(a) = Owner(b) /\ a[2] < b[2] /\ ws'[b] # "unopened"
                    => ws'[a] \in {"lost", "dead"}
              BY <1>3, Constants DEF Ordered, Owner
          <6>2. PICK e \in Endpoints, n \in 1 .. MaxReconnects + 1 : s = <<e, n>>
              BY DEF Sockets
          <6>3. PICK k \in 1 .. MaxReconnects + 1 : t = <<e, k>>
              BY <4>1, <6>2 DEF Sockets, Owner
          <6>4. ~ (n < k) /\ ~ (k < n)
              BY <3>3, <5>1, <6>1, <6>2, <6>3, <4>1
          <6>5. n \in Nat /\ k \in Nat
              BY MaxReconnectsAssumption
          <6> QED
            BY <6>2, <6>3, <6>4, <6>5
        <5> QED
          BY <3>2, <5>2 DEF IsCurrent, Owner
      <4>2. CASE Owner(t) # Owner(s)
        <5>1. ws[t] = "open"
            BY <1>1, <3>1, <3>3, <4>2 DEF ConnectionTypeOK
        <5> QED
          BY <3>2, <4>2, <5>1, Owners DEF Links, Current, IsCurrent, Owner
      <4> QED
        BY <4>1, <4>2
    <3>4. ASSUME NEW t \in Sockets, IsCurrent(t)', t # s PROVE IsCurrent(t)
        BY <3>2, <3>4, Owners DEF IsCurrent, Owner
    <3> QED
      BY <2>1, <3>3, <3>4, Constants DEF Current
  <2>2. CASE Lose(s) \/ Notice(s) \/ LeaveEnds(s)
    <3>1. connections' = connections /\ \A t \in Sockets : ws'[t] = "open" => ws[t] = "open"
        BY <1>1, <2>2
        DEF Lose, Notice, LeaveEnds, LoseSocket, NoticeLoss, server, ConnectionTypeOK
    <3> QED
      BY <1>1, <3>1, CurrentKept DEF Links
  <2>3. CASE Leave(s)
    <3>1. ws' = ws /\ ws[s] = "dead" /\ connections' = Without(s)
        BY <2>3 DEF Leave, Disconnect
    <3> QED
      BY <1>1, <3>1, CurrentKept DEF Links
  <2> QED
    BY <2>1, <2>2, <2>3
<1> QED
  BY <1>2, <1>3, <1>6, <1>7, <1>8, <1>9 DEF Links


-----------------------------------------------------------------------------
(* Reports on their way to the server                                      *)

\* The same over unchanged queues and table.
LEMMA UpKept ==
    ASSUME up' = up, connections' = connections, NEW d \in Ids, NEW e
    PROVE  /\ Reported(d, e)' <=> Reported(d, e)
           /\ Acting(d, e)' <=> Acting(d, e)
           /\ Telling(d, e)' <=> Telling(d, e)
BY Kinds, Constants DEF Reported, Acting, Telling, IsCurrent, Owner

\* One report at most: of the sound, the outcome of a notification of which no
\* other is on its way, or a press before that.
LEMMA ToldOne ==
    ASSUME Typed, Links, UpCopies, NEW e \in Endpoints, NEW m \in Reports,
           Tell(e, m) \/ up' = up, connections' = connections,
           \A d \in Ids : m \in VisualOf(d) => ~ Reported(d, e),
           \A d \in Ids : m \in ActionOf(d) => ~ Acting(d, e) /\ ~ Reported(d, e)
    PROVE  /\ UpCopies'
           /\ \A b \in Ids, f \in Endpoints :
                /\ Reported(b, f)' => Reported(b, f) \/ (f = e /\ m \in VisualOf(b))
                /\ Acting(b, f)' => Acting(b, f) \/ (f = e /\ m \in ActionOf(b))
                /\ Telling(b, f) => Telling(b, f)'
           /\ up' # up => \A b \in Ids : m \in VisualOf(b) => Telling(b, e)'
<1>0. up \in [Sockets -> Seq(Reports)]
    BY DEF Typed, UpTypes
<1>1. CASE up' = up
  <2>1. UpCopies'
      BY <1>1, Kinds, Constants DEF UpCopies
  <2> QED
    BY <1>1, <2>1, UpKept
<1>2. CASE up' # up
  <2>1. \A s \in Sockets :
          /\ up[s] \in Seq(Reports)
          /\ up'[s] = IF Owner(s) = e /\ ws[s] = "open" THEN Append(up[s], m) ELSE up[s]
      BY <1>0, <1>2 DEF Tell
  <2>2. \A s \in Sockets : ws[s] = "open" => IsCurrent(s)
      BY DEF Links, Current
  <2>3. ASSUME NEW s \in Sockets, NEW d \in Ids
        PROVE  /\ Has(up'[s], VisualOf(d)) =>
                    \/ Has(up[s], VisualOf(d))
                    \/ Owner(s) = e /\ ws[s] = "open" /\ m \in VisualOf(d)
               /\ Has(up'[s], ActionOf(d)) =>
                    Has(up[s], ActionOf(d)) \/ (Owner(s) = e /\ m \in ActionOf(d))
               /\ Has(up[s], VisualOf(d)) => Has(up'[s], VisualOf(d))
               /\ Once(up'[s], VisualOf(d)) /\ Once(up'[s], ActionOf(d))
               /\ Before(up'[s], ActionOf(d), VisualOf(d))
    <3>1. /\ Once(up[s], VisualOf(d)) /\ Once(up[s], ActionOf(d))
          /\ Before(up[s], ActionOf(d), VisualOf(d))
        BY DEF UpCopies
    <3>2. CASE ~ (Owner(s) = e /\ ws[s] = "open")
        BY <2>1, <3>1, <3>2
    <3>3. CASE Owner(s) = e /\ ws[s] = "open"
      <4>1. up'[s] = Append(up[s], m) /\ up[s] \in Seq(Reports)
          BY <2>1, <3>3
      <4>2. /\ m \in VisualOf(d) => ~ Has(up[s], VisualOf(d))
            /\ m \in ActionOf(d) => ~ Has(up[s], ActionOf(d)) /\ ~ Has(up[s], VisualOf(d))
          BY <2>2, <3>3 DEF Reported, Acting
      <4>3. /\ Has(up'[s], VisualOf(d)) <=> (Has(up[s], VisualOf(d)) \/ m \in VisualOf(d))
            /\ Once(up'[s], VisualOf(d))
          BY <3>1, <4>1, <4>2, Appended
      <4>4. /\ Has(up'[s], ActionOf(d)) <=> (Has(up[s], ActionOf(d)) \/ m \in ActionOf(d))
            /\ Once(up'[s], ActionOf(d))
          BY <3>1, <4>1, <4>2, Appended
      <4>5. Before(up'[s], ActionOf(d), VisualOf(d))
        <5>1. m \in ActionOf(d) => m \notin VisualOf(d)
            BY Kinds
        <5> QED
          BY <3>1, <4>1, <4>2, <5>1, Appended
      <4> QED
        BY <3>3, <4>3, <4>4, <4>5
    <3> QED
      BY <3>2, <3>3
  <2>4. UpCopies'
    <3>1. ASSUME NEW d \in Ids, NEW s \in Sockets, NEW t \in Sockets, Owner(s) = Owner(t),
                 Has(up'[s], VisualOf(d)), Has(up'[t], VisualOf(d))
          PROVE  s = t
      <4>1. CASE m \in VisualOf(d) /\ Owner(s) = e
        <5>1. ws[s] = "open" /\ ws[t] = "open"
            BY <2>3, <3>1, <4>1 DEF Reported
        <5> QED
          BY <3>1, <5>1, OneOpen DEF Links
      <4>2. CASE ~ (m \in VisualOf(d) /\ Owner(s) = e)
        <5>1. Has(up[s], VisualOf(d)) /\ Has(up[t], VisualOf(d))
            BY <2>3, <3>1, <4>2
        <5> QED
          BY <3>1, <5>1 DEF UpCopies
      <4> QED
        BY <4>1, <4>2
    <3>2. \A s : Owner(s)' = Owner(s)
        BY Constants
    <3> QED
      BY <2>3, <3>1, <3>2, Kinds, Constants DEF UpCopies
  <2>5. \A s \in Sockets : IsCurrent(s)' <=> IsCurrent(s)
      BY Constants DEF IsCurrent, Owner
  <2>6. ASSUME NEW b \in Ids, NEW f \in Endpoints
        PROVE  /\ Reported(b, f)' => Reported(b, f) \/ (f = e /\ m \in VisualOf(b))
               /\ Acting(b, f)' => Acting(b, f) \/ (f = e /\ m \in ActionOf(b))
               /\ Telling(b, f) => Telling(b, f)'
      BY <2>3, <2>5, Kinds, Constants DEF Reported, Acting, Telling
  <2>7. ASSUME NEW b \in Ids, m \in VisualOf(b) PROVE Telling(b, e)'
    <3>1. PICK s \in Sockets : up'[s] # up[s]
      <4>1. up' \in [Sockets -> Seq(Reports)]
          BY <1>2, TellTyped, Constants DEF Typed, UpTypes
      <4> QED
        BY <1>0, <1>2, <4>1
    <3>2. Owner(s) = e /\ ws[s] = "open" /\ up'[s] = Append(up[s], m) /\ up[s] \in Seq(Reports)
        BY <2>1, <3>1
    <3>3. Has(up'[s], VisualOf(b))
        BY <2>7, <3>2, Appended
    <3>4. IsCurrent(s)' /\ Owner(s)' = e
        BY <2>2, <2>5, <3>2, Constants
    <3> QED
      BY <3>3, <3>4, Kinds, Constants DEF Telling
  <2> QED
    BY <2>4, <2>6, <2>7
<1> QED
  BY <1>1, <1>2

\* The outcome is on its way, or will never be known.
LEMMA Concluded ==
    ASSUME Typed, Links, UpCopies, NEW e \in Endpoints, NEW o \in Ids,
           NEW status \in Outcomes.visual, Conclude(e, o, status),
           connections' = connections, ~ Reported(o, e)
    PROVE  /\ UpCopies' /\ (Unsaid(o, e)' \/ Telling(o, e)')
           /\ \A b \in Ids, f \in Endpoints :
                /\ Reported(b, f)' => Reported(b, f) \/ (f = e /\ b = o)
                /\ Acting(b, f)' => Acting(b, f)
                /\ Telling(b, f) => Telling(b, f)'
                /\ Unsaid(b, f) => Unsaid(b, f)'
                /\ Unsaid(b, f)' =>
                     Unsaid(b, f) \/ (f = e /\ b = o /\ ~ Reported(b, f)')
<1>1. PICK m \in Reports : m = Report(o, "visual", status)
    BY ReportsTyped
<1>2. /\ Tell(e, m) /\ m \in VisualOf(o)
      /\ \A b : (m \in VisualOf(b) => b = o) /\ m \notin ActionOf(b)
    BY <1>1, Kinds DEF Conclude, Report
<1>3. /\ UpCopies'
      /\ \A b \in Ids, f \in Endpoints :
           /\ Reported(b, f)' => Reported(b, f) \/ (f = e /\ m \in VisualOf(b))
           /\ Acting(b, f)' => Acting(b, f) \/ (f = e /\ m \in ActionOf(b))
           /\ Telling(b, f) => Telling(b, f)'
      /\ up' # up => \A b \in Ids : m \in VisualOf(b) => Telling(b, e)'
    BY <1>2, ToldOne
<1>4. unsaid' = IF up' = up THEN [unsaid EXCEPT ![e] = unsaid[e] \cup {o}] ELSE unsaid
    BY DEF Conclude
<1>5. unsaid \in [Endpoints -> SUBSET Ids]
    BY DEF Typed, ScreenTypes
<1>6. Unsaid(o, e)' \/ Telling(o, e)'
    BY <1>2, <1>3, <1>4, <1>5 DEF Unsaid
<1>7. ASSUME NEW b \in Ids, NEW f \in Endpoints
      PROVE  /\ Unsaid(b, f) => Unsaid(b, f)'
             /\ Unsaid(b, f)' => Unsaid(b, f) \/ (f = e /\ b = o /\ ~ Reported(b, f)')
  <2>1. CASE up' = up
    <3>1. Reported(b, f)' <=> Reported(b, f)
        BY <2>1, UpKept
    <3> QED
      BY <1>4, <1>5, <2>1, <3>1 DEF Unsaid
  <2>2. CASE up' # up
      BY <1>4, <2>2 DEF Unsaid
  <2> QED
    BY <2>1, <2>2
<1> QED
  BY <1>2, <1>3, <1>6, <1>7

\* A report that is read is no longer on its way.
LEMMA ReportRead ==
    ASSUME Typed, UpCopies, NEW s \in Sockets, Receives(s), connections' = connections
    PROVE  /\ UpCopies'
           /\ \A b \in Ids, f \in Endpoints :
                /\ Reported(b, f)' => Reported(b, f)
                /\ Acting(b, f)' => Acting(b, f) /\ (Telling(b, f) => Telling(b, f)')
                /\ Head(up[s]) \notin VisualOf(b) =>
                     (Reported(b, f) => Reported(b, f)') /\ (Telling(b, f) => Telling(b, f)')
           /\ \A b \in Ids :
                /\ Head(up[s]) \in VisualOf(b) =>
                     Reported(b, Owner(s)) /\ ~ Reported(b, Owner(s))'
                /\ Head(up[s]) \in ActionOf(b) =>
                     Acting(b, Owner(s)) /\ ~ Acting(b, Owner(s))'
<1>1. /\ up' = [up EXCEPT ![s] = Tail(up[s])] /\ up[s] # <<>>
      /\ up[s] \in Seq(Reports) /\ DOMAIN up = Sockets
    BY ReceivesTyped DEF Typed, UpTypes
<1>2. \A t \in Sockets : up'[t] = IF t = s THEN Tail(up[s]) ELSE up[t]
    BY <1>1
<1>3. ASSUME NEW S
      PROVE  /\ Head(up[s]) \in S => Has(up[s], S)
             /\ Has(Tail(up[s]), S) => Has(up[s], S)
             /\ Has(up[s], S) => Head(up[s]) \in S \/ Has(Tail(up[s]), S)
             /\ Once(up[s], S) => Once(Tail(up[s]), S)
             /\ Once(up[s], S) /\ Head(up[s]) \in S => ~ Has(Tail(up[s]), S)
             /\ \A T : Before(up[s], S, T) => /\ Before(Tail(up[s]), S, T)
                                              /\ Head(up[s]) \in T => ~ Has(Tail(up[s]), S)
    BY <1>1, Taken
<1>4. ASSUME NEW b \in Ids, NEW t \in Sockets
      PROVE  /\ Has(up'[t], VisualOf(b)) => Has(up[t], VisualOf(b))
             /\ Has(up'[t], ActionOf(b)) => Has(up[t], ActionOf(b))
             /\ Head(up[s]) \notin VisualOf(b) \/ Has(up'[t], ActionOf(b)) \/ t # s
                  => (Has(up[t], VisualOf(b)) => Has(up'[t], VisualOf(b)))
             /\ Once(up'[t], VisualOf(b)) /\ Once(up'[t], ActionOf(b))
             /\ Before(up'[t], ActionOf(b), VisualOf(b))
  <2>1. /\ Once(up[t], VisualOf(b)) /\ Once(up[t], ActionOf(b))
        /\ Before(up[t], ActionOf(b), VisualOf(b))
      BY DEF UpCopies
  <2>2. CASE t = s
      BY <1>2, <1>3, <2>1, <2>2
  <2>3. CASE t # s
      BY <1>2, <2>1, <2>3
  <2> QED
    BY <2>2, <2>3
<1>5. UpCopies'
  <2>1. \A t : Owner(t)' = Owner(t)
      BY Constants
  <2>2. \A d \in Ids, a, t \in Sockets :
          Owner(a) = Owner(t) /\ Has(up'[a], VisualOf(d)) /\ Has(up'[t], VisualOf(d)) => a = t
      BY <1>4 DEF UpCopies
  <2> QED
    BY <1>4, <2>1, <2>2, Kinds, Constants DEF UpCopies
<1>6. /\ \A t \in Sockets : IsCurrent(t)' <=> IsCurrent(t)
      /\ \A t, u \in Sockets : IsCurrent(t) /\ IsCurrent(u) /\ Owner(t) = Owner(u) => t = u
      /\ IsCurrent(s)
    BY Constants DEF IsCurrent, Owner, Receives
<1>7. ASSUME NEW b \in Ids, NEW f \in Endpoints
      PROVE  /\ Reported(b, f)' => Reported(b, f)
             /\ Acting(b, f)' => Acting(b, f)
             /\ Head(up[s]) \notin VisualOf(b) =>
                  (Reported(b, f) => Reported(b, f)') /\ (Telling(b, f) => Telling(b, f)')
    BY <1>4, <1>6, Kinds, Constants DEF Reported, Acting, Telling
<1>8. ASSUME NEW b \in Ids, NEW f \in Endpoints, Acting(b, f)', Telling(b, f)
      PROVE  Telling(b, f)'
  <2>1. PICK t \in Sockets : Owner(t) = f /\ IsCurrent(t) /\ Has(up'[t], ActionOf(b))
      BY <1>6, <1>8, Kinds, Constants DEF Acting
  <2>2. Has(up[t], VisualOf(b))
      BY <1>6, <1>8, <2>1 DEF Telling
  <2>3. Has(up'[t], VisualOf(b))
      BY <1>4, <2>1, <2>2
  <2> QED
    BY <1>6, <2>1, <2>3, Kinds, Constants DEF Telling
<1>9. ASSUME NEW b \in Ids, Head(up[s]) \in VisualOf(b)
      PROVE  Reported(b, Owner(s)) /\ ~ Reported(b, Owner(s))'
  <2>1. Has(up[s], VisualOf(b)) /\ Once(up[s], VisualOf(b))
      BY <1>3, <1>9 DEF UpCopies
  <2>2. ASSUME NEW t \in Sockets, Owner(t) = Owner(s), Has(up'[t], VisualOf(b))
        PROVE  FALSE
    <3>1. t = s
        BY <1>4, <2>1, <2>2 DEF UpCopies
    <3> QED
      BY <1>2, <1>3, <1>9, <2>1, <2>2, <3>1
  <2> QED
    BY <2>1, <2>2, Kinds, Constants DEF Reported
<1>10. ASSUME NEW b \in Ids, Head(up[s]) \in ActionOf(b)
       PROVE  Acting(b, Owner(s)) /\ ~ Acting(b, Owner(s))'
  <2>1. Has(up[s], ActionOf(b)) /\ Once(up[s], ActionOf(b))
      BY <1>3, <1>10 DEF UpCopies
  <2>2. ~ Has(up'[s], ActionOf(b))
      BY <1>2, <1>3, <1>10, <2>1
  <2> QED
    BY <1>6, <2>1, <2>2, Kinds, Constants DEF Acting
<1> QED
  BY <1>5, <1>7, <1>8, <1>9, <1>10

\* Those of a socket whose handler ends are read by nobody, and no socket
\* takes the table's entry with something that is to be read.
LEMMA ReportsLeft ==
    ASSUME Typed, UpCopies, up' = up \/ \E s \in Sockets : up' = [up EXCEPT ![s] = <<>>],
           \A t \in Sockets : IsCurrent(t)' => IsCurrent(t) \/ up[t] = <<>>
    PROVE  /\ UpCopies'
           /\ \A b \in Ids, f \in Endpoints :
                /\ Reported(b, f)' => Reported(b, f)
                /\ Acting(b, f)' => Acting(b, f) /\ (Telling(b, f) => Telling(b, f)')
<1>1. \A t \in Sockets : up'[t] = up[t] \/ up'[t] = <<>>
    BY DEF Typed, UpTypes
<1>2. ASSUME NEW b \in Ids, NEW t \in Sockets
      PROVE  /\ Has(up'[t], VisualOf(b)) => Has(up[t], VisualOf(b))
             /\ Has(up'[t], ActionOf(b)) => up'[t] = up[t] /\ up[t] # <<>>
             /\ Once(up'[t], VisualOf(b)) /\ Once(up'[t], ActionOf(b))
             /\ Before(up'[t], ActionOf(b), VisualOf(b))
  <2>1. /\ Once(up[t], VisualOf(b)) /\ Once(up[t], ActionOf(b))
        /\ Before(up[t], ActionOf(b), VisualOf(b))
      BY DEF UpCopies
  <2> QED
    BY <1>1, <2>1, Empty
<1>3. UpCopies'
  <2>1. \A t : Owner(t)' = Owner(t)
      BY Constants
  <2>2. \A d \in Ids, a, t \in Sockets :
          Owner(a) = Owner(t) /\ Has(up'[a], VisualOf(d)) /\ Has(up'[t], VisualOf(d)) => a = t
      BY <1>2 DEF UpCopies
  <2> QED
    BY <1>2, <2>1, <2>2, Kinds, Constants DEF UpCopies
<1>4. ASSUME NEW b \in Ids, NEW f \in Endpoints
      PROVE  Reported(b, f)' => Reported(b, f)
    BY <1>2, Kinds, Constants DEF Reported
<1>5. ASSUME NEW b \in Ids, NEW f \in Endpoints, Acting(b, f)'
      PROVE  Acting(b, f) /\ (Telling(b, f) => Telling(b, f)')
  <2>1. PICK t \in Sockets : Owner(t) = f /\ IsCurrent(t)' /\ Has(up'[t], ActionOf(b))
      BY <1>5, Kinds, Constants DEF Acting
  <2>2. up'[t] = up[t] /\ IsCurrent(t)
      BY <1>2, <2>1
  <2>3. Acting(b, f)
      BY <2>1, <2>2 DEF Acting
  <2>4. ASSUME Telling(b, f) PROVE Telling(b, f)'
    <3>1. Has(up[t], VisualOf(b))
        BY <2>1, <2>2, <2>4 DEF Telling, IsCurrent
    <3> QED
      BY <2>1, <2>2, <3>1, Kinds, Constants DEF Telling
  <2> QED
    BY <2>3, <2>4
<1> QED
  BY <1>3, <1>4, <1>5

\* Only an open socket has something new to be read.
LEMMA FreshKept ==
    ASSUME Typed, Fresh, [Next]_vars
    PROVE  Fresh'
<1> DEFINE Steady == /\ \A s \in Sockets : ws'[s] = "unopened" => ws[s] = "unopened"
                     /\ \A s \in Sockets : \/ ws[s] = "open" \/ up'[s] = up[s]
                                           \/ up'[s] = <<>> \/ up[s] # <<>>
<1> HIDE DEF Steady
<1>0. up \in [Sockets -> Seq(Reports)] /\ ws \in [Sockets -> LinkStates]
    BY DEF Typed, UpTypes, LinkTypes, ConnectionTypeOK
<1>1. \A e, m : Tell(e, m) => \A s \in Sockets : ws[s] = "open" \/ up'[s] = up[s]
    BY DEF Tell
<1>2. \A e, d, status : Conclude(e, d, status)
                          => \A s \in Sockets : ws[s] = "open" \/ up'[s] = up[s]
    BY <1>1 DEF Conclude
<1>3. ASSUME NEW s \in Sockets, Register(s) \/ Lose(s) \/ Notice(s) PROVE Steady
    BY <1>0, <1>3 DEF Register, Lose, Notice, OpenSocket, LoseSocket, NoticeLoss, Steady
<1>4. ASSUME NEW s \in Sockets, Serving(s) PROVE Steady
  <2>1. ws' = ws /\ (up' = up \/ \E q : up' = [up EXCEPT ![s] = q] /\ (q = <<>> \/ up[s] # <<>>))
    <3>1. CASE Leave(s) \/ LeaveEnds(s) \/ ActionPublished(s)
        BY <3>1 DEF Leave, LeaveEnds, ActionPublished
    <3>2. CASE VisualStatus(s) \/ AudioStatus(s) \/ \E known \in BOOLEAN : ActivateAction(s, known)
      <4>1. Receives(s) /\ ws' = ws
          BY <3>2 DEF VisualStatus, AudioStatus, ActivateAction
      <4> QED
        BY <4>1 DEF Receives
    <3> QED
      BY <1>4, <3>1, <3>2 DEF Serving
  <2> QED
    BY <1>0, <2>1 DEF Steady
<1>5. ASSUME NEW s \in Sockets, Arriving(s) PROVE Steady
  <2>1. ws' = ws
      BY <1>5 DEF Arriving, ShowQueued, ShowOverflow, Show, Play, Stop
  <2>2. CASE ShowQueued(s) \/ ShowOverflow(s)
      BY <1>2, <2>1, <2>2 DEF ShowQueued, ShowOverflow, Steady
  <2>3. CASE Show(s)
      BY <1>2, <2>1, <2>3 DEF Show, Steady
  <2>4. CASE Play(s)
      BY <1>1, <2>1, <2>4 DEF Play, Steady
  <2>5. CASE Stop(s)
      BY <1>1, <2>1, <2>5 DEF Stop, Steady
  <2> QED
    BY <1>5, <2>2, <2>3, <2>4, <2>5 DEF Arriving
<1>6. ASSUME Notify PROVE Steady
    BY <1>6 DEF Notify, Steady
<1>7. ASSUME NEW d \in Deliveries, Notifying(d) \/ \E e \in Endpoints : StopSpeech(d, e)
      PROVE  Steady
    BY <1>7 DEF Notifying, Synthesize, SynthesisFails, ShowTo, PlayTo, StopSpeech, Steady
<1>8. ASSUME NEW e \in Endpoints, Closing(e) \/ Press(e) \/ Speaking(e) PROVE Steady
  <2>1. CASE Closing(e)
    <3>1. PICK status \in Outcomes.visual : Finish(e, status)
        BY <2>1, FinishTyped
    <3>2. ws' = ws /\ Conclude(e, overlay[e], status)
        BY <3>1 DEF Finish
    <3> QED
      BY <1>2, <3>2 DEF Steady
  <2>2. CASE Press(e)
      BY <1>1, <2>2 DEF Press, Steady
  <2>3. CASE Accept(e)
      BY <1>1, <2>3 DEF Accept, Steady
  <2>4. ASSUME NEW d \in Ids, NEW result, SoundStarts(e, d) \/ SoundEnds(e, d, result)
        PROVE  Steady
      BY <1>1, <2>4 DEF SoundStarts, SoundEnds, Steady
  <2> QED
    BY <1>8, <2>1, <2>2, <2>3, <2>4 DEF Speaking
<1>9. ASSUME UNCHANGED vars PROVE Steady
    BY <1>9 DEF vars, Steady
<1>10. Steady
    BY <1>3, <1>4, <1>5, <1>6, <1>7, <1>8, <1>9 DEF Next, Closing
<1> QED
  BY <1>10, EmptySeq, Constants DEF Fresh, Steady
-----------------------------------------------------------------------------
(* The screen                                                              *)

\* A notification that comes is on the screen or waits for it; one that must
\* make room is gone.
LEMMA Screened ==
    ASSUME ScreenTypes, ScreenCopies, NEW e \in Endpoints, NEW d \in Ids, ~ Held(d, e),
           \/ /\ overlay' = overlay
              /\ pending' = [pending EXCEPT ![e] = Append(pending[e], d)]
           \/ /\ overlay' = [overlay EXCEPT ![e] = d]
              /\ pending' = [pending EXCEPT ![e] = <<>>]
    PROVE  /\ ScreenCopies'
           /\ \A b \in Ids, f \in Endpoints : Held(b, f)' => Held(b, f) \/ (b = d /\ f = e)
           /\ overlay' # overlay => \A b \in Ids : b = overlay[e] => ~ Held(b, e)'
<1>1. /\ DOMAIN overlay = Endpoints /\ DOMAIN pending = Endpoints /\ pending[e] \in Seq(Ids)
      /\ d # overlay[e]
    BY DEF ScreenTypes, Held
<1>2. \A f \in Endpoints : f # e => overlay'[f] = overlay[f] /\ pending'[f] = pending[f]
    BY <1>1
<1>3. CASE /\ overlay' = overlay
           /\ pending' = [pending EXCEPT ![e] = Append(pending[e], d)]
  <2>1. \A b \in Ids :
          /\ Has(pending'[e], {b}) <=> (Has(pending[e], {b}) \/ d \in {b})
          /\ d \notin {b} => (Once(pending[e], {b}) => Once(pending'[e], {b}))
          /\ ~ Has(pending[e], {b}) => Once(pending'[e], {b})
    <3> TAKE b \in Ids
    <3>1. pending'[e] = Append(pending[e], d)
        BY <1>1, <1>3
    <3> QED
      BY <1>1, <3>1, Appended
  <2>2. ASSUME NEW b \in Ids, NEW f \in Endpoints
        PROVE  /\ Once(pending'[f], {b}) /\ (overlay'[f] = b => ~ Has(pending'[f], {b}))
               /\ Has(pending'[f], {b}) => Has(pending[f], {b}) \/ (b = d /\ f = e)
    <3>1. Once(pending[f], {b}) /\ (overlay[f] = b => ~ Has(pending[f], {b}))
        BY DEF ScreenCopies
    <3>2. CASE f # e
        BY <1>2, <3>1, <3>2
    <3>3. CASE f = e /\ b # d
        BY <1>3, <2>1, <3>1, <3>3
    <3>4. CASE f = e /\ b = d
        BY <1>1, <1>3, <2>1, <3>4 DEF Held
    <3> QED
      BY <3>2, <3>3, <3>4
  <2> QED
    BY <1>3, <2>2, Constants DEF ScreenCopies, Held
<1>4. CASE /\ overlay' = [overlay EXCEPT ![e] = d]
           /\ pending' = [pending EXCEPT ![e] = <<>>]
  <2>1. overlay'[e] = d /\ pending'[e] = <<>>
      BY <1>1, <1>4
  <2>2. ASSUME NEW b \in Ids, NEW f \in Endpoints
        PROVE  /\ Once(pending'[f], {b}) /\ (overlay'[f] = b => ~ Has(pending'[f], {b}))
               /\ Has(pending'[f], {b}) => Has(pending[f], {b}) /\ f # e
    <3>1. Once(pending[f], {b}) /\ (overlay[f] = b => ~ Has(pending[f], {b}))
        BY DEF ScreenCopies
    <3> QED
      BY <1>2, <2>1, <3>1, Empty
  <2>3. ASSUME NEW b \in Ids, NEW f \in Endpoints, Held(b, f)'
        PROVE  Held(b, f) \/ (b = d /\ f = e)
      BY <1>2, <2>1, <2>2, <2>3 DEF Held
  <2>4. ASSUME NEW b \in Ids, b = overlay[e]
        PROVE  ~ Held(b, e)'
      BY <1>1, <2>1, <2>2, <2>4 DEF Held
  <2> QED
    BY <2>2, <2>3, <2>4, Constants DEF ScreenCopies
<1> QED
  BY <1>3, <1>4

\* finish_notification: what was on the screen is gone, whatever comes next.
LEMMA Finished1 ==
    ASSUME ScreenTypes, ScreenCopies, NEW e \in Endpoints, NEW o \in Ids, overlay[e] = o,
           NEW status, Finish(e, status)
    PROVE  /\ ScreenCopies' /\ ~ Held(o, e)'
           /\ \A b \in Ids, f \in Endpoints : Held(b, f)' => Held(b, f)
           /\ \A b \in Ids, f \in Endpoints :
                Pressed(b, f) /\ Held(b, f)' => Pressed(b, f)'
<1>1. /\ DOMAIN overlay = Endpoints /\ DOMAIN pending = Endpoints /\ pending[e] \in Seq(Ids)
      /\ DOMAIN pressed = Endpoints /\ \A b \in Ids : b # 0
    BY NotificationAssumption DEF ScreenTypes, Ids
<1>2. \A f \in Endpoints : f # e => /\ overlay'[f] = overlay[f] /\ pending'[f] = pending[f]
                                    /\ pressed'[f] = pressed[f]
    BY <1>1 DEF Finish
<1>3. \A b \in Ids : Once(pending[e], {b}) /\ (o = b => ~ Has(pending[e], {b}))
    BY DEF ScreenCopies
<1>4. \A b \in Ids :
        /\ Once(pending'[e], {b}) /\ (overlay'[e] = b => ~ Has(pending'[e], {b}))
        /\ Has(pending'[e], {b}) => Has(pending[e], {b})
        /\ overlay'[e] = b => Has(pending[e], {b})
  <2>1. CASE pending[e] = <<>>
    <3>1. overlay'[e] = 0 /\ pending'[e] = pending[e]
        BY <1>1, <2>1 DEF Finish
    <3> QED
      BY <1>1, <1>3, <3>1
  <2>2. CASE pending[e] # <<>>
    <3>1. overlay'[e] = Head(pending[e]) /\ pending'[e] = Tail(pending[e])
        BY <1>1, <2>2 DEF Finish
    <3>2. \A b : /\ Head(pending[e]) \in {b} => Has(pending[e], {b})
                 /\ Has(Tail(pending[e]), {b}) => Has(pending[e], {b})
                 /\ Once(pending[e], {b}) => Once(Tail(pending[e]), {b})
                 /\ Once(pending[e], {b}) /\ Head(pending[e]) \in {b}
                      => ~ Has(Tail(pending[e]), {b})
      <4> TAKE b
      <4> QED
        BY <1>1, <2>2, Taken
    <3> QED
      BY <1>3, <3>1, <3>2
  <2> QED
    BY <2>1, <2>2
<1>5. ASSUME NEW b \in Ids, NEW f \in Endpoints
      PROVE  /\ Once(pending'[f], {b}) /\ (overlay'[f] = b => ~ Has(pending'[f], {b}))
             /\ Held(b, f)' => Held(b, f)
  <2>1. CASE f = e
      BY <1>4, <2>1 DEF Held
  <2>2. CASE f # e
      BY <1>2, <2>2 DEF ScreenCopies, Held
  <2> QED
    BY <2>1, <2>2
<1>6. ~ Held(o, e)'
    BY <1>3, <1>4 DEF Held
<1>7. ASSUME NEW b \in Ids, NEW f \in Endpoints, Pressed(b, f), Held(b, f)'
      PROVE  Pressed(b, f)'
    BY <1>2, <1>6, <1>7 DEF Pressed
<1> QED
  BY <1>5, <1>6, <1>7, Constants DEF ScreenCopies

-----------------------------------------------------------------------------
(* From stage to stage                                                     *)

\* The notification leaves the screen, or comes and finds no room.
Leaves(d, e) ==
    \/ Held(d, e) /\ ~ Held(d, e)'
    \/ Coming(d, e) /\ ~ Coming(d, e)' /\ ~ Held(d, e)'

\* What a step may do with notification d at display e.
Moves(d, e) ==
    /\ ToSend(d, e)' => ToSend(d, e) \/ d \notin Deliveries
    /\ Coming(d, e)' => Coming(d, e) \/ (ToSend(d, e) /\ ~ ToSend(d, e)')
    /\ Held(d, e)' => Held(d, e) \/ (Coming(d, e) /\ ~ Coming(d, e)')
    /\ Pressed(d, e) /\ Held(d, e)' => Pressed(d, e)'
    /\ Reported(d, e)' => Reported(d, e) \/ Leaves(d, e)
    /\ Unsaid(d, e) => Unsaid(d, e)'
    /\ Unsaid(d, e)' => Unsaid(d, e) \/ (Leaves(d, e) /\ ~ Reported(d, e)')
    /\ Acting(d, e)' =>
         \/ /\ Acting(d, e) /\ (Telling(d, e) => Telling(d, e)')
            /\ Pressed(d, e) => Pressed(d, e)' \/ Unsaid(d, e)' \/ Telling(d, e)'
         \/ Held(d, e) /\ ~ Pressed(d, e) /\ Pressed(d, e)'
    /\ d \in Deliveries /\ e \in With(d, "visual") =>
         \/ log'[d].channels[e]["visual"] = log[d].channels[e]["visual"]
         \/ Reported(d, e) /\ ~ Reported(d, e)'
    /\ d \notin Deliveries => ~ Settled(d, e)'
    /\ \/ ran'[<<d, e>>] = ran[<<d, e>>]
       \/ ran'[<<d, e>>] = ran[<<d, e>>] + 1 /\ Acting(d, e) /\ ~ Acting(d, e)'

LEMMA Quiet ==
    ASSUME NEW d \in Ids, NEW e \in Endpoints
    PROVE  /\ UNCHANGED <<log, task>> => (ToSend(d, e)' <=> ToSend(d, e))
           /\ UNCHANGED log => (Settled(d, e)' <=> Settled(d, e))
           /\ UNCHANGED down => (Coming(d, e)' <=> Coming(d, e))
           /\ UNCHANGED <<overlay, pending>> => (Held(d, e)' <=> Held(d, e))
           /\ UNCHANGED <<overlay, pressed>> => (Pressed(d, e)' <=> Pressed(d, e))
           /\ UNCHANGED unsaid => (Unsaid(d, e)' <=> Unsaid(d, e))
           /\ UNCHANGED up => (Reported(d, e)' <=> Reported(d, e))
           /\ UNCHANGED <<up, connections>> => /\ Acting(d, e)' <=> Acting(d, e)
                                               /\ Telling(d, e)' <=> Telling(d, e)
<1>1. UNCHANGED <<log, task>> => (ToSend(d, e)' <=> ToSend(d, e))
    BY DEF ToSend, Deliveries
<1>2. UNCHANGED log => (Settled(d, e)' <=> Settled(d, e))
    BY DEF Settled, Deliveries, With, Visual
<1>3. UNCHANGED down => (Coming(d, e)' <=> Coming(d, e))
    BY Kinds, Constants DEF Coming
<1>4. /\ UNCHANGED <<overlay, pending>> => (Held(d, e)' <=> Held(d, e))
      /\ UNCHANGED <<overlay, pressed>> => (Pressed(d, e)' <=> Pressed(d, e))
      /\ UNCHANGED unsaid => (Unsaid(d, e)' <=> Unsaid(d, e))
    BY DEF Held, Pressed, Unsaid
<1>5. UNCHANGED up => (Reported(d, e)' <=> Reported(d, e))
    BY Kinds, Constants DEF Reported
<1>6. UNCHANGED <<up, connections>> => /\ Acting(d, e)' <=> Acting(d, e)
                                       /\ Telling(d, e)' <=> Telling(d, e)
    BY UpKept
<1> QED
  BY <1>1, <1>2, <1>3, <1>4, <1>5, <1>6

LEMMA TellingReported ==
    ASSUME NEW d, NEW e, Telling(d, e)
    PROVE  Reported(d, e)
BY DEF Telling, Reported

\* Such steps leave a notification at one stage at a time.
LEMMA StageKept ==
    ASSUME Typed, Grows, NEW d \in Ids, NEW e \in Endpoints,
           OneStage(d, e), Answered(d, e), RunsOnce(d, e), Moves(d, e)
    PROVE  OneStage(d, e)' /\ Answered(d, e)' /\ RunsOnce(d, e)'
<1>1. /\ Telling(d, e) => Reported(d, e)
      /\ Pressed(d, e) => Held(d, e)
    BY TellingReported DEF Pressed, Held
<1>2. ToSend(d, e) => d \in Deliveries /\ e \in With(d, "visual")
    BY DEF ToSend, Typed, LogTypes, WellLogged
<1>3. Settled(d, e) => d \in Deliveries
    BY DEF Settled
<1>4. d \in Deliveries => d \in Deliveries' /\ With(d, "visual")' = With(d, "visual")
    BY DEF Grows, With
<1>5. Settled(d, e)' => Settled(d, e) \/ (Reported(d, e) /\ ~ Reported(d, e)')
  <2>1. CASE d \notin Deliveries
      BY <2>1 DEF Moves
  <2>2. ASSUME d \in Deliveries, Settled(d, e)'
        PROVE  Settled(d, e) \/ (Reported(d, e) /\ ~ Reported(d, e)')
    <3>1. e \in With(d, "visual") /\ log'[d].channels[e]["visual"] # "sent"
        BY <1>4, <2>2 DEF Settled, Visual
    <3>2. \/ log'[d].channels[e]["visual"] = log[d].channels[e]["visual"]
          \/ Reported(d, e) /\ ~ Reported(d, e)'
        BY <2>2, <3>1 DEF Moves
    <3> QED
      BY <2>2, <3>1, <3>2 DEF Settled, Visual
  <2> QED
    BY <2>1, <2>2
<1>6. OneStage(d, e)'
  <2>1. /\ ToSend(d, e)' => ToSend(d, e) \/ d \notin Deliveries
        /\ Coming(d, e)' => Coming(d, e) \/ (ToSend(d, e) /\ ~ ToSend(d, e)')
        /\ Held(d, e)' => Held(d, e) \/ (Coming(d, e) /\ ~ Coming(d, e)')
        /\ Reported(d, e)' => \/ Reported(d, e)
                              \/ Held(d, e) /\ ~ Held(d, e)'
                              \/ Coming(d, e) /\ ~ Coming(d, e)' /\ ~ Held(d, e)'
        /\ Unsaid(d, e)' =>
             \/ Unsaid(d, e)
             \/ /\ ~ Reported(d, e)'
                /\ \/ Held(d, e) /\ ~ Held(d, e)'
                   \/ Coming(d, e) /\ ~ Coming(d, e)' /\ ~ Held(d, e)'
      BY DEF Moves, Leaves
  <2>2. /\ ToSend(d, e)
             => ~ (Coming(d, e) \/ Held(d, e) \/ Reported(d, e) \/ Unsaid(d, e) \/ Settled(d, e))
        /\ Coming(d, e) => ~ (Held(d, e) \/ Reported(d, e) \/ Unsaid(d, e) \/ Settled(d, e))
        /\ Held(d, e) => ~ (Reported(d, e) \/ Unsaid(d, e) \/ Settled(d, e))
        /\ Reported(d, e) => ~ (Unsaid(d, e) \/ Settled(d, e))
        /\ Unsaid(d, e) => ~ Settled(d, e)
        /\ Coming(d, e) \/ Held(d, e) \/ Reported(d, e) \/ Unsaid(d, e)
             => d \in Deliveries /\ e \in With(d, "visual")
      BY DEF OneStage
  <2>3. ToSend(d, e)'
          => ~ (Coming(d, e)' \/ Held(d, e)' \/ Reported(d, e)' \/ Unsaid(d, e)' \/ Settled(d, e)')
      BY <1>2, <1>3, <1>5, <2>1, <2>2
  <2>4. /\ Coming(d, e)' => ~ (Held(d, e)' \/ Reported(d, e)' \/ Unsaid(d, e)' \/ Settled(d, e)')
        /\ Held(d, e)' => ~ (Reported(d, e)' \/ Unsaid(d, e)' \/ Settled(d, e)')
        /\ Reported(d, e)' => ~ (Unsaid(d, e)' \/ Settled(d, e)')
        /\ Unsaid(d, e)' => ~ Settled(d, e)'
      BY <1>5, <2>1, <2>2
  <2>5. Coming(d, e)' \/ Held(d, e)' \/ Reported(d, e)' \/ Unsaid(d, e)'
          => d \in Deliveries' /\ e \in With(d, "visual")'
      BY <1>2, <1>4, <2>1, <2>2
  <2> QED
    BY <2>3, <2>4, <2>5 DEF OneStage
<1>7. Answered(d, e)'
    BY DEF Answered, Moves
<1>8. RunsOnce(d, e)'
  <2>1. ran[<<d, e>>] \in Nat
      BY DEF Typed, RanTypes
  <2>2. CASE ran'[<<d, e>>] = ran[<<d, e>>]
      BY <1>4, <2>2 DEF RunsOnce, Moves
  <2>3. CASE ran'[<<d, e>>] # ran[<<d, e>>]
    <3>1. ran'[<<d, e>>] = ran[<<d, e>>] + 1 /\ Acting(d, e) /\ ~ Acting(d, e)'
        BY <2>3 DEF Moves
    <3>2. Pressed(d, e) \/ Unsaid(d, e) \/ Reported(d, e)
        BY <1>1, <3>1 DEF Answered
    <3>3. ran[<<d, e>>] = 0 /\ d \in Deliveries
          /\ ~ (ToSend(d, e) \/ Coming(d, e)) /\ (Held(d, e) => Pressed(d, e))
        BY <1>1, <2>1, <3>1, <3>2 DEF RunsOnce, OneStage
    <3>4. ~ (ToSend(d, e) \/ Coming(d, e))' /\ (Held(d, e)' => Pressed(d, e)')
        BY <3>3 DEF Moves
    <3>5. ran'[<<d, e>>] = 1 /\ d \in Deliveries'
        BY <1>4, <2>1, <3>1, <3>3
    <3> QED
      BY <3>1, <3>4, <3>5 DEF RunsOnce
  <2> QED
    BY <2>2, <2>3
<1> QED
  BY <1>6, <1>7, <1>8

\* What StageKept needs of a step.
Carried ==
    /\ Links' /\ DownCopies' /\ UpCopies' /\ ScreenCopies'
    /\ \A d \in Ids, e \in Endpoints : Moves(d, e)

LEMMA QuietParts ==
    /\ Links /\ UNCHANGED <<ws, connections, down>> => Links'
    /\ DownCopies /\ UNCHANGED down => DownCopies'
    /\ UpCopies /\ UNCHANGED up => UpCopies'
    /\ ScreenCopies /\ UNCHANGED <<overlay, pending>> => ScreenCopies'
<1>1. Links /\ UNCHANGED <<ws, connections, down>> => Links'
    BY Constants DEF Links, Ordered, Own, OpenOnly, Current, IsCurrent, Owner
<1>2. DownCopies /\ UNCHANGED down => DownCopies'
    BY Constants, Kinds DEF DownCopies
<1>3. UpCopies /\ UNCHANGED up => UpCopies'
    BY Constants, Kinds DEF UpCopies
<1>4. ScreenCopies /\ UNCHANGED <<overlay, pending>> => ScreenCopies'
    BY Constants DEF ScreenCopies
<1> QED
  BY <1>1, <1>2, <1>3, <1>4

\* The task and the log may change as they like for what is not being shown.
LEMMA QuietMoves ==
    ASSUME NEW d \in Ids, NEW e \in Endpoints,
           ToSend(d, e)' => ToSend(d, e),
           Coming(d, e)' => Coming(d, e), Held(d, e)' => Held(d, e),
           Reported(d, e)' => Reported(d, e),
           Acting(d, e)' => Acting(d, e) /\ (Telling(d, e) => Telling(d, e)'),
           UNCHANGED <<log, ran, overlay, pressed, unsaid>>
    PROVE  Moves(d, e)
<1>1. d \notin Deliveries => ~ Settled(d, e)'
    BY Quiet DEF Settled
<1>2. (Pressed(d, e)' <=> Pressed(d, e)) /\ (Unsaid(d, e)' <=> Unsaid(d, e))
    BY Quiet
<1> QED
  BY <1>1, <1>2 DEF Moves

LEMMA CarriedLinks ==
    ASSUME Stages, NEW s \in Sockets,
           Register(s) \/ Lose(s) \/ Notice(s) \/ Leave(s) \/ LeaveEnds(s)
    PROVE  Carried
<1>1. UNCHANGED <<log, task, panel, ran>>
    BY DEF Register, Lose, Notice, Leave, LeaveEnds, server
<1>2. /\ Links' /\ DownCopies' /\ \A d \in Ids, e \in Endpoints : Coming(d, e)' => Coming(d, e)
      /\ \A t \in Sockets : IsCurrent(t)' => IsCurrent(t) \/ (t = s /\ Register(s))
    BY DownLinks DEF Stages
<1>3. /\ up' = up \/ up' = [up EXCEPT ![s] = <<>>]
      /\ Register(s) => up[s] = <<>>
    BY DEF Register, Lose, Notice, Leave, LeaveEnds, OpenSocket, Stages, Fresh
<1>4. /\ UpCopies'
      /\ \A d \in Ids, e \in Endpoints :
           /\ Reported(d, e)' => Reported(d, e)
           /\ Acting(d, e)' => Acting(d, e) /\ (Telling(d, e) => Telling(d, e)')
    BY <1>2, <1>3, ReportsLeft DEF Stages
<1>5. ScreenCopies'
    BY <1>1, QuietParts DEF Stages, panel, screen
<1>6. ASSUME NEW d \in Ids, NEW e \in Endpoints
      PROVE  Moves(d, e)
  <2>1. (ToSend(d, e)' <=> ToSend(d, e)) /\ (Held(d, e)' <=> Held(d, e))
      BY <1>1, Quiet DEF panel, screen
  <2> QED
    BY <1>1, <1>2, <1>4, <2>1, QuietMoves DEF panel, screen
<1> QED
  BY <1>2, <1>4, <1>5, <1>6 DEF Carried

LEMMA CarriedNotify ==
    ASSUME Stages, Notify
    PROVE  Carried
<1>1. UNCHANGED <<scenario, connections, online, handler, stops, panel, ws, down, up, ran>>
    BY DEF Notify
<1>2. Links' /\ DownCopies' /\ UpCopies' /\ ScreenCopies'
    BY <1>1, QuietParts DEF Stages, panel, screen
<1>3. ASSUME NEW d \in Ids, NEW e \in Endpoints
      PROVE  /\ Coming(d, e)' <=> Coming(d, e)
             /\ Held(d, e)' <=> Held(d, e)
             /\ Pressed(d, e)' <=> Pressed(d, e)
             /\ Unsaid(d, e)' <=> Unsaid(d, e)
             /\ Reported(d, e)' <=> Reported(d, e)
             /\ (Acting(d, e)' <=> Acting(d, e)) /\ (Telling(d, e)' <=> Telling(d, e))
    BY <1>1, Quiet DEF panel, screen
<1>4. CASE log' = log
  <2>1. task' = task
      BY <1>4, NotNotified DEF Stages, Typed
  <2>2. ASSUME NEW d \in Ids, NEW e \in Endpoints
        PROVE  Moves(d, e)
    <3>1. ToSend(d, e)' <=> ToSend(d, e)
        BY <1>4, <2>1, Quiet
    <3> QED
      BY <1>1, <1>3, <1>4, <3>1, QuietMoves DEF panel, screen
  <2> QED
    BY <1>2, <2>2 DEF Carried
<1>5. CASE log' # log
  <2>1. PICK k \in Range(Requests) :
          /\ Deliveries' = Deliveries \cup {Len(log) + 1} /\ Len(log) + 1 \notin Deliveries
          /\ \A b \in Deliveries : log'[b] = log[b] /\ task'[b] = task[b]
          /\ log'[Len(log) + 1] = NewEntry(k)
      BY <1>5, Notified DEF Stages, Typed
  <2>2. ASSUME NEW d \in Ids, NEW e \in Endpoints
        PROVE  Moves(d, e)
    <3>1. ToSend(d, e)' => ToSend(d, e) \/ d \notin Deliveries
        BY <2>1 DEF ToSend
    <3>2. ASSUME d \notin Deliveries, Settled(d, e)'
          PROVE  FALSE
      <4>1. d \in Deliveries' /\ log'[d].channels[e]["visual"] # "sent"
            /\ e \in DOMAIN log'[d].channels /\ "visual" \in DOMAIN log'[d].channels[e]
          BY <3>2 DEF Settled, Visual, With
      <4>2. log'[d] = NewEntry(k)
          BY <2>1, <3>2, <4>1
      <4>3. log'[d].channels = [f \in Targets(k) |-> [c \in Channel(k, f) |-> "sent"]]
          BY <4>2 DEF NewEntry
      <4> QED
        BY <4>1, <4>3
    <3>3. d \in Deliveries => log'[d] = log[d]
        BY <2>1
    <3> QED
      BY <1>1, <1>3, <3>1, <3>2, <3>3 DEF Moves
  <2> QED
    BY <1>2, <2>2 DEF Carried
<1> QED
  BY <1>4, <1>5

\* notification.show: the display is no longer to be sent what is coming.
LEMMA CarriedShowTo ==
    ASSUME Stages, NEW d \in Deliveries, NEW e \in Endpoints, ShowTo(d, e)
    PROVE  Carried
<1>1. /\ task[d].pc = "showing" /\ e \in task[d].left /\ Send(e, "show", d)
      /\ task' = [task EXCEPT ![d] = Showing(log[d].kind, DOMAIN log[d].channels,
                                            task[d].left \ {e})]
      /\ UNCHANGED <<scenario, online, next, log, handler, stops, panel, ws, up, ran>>
    BY DEF ShowTo
<1>2. d \in Ids /\ Deliveries = DOMAIN task
  <2>1. task \in Seq(Doing) /\ Len(task) = Len(log)
      BY DEF Stages, Typed, LogTypes
  <2> QED
    BY <2>1, LenProperties, DeliveriesAreIds DEF Stages, Typed, Deliveries
<1>3. ToSend(d, e) /\ ~ Coming(d, e)
  <2>1. ToSend(d, e)
      BY <1>1 DEF ToSend
  <2> QED
    BY <1>2, <2>1 DEF Stages, OneStage
<1>4. /\ Links' /\ DownCopies' /\ \A t \in Sockets : IsCurrent(t)' => IsCurrent(t)
      /\ \A b \in Ids, f \in Endpoints : Coming(b, f)' => Coming(b, f) \/ (b = d /\ f = e)
    BY <1>1, <1>2, <1>3, DownSent DEF Stages
<1>5. /\ UpCopies' /\ ScreenCopies'
      /\ \A b \in Ids, f \in Endpoints :
           /\ Reported(b, f)' => Reported(b, f)
           /\ Acting(b, f)' => Acting(b, f) /\ (Telling(b, f) => Telling(b, f)')
  <2>1. ScreenCopies'
      BY <1>1, QuietParts DEF Stages, panel, screen
  <2> QED
    BY <1>1, <1>4, <2>1, ReportsLeft DEF Stages
<1>6. ASSUME NEW b \in Ids, NEW f \in Endpoints
      PROVE  ToSend(b, f)' => ToSend(b, f) /\ ~ (b = d /\ f = e)
  <2>1. Deliveries' = Deliveries
      BY <1>1 DEF Deliveries
  <2>2. task'[d].left = task[d].left \ {e}
      BY <1>1, <1>2 DEF Showing
  <2>3. b # d => task'[b] = task[b]
      BY <1>1
  <2>4. CASE b = d
      BY <1>1, <2>1, <2>2, <2>4 DEF ToSend
  <2>5. CASE b # d
      BY <2>1, <2>3, <2>5 DEF ToSend
  <2> QED
    BY <2>4, <2>5
<1>7. ASSUME NEW b \in Ids, NEW f \in Endpoints
      PROVE  Moves(b, f)
  <2>1. /\ Held(b, f)' <=> Held(b, f)
        /\ Pressed(b, f)' <=> Pressed(b, f)
        /\ Unsaid(b, f)' <=> Unsaid(b, f)
      BY <1>1, Quiet DEF panel, screen
  <2>2. b \notin Deliveries => ~ Settled(b, f)'
      BY <1>1, Quiet DEF Settled
  <2> QED
    BY <1>1, <1>3, <1>4, <1>5, <1>6, <2>1, <2>2 DEF Moves
<1> QED
  BY <1>4, <1>5, <1>7 DEF Carried

LEMMA CarriedSpeech ==
    ASSUME Stages, NEW d \in Deliveries,
           \/ Synthesize(d) \/ SynthesisFails(d)
           \/ \E e \in Endpoints : PlayTo(d, e) \/ StopSpeech(d, e)
    PROVE  Carried
<1>1. UNCHANGED <<log, panel, ws, up, ran>>
    BY DEF Synthesize, SynthesisFails, PlayTo, StopSpeech
<1>2. d \in Ids
    BY DeliveriesAreIds DEF Stages, Typed
<1>3. /\ Links' /\ DownCopies' /\ \A t \in Sockets : IsCurrent(t)' => IsCurrent(t)
      /\ \A b \in Ids, f \in Endpoints : Coming(b, f)' => Coming(b, f)
  <2>1. CASE Synthesize(d) \/ SynthesisFails(d)
    <3>1. UNCHANGED <<ws, connections, down>>
        BY <2>1 DEF Synthesize, SynthesisFails
    <3>2. \A t \in Sockets : IsCurrent(t)' => IsCurrent(t)
        BY <3>1, Constants DEF IsCurrent, Owner
    <3> QED
      BY <3>1, <3>2, QuietParts, Quiet DEF Stages
  <2>2. ASSUME NEW e \in Endpoints, PlayTo(d, e) \/ StopSpeech(d, e)
        PROVE  /\ Links' /\ DownCopies' /\ \A t \in Sockets : IsCurrent(t)' => IsCurrent(t)
               /\ \A b \in Ids, f \in Endpoints : Coming(b, f)' => Coming(b, f)
    <3>1. PICK type \in {"play", "stop"} : Send(e, type, d)
        BY <2>2 DEF PlayTo, StopSpeech
    <3>2. type # "show"
        OBVIOUS
    <3>3. ws' = ws
        BY <1>1
    <3> QED
      BY <1>2, <3>1, <3>2, <3>3, DownSent DEF Stages
  <2> QED
    BY <2>1, <2>2
<1>4. /\ UpCopies' /\ ScreenCopies'
      /\ \A b \in Ids, f \in Endpoints :
           /\ Reported(b, f)' => Reported(b, f)
           /\ Acting(b, f)' => Acting(b, f) /\ (Telling(b, f) => Telling(b, f)')
  <2>1. ScreenCopies'
      BY <1>1, QuietParts DEF Stages, panel, screen
  <2> QED
    BY <1>1, <1>3, <2>1, ReportsLeft DEF Stages
<1>5. \/ task' = task
      \/ \E x : task' = [task EXCEPT ![d] = x] /\ x.pc # "showing"
  <2>1. CASE Synthesize(d) \/ SynthesisFails(d)
    <3>1. PICK pc \in {"authenticating", "running", "playing", "failed"} :
            \E left : task' = [task EXCEPT ![d] = [pc |-> pc, left |-> left]]
        BY <2>1 DEF Synthesize, SynthesisFails, Goes
    <3>2. PICK left : task' = [task EXCEPT ![d] = [pc |-> pc, left |-> left]]
        BY <3>1
    <3>3. [pc |-> pc, left |-> left].pc # "showing"
        OBVIOUS
    <3> QED
      BY <3>2, <3>3
  <2>2. ASSUME NEW e \in Endpoints, PlayTo(d, e)
        PROVE  \E x : task' = [task EXCEPT ![d] = x] /\ x.pc # "showing"
    <3>1. PICK left : left = task[d].left \ {e}
        OBVIOUS
    <3>2. PICK pc : pc = IF left = {} THEN "done" ELSE "playing"
        OBVIOUS
    <3>3. task' = [task EXCEPT ![d] = [pc |-> pc, left |-> left]] /\ pc # "showing"
        BY <2>2, <3>1, <3>2 DEF PlayTo, Goes
    <3>4. [pc |-> pc, left |-> left].pc # "showing"
        BY <3>3
    <3> QED
      BY <3>3, <3>4
  <2>3. ASSUME NEW e \in Endpoints, StopSpeech(d, e)
        PROVE  task' = task
      BY <2>3 DEF StopSpeech
  <2> QED
    BY <2>1, <2>2, <2>3
<1>6. ASSUME NEW b \in Ids, NEW f \in Endpoints, ToSend(b, f)'
      PROVE  ToSend(b, f)
  <2>1. Deliveries' = Deliveries /\ b \in Deliveries /\ task'[b].pc = "showing"
        /\ f \in task'[b].left
      BY <1>1, <1>6 DEF Deliveries, ToSend
  <2>2. DOMAIN task = Deliveries
    <3>1. task \in Seq(Doing) /\ Len(task) = Len(log)
        BY DEF Stages, Typed, LogTypes
    <3> QED
      BY <3>1, LenProperties DEF Deliveries
  <2>3. task'[b] = task[b]
      BY <1>5, <2>1, <2>2
  <2> QED
    BY <2>1, <2>3 DEF ToSend
<1>7. ASSUME NEW b \in Ids, NEW f \in Endpoints
      PROVE  Moves(b, f)
  <2>1. Held(b, f)' <=> Held(b, f)
      BY <1>1, Quiet DEF panel, screen
  <2> QED
    BY <1>1, <1>3, <1>4, <1>6, <2>1, QuietMoves DEF panel, screen
<1> QED
  BY <1>3, <1>4, <1>7 DEF Carried

LEMMA CarriedStatus ==
    ASSUME Stages, NEW s \in Sockets, VisualStatus(s) \/ AudioStatus(s)
    PROVE  Carried
<1> DEFINE m == Head(up[s])
           e == Owner(s)
<1>1. /\ UNCHANGED <<scenario, connections, online, next, task, handler, stops,
                     panel, ws, down, ran>>
      /\ Receives(s)
      /\ \E channel \in {"visual", "audio"} :
           m.channel = channel /\ UpdateStatus(m.delivery, e, channel, m.status)
    BY DEF VisualStatus, AudioStatus
<1>2. PICK channel \in {"visual", "audio"} :
        m.channel = channel /\ UpdateStatus(m.delivery, e, channel, m.status)
    BY <1>1
<1>3. /\ m \in Reports /\ m.delivery \in Ids /\ e \in Endpoints
      /\ m.status \in Outcomes[channel] \cup Interim
  <2>1. /\ m \in Reports /\ m.delivery \in Ids
        /\ m.channel = "visual" => m.status \in Outcomes.visual
        /\ m.channel = "audio" => m.status \in Outcomes.audio \cup Interim
      BY <1>1, ReceivesTyped DEF Stages, Typed
  <2> QED
    BY <1>2, <2>1, Owners
<1>4. PICK d \in Ids, status \in Outcomes[channel] \cup Interim :
        d = m.delivery /\ status = m.status
    BY <1>3
<1>5. UpdateStatus(d, e, channel, status)
    BY <1>2, <1>4
<1>6. /\ Deliveries' = Deliveries
      /\ \A b \in Deliveries : \A f \in DOMAIN log[b].channels :
           \A x \in DOMAIN log[b].channels[f] :
             ~ (b = d /\ f = e /\ x = channel)
               => log'[b].channels[f][x] = log[b].channels[f][x]
    BY <1>1, <1>3, <1>5, StatusTyped DEF Stages, Typed
<1>7. /\ UpCopies'
      /\ \A b \in Ids, f \in Endpoints :
           /\ Reported(b, f)' => Reported(b, f)
           /\ Acting(b, f)' => Acting(b, f) /\ (Telling(b, f) => Telling(b, f)')
      /\ m \in VisualOf(d) => Reported(d, e) /\ ~ Reported(d, e)'
    BY <1>1, ReportRead DEF Stages
<1>8. Links' /\ DownCopies' /\ ScreenCopies'
    BY <1>1, QuietParts DEF Stages, panel, screen
<1>9. ASSUME NEW b \in Ids, NEW f \in Endpoints
      PROVE  Moves(b, f)
  <2>1. /\ (Coming(b, f)' <=> Coming(b, f)) /\ (Held(b, f)' <=> Held(b, f))
        /\ (Pressed(b, f)' <=> Pressed(b, f)) /\ (Unsaid(b, f)' <=> Unsaid(b, f))
      BY <1>1, Quiet DEF panel, screen
  <2>2. ToSend(b, f)' => ToSend(b, f)
      BY <1>1, <1>6 DEF ToSend
  <2>3. b \notin Deliveries => ~ Settled(b, f)'
      BY <1>6 DEF Settled
  <2>4. b \in Deliveries /\ f \in With(b, "visual") =>
          \/ log'[b].channels[f]["visual"] = log[b].channels[f]["visual"]
          \/ Reported(b, f) /\ ~ Reported(b, f)'
    <3> SUFFICES ASSUME b \in Deliveries, f \in With(b, "visual"),
                        log'[b].channels[f]["visual"] # log[b].channels[f]["visual"]
                 PROVE  Reported(b, f) /\ ~ Reported(b, f)'
        OBVIOUS
    <3>1. b = d /\ f = e /\ channel = "visual"
        BY <1>6 DEF With
    <3>2. m \in VisualOf(d)
        BY <1>2, <1>3, <1>4, <3>1, Kinds
    <3> QED
      BY <1>7, <3>1, <3>2
  <2> QED
    BY <1>1, <1>7, <2>1, <2>2, <2>3, <2>4 DEF Moves
<1> QED
  BY <1>7, <1>8, <1>9 DEF Carried

LEMMA CarriedAction ==
    ASSUME Stages, NEW s \in Sockets,
           ActionPublished(s) \/ \E known \in BOOLEAN : ActivateAction(s, known)
    PROVE  Carried
<1>1. UNCHANGED <<scenario, connections, online, next, task, stops, panel, ws, down>>
    BY DEF ActionPublished, ActivateAction
<1>2. Links' /\ DownCopies' /\ ScreenCopies'
    BY <1>1, QuietParts DEF Stages, panel, screen
<1>3. ASSUME NEW b \in Ids, NEW f \in Endpoints
      PROVE  /\ (Coming(b, f)' <=> Coming(b, f)) /\ (Held(b, f)' <=> Held(b, f))
             /\ (Pressed(b, f)' <=> Pressed(b, f)) /\ (Unsaid(b, f)' <=> Unsaid(b, f))
    BY <1>1, Quiet DEF panel, screen
<1>4. CASE ActionPublished(s)
  <2>1. UNCHANGED <<up, ran>> /\ handler[s].pc = "activating"
        /\ log' = [log EXCEPT ![handler[s].delivery].actor = {Owner(s)}]
      BY <1>4 DEF ActionPublished
  <2>2. PICK d \in Deliveries : d = handler[s].delivery /\ Owner(s) \in DOMAIN log[d].channels
      BY <2>1 DEF Stages, Typed, HandlerTypes
  <2>3. log' = [log EXCEPT ![d].actor = {Owner(s)}]
      BY <2>1, <2>2
  <2>4. Deliveries' = Deliveries /\ \A b \in Deliveries : log'[b].channels = log[b].channels
      BY <1>1, <2>2, <2>3, ActorRecorded DEF Stages, Typed
  <2>5. UpCopies'
      BY <2>1, QuietParts DEF Stages
  <2>6. ASSUME NEW b \in Ids, NEW f \in Endpoints
        PROVE  Moves(b, f)
    <3>1. /\ Reported(b, f)' <=> Reported(b, f)
          /\ (Acting(b, f)' <=> Acting(b, f)) /\ (Telling(b, f)' <=> Telling(b, f))
        BY <1>1, <2>1, Quiet
    <3>2. ToSend(b, f)' => ToSend(b, f)
        BY <1>1, <2>4 DEF ToSend
    <3>3. b \notin Deliveries => ~ Settled(b, f)'
        BY <2>4 DEF Settled
    <3> QED
      BY <1>3, <2>1, <2>4, <3>1, <3>2, <3>3 DEF Moves
  <2> QED
    BY <1>2, <2>5, <2>6 DEF Carried
<1>5. ASSUME NEW known \in BOOLEAN, ActivateAction(s, known)
      PROVE  Carried
  <2>1. /\ Receives(s) /\ log' = log /\ Head(up[s]).channel = "action"
        /\ \/ ran' = ran
           \/ ran' = [ran EXCEPT ![<<Head(up[s]).delivery, Owner(s)>>] =
                        ran[<<Head(up[s]).delivery, Owner(s)>>] + 1]
      BY <1>5 DEF ActivateAction
  <2>2. Head(up[s]) \in Reports /\ Head(up[s]).delivery \in Ids /\ Owner(s) \in Endpoints
      BY <2>1, ReceivesTyped, Owners DEF Stages, Typed
  <2>3. PICK d \in Ids, e \in Endpoints : d = Head(up[s]).delivery /\ e = Owner(s)
      BY <2>2
  <2>4. Head(up[s]) \in ActionOf(d)
      BY <2>1, <2>2, <2>3, Kinds
  <2>5. /\ UpCopies'
        /\ \A b \in Ids, f \in Endpoints :
             /\ Reported(b, f)' => Reported(b, f)
             /\ Acting(b, f)' => Acting(b, f) /\ (Telling(b, f) => Telling(b, f)')
        /\ Acting(d, Owner(s)) /\ ~ Acting(d, Owner(s))'
      BY <1>1, <2>1, <2>4, ReportRead DEF Stages
  <2>6. Acting(d, e) /\ ~ Acting(d, e)'
    <3>1. Owner(s)' = e
        BY <2>3, Constants
    <3> QED
      BY <2>3, <2>5, <3>1
  <2>7. ran' = ran \/ ran' = [ran EXCEPT ![<<d, e>>] = ran[<<d, e>>] + 1]
      BY <2>1, <2>3
  <2>8. ASSUME NEW b \in Ids, NEW f \in Endpoints
        PROVE  Moves(b, f)
    <3>1. ToSend(b, f)' <=> ToSend(b, f)
        BY <1>1, <2>1, Quiet
    <3>2. b \notin Deliveries => ~ Settled(b, f)'
        BY <2>1, Quiet DEF Settled
    <3>3. \/ ran'[<<b, f>>] = ran[<<b, f>>]
          \/ ran'[<<b, f>>] = ran[<<b, f>>] + 1 /\ b = d /\ f = e
        BY <2>7 DEF Stages, Typed, RanTypes
    <3> QED
      BY <1>3, <2>1, <2>5, <2>6, <3>1, <3>2, <3>3 DEF Moves
  <2> QED
    BY <1>2, <2>5, <2>8 DEF Carried
<1> QED
  BY <1>4, <1>5

LEMMA CarriedShow ==
    ASSUME Stages, NEW s \in Sockets, ShowQueued(s) \/ ShowOverflow(s) \/ Show(s)
    PROVE  Carried
<1>1. PICK e \in Endpoints : e = Owner(s)
    BY Owners
<1>2. /\ Arrives(s, "show") /\ ~ pressed[e]
      /\ UNCHANGED <<server, pressed, sound, reply, ws, ran>>
  <2>1. Arrives(s, "show") /\ UNCHANGED <<server, pressed, sound, reply, ws, ran>>
      BY Zenon DEF ShowQueued, ShowOverflow, Show
  <2> QED
    BY <1>1, <2>1 DEF Arrives
<1>3. PICK d \in Ids : d = Head(down[s]).delivery
    BY <1>2, ArrivesTyped DEF Stages, Typed
<1>4. /\ Links' /\ DownCopies'
      /\ \A b \in Ids, f \in Endpoints : Coming(b, f)' => Coming(b, f)
      /\ Coming(d, e) /\ ~ Coming(d, e)'
  <2>1. ws' = ws /\ connections' = connections
      BY <1>2 DEF server
  <2>2. /\ Links' /\ DownCopies'
        /\ \A b \in Ids, f \in Endpoints : Coming(b, f)' => Coming(b, f)
        /\ Coming(d, Owner(s)) /\ ~ Coming(d, Owner(s))'
      BY <1>2, <1>3, <2>1, DownRead DEF Stages
  <2>3. Owner(s)' = e
      BY <1>1, Constants
  <2> QED
    BY <1>1, <2>2, <2>3
<1>5. ~ Held(d, e) /\ ~ Reported(d, e)
    BY <1>4 DEF Stages, OneStage
<1>6. ASSUME NEW b \in Ids, NEW f \in Endpoints
      PROVE  /\ ToSend(b, f)' <=> ToSend(b, f)
             /\ b \notin Deliveries => ~ Settled(b, f)'
             /\ log' = log /\ ran' = ran /\ connections' = connections
    BY <1>2, Quiet DEF server, Settled
<1>10. connections' = connections
    BY <1>2 DEF server
<1>7. CASE ShowQueued(s)
  <2>1. /\ UNCHANGED <<overlay, unsaid, up>>
        /\ pending' = [pending EXCEPT ![e] = Append(pending[e], d)]
      BY <1>1, <1>3, <1>7 DEF ShowQueued
  <2>2. /\ ScreenCopies'
        /\ \A b \in Ids, f \in Endpoints : Held(b, f)' => Held(b, f) \/ (b = d /\ f = e)
      BY <1>5, <2>1, Screened DEF Stages, Typed
  <2>3. UpCopies'
      BY <2>1, QuietParts DEF Stages
  <2>4. ASSUME NEW b \in Ids, NEW f \in Endpoints
        PROVE  Moves(b, f)
    <3>1. /\ Pressed(b, f)' <=> Pressed(b, f)
          /\ Unsaid(b, f)' <=> Unsaid(b, f)
          /\ Reported(b, f)' <=> Reported(b, f)
          /\ (Acting(b, f)' <=> Acting(b, f)) /\ (Telling(b, f)' <=> Telling(b, f))
        BY <1>2, <1>10, <2>1, Quiet
    <3> QED
      BY <1>4, <1>6, <2>2, <3>1 DEF Moves
  <2> QED
    BY <1>4, <2>2, <2>3, <2>4 DEF Carried
<1>8. CASE ShowOverflow(s)
  <2>1. UNCHANGED <<overlay, pending>> /\ Conclude(e, d, "replaced")
      BY <1>1, <1>3, <1>8 DEF ShowOverflow
  <2>2. /\ UpCopies'
        /\ \A b \in Ids, f \in Endpoints :
             /\ Reported(b, f)' => Reported(b, f) \/ (f = e /\ b = d)
             /\ Acting(b, f)' => Acting(b, f)
             /\ Telling(b, f) => Telling(b, f)'
             /\ Unsaid(b, f) => Unsaid(b, f)'
             /\ Unsaid(b, f)' => Unsaid(b, f) \/ (f = e /\ b = d /\ ~ Reported(b, f)')
    <3>1. "replaced" \in Outcomes.visual
        BY DEF Outcomes
    <3> QED
      BY <1>5, <1>10, <2>1, <3>1, Concluded DEF Stages
  <2>3. ScreenCopies'
      BY <2>1, QuietParts DEF Stages
  <2>4. ASSUME NEW b \in Ids, NEW f \in Endpoints
        PROVE  Moves(b, f)
    <3>1. (Held(b, f)' <=> Held(b, f)) /\ (Pressed(b, f)' <=> Pressed(b, f))
        BY <1>2, <2>1, Quiet
    <3>2. b = d /\ f = e => Leaves(b, f)
        BY <1>4, <1>5, <3>1 DEF Leaves
    <3> QED
      BY <1>4, <1>6, <2>2, <3>1, <3>2 DEF Moves
  <2> QED
    BY <1>4, <2>2, <2>3, <2>4 DEF Carried
<1>9. CASE Show(s)
  <2>1. /\ overlay' = [overlay EXCEPT ![e] = d]
        /\ pending' = [pending EXCEPT ![e] = <<>>]
        /\ IF overlay[e] = 0 THEN UNCHANGED <<up, unsaid>>
                             ELSE Conclude(e, overlay[e], "replaced")
      BY <1>1, <1>3, <1>9 DEF Show
  <2>2. /\ ScreenCopies'
        /\ \A b \in Ids, f \in Endpoints : Held(b, f)' => Held(b, f) \/ (b = d /\ f = e)
        /\ overlay' # overlay => \A b \in Ids : b = overlay[e] => ~ Held(b, e)'
      BY <1>5, <2>1, Screened DEF Stages, Typed
  <2>3. overlay[e] # d /\ overlay' # overlay /\ overlay[e] \in 0 .. MaxNotifications
      BY <1>5, <2>1 DEF Held, Stages, Typed, ScreenTypes
  <2>4. ASSUME NEW b \in Ids, NEW f \in Endpoints
        PROVE  Pressed(b, f) => Pressed(b, f)'
      BY <1>2, <2>1 DEF Pressed, Stages, Typed, ScreenTypes
  <2>5. CASE overlay[e] = 0
    <3>1. UNCHANGED <<up, unsaid>>
        BY <2>1, <2>5
    <3>2. UpCopies'
        BY <3>1, QuietParts DEF Stages
    <3>3. ASSUME NEW b \in Ids, NEW f \in Endpoints
          PROVE  Moves(b, f)
      <4>1. /\ Unsaid(b, f)' <=> Unsaid(b, f)
            /\ Reported(b, f)' <=> Reported(b, f)
            /\ (Acting(b, f)' <=> Acting(b, f)) /\ (Telling(b, f)' <=> Telling(b, f))
          BY <1>10, <3>1, Quiet
      <4> QED
        BY <1>4, <1>6, <2>2, <2>4, <4>1 DEF Moves
    <3> QED
      BY <1>4, <2>2, <3>2, <3>3 DEF Carried
  <2>6. CASE overlay[e] # 0
    <3>1. PICK o \in Ids : o = overlay[e]
        BY <2>3, <2>6, NotificationAssumption DEF Ids
    <3>2. Leaves(o, e) /\ ~ Reported(o, e)
      <4>1. Held(o, e)
          BY <3>1 DEF Held
      <4> QED
        BY <2>2, <2>3, <3>1, <4>1 DEF Leaves, Stages, OneStage
    <3>3. /\ UpCopies'
          /\ \A b \in Ids, f \in Endpoints :
               /\ Reported(b, f)' => Reported(b, f) \/ (f = e /\ b = o)
               /\ Acting(b, f)' => Acting(b, f)
               /\ Telling(b, f) => Telling(b, f)'
               /\ Unsaid(b, f) => Unsaid(b, f)'
               /\ Unsaid(b, f)' => Unsaid(b, f) \/ (f = e /\ b = o /\ ~ Reported(b, f)')
      <4>1. Conclude(e, o, "replaced") /\ "replaced" \in Outcomes.visual
          BY <2>1, <2>6, <3>1 DEF Outcomes
      <4> QED
        BY <1>10, <3>2, <4>1, Concluded DEF Stages
    <3>4. ASSUME NEW b \in Ids, NEW f \in Endpoints
          PROVE  Moves(b, f)
        BY <1>4, <1>6, <2>2, <2>4, <3>2, <3>3 DEF Moves
    <3> QED
      BY <1>4, <2>2, <3>3, <3>4 DEF Carried
  <2> QED
    BY <2>5, <2>6
<1> QED
  BY <1>7, <1>8, <1>9

LEMMA CarriedFinish ==
    ASSUME Stages, NEW e \in Endpoints, Closing(e)
    PROVE  Carried
<1>1. PICK o \in Ids, status \in Outcomes.visual : o = overlay[e] /\ Finish(e, status)
    BY FinishTyped DEF Stages
<1>2. /\ UNCHANGED <<server, sound, reply, swept, ws, down, ran>>
      /\ connections' = connections /\ Conclude(e, o, status)
    BY <1>1 DEF Finish, server
<1>3. /\ ScreenCopies' /\ ~ Held(o, e)'
      /\ \A b \in Ids, f \in Endpoints : Held(b, f)' => Held(b, f)
      /\ \A b \in Ids, f \in Endpoints : Pressed(b, f) /\ Held(b, f)' => Pressed(b, f)'
    BY <1>1, Finished1 DEF Stages, Typed
<1>4. Leaves(o, e) /\ ~ Reported(o, e)
  <2>1. Held(o, e)
      BY <1>1 DEF Held
  <2> QED
    BY <1>3, <2>1 DEF Leaves, Stages, OneStage
<1>5. /\ UpCopies' /\ (Unsaid(o, e)' \/ Telling(o, e)')
      /\ \A b \in Ids, f \in Endpoints :
           /\ Reported(b, f)' => Reported(b, f) \/ (f = e /\ b = o)
           /\ Acting(b, f)' => Acting(b, f)
           /\ Telling(b, f) => Telling(b, f)'
           /\ Unsaid(b, f) => Unsaid(b, f)'
           /\ Unsaid(b, f)' => Unsaid(b, f) \/ (f = e /\ b = o /\ ~ Reported(b, f)')
    BY <1>2, <1>4, Concluded DEF Stages
<1>6. Links' /\ DownCopies'
    BY <1>2, QuietParts DEF Stages
<1>7. ASSUME NEW b \in Ids, NEW f \in Endpoints
      PROVE  Moves(b, f)
  <2>1. /\ ToSend(b, f)' <=> ToSend(b, f)
        /\ Coming(b, f)' <=> Coming(b, f)
        /\ b \notin Deliveries => ~ Settled(b, f)'
        /\ log' = log /\ ran' = ran
      BY <1>2, Quiet DEF server, Settled
  <2>2. Pressed(b, f) => Pressed(b, f)' \/ (b = o /\ f = e)
    <3>1. f # e => overlay'[f] = overlay[f] /\ pressed'[f] = pressed[f]
        BY <1>1 DEF Finish, Stages, Typed, ScreenTypes
    <3> QED
      BY <1>1, <3>1 DEF Pressed
  <2> QED
    BY <1>3, <1>4, <1>5, <2>1, <2>2 DEF Moves
<1> QED
  BY <1>3, <1>5, <1>6, <1>7 DEF Carried

\* activate_notification_button before it closes the notification.
LEMMA CarriedPress ==
    ASSUME Stages, NEW e \in Endpoints, Press(e)
    PROVE  Carried
<1>1. /\ UNCHANGED <<server, overlay, pending, sound, reply, swept, unsaid, ws, down, ran>>
      /\ overlay[e] # 0 /\ ~ pressed[e] /\ pressed' = [pressed EXCEPT ![e] = TRUE]
    BY DEF Press, Pressable
<1>2. connections' = connections
    BY <1>1 DEF server
<1>3. PICK o \in Ids : o = overlay[e]
    BY <1>1, NotificationAssumption DEF Stages, Typed, ScreenTypes, Ids
<1>4. PICK m \in Reports : m = Report(o, "action", "turn_on")
    BY ReportsTyped
<1>5. /\ Tell(e, m) /\ m \in ActionOf(o)
      /\ \A b : (m \in ActionOf(b) => b = o) /\ m \notin VisualOf(b)
    BY <1>3, <1>4, Kinds DEF Press, Report
<1>6. Held(o, e) /\ ~ Pressed(o, e) /\ Pressed(o, e)'
    BY <1>1, <1>3 DEF Held, Pressed, Stages, Typed, ScreenTypes
<1>7. ~ Acting(o, e) /\ ~ Reported(o, e)
    BY <1>6, TellingReported DEF Stages, OneStage, Answered
<1>8. /\ UpCopies'
      /\ \A b \in Ids, f \in Endpoints :
           /\ Reported(b, f)' => Reported(b, f) \/ (f = e /\ m \in VisualOf(b))
           /\ Acting(b, f)' => Acting(b, f) \/ (f = e /\ m \in ActionOf(b))
           /\ Telling(b, f) => Telling(b, f)'
    BY <1>2, <1>5, <1>7, ToldOne DEF Stages
<1>9. Links' /\ DownCopies' /\ ScreenCopies'
    BY <1>1, QuietParts DEF Stages, server
<1>10. ASSUME NEW b \in Ids, NEW f \in Endpoints
       PROVE  Moves(b, f)
  <2>1. /\ ToSend(b, f)' <=> ToSend(b, f)
        /\ Coming(b, f)' <=> Coming(b, f)
        /\ Held(b, f)' <=> Held(b, f)
        /\ Unsaid(b, f)' <=> Unsaid(b, f)
        /\ b \notin Deliveries => ~ Settled(b, f)'
        /\ log' = log /\ ran' = ran
      BY <1>1, Quiet DEF server, Settled
  <2>2. Pressed(b, f) => Pressed(b, f)'
      BY <1>1 DEF Pressed, Stages, Typed, ScreenTypes
  <2> QED
    BY <1>5, <1>6, <1>8, <2>1, <2>2 DEF Moves
<1> QED
  BY <1>8, <1>9, <1>10 DEF Carried

\* What is spoken has no part in it.
LEMMA CarriedSound ==
    ASSUME Stages,
           \/ \E s \in Sockets : Play(s) \/ Stop(s)
           \/ \E e \in Endpoints : Speaking(e)
    PROVE  Carried
<1>1. UNCHANGED <<server, screen, ws, ran>>
    BY DEF Play, Stop, Speaking, Accept, SoundStarts, SoundEnds
<1>2. \/ up' = up
      \/ \E e \in Endpoints, d \in Ids, status \in Outcomes.audio \cup Interim :
           Tell(e, Report(d, "audio", status))
  <2>1. ASSUME NEW s \in Sockets, Play(s) \/ Stop(s)
        PROVE  \/ up' = up
               \/ \E e \in Endpoints, d \in Ids, status \in Outcomes.audio \cup Interim :
                    Tell(e, Report(d, "audio", status))
    <3>1. PICK e \in Endpoints : e = Owner(s)
        BY Owners
    <3>2. \E type : Arrives(s, type)
        BY <2>1 DEF Play, Stop
    <3>3. PICK d \in Ids : d = Head(down[s]).delivery
        BY <3>2, ArrivesTyped DEF Stages, Typed
    <3>4. CASE Play(s)
        BY <3>1, <3>3, <3>4 DEF Play, Interim
    <3>5. CASE Stop(s)
      <4>1. \E status \in {"stopped", "not_found"} : Tell(e, Report(d, "audio", status))
          BY <3>1, <3>3, <3>5 DEF Stop
      <4> QED
        BY <4>1 DEF Outcomes
    <3> QED
      BY <2>1, <3>4, <3>5
  <2>2. ASSUME NEW e \in Endpoints, Speaking(e)
        PROVE  \E d \in Ids, status \in Outcomes.audio \cup Interim :
                 Tell(e, Report(d, "audio", status))
    <3>1. CASE Accept(e)
      <4>1. reply[e] \in Ids
          BY <3>1, NotificationAssumption DEF Accept, Stages, Typed, SoundTypes, Ids
      <4> QED
        BY <3>1, <4>1 DEF Accept, Interim
    <3>2. CASE ~ Accept(e)
        BY <2>2, <3>2 DEF Speaking, SoundStarts, SoundEnds, Outcomes, Interim
    <3> QED
      BY <3>1, <3>2
  <2> QED
    BY <2>1, <2>2
<1>3. /\ UpCopies'
      /\ \A b \in Ids, f \in Endpoints :
           /\ Reported(b, f)' => Reported(b, f)
           /\ Acting(b, f)' => Acting(b, f) /\ (Telling(b, f) => Telling(b, f)')
  <2>0. connections' = connections
      BY <1>1 DEF server
  <2>1. CASE up' = up
      BY <2>0, <2>1, QuietParts, Quiet DEF Stages
  <2>2. ASSUME NEW e \in Endpoints, NEW d \in Ids, NEW status \in Outcomes.audio \cup Interim,
               Tell(e, Report(d, "audio", status))
        PROVE  /\ UpCopies'
               /\ \A b \in Ids, f \in Endpoints :
                    /\ Reported(b, f)' => Reported(b, f)
                    /\ Acting(b, f)' => Acting(b, f) /\ (Telling(b, f) => Telling(b, f)')
    <3>1. PICK m \in Reports : m = Report(d, "audio", status)
        BY ReportsTyped
    <3>2. Tell(e, m) /\ \A b : m \notin VisualOf(b) /\ m \notin ActionOf(b)
        BY <2>2, <3>1, Kinds DEF Report
    <3>3. /\ UpCopies'
          /\ \A b \in Ids, f \in Endpoints :
               /\ Reported(b, f)' => Reported(b, f) \/ (f = e /\ m \in VisualOf(b))
               /\ Acting(b, f)' => Acting(b, f) \/ (f = e /\ m \in ActionOf(b))
               /\ Telling(b, f) => Telling(b, f)'
        BY <2>0, <3>2, ToldOne DEF Stages
    <3> QED
      BY <3>2, <3>3
  <2> QED
    BY <1>2, <2>1, <2>2
<1>4. /\ Links' /\ DownCopies'
      /\ \A b \in Ids, f \in Endpoints : Coming(b, f)' => Coming(b, f)
  <2>1. CASE down' = down
      BY <1>1, <2>1, QuietParts, Quiet DEF Stages, server
  <2>2. ASSUME NEW s \in Sockets, Play(s) \/ Stop(s)
        PROVE  /\ Links' /\ DownCopies'
               /\ \A b \in Ids, f \in Endpoints : Coming(b, f)' => Coming(b, f)
    <3>1. PICK type : Arrives(s, type)
        BY <2>2 DEF Play, Stop
    <3>2. ws' = ws /\ connections' = connections
        BY <1>1 DEF server
    <3> QED
      BY <3>1, <3>2, DownRead DEF Stages
  <2>3. ASSUME NEW e \in Endpoints, Speaking(e)
        PROVE  down' = down
      BY <2>3 DEF Speaking, Accept, SoundStarts, SoundEnds
  <2> QED
    BY <2>1, <2>2, <2>3
<1>5. ScreenCopies'
    BY <1>1, QuietParts DEF Stages, screen
<1>6. ASSUME NEW b \in Ids, NEW f \in Endpoints
      PROVE  Moves(b, f)
  <2>1. (ToSend(b, f)' <=> ToSend(b, f)) /\ (Held(b, f)' <=> Held(b, f))
      BY <1>1, Quiet DEF server, screen
  <2>2. UNCHANGED <<log, ran, overlay, pressed, unsaid>>
      BY <1>1 DEF server, screen
  <2> QED
    BY <1>3, <1>4, <2>1, <2>2, QuietMoves
<1> QED
  BY <1>3, <1>4, <1>5, <1>6 DEF Carried

LEMMA CarriedStep ==
    ASSUME Stages, Next
    PROVE  Carried
<1>1. CASE \E s \in Sockets : Register(s) \/ Lose(s) \/ Notice(s)
    BY <1>1, CarriedLinks
<1>2. CASE \E s \in Sockets : Serving(s)
  <2>1. PICK s \in Sockets : Serving(s)
      BY <1>2
  <2>2. CASE Leave(s) \/ LeaveEnds(s)
      BY <2>2, CarriedLinks
  <2>3. CASE VisualStatus(s) \/ AudioStatus(s)
      BY <2>3, CarriedStatus
  <2>4. CASE ActionPublished(s) \/ \E known \in BOOLEAN : ActivateAction(s, known)
      BY <2>4, CarriedAction
  <2> QED
    BY <2>1, <2>2, <2>3, <2>4, Zenon DEF Serving
<1>3. CASE \E s \in Sockets : Arriving(s)
    BY <1>3, CarriedShow, CarriedSound, Zenon DEF Arriving
<1>4. CASE Notify
    BY <1>4, CarriedNotify
<1>5. ASSUME NEW d \in Deliveries, Notifying(d)
      PROVE  Carried
    BY <1>5, CarriedShowTo, CarriedSpeech, Zenon DEF Notifying
<1>6. ASSUME NEW d \in Deliveries, NEW e \in Endpoints, StopSpeech(d, e)
      PROVE  Carried
    BY <1>6, CarriedSpeech
<1>7. ASSUME NEW e \in Endpoints, Dismiss(e) \/ Expire(e) \/ PressCloses(e) \/ Press(e)
      PROVE  Carried
  <2>1. Closing(e) \/ Press(e)
      BY <1>7 DEF Closing
  <2> QED
    BY <2>1, CarriedFinish, CarriedPress
<1>8. ASSUME NEW e \in Endpoints, Speaking(e)
      PROVE  Carried
    BY <1>8, CarriedSound
<1> QED
  BY <1>1, <1>2, <1>3, <1>4, <1>5, <1>6, <1>7, <1>8, Zenon DEF Next

LEMMA StagesInit == Init => Stages
<1> SUFFICES ASSUME Init PROVE Stages
    OBVIOUS
<1>1. Typed
    BY TypedInit
<1>2. /\ \A s \in Sockets : down[s] = <<>> /\ up[s] = <<>>
      /\ \A e \in Endpoints : pending[e] = <<>> /\ overlay[e] = 0 /\ unsaid[e] = {}
      /\ \A d \in Ids, e \in Endpoints : ran[<<d, e>>] = 0
      /\ \A d \in Ids : d # 0
    BY NotificationAssumption DEF Init, Ids
<1>3. Links
  <2>1. Ordered
    <3> SUFFICES ASSUME NEW s \in Sockets, NEW t \in Sockets, s[2] < t[2],
                        ws[t] # "unopened"
                 PROVE  FALSE
        BY DEF Ordered
    <3>1. t[2] = 1
        BY DEF Init
    <3>2. s[2] \in Nat /\ s[2] >= 1
        BY MaxReconnectsAssumption DEF Sockets
    <3> QED
      BY <3>1, <3>2
  <2>2. Own
      BY DEF Init, Own, Owner
  <2>3. OpenOnly
      BY <1>2 DEF OpenOnly
  <2>4. Current
    <3> SUFFICES ASSUME NEW s \in Sockets, s[2] = 1 PROVE IsCurrent(s)
        BY DEF Init, Current
    <3>1. s = <<s[1], 1>> /\ s[1] \in Endpoints
        BY DEF Sockets
    <3> QED
      BY <3>1 DEF Init, IsCurrent, Owner
  <2> QED
    BY <2>1, <2>2, <2>3, <2>4 DEF Links
<1>4. DownCopies /\ UpCopies /\ ScreenCopies /\ Fresh
    BY <1>2, Empty DEF DownCopies, UpCopies, ScreenCopies, Fresh
<1>5. Deliveries = {}
  <2>1. Len(log) = 0
      BY EmptySeq DEF Init
  <2> QED
    BY <2>1 DEF Deliveries
<1>6. ASSUME NEW d \in Ids, NEW e \in Endpoints
      PROVE  OneStage(d, e) /\ Answered(d, e) /\ RunsOnce(d, e)
  <2>1. /\ ~ ToSend(d, e) /\ ~ Coming(d, e) /\ ~ Held(d, e) /\ ~ Reported(d, e)
        /\ ~ Unsaid(d, e) /\ ~ Acting(d, e)
      BY <1>2, <1>5, Empty DEF ToSend, Coming, Held, Reported, Unsaid, Acting
  <2> QED
    BY <1>2, <2>1 DEF OneStage, Answered, RunsOnce
<1> QED
  BY <1>1, <1>3, <1>4, <1>6 DEF Stages

LEMMA StagesStep == Stages /\ [Next]_vars => Stages'
<1> SUFFICES ASSUME Stages, [Next]_vars PROVE Stages'
    OBVIOUS
<1>1. Typed' /\ Grows
    BY TypedStep DEF Stages
<1>2. Carried
  <2>1. CASE Next
      BY <2>1, CarriedStep
  <2>2. CASE UNCHANGED vars
    <3>1. UNCHANGED <<connections, ws, down, up, overlay, pressed, pending, unsaid, log, task, ran>>
        BY <2>2 DEF vars, server, panel, screen
    <3>2. Links' /\ DownCopies' /\ UpCopies' /\ ScreenCopies'
        BY <3>1, QuietParts DEF Stages
    <3>3. ASSUME NEW d \in Ids, NEW e \in Endpoints
          PROVE  Moves(d, e)
      <4>1. /\ ToSend(d, e)' <=> ToSend(d, e)
            /\ Coming(d, e)' <=> Coming(d, e)
            /\ Held(d, e)' <=> Held(d, e)
            /\ Reported(d, e)' <=> Reported(d, e)
            /\ (Acting(d, e)' <=> Acting(d, e)) /\ (Telling(d, e)' <=> Telling(d, e))
          BY <3>1, Quiet
      <4> QED
        BY <3>1, <4>1, QuietMoves
    <3> QED
      BY <3>2, <3>3 DEF Carried
  <2> QED
    BY <2>1, <2>2
<1>3. ASSUME NEW d \in Ids, NEW e \in Endpoints
      PROVE  OneStage(d, e)' /\ Answered(d, e)' /\ RunsOnce(d, e)'
    BY <1>1, <1>2, StageKept DEF Stages, Carried
<1>4. Fresh'
    BY FreshKept DEF Stages
<1> QED
  BY <1>1, <1>2, <1>3, <1>4, Constants DEF Stages, Carried

LEMMA AlwaysStages == Spec => []Stages
BY StagesInit, StagesStep, PTL DEF Spec

(* What RoomHub can be relied on for                                       *)

KeepsOutcomes ==
    \A d \in Deliveries : \A e \in With(d, "visual") :
        Settled(d, e) => log'[d].channels[e]["visual"] = Visual(d, e)
RunsInTime ==
    \A d \in Deliveries : \A e \in DOMAIN log[d].channels :
        ran'[<<d, e>>] # ran[<<d, e>>] => ~ Settled(d, e)

\* The outcome of a display, once recorded, stays, though update_status writes
\* whatever arrives (notification_service.py).
THEOREM OneOutcome == Spec => VisualSettlesOnce
<1>1. Stages /\ [Next]_vars => [KeepsOutcomes]_vars
  <2> SUFFICES ASSUME Stages, Next, NEW d \in Deliveries, NEW e \in With(d, "visual"),
                      Settled(d, e)
               PROVE  log'[d].channels[e]["visual"] = log[d].channels[e]["visual"]
      BY DEF Visual, KeepsOutcomes
  <2>1. d \in Ids /\ e \in Endpoints
      BY DeliveriesAreIds, ChannelsOf DEF Stages, Typed, LogTypes, With, Deliveries
  <2>2. Moves(d, e) /\ OneStage(d, e)
      BY <2>1, CarriedStep DEF Stages, Carried
  <2> QED
    BY <2>2 DEF Moves, OneStage
<1> QED
  BY AlwaysStages, <1>1, PTL DEF Spec, VisualSettlesOnce, KeepsOutcomes

\* However often a button is pressed, and whatever becomes of the reports, the
\* script of a notification runs at most once per panel (activate_action).
THEOREM RunsAtMostOnce == Spec => []ActionRunsOnce
<1>1. Stages => ActionRunsOnce
  <2> SUFFICES ASSUME Stages, NEW x \in DOMAIN ran PROVE ran[x] <= 1
      BY DEF ActionRunsOnce
  <2>1. PICK d \in Ids, e \in Endpoints : x = <<d, e>>
      BY DEF Stages, Typed, RanTypes
  <2> QED
    BY <2>1 DEF Stages, RunsOnce
<1> QED
  BY AlwaysStages, <1>1, PTL

\* No script runs for a display whose outcome is already known.
THEOREM RunsWhileOpen == Spec => ActsWhileOpen
<1>1. Stages /\ [Next]_vars => [RunsInTime]_vars
  <2> SUFFICES ASSUME Stages, Next, NEW d \in Deliveries, NEW e \in DOMAIN log[d].channels,
                      ran'[<<d, e>>] # ran[<<d, e>>]
               PROVE  ~ Settled(d, e)
      BY DEF RunsInTime
  <2>1. d \in Ids /\ e \in Endpoints
      BY DeliveriesAreIds, ChannelsOf DEF Stages, Typed, LogTypes, Deliveries
  <2>2. Moves(d, e) /\ OneStage(d, e) /\ Answered(d, e)
      BY <2>1, CarriedStep DEF Stages, Carried
  <2>3. Pressed(d, e) \/ Unsaid(d, e) \/ Telling(d, e)
      BY <2>2 DEF Moves, Answered
  <2>4. Held(d, e) \/ Unsaid(d, e) \/ Reported(d, e)
      BY <2>3, TellingReported DEF Pressed, Held
  <2> QED
    BY <2>2, <2>4 DEF OneStage
<1> QED
  BY AlwaysStages, <1>1, PTL DEF Spec, ActsWhileOpen, RunsInTime

\* _summarize: what counts as finished has an outcome on each of its channels.
LEMMA FinishedIsTerminal ==
    ASSUME NEW d \in Deliveries, DeliveryStatus(d) \in Finished,
           NEW e \in DOMAIN log[d].channels
    PROVE  Range(log[d].channels[e]) \subseteq Terminal
<1>1. Range(Mild) = {"dismissed", "expired", "replaced"}
  <2>1. DOMAIN Mild = {1, 2, 3}
      BY DEF Mild
  <2>2. Mild[1] = "dismissed" /\ Mild[2] = "expired" /\ Mild[3] = "replaced"
      BY DEF Mild
  <2> QED
    BY <2>1, <2>2 DEF Range
<1>2. \A S : Underway(S) \notin Finished
    BY <1>1 DEF Underway, Finished
<1>3. {TargetStatus(d, f) : f \in DOMAIN log[d].channels} \subseteq Finished
    BY <1>2 DEF DeliveryStatus
<1>4. TargetStatus(d, e) \in Finished
    BY <1>3
<1> QED
  BY <1>2, <1>4 DEF TargetStatus

\* What is reported finished, to whoever asks, is neither shown, nor waiting,
\* nor coming on any display, of those it was for and of all others.
THEOREM FinishedIsGone == Spec => []FinishedIsOffEveryScreen
<1>1. Stages => FinishedIsOffEveryScreen
  <2> SUFFICES ASSUME Stages, NEW d \in Deliveries, DeliveryStatus(d) \in Finished,
                      NEW e \in Endpoints, OnPanel(d, e)
               PROVE  FALSE
      BY DEF FinishedIsOffEveryScreen
  <2>1. d \in Ids
      BY DeliveriesAreIds DEF Stages, Typed
  <2>2. Coming(d, e) \/ Held(d, e)
    <3>1. \A q : d \in Range(q) => Has(q, {d})
        BY DEF Range, Has
    <3>2. \A q : ShowOf(d) \in Range(q) => Has(q, {ShowOf(d)})
        BY DEF Range, Has
    <3> QED
      BY <3>1, <3>2 DEF OnPanel, Coming, Held, ShowOf
  <2>3. e \in With(d, "visual") /\ ~ Settled(d, e)
      BY <2>1, <2>2 DEF Stages, OneStage
  <2>4. e \in DOMAIN log[d].channels /\ "visual" \in DOMAIN log[d].channels[e]
        /\ log[d].channels[e]["visual"] = "sent"
      BY <2>3 DEF Settled, Visual, With
  <2>5. "sent" \in Terminal
      BY <2>4, FinishedIsTerminal DEF Range
  <2> QED
    BY <2>5 DEF Terminal, Outcomes
<1> QED
  BY AlwaysStages, <1>1, PTL

-----------------------------------------------------------------------------
(* The delivery book.  The argument: Moves is a step of the book for each  *)
(* notification and display; what is left to show is that a delivery       *)
(* begins as one to be sent, that what is recorded is an outcome, and that *)
(* a step that runs a script moves nothing.                                *)

\* StageOf in the terms of Stages.
Where(d, e) ==
    IF Settled(d, e) THEN Visual(d, e)
    ELSE IF Reported(d, e) \/ Pressed(d, e) THEN "closed"
    ELSE IF Unsaid(d, e) THEN "unreported"
    ELSE IF Held(d, e) THEN "held"
    ELSE IF ToSend(d, e) \/ Coming(d, e) THEN "sent"
    ELSE IF d \in Deliveries /\ e \in With(d, "visual") THEN "lost"
    ELSE "none"

Located == \A d \in Ids, e \in Endpoints : StageOf(d, e) = Where(d, e)

LEMMA AlwaysLocated == Typed => Located
<1> SUFFICES ASSUME Typed, NEW d \in Ids, NEW e \in Endpoints
             PROVE  StageOf(d, e) = Where(d, e)
    BY DEF Located
<1>1. Reporting(d, e) <=> Reported(d, e)
  <2>1. ASSUME NEW s \in Sockets
        PROVE  (\E m \in Range(up[s]) : m.channel = "visual" /\ m.delivery = d)
                 <=> Has(up[s], VisualOf(d))
    <3>1. \A i \in DOMAIN up[s] : up[s][i] \in Reports
        BY ElementOfSeq, LenProperties DEF Typed, UpTypes
    <3> QED
      BY <3>1 DEF Range, Has, VisualOf
  <2> QED
    BY <2>1 DEF Reporting, Reported
<1>2. overlay[e] = d \/ d \in Range(pending[e]) <=> Held(d, e)
    BY DEF Held, Has, Range
<1>3. OnPanel(d, e) <=> Held(d, e) \/ Coming(d, e)
    BY <1>2 DEF OnPanel, Coming, Has, Range, ShowOf
<1> QED
  BY <1>1, <1>2, <1>3 DEF StageOf, Where, Pressed, Unsaid

\* Only outcomes are recorded of a display.
RecordsOutcomes ==
    \A d \in Deliveries : \A e \in With(d, "visual") :
        Visual(d, e) \in Outcomes.visual \cup {"sent"}

LEMMA LogSteps ==
    ASSUME [Next]_vars
    PROVE  UNCHANGED log \/ Notify \/ \E s \in Sockets : Serving(s)
<1>1. ASSUME NEW s \in Sockets, Register(s) \/ Lose(s) \/ Notice(s) \/ Arriving(s)
      PROVE  UNCHANGED log
    BY <1>1 DEF Register, Lose, Notice, Arriving, ShowQueued, ShowOverflow, Show, Play,
       Stop, server
<1>2. ASSUME NEW d \in Deliveries, Notifying(d) \/ \E e \in Endpoints : StopSpeech(d, e)
      PROVE  UNCHANGED log
    BY <1>2 DEF Notifying, Synthesize, SynthesisFails, ShowTo, PlayTo, StopSpeech
<1>3. ASSUME NEW e \in Endpoints, Closing(e) \/ Press(e) \/ Speaking(e)
      PROVE  UNCHANGED log
    BY <1>3
    DEF Closing, Dismiss, Expire, PressCloses, Press, Finish, Speaking, Accept, SoundStarts,
        SoundEnds, server
<1>4. CASE UNCHANGED vars
    BY <1>4 DEF vars, server
<1> QED
  BY <1>1, <1>2, <1>3, <1>4 DEF Next, Closing

LEMMA OutcomesStep == Typed /\ RecordsOutcomes /\ [Next]_vars => RecordsOutcomes'
<1> SUFFICES ASSUME Typed, RecordsOutcomes, [Next]_vars PROVE RecordsOutcomes'
    OBVIOUS
<1>1. CASE UNCHANGED log
    BY <1>1, Constants DEF RecordsOutcomes, Deliveries, With, Visual
<1>2. CASE Notify /\ log' # log
  <2>1. PICK k : /\ Deliveries' = Deliveries \cup {Len(log) + 1}
                 /\ \A b \in Deliveries : log'[b] = log[b]
                 /\ log'[Len(log) + 1] = NewEntry(k)
      BY <1>2, Notified DEF Typed
  <2>2. ASSUME NEW d \in Deliveries', NEW e \in With(d, "visual")'
        PROVE  Visual(d, e)' \in Outcomes.visual \cup {"sent"}
    <3>1. CASE d \in Deliveries
        BY <2>1, <2>2, <3>1 DEF RecordsOutcomes, With, Visual
    <3>2. CASE d = Len(log) + 1
        BY <2>1, <2>2, <3>2 DEF NewEntry, With, Visual
    <3> QED
      BY <2>1, <3>1, <3>2
  <2> QED
    BY <2>2, Constants DEF RecordsOutcomes
<1>3. ASSUME NEW s \in Sockets, VisualStatus(s) \/ AudioStatus(s)
      PROVE  RecordsOutcomes'
  <2>0. \A c \in {"visual", "audio"} : Outcomes[c] \cup Interim \subseteq Statuses
      BY DEF Statuses, Terminal, Outcomes
  <2>1. PICK d \in Ids, e \in Endpoints, channel \in {"visual", "audio"},
             status \in Statuses :
          /\ UpdateStatus(d, e, channel, status)
          /\ UNCHANGED <<scenario, next, task>>
          /\ status \in Outcomes[channel] \cup Interim
          /\ channel = "visual" => status \in Outcomes.visual
    <3>1. CASE VisualStatus(s)
        BY <2>0, <3>1, ReceivesTyped, Owners DEF VisualStatus, Typed
    <3>2. CASE AudioStatus(s)
        BY <2>0, <3>2, ReceivesTyped, Owners DEF AudioStatus, Typed
    <3> QED
      BY <1>3, <3>1, <3>2
  <2>2. /\ Grows /\ Deliveries' = Deliveries
        /\ \A b \in Deliveries : \A f \in DOMAIN log[b].channels :
             \A x \in DOMAIN log[b].channels[f] :
               ~ (b = d /\ f = e /\ x = channel)
                 => log'[b].channels[f][x] = log[b].channels[f][x]
      BY <2>1, StatusTyped DEF Typed
  <2>3. d \in Deliveries /\ e \in With(d, "visual") /\ channel = "visual"
          => log'[d].channels[e]["visual"] = status
    <3> SUFFICES ASSUME d \in Deliveries, e \in With(d, "visual"), channel = "visual"
                 PROVE  log'[d].channels[e]["visual"] = status
        OBVIOUS
    <3>1. log' = [log EXCEPT ![d].channels[e]["visual"] = status]
        BY <2>1 DEF UpdateStatus
    <3>2. /\ log \in Seq(Logged) /\ d \in 1 .. Len(log) /\ e \in DOMAIN log[d].channels
          /\ "visual" \in DOMAIN log[d].channels[e]
        BY DEF Typed, LogTypes, Deliveries, With
    <3> QED
      BY <3>1, <3>2, LogUpdated
  <2>4. ASSUME NEW b \in Deliveries, NEW f \in With(b, "visual")
        PROVE  log'[b].channels[f]["visual"] \in Outcomes.visual \cup {"sent"}
      BY <2>1, <2>2, <2>3 DEF RecordsOutcomes, With, Visual
  <2>5. \A b \in Deliveries : With(b, "visual")' = With(b, "visual")
      BY <2>2 DEF Grows, With
  <2> QED
    BY <2>2, <2>4, <2>5, Constants DEF RecordsOutcomes, Visual
<1>4. ASSUME NEW s \in Sockets, ActionPublished(s)
      PROVE  RecordsOutcomes'
  <2>1. PICK d \in Deliveries : d = handler[s].delivery /\ Owner(s) \in DOMAIN log[d].channels
      BY <1>4 DEF ActionPublished, Typed, HandlerTypes
  <2>2. log' = [log EXCEPT ![d].actor = {Owner(s)}] /\ UNCHANGED <<scenario, next, task>>
      BY <1>4, <2>1 DEF ActionPublished
  <2>3. Deliveries' = Deliveries /\ \A b \in Deliveries : log'[b].channels = log[b].channels
      BY <2>1, <2>2, ActorRecorded DEF Typed
  <2> QED
    BY <2>3, Constants DEF RecordsOutcomes, With, Visual
<1>5. ASSUME NEW s \in Sockets,
             Leave(s) \/ LeaveEnds(s) \/ \E known \in BOOLEAN : ActivateAction(s, known)
      PROVE  UNCHANGED log
    BY <1>5 DEF Leave, LeaveEnds, ActivateAction
<1> QED
  BY <1>1, <1>2, <1>3, <1>4, <1>5, LogSteps DEF Serving

\* A new delivery is one to be shown on each of its displays.
LEMMA BeginsToSend ==
    ASSUME Stages, [Next]_vars, NEW d \in Ids, NEW e \in Endpoints,
           d \notin Deliveries, d \in Deliveries', e \in With(d, "visual")'
    PROVE  ToSend(d, e)'
<1>1. log' # log
    BY DEF Deliveries
<1>2. Notify
  <2>1. ASSUME NEW s \in Sockets, Serving(s) PROVE Deliveries' = Deliveries
    <3>1. CASE VisualStatus(s) \/ AudioStatus(s)
      <4>1. \A b, f, c, x : UpdateStatus(b, f, c, x) => Len(log') = Len(log)
          BY DEF UpdateStatus, Stages, Typed, LogTypes
      <4> QED
        BY <3>1, <4>1 DEF VisualStatus, AudioStatus, Deliveries
    <3>2. CASE ActionPublished(s)
        BY <3>2 DEF ActionPublished, Deliveries, Stages, Typed, LogTypes
    <3>3. CASE Leave(s) \/ LeaveEnds(s) \/ \E known \in BOOLEAN : ActivateAction(s, known)
        BY <3>3 DEF Leave, LeaveEnds, ActivateAction, Deliveries
    <3> QED
      BY <2>1, <3>1, <3>2, <3>3 DEF Serving
  <2>2. \A s \in Sockets : ~ Serving(s)
      BY <2>1
  <2> QED
    BY <1>1, <2>2, LogSteps
<1>3. PICK k : /\ Deliveries' = Deliveries \cup {Len(log) + 1}
               /\ log'[Len(log) + 1] = NewEntry(k)
               /\ task'[Len(log) + 1] = NewTask(k)
    BY <1>1, <1>2, Notified DEF Stages, Typed
<1>4. d = Len(log) + 1
    BY <1>3
<1>5. e \in Targets(k) /\ "visual" \in Channel(k, e)
    BY <1>3, <1>4 DEF NewEntry, With
<1> QED
  BY <1>3, <1>4, <1>5 DEF ToSend, NewTask, Showing

\* Moves is a step of the book.
LEMMA MoveIsOnward ==
    ASSUME Stages, Stages', Grows, RecordsOutcomes', NEW d \in Ids, NEW e \in Endpoints,
           Moves(d, e),
           d \notin Deliveries /\ d \in Deliveries' /\ e \in With(d, "visual")'
             => ToSend(d, e)'
    PROVE  \/ Where(d, e)' = Where(d, e)
           \/ <<Where(d, e), Where(d, e)'>> \in DeliveryBook!Onward
<1>1. OneStage(d, e) /\ OneStage(d, e)'
    BY DEF Stages
<1>2. d \in Deliveries => d \in Deliveries' /\ With(d, "visual")' = With(d, "visual")
    BY DEF Grows, With
<1>3. ToSend(d, e) => d \in Deliveries /\ e \in With(d, "visual")
    BY DEF ToSend, Stages, Typed, LogTypes, WellLogged
<1>4. Settled(d, e) => d \in Deliveries /\ e \in With(d, "visual")
    BY DEF Settled
<1>5. CASE d \in Deliveries /\ e \in With(d, "visual")
  <2>1. CASE log'[d].channels[e]["visual"] = log[d].channels[e]["visual"]
    <3>1. Settled(d, e)' <=> Settled(d, e)
        BY <1>2, <1>5, <2>1 DEF Settled, Visual
    <3>2. Visual(d, e)' = Visual(d, e)
        BY <2>1 DEF Visual
    <3>3. Pressed(d, e) => Held(d, e)
        BY DEF Pressed, Held
    <3>4. Pressed(d, e)' => Held(d, e)'
        BY DEF Pressed, Held
    <3>5. CASE Settled(d, e)
        BY <3>1, <3>2, <3>5 DEF Where
    <3>6. CASE ~ Settled(d, e) /\ (Reported(d, e) \/ Pressed(d, e))
      <4>1. Where(d, e) = "closed" /\ ~ Settled(d, e)'
          BY <3>1, <3>6 DEF Where
      <4>2. ~ (ToSend(d, e) \/ Coming(d, e) \/ Unsaid(d, e)) /\ ~ (ToSend(d, e)' \/ Coming(d, e)')
          BY <1>1, <1>5, <3>3, <3>6 DEF OneStage, Moves
      <4>3. Held(d, e)' => Pressed(d, e)'
          BY <1>1, <3>6, <4>2 DEF OneStage, Moves
      <4>4. Where(d, e)' \in {"closed", "unreported", "lost"}
          BY <1>2, <1>5, <4>1, <4>2, <4>3 DEF Where
      <4> QED
        BY <4>1, <4>4 DEF DeliveryBook!Onward
    <3>7. CASE Unsaid(d, e)
      <4>1. /\ Unsaid(d, e)' /\ ~ Settled(d, e) /\ ~ Settled(d, e)'
            /\ ~ (Held(d, e) \/ Reported(d, e) \/ Coming(d, e))
          BY <1>1, <3>1, <3>7 DEF OneStage, Moves
      <4>2. ~ Reported(d, e)' /\ ~ Held(d, e)'
          BY <1>1, <4>1 DEF OneStage, Moves
      <4> QED
        BY <3>3, <3>4, <3>7, <4>1, <4>2 DEF Where
    <3>8. CASE ~ Settled(d, e) /\ ~ Reported(d, e) /\ ~ Pressed(d, e) /\ ~ Unsaid(d, e)
               /\ Held(d, e)
      <4>1. Where(d, e) = "held" /\ ~ Settled(d, e)'
          BY <3>1, <3>8 DEF Where
      <4>2. ~ (ToSend(d, e)' \/ Coming(d, e)')
          BY <1>1, <1>5, <3>8 DEF OneStage, Moves
      <4>3. Where(d, e)' \in {"held", "closed", "unreported", "lost"}
          BY <1>2, <1>5, <4>1, <4>2 DEF Where
      <4> QED
        BY <4>1, <4>3 DEF DeliveryBook!Onward
    <3>9. CASE ~ Settled(d, e) /\ ~ Reported(d, e) /\ ~ Unsaid(d, e) /\ ~ Held(d, e)
               /\ (ToSend(d, e) \/ Coming(d, e))
      <4>1. Where(d, e) = "sent" /\ ~ Settled(d, e)'
          BY <3>1, <3>3, <3>9 DEF Where
      <4>2. Where(d, e)' \in {"sent", "held", "closed", "unreported", "lost"}
          BY <1>2, <1>5, <4>1 DEF Where
      <4> QED
        BY <4>1, <4>2 DEF DeliveryBook!Onward
    <3>10. CASE ~ (Settled(d, e) \/ Reported(d, e) \/ Unsaid(d, e) \/ Held(d, e)
                   \/ ToSend(d, e) \/ Coming(d, e))
      <4>1. ~ (ToSend(d, e)' \/ Coming(d, e)' \/ Held(d, e)')
          BY <1>5, <3>10 DEF Moves
      <4>2. ~ (Settled(d, e)' \/ Reported(d, e)' \/ Unsaid(d, e)')
          BY <3>1, <3>10 DEF Moves, Leaves
      <4> QED
        BY <1>2, <1>5, <3>3, <3>4, <3>10, <4>1, <4>2 DEF Where
    <3> QED
      BY <3>5, <3>6, <3>7, <3>8, <3>9, <3>10
  <2>2. CASE Reported(d, e) /\ ~ Reported(d, e)'
    <3>1. Where(d, e) = "closed"
        BY <1>1, <2>2 DEF Where, OneStage
    <3>2. ~ (ToSend(d, e) \/ Coming(d, e) \/ Held(d, e))
        BY <1>1, <2>2 DEF OneStage
    <3>3. ~ (ToSend(d, e)' \/ Coming(d, e)' \/ Held(d, e)' \/ Pressed(d, e)' \/ Unsaid(d, e)')
        BY <1>1, <1>5, <2>2, <3>2 DEF Moves, OneStage, Leaves, Held, Pressed
    <3>4. Settled(d, e)' => Visual(d, e)' \in Outcomes.visual
        BY <1>2, <1>5 DEF RecordsOutcomes, Settled
    <3>5. Where(d, e)' \in Outcomes.visual \cup {"lost"}
        BY <1>2, <1>5, <2>2, <3>3, <3>4 DEF Where
    <3> QED
      BY <3>1, <3>5 DEF DeliveryBook!Onward
  <2> QED
    BY <1>5, <2>1, <2>2 DEF Moves
<1>6. CASE d \notin Deliveries
  <2>1. Where(d, e) = "none"
      BY <1>1, <1>3, <1>4, <1>6 DEF Where, OneStage, Pressed, Held
  <2>2. ~ (Settled(d, e)' \/ Reported(d, e)' \/ Held(d, e)' \/ Unsaid(d, e)')
      BY <1>1, <1>3, <1>6 DEF OneStage, Moves, Leaves
  <2>3. Where(d, e)' \in {"none", "sent"}
      BY <1>6, <2>2 DEF Where, Pressed, Held
  <2> QED
    BY <2>1, <2>3 DEF DeliveryBook!Onward
<1>7. CASE d \in Deliveries /\ e \notin With(d, "visual")
  <2>1. Where(d, e) = "none"
      BY <1>1, <1>3, <1>4, <1>7 DEF Where, OneStage, Pressed, Held
  <2>2. ~ (ToSend(d, e)' \/ Settled(d, e)' \/ Reported(d, e)' \/ Unsaid(d, e)' \/ Held(d, e)'
           \/ Coming(d, e)')
      BY <1>1, <1>2, <1>3, <1>7 DEF OneStage, Moves, Settled, Leaves
  <2>3. Where(d, e)' = "none"
      BY <1>2, <1>7, <2>2 DEF Where, Pressed, Held
  <2> QED
    BY <2>1, <2>3
<1> QED
  BY <1>5, <1>6, <1>7

\* A step that runs a script is a press being read, and moves nothing.
LEMMA RunIsBooked ==
    ASSUME Stages, [Next]_vars, ran' # ran
    PROVE  /\ \A b \in Ids, f \in Endpoints : Where(b, f)' = Where(b, f)
           /\ \E d \in Ids, e \in Endpoints :
                /\ Where(d, e) \in {"closed", "unreported"} /\ ran[<<d, e>>] = 0
                /\ ran' = [ran EXCEPT ![<<d, e>>] = 1]
<1>1. PICK s \in Sockets, known \in BOOLEAN : ActivateAction(s, known)
  <2>1. ASSUME NEW s \in Sockets, Register(s) \/ Lose(s) \/ Notice(s) \/ Arriving(s)
        PROVE  UNCHANGED ran
      BY <2>1 DEF Register, Lose, Notice, Arriving, ShowQueued, ShowOverflow, Show, Play,
         Stop
  <2>2. ASSUME NEW s \in Sockets, Serving(s),
               ~ \E known \in BOOLEAN : ActivateAction(s, known)
        PROVE  UNCHANGED ran
      BY <2>2 DEF Serving, Leave, LeaveEnds, VisualStatus, AudioStatus, ActionPublished
  <2>3. ASSUME NEW d \in Deliveries, Notifying(d) \/ \E e \in Endpoints : StopSpeech(d, e)
        PROVE  UNCHANGED ran
      BY <2>3 DEF Notifying, Synthesize, SynthesisFails, ShowTo, PlayTo, StopSpeech
  <2>4. ASSUME NEW e \in Endpoints, Closing(e) \/ Press(e) \/ Speaking(e)
        PROVE  UNCHANGED ran
      BY <2>4
      DEF Closing, Dismiss, Expire, PressCloses, Press, Finish, Speaking, Accept, SoundStarts,
          SoundEnds
  <2>5. CASE Notify
      BY <2>5 DEF Notify
  <2> QED
    BY <2>1, <2>2, <2>3, <2>4, <2>5 DEF Next, Closing, vars
<1>2. /\ Receives(s) /\ Head(up[s]).channel = "action"
      /\ UNCHANGED <<connections, log, task, down, overlay, pressed, pending, unsaid>>
      /\ ran' = [ran EXCEPT ![<<Head(up[s]).delivery, Owner(s)>>] =
                   ran[<<Head(up[s]).delivery, Owner(s)>>] + 1]
    BY <1>1 DEF ActivateAction, panel, screen
<1>3. PICK d \in Ids, e \in Endpoints : d = Head(up[s]).delivery /\ e = Owner(s)
    BY <1>2, ReceivesTyped, Owners DEF Stages, Typed
<1>4. Acting(d, e)
    BY <1>2, <1>3, ReceivesTyped, Kinds, ReportRead DEF Stages, Typed
<1>5. (Pressed(d, e) \/ Unsaid(d, e) \/ Reported(d, e)) /\ ~ Settled(d, e)
  <2>1. Pressed(d, e) \/ Unsaid(d, e) \/ Reported(d, e)
      BY <1>4, TellingReported DEF Stages, Answered
  <2> QED
    BY <2>1 DEF Stages, OneStage, Pressed, Held
<1>6. ran[<<d, e>>] = 0
  <2>1. ran[<<d, e>>] \in Nat
      BY DEF Stages, Typed, RanTypes
  <2> QED
    BY <1>4, <2>1 DEF Stages, RunsOnce
<1>7. ran' = [ran EXCEPT ![<<d, e>>] = 1]
    BY <1>2, <1>3, <1>6
<1>8. ASSUME NEW b \in Ids, NEW f \in Endpoints
      PROVE  Where(b, f)' = Where(b, f)
  <2>1. Head(up[s]) \notin VisualOf(b)
      BY <1>2, Kinds
  <2>2. Reported(b, f)' <=> Reported(b, f)
      BY <1>2, <2>1, ReportRead DEF Stages
  <2>3. /\ ToSend(b, f)' <=> ToSend(b, f)
        /\ Settled(b, f)' <=> Settled(b, f)
        /\ Coming(b, f)' <=> Coming(b, f)
        /\ Held(b, f)' <=> Held(b, f)
        /\ Pressed(b, f)' <=> Pressed(b, f)
        /\ Unsaid(b, f)' <=> Unsaid(b, f)
      BY <1>2, Quiet
  <2>4. Visual(b, f)' = Visual(b, f) /\ Deliveries' = Deliveries
        /\ With(b, "visual")' = With(b, "visual")
      BY <1>2 DEF Visual, Deliveries, With
  <2> QED
    BY <2>2, <2>3, <2>4 DEF Where
<1>9. Where(d, e) \in {"closed", "unreported"}
    BY <1>5 DEF Where
<1> QED
  BY <1>6, <1>7, <1>8, <1>9

Stage == [x \in Ids \X Endpoints |-> StageOf(x[1], x[2])]

LEMMA BookStep ==
    ASSUME Stages, Stages', Located, Located', RecordsOutcomes, RecordsOutcomes',
           [Next]_vars
    PROVE  [DeliveryBook!Next]_<<Stage, ran>>
<1>0. Grows
    BY TypedStep DEF Stages
<1>1. \A d \in Ids, e \in Endpoints :
        Stage[<<d, e>>] = Where(d, e) /\ Stage'[<<d, e>>] = Where(d, e)'
    BY Constants DEF Stage, Located
<1>2. CASE ran' # ran
  <2>1. \A b \in Ids, f \in Endpoints : Where(b, f)' = Where(b, f)
      BY <1>2, RunIsBooked
  <2>2. Stage' = Stage
    <3>1. \A x \in Ids \X Endpoints : StageOf(x[1], x[2])' = StageOf(x[1], x[2])
        BY <2>1, Constants DEF Located
    <3> QED
      BY <3>1, Constants DEF Stage
  <2>3. PICK d \in Ids, e \in Endpoints :
          /\ Where(d, e) \in {"closed", "unreported"} /\ ran[<<d, e>>] = 0
          /\ ran' = [ran EXCEPT ![<<d, e>>] = 1]
      BY <1>2, RunIsBooked
  <2>4. DeliveryBook!Run(<<d, e>>)
      BY <1>1, <2>2, <2>3 DEF DeliveryBook!Run, Stage
  <2> QED
    BY <2>4 DEF DeliveryBook!Next, DeliveryBook!Showings, Stage
<1>3. CASE ran' = ran
  <2>1. ASSUME NEW d \in Ids, NEW e \in Endpoints
        PROVE  /\ Where(d, e)' \in DeliveryBook!Stages
               /\ \/ Where(d, e)' = Where(d, e)
                  \/ <<Where(d, e), Where(d, e)'>> \in DeliveryBook!Onward
    <3>1. Where(d, e)' \in DeliveryBook!Stages
        BY DEF Where, RecordsOutcomes, Settled, DeliveryBook!Stages
    <3>2. CASE Next
        BY <1>0, <3>1, <3>2, CarriedStep, BeginsToSend, MoveIsOnward DEF Carried
    <3>3. CASE UNCHANGED vars
      <4>1. UNCHANGED <<log, task, down, up, overlay, pressed, pending, unsaid>>
          BY <3>3 DEF vars, server, panel, screen
      <4> QED
        BY <3>1, <4>1, Quiet DEF Where, Visual, Deliveries, With
    <3> QED
      BY <3>2, <3>3
  <2>2. Stage' \in [DeliveryBook!Showings -> DeliveryBook!Stages]
      BY <2>1, Constants DEF Stage, Located, DeliveryBook!Showings
  <2>3. \A x \in Ids \X Endpoints :
          Stage'[x] = Stage[x] \/ <<Stage[x], Stage'[x]>> \in DeliveryBook!Onward
      BY <1>1, <2>1
  <2>4. DeliveryBook!Advance
      BY <1>3, <2>2, <2>3 DEF DeliveryBook!Advance, DeliveryBook!Showings, Stage
  <2> QED
    BY <2>4 DEF DeliveryBook!Next
<1> QED
  BY <1>2, <1>3

\* The service, the handlers, the panels and whatever becomes of the links
\* implement the delivery book: every notification goes through its stages one
\* after the other at every display, has one outcome, and runs its script once
\* at most, after it was closed, before its outcome is recorded, and never when
\* it was lost, whichever messages of the panel are.
THEOREM BookKept == Spec => KeepsDeliveryBook
<1>1. Init => DeliveryBook!Init
  <2> SUFFICES ASSUME Init PROVE DeliveryBook!Init
      OBVIOUS
  <2>1. Stages /\ Located
      BY StagesInit, AlwaysLocated DEF Stages
  <2>2. Deliveries = {}
    <3>1. Len(log) = 0
        BY EmptySeq DEF Init
    <3> QED
      BY <3>1 DEF Deliveries
  <2>3. ASSUME NEW d \in Ids, NEW e \in Endpoints PROVE Where(d, e) = "none"
      BY <2>1, <2>2 DEF Stages, OneStage, Where, Settled, ToSend, Pressed, Held
  <2>4. Stage = [x \in Ids \X Endpoints |-> "none"]
      BY <2>1, <2>3 DEF Stage, Located
  <2> QED
    BY <2>4 DEF DeliveryBook!Init, DeliveryBook!Showings, Stage, Init
<1>2. Init => RecordsOutcomes
  <2> SUFFICES ASSUME Init PROVE Deliveries = {}
      BY DEF RecordsOutcomes
  <2>1. Len(log) = 0
      BY EmptySeq DEF Init
  <2> QED
    BY <2>1 DEF Deliveries
<1>3. Stages => Typed /\ Located
    BY AlwaysLocated DEF Stages
<1>4. /\ Stages /\ Stages' /\ Located /\ Located' /\ RecordsOutcomes /\ RecordsOutcomes'
      /\ [Next]_vars
      => [DeliveryBook!Next]_<<Stage, ran>>
    BY BookStep
<1> QED
  BY <1>1, <1>2, <1>3, <1>4, AlwaysStages, OutcomesStep, PTL
  DEF Spec, KeepsDeliveryBook, DeliveryBook!Spec, Stage
=============================================================================
