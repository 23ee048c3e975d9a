------------------------------ MODULE MCPanels ------------------------------
(***************************************************************************)
(* Small instances of Panels: two panels, a kitchen with a light and a     *)
(* climate device, a hall with two media players; the second panel's       *)
(* firmware holds one entity, and either shows one media player.           *)
(***************************************************************************)
EXTENDS Panels, TLC

CONSTANTS P, Q

MCEntities == 1 .. 4
MCAreaOf == <<"kitchen", "kitchen", "hall", "hall">>
MCKindOf == <<"light", "climate", "media_player", "media_player">>
MCCodeArea == [c1 |-> "kitchen", c2 |-> "hall"]
MCLimit == (P :> 30) @@ (Q :> 1)

Scenario(p, q, legacy, updates, n, unstable) ==
    [token |-> (P :> p) @@ (Q :> q),
     legacy |-> [e \in Endpoints |-> IF e \in legacy THEN "hall" ELSE NoArea],
     updates |-> updates, changes |-> n[1], presses |-> n[2], restarts |-> n[3],
     unstable |-> unstable]

Arrange(e, a, hide, order, pin) ==
    [id |-> e, area |-> a, full |-> TRUE, hide |-> hide, order |-> order, pin |-> pin]
Move(e, a) == [Arrange(e, a, {}, <<>>, {}) EXCEPT !.full = FALSE]

\* One code for both panels, a move and a restart; a panel that joins while a
\* level changes; one that is arranged, moved, or hears of a level, while it
\* reconnects; two pages that arrange one panel for two areas; controls on a
\* panel that is moved.  (A panel with a code and an area, the fourth, was
\* assigned before it was provisioned again.)
MCScenarios ==
    {Scenario("c1", "c1", {}, <<Move(P, "hall")>>, <<0, 0, 1>>, {P}),
     Scenario("c1", NoCode, {Q}, <<Move(Q, "kitchen")>>, <<1, 0, 0>>, {}),
     Scenario(NoCode, NoCode, {P},
              <<Arrange(P, "kitchen", {1}, <<>>, {2}), Move(P, "hall")>>, <<0, 0, 0>>, {P}),
     Scenario("c1", NoCode, {P}, <<Move(P, "kitchen")>>, <<1, 0, 0>>, {P}),
     Scenario("c1", NoCode, {},
              <<Arrange(P, "kitchen", {}, <<2, 1>>, {1}), Arrange(P, "hall", {}, <<>>, {4})>>,
              <<1, 0, 0>>, {}),
     Scenario("c1", NoCode, {}, <<Move(P, "hall")>>, <<1, 2, 0>>, {})}
=============================================================================
