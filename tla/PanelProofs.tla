----------------------------- MODULE PanelProofs -----------------------------
(***************************************************************************)
(* Theorems about Panels, for any panels, areas, entities, levels and      *)
(* scenarios: types (and with them the limits of every command), that a    *)
(* panel which was accepted with its code comes back, that what a panel    *)
(* shows is current, and that it shows the favourites first.               *)
(***************************************************************************)
EXTENDS Panels, TLAPS, SequenceTheorems, FiniteSetTheorems

-----------------------------------------------------------------------------
(* The order of a dashboard                                                *)

\* Entities come in one order, whatever is pinned and whatever the positions.
LEMMA BeforeOrders ==
    ASSUME NEW pins, NEW ranks \in [Entities -> Nat],
           NEW x \in Entities, NEW y \in Entities, NEW z \in Entities
    PROVE  /\ ~ Before(pins, ranks, x, x)
           /\ Before(pins, ranks, x, y) /\ Before(pins, ranks, y, z)
                => Before(pins, ranks, x, z)
           /\ x # y => Before(pins, ranks, x, y) \/ Before(pins, ranks, y, x)
<1>1. /\ x \in Nat /\ y \in Nat /\ z \in Nat
      /\ ranks[x] \in Nat /\ ranks[y] \in Nat /\ ranks[z] \in Nat
    BY PanelsAssumption
<1> QED
  BY <1>1 DEF Before

\* Each of the entities S has a place of its own among the places 1 to their
\* number.
LEMMA PlacesDiffer ==
    ASSUME NEW S \in SUBSET Entities, NEW pins, NEW ranks \in [Entities -> Nat]
    PROVE  /\ IsFiniteSet(S) /\ Cardinality(S) \in Nat
           /\ [x \in S |-> Place(S, pins, ranks, x)]
                \in Injection(S, 1 .. Cardinality(S))
           /\ \A x, z \in S :
                /\ Place(S, pins, ranks, x) \in 1 .. Cardinality(S)
                /\ Before(pins, ranks, x, z)
                     => Place(S, pins, ranks, x) < Place(S, pins, ranks, z)
<1>1. IsFiniteSet(S) /\ Cardinality(S) \in Nat
    BY PanelsAssumption, FS_Subset, FS_CardinalityType
<1> DEFINE Ahead(x) == {y \in S : Before(pins, ranks, y, x)}
<1>2. \A x \in S : /\ IsFiniteSet(Ahead(x)) /\ Cardinality(Ahead(x)) \in Nat
                   /\ Cardinality(Ahead(x)) < Cardinality(S)
  <2> TAKE x \in S
  <2>1. Ahead(x) \in SUBSET S
      OBVIOUS
  <2>2. x \notin Ahead(x)
      BY BeforeOrders
  <2>3. Ahead(x) # S
      BY <2>2
  <2>4. IsFiniteSet(Ahead(x)) /\ Cardinality(Ahead(x)) <= Cardinality(S)
        /\ (Cardinality(S) = Cardinality(Ahead(x)) => S = Ahead(x))
      BY <1>1, <2>1, FS_Subset
  <2>5. Cardinality(Ahead(x)) \in Nat
      BY <2>4, FS_CardinalityType
  <2> HIDE DEF Ahead
  <2> QED
    BY <1>1, <2>3, <2>4, <2>5
<1>3. ASSUME NEW x \in S, NEW z \in S, Before(pins, ranks, x, z)
      PROVE  Cardinality(Ahead(x)) < Cardinality(Ahead(z))
  <2>1. Ahead(x) \in SUBSET Ahead(z)
      BY <1>3, BeforeOrders
  <2>2. x \in Ahead(z) /\ x \notin Ahead(x)
      BY <1>3, BeforeOrders
  <2>3. Ahead(x) # Ahead(z)
      BY <2>2
  <2> HIDE DEF Ahead
  <2>4. IsFiniteSet(Ahead(z)) /\ Cardinality(Ahead(z)) \in Nat
        /\ Cardinality(Ahead(x)) \in Nat
      BY <1>2
  <2>5. Cardinality(Ahead(x)) <= Cardinality(Ahead(z))
        /\ (Cardinality(Ahead(z)) = Cardinality(Ahead(x)) => Ahead(z) = Ahead(x))
      BY <2>1, <2>4, FS_Subset
  <2> QED
    BY <2>3, <2>4, <2>5
<1>4. \A x \in S : Place(S, pins, ranks, x) = Cardinality(Ahead(x)) + 1
    BY DEF Place
<1> HIDE DEF Ahead
<1>5. \A x \in S : Place(S, pins, ranks, x) \in 1 .. Cardinality(S)
    BY <1>1, <1>2, <1>4
<1>6. \A x, z \in S : x # z => Place(S, pins, ranks, x) # Place(S, pins, ranks, z)
  <2> SUFFICES ASSUME NEW x \in S, NEW z \in S, x # z
               PROVE  Place(S, pins, ranks, x) # Place(S, pins, ranks, z)
      OBVIOUS
  <2>1. Before(pins, ranks, x, z) \/ Before(pins, ranks, z, x)
      BY BeforeOrders
  <2>2. Cardinality(Ahead(x)) # Cardinality(Ahead(z))
      BY <1>2, <1>3, <2>1
  <2> QED
    BY <1>2, <1>4, <2>2
<1>7. \A x, z \in S : Before(pins, ranks, x, z)
        => Place(S, pins, ranks, x) < Place(S, pins, ranks, z)
    BY <1>2, <1>3, <1>4
<1> QED
  BY <1>1, <1>5, <1>6, <1>7 DEF Injection, IsInjective

\* So every place is taken.
LEMMA PlaceTaken ==
    ASSUME NEW S \in SUBSET Entities, NEW pins, NEW ranks \in [Entities -> Nat]
    PROVE  /\ Cardinality(S) \in Nat
           /\ \A i \in 1 .. Cardinality(S) : \E x \in S : Place(S, pins, ranks, x) = i
<1> DEFINE n == Cardinality(S)
           place == [x \in S |-> Place(S, pins, ranks, x)]
<1>1. IsFiniteSet(S) /\ n \in Nat /\ place \in Injection(S, 1 .. n)
    BY PlacesDiffer
<1>2. IsFiniteSet(1 .. n) /\ Cardinality(1 .. n) = n
    BY <1>1, FS_Interval
<1>3. place \in Surjection(S, 1 .. n)
  <2> HIDE DEF place
  <2> QED
    BY <1>1, <1>2, FS_Injection
<1>4. \A i \in 1 .. n : \E x \in S : place[x] = i
  <2> HIDE DEF place, n
  <2> QED
    BY <1>3 DEF Surjection
<1> QED
  BY <1>1, <1>4

\* Sorted lists each of the entities S once.
LEMMA SortedLists ==
    ASSUME NEW S \in SUBSET Entities, NEW pins, NEW ranks \in [Entities -> Nat]
    PROVE  /\ Cardinality(S) \in Nat
           /\ Sorted(S, pins, ranks) \in [1 .. Cardinality(S) -> S]
           /\ Sorted(S, pins, ranks) \in Seq(S)
           /\ Len(Sorted(S, pins, ranks)) = Cardinality(S)
<1> DEFINE n == Cardinality(S)
<1>1. n \in Nat /\ \A i \in 1 .. n : \E x \in S : Place(S, pins, ranks, x) = i
    BY PlaceTaken
<1> HIDE DEF n
<1>2. Sorted(S, pins, ranks) \in [1 .. n -> S]
    BY <1>1 DEF Sorted, n
<1>3. Sorted(S, pins, ranks) \in Seq(S) /\ Len(Sorted(S, pins, ranks)) = n
    BY <1>1, <1>2
<1> QED
  BY <1>1, <1>2, <1>3 DEF n

\* It lists all of them, and in their order.
LEMMA SortedOrders ==
    ASSUME NEW S \in SUBSET Entities, NEW pins, NEW ranks \in [Entities -> Nat]
    PROVE  LET q == Sorted(S, pins, ranks) IN
           /\ \A x \in S : \E i \in 1 .. Len(q) : q[i] = x
           /\ \A i, j \in 1 .. Len(q) : i < j => Before(pins, ranks, q[i], q[j])
<1> DEFINE q == Sorted(S, pins, ranks)
           n == Cardinality(S)
           place == [x \in S |-> Place(S, pins, ranks, x)]
<1>1. n \in Nat /\ Len(q) = n /\ q \in [1 .. n -> S]
    BY SortedLists
<1>2. \A x \in S : Place(S, pins, ranks, x) \in 1 .. n
    BY PlacesDiffer
<1>3. \A x, y \in S : Place(S, pins, ranks, x) = Place(S, pins, ranks, y) => x = y
  <2>1. place \in Injection(S, 1 .. n)
      BY PlacesDiffer
  <2>2. \A x, y \in S : place[x] = place[y] => x = y
    <3> HIDE DEF place, n
    <3> QED
      BY <2>1 DEF Injection, IsInjective
  <2> QED
    BY <2>2
<1>4. \A x \in S : q[Place(S, pins, ranks, x)] = x
  <2> SUFFICES ASSUME NEW x \in S
               PROVE  q[Place(S, pins, ranks, x)] = x
      OBVIOUS
  <2>1. q[Place(S, pins, ranks, x)]
          = CHOOSE y \in S : Place(S, pins, ranks, y) = Place(S, pins, ranks, x)
      BY <1>2 DEF Sorted
  <2> QED
    BY <1>3, <2>1
<1>5. \A i \in 1 .. n : Place(S, pins, ranks, q[i]) = i
  <2> SUFFICES ASSUME NEW i \in 1 .. n
               PROVE  Place(S, pins, ranks, q[i]) = i
      OBVIOUS
  <2>1. \E x \in S : Place(S, pins, ranks, x) = i
      BY PlaceTaken
  <2> QED
    BY <1>4, <2>1
<1>6. ASSUME NEW i \in 1 .. n, NEW j \in 1 .. n, i < j
      PROVE  Before(pins, ranks, q[i], q[j])
  <2>1. q[i] \in S /\ q[j] \in S /\ q[i] # q[j] /\ ~ (j < i)
      BY <1>1, <1>5, <1>6
  <2>2. Place(S, pins, ranks, q[i]) = i /\ Place(S, pins, ranks, q[j]) = j
      BY <1>5
  <2> HIDE DEF q
  <2>3. ~ Before(pins, ranks, q[j], q[i])
      BY <2>1, <2>2, PlacesDiffer
  <2>4. q[i] \in Entities /\ q[j] \in Entities
      BY <2>1
  <2> QED
    BY <2>1, <2>3, <2>4, BeforeOrders
<1> QED
  BY <1>1, <1>2, <1>4, <1>6

\* The first n of the entities S in order, as items of a dashboard.
Listing(S, n, pins, ranks, flagged, levels) ==
    LET order == Sorted(S, pins, ranks) IN
    [i \in 1 .. Min({Len(order), n}) |->
       [entity |-> order[i], pinned |-> order[i] \in flagged, level |-> levels[order[i]]]]

\* The dashboard of panel e, by its area, its choices and the levels.
Visible(a, hide) == {x \in Entities : AreaOf[x] = a} \ hide
Players(S) == {x \in S : KindOf[x] = "media_player"}
ByName == [x \in Entities |-> 0]
Picture(e, a, hide, pins, ranks, levels) ==
    LET visible == Visible(a, hide) IN
    [area |-> a,
     items |-> Listing(visible \ Players(visible), Limit[e], pins, ranks, pins, levels),
     media |-> Listing(Players(visible), MediaLimit, {}, ByName, pins, levels)]

LEMMA SnapshotIsPicture ==
    ASSUME NEW e \in Endpoints
    PROVE  /\ Snapshot(e) = Picture(e, area[e], hidden[e], pinned[e], rank[e], level)
           /\ Snapshot(e)' = Picture(e, area'[e], hidden'[e], pinned'[e], rank'[e], level')
BY DEF Snapshot, Listed, Picture, Listing, Visible, Players, ByName, Eligible

LEMMA LeastOfTwo ==
    ASSUME NEW m \in Nat, NEW n \in Nat
    PROVE  Min({m, n}) \in Nat /\ Min({m, n}) <= m /\ Min({m, n}) <= n
<1>1. \E x \in {m, n} : \A y \in {m, n} : x =< y
    OBVIOUS
<1> QED
  BY <1>1 DEF Min

\* It is a list of items, of the entities S in order.
LEMMA ListingIs ==
    ASSUME NEW S \in SUBSET Entities, NEW n \in Nat, NEW pins \in SUBSET Entities,
           NEW ranks \in [Entities -> Nat], NEW flagged \in SUBSET Entities,
           NEW levels \in [Entities -> Levels]
    PROVE  LET q == Listing(S, n, pins, ranks, flagged, levels) IN
           /\ q \in Seq(Items) /\ Len(q) <= n
           /\ \A i \in 1 .. Len(q) :
                q[i].entity \in S /\ (q[i].pinned <=> q[i].entity \in flagged)
           /\ \A i, j \in 1 .. Len(q) :
                i < j => Before(pins, ranks, q[i].entity, q[j].entity)
<1> DEFINE order == Sorted(S, pins, ranks)
           m == Min({Len(order), n})
           item(i, l) == [entity |-> order[i], pinned |-> order[i] \in flagged,
                          level |-> l[order[i]]]
           items(l) == [i \in 1 .. m |-> item(i, l)]
           q == Listing(S, n, pins, ranks, flagged, levels)
<1>1. /\ order \in [1 .. Len(order) -> S] /\ Len(order) \in Nat
      /\ \A i, j \in 1 .. Len(order) : i < j => Before(pins, ranks, order[i], order[j])
  <2>1. Cardinality(S) \in Nat /\ Len(order) = Cardinality(S)
        /\ order \in [1 .. Cardinality(S) -> S]
      BY SortedLists
  <2>2. \A i, j \in 1 .. Len(order) : i < j => Before(pins, ranks, order[i], order[j])
      BY SortedOrders
  <2> HIDE DEF order
  <2> QED
    BY <2>1, <2>2
<1>2. \A l : Listing(S, n, pins, ranks, flagged, l) = items(l)
    BY DEF Listing
<1> HIDE DEF order
<1>3. m \in Nat /\ m <= Len(order) /\ m <= n
    BY <1>1, LeastOfTwo
<1> HIDE DEF m
<1>4. \A i \in 1 .. m : order[i] \in S /\ i \in 1 .. Len(order)
    BY <1>1, <1>3
<1>5. \A i \in 1 .. m : item(i, levels) \in Items
    BY <1>4 DEF Items
<1>6. \A i \in 1 .. m : item(i, levels).entity = order[i]
                         /\ item(i, levels).pinned = (order[i] \in flagged)
    OBVIOUS
<1> HIDE DEF item
<1>7. items(levels) \in Seq(Items) /\ Len(items(levels)) = m
      /\ \A i \in 1 .. m : items(levels)[i] = item(i, levels)
    BY <1>3, <1>5
<1> HIDE DEF items, q
<1>8. q = items(levels)
    BY <1>2 DEF q
<1>9. \A i \in 1 .. Len(q) : q[i].entity = order[i] /\ q[i].pinned = (order[i] \in flagged)
    BY <1>6, <1>7, <1>8
<1>10. \A i, j \in 1 .. Len(q) : i < j => Before(pins, ranks, q[i].entity, q[j].entity)
    BY <1>1, <1>4, <1>7, <1>8, <1>9
<1>11. \A i \in 1 .. Len(q) : q[i].entity \in S /\ (q[i].pinned <=> q[i].entity \in flagged)
    BY <1>4, <1>7, <1>8, <1>9
<1>12. q \in Seq(Items) /\ Len(q) <= n
    BY <1>3, <1>7, <1>8
<1> QED
  BY <1>10, <1>11, <1>12 DEF q

\* Of the levels, only those of S are in it.
LEMMA ListingSame ==
    ASSUME NEW S \in SUBSET Entities, NEW n \in Nat, NEW pins, NEW ranks \in [Entities -> Nat],
           NEW flagged, NEW levels, NEW other, \A x \in S : other[x] = levels[x]
    PROVE  Listing(S, n, pins, ranks, flagged, other)
             = Listing(S, n, pins, ranks, flagged, levels)
<1> DEFINE order == Sorted(S, pins, ranks)
           m == Min({Len(order), n})
<1>1. order \in [1 .. Len(order) -> S] /\ Len(order) \in Nat
  <2>1. Cardinality(S) \in Nat /\ Len(order) = Cardinality(S)
        /\ order \in [1 .. Cardinality(S) -> S]
      BY SortedLists
  <2> HIDE DEF order
  <2> QED
    BY <2>1
<1>2. \A l : Listing(S, n, pins, ranks, flagged, l)
               = [i \in 1 .. m |-> [entity |-> order[i], pinned |-> order[i] \in flagged,
                                    level |-> l[order[i]]]]
    BY DEF Listing
<1> HIDE DEF order
<1>3. m \in Nat /\ m <= Len(order)
    BY <1>1, LeastOfTwo
<1> HIDE DEF m
<1>4. \A i \in 1 .. m : other[order[i]] = levels[order[i]]
    BY <1>1, <1>3
<1> QED
  BY <1>2, <1>4

\* What the lists of a dashboard are made of.
LEMMA ListsOf ==
    ASSUME NEW a, NEW hide, NEW e \in Endpoints
    PROVE  LET S == Visible(a, hide) IN
           /\ S \in SUBSET Entities /\ Players(S) \in SUBSET S
           /\ S \ Players(S) \in SUBSET Entities /\ Players(S) \in SUBSET Entities
           /\ \A x \in S : AreaOf[x] = a
           /\ ByName \in [Entities -> Nat] /\ {} \in SUBSET Entities
           /\ Limit[e] \in Nat /\ MediaLimit \in Nat
BY PanelsAssumption DEF Visible, Players, ByName

\* It is a dashboard, and only the levels of its area are in it.
LEMMA PictureTyped ==
    ASSUME NEW e \in Endpoints, NEW a \in Areas \cup {NoArea},
           NEW hide \in SUBSET Entities, NEW pins \in SUBSET Entities,
           NEW ranks \in [Entities -> Nat], NEW levels \in [Entities -> Levels]
    PROVE  /\ Picture(e, a, hide, pins, ranks, levels) \in Dashboards
           /\ \A other \in [Entities -> Levels] :
                (\A x \in Entities : AreaOf[x] = a => other[x] = levels[x])
                  => Picture(e, a, hide, pins, ranks, other)
                       = Picture(e, a, hide, pins, ranks, levels)
<1> DEFINE S == Visible(a, hide)
           others == S \ Players(S)
           players == Players(S)
           items(l) == Listing(others, Limit[e], pins, ranks, pins, l)
           media(l) == Listing(players, MediaLimit, {}, ByName, pins, l)
<1>1. /\ others \in SUBSET Entities /\ players \in SUBSET Entities
      /\ \A x \in others \cup players : AreaOf[x] = a
      /\ ByName \in [Entities -> Nat] /\ {} \in SUBSET Entities
      /\ Limit[e] \in Nat /\ MediaLimit \in Nat
    BY ListsOf
<1>2. \A l : Picture(e, a, hide, pins, ranks, l)
               = [area |-> a, items |-> items(l), media |-> media(l)]
    BY DEF Picture
<1> HIDE DEF others, players, S
<1>3. items(levels) \in Seq(Items) /\ media(levels) \in Seq(Items)
    BY <1>1, ListingIs
<1>4. \A other \in [Entities -> Levels] :
        (\A x \in others \cup players : other[x] = levels[x])
          => items(other) = items(levels) /\ media(other) = media(levels)
    BY <1>1, ListingSame
<1> HIDE DEF items, media
<1>5. ASSUME NEW other \in [Entities -> Levels],
             \A x \in Entities : AreaOf[x] = a => other[x] = levels[x]
      PROVE  items(other) = items(levels) /\ media(other) = media(levels)
  <2>1. \A x \in others \cup players : other[x] = levels[x]
      BY <1>1, <1>5
  <2> QED
    BY <1>4, <2>1
<1>6. Picture(e, a, hide, pins, ranks, levels) \in Dashboards
    BY <1>2, <1>3 DEF Dashboards
<1>7. \A other \in [Entities -> Levels] :
        (\A x \in Entities : AreaOf[x] = a => other[x] = levels[x])
          => Picture(e, a, hide, pins, ranks, other)
               = Picture(e, a, hide, pins, ranks, levels)
    BY <1>2, <1>5
<1> QED
  BY <1>6, <1>7

\* A dashboard that panel e can show as it is meant: no more than its firmware
\* holds, each entity once and of the dashboard's area, the favourites first
\* (DOCS.md, "Favourites appear first"); the media players, and nothing else,
\* in their own list, of the same area, each once and by name, and no more
\* than fit.
Arranged(e, d) ==
    /\ Len(d.items) <= Limit[e]
    /\ \A i \in 1 .. Len(d.items) :
         AreaOf[d.items[i].entity] = d.area /\ KindOf[d.items[i].entity] # "media_player"
    /\ \A i, j \in 1 .. Len(d.items) : i < j =>
         /\ d.items[i].entity # d.items[j].entity
         /\ d.items[j].pinned => d.items[i].pinned
    /\ Len(d.media) <= MediaLimit
    /\ \A i \in 1 .. Len(d.media) :
         AreaOf[d.media[i].entity] = d.area /\ KindOf[d.media[i].entity] = "media_player"
    /\ \A i, j \in 1 .. Len(d.media) : i < j => d.media[i].entity < d.media[j].entity

LEMMA PictureArranged ==
    ASSUME NEW e \in Endpoints, NEW a \in Areas \cup {NoArea},
           NEW hide \in SUBSET Entities, NEW pins \in SUBSET Entities,
           NEW ranks \in [Entities -> Nat], NEW levels \in [Entities -> Levels]
    PROVE  Arranged(e, Picture(e, a, hide, pins, ranks, levels))
<1> DEFINE S == Visible(a, hide)
           others == S \ Players(S)
           items == Listing(others, Limit[e], pins, ranks, pins, levels)
           media == Listing(Players(S), MediaLimit, {}, ByName, pins, levels)
           d == Picture(e, a, hide, pins, ranks, levels)
<1>1. /\ others \in SUBSET Entities /\ Players(S) \in SUBSET Entities
      /\ \A x \in others : AreaOf[x] = a /\ KindOf[x] # "media_player"
      /\ \A x \in Players(S) : AreaOf[x] = a /\ KindOf[x] = "media_player"
      /\ ByName \in [Entities -> Nat] /\ {} \in SUBSET Entities
      /\ Limit[e] \in Nat /\ MediaLimit \in Nat
    BY ListsOf DEF Visible, Players
<1>2. d.area = a /\ d.items = items /\ d.media = media
    BY DEF Picture
<1> HIDE DEF others, S, d
<1>3. /\ Len(items) <= Limit[e]
      /\ \A i \in 1 .. Len(items) :
           items[i].entity \in others /\ (items[i].pinned <=> items[i].entity \in pins)
      /\ \A i, j \in 1 .. Len(items) :
           i < j => Before(pins, ranks, items[i].entity, items[j].entity)
    BY <1>1, ListingIs
<1>4. /\ media \in Seq(Items) /\ Len(media) <= MediaLimit
      /\ \A i \in 1 .. Len(media) : media[i].entity \in Players(S)
      /\ \A i, j \in 1 .. Len(media) :
           i < j => Before({}, ByName, media[i].entity, media[j].entity)
    BY <1>1, ListingIs
<1> HIDE DEF items, media
<1>5. ASSUME NEW i \in 1 .. Len(items), NEW j \in 1 .. Len(items), i < j
      PROVE  items[i].entity # items[j].entity /\ (items[j].pinned => items[i].pinned)
  <2>1. Before(pins, ranks, items[i].entity, items[j].entity)
      BY <1>3, <1>5
  <2>2. items[i].entity \in Entities /\ items[j].entity \in Entities
      BY <1>1, <1>3
  <2>3. items[i].entity # items[j].entity
      BY <2>1, <2>2, BeforeOrders
  <2> QED
    BY <1>3, <2>1, <2>3 DEF Before
<1>6. ASSUME NEW i \in 1 .. Len(media), NEW j \in 1 .. Len(media), i < j
      PROVE  media[i].entity < media[j].entity
  <2>1. Before({}, ByName, media[i].entity, media[j].entity)
      BY <1>4, <1>6
  <2>2. media[i].entity \in Entities /\ media[j].entity \in Entities
      BY <1>1, <1>4
  <2> QED
    BY <2>1, <2>2, PanelsAssumption DEF Before, ByName
<1>7. Arranged(e, d)
  <2>1. \A i \in 1 .. Len(items) :
          AreaOf[items[i].entity] = a /\ KindOf[items[i].entity] # "media_player"
      BY <1>1, <1>3
  <2>2. \A i \in 1 .. Len(media) :
          AreaOf[media[i].entity] = a /\ KindOf[media[i].entity] = "media_player"
      BY <1>1, <1>4
  <2>3. /\ Len(d.items) <= Limit[e]
        /\ \A i \in 1 .. Len(d.items) :
             AreaOf[d.items[i].entity] = d.area /\ KindOf[d.items[i].entity] # "media_player"
        /\ \A i, j \in 1 .. Len(d.items) : i < j =>
             /\ d.items[i].entity # d.items[j].entity
             /\ d.items[j].pinned => d.items[i].pinned
      BY <1>2, <1>3, <1>5, <2>1
  <2>4. /\ Len(d.media) <= MediaLimit
        /\ \A i \in 1 .. Len(d.media) :
             AreaOf[d.media[i].entity] = d.area /\ KindOf[d.media[i].entity] = "media_player"
        /\ \A i, j \in 1 .. Len(d.media) : i < j => d.media[i].entity < d.media[j].entity
      BY <1>2, <1>4, <1>6, <2>2
  <2> QED
    BY <2>3, <2>4, Zenon DEF Arranged
<1> QED
  BY <1>7 DEF d

-----------------------------------------------------------------------------
(* Types                                                                   *)

\* TypeOK in parts.
PairingTypes ==
    /\ codes \in [Codes -> {"future", "valid", "past"}]
    /\ credentials \in [Endpoints -> Codes \cup {NoCode}]
    /\ assignments \in [Endpoints -> Areas \cup {NoArea}]
    /\ admitted \subseteq Endpoints /\ refused \subseteq Endpoints

ChoiceTypes ==
    /\ hidden \in [Endpoints -> SUBSET Entities]
    /\ pinned \in [Endpoints -> SUBSET Entities]
    /\ rank \in [Endpoints -> [Entities -> 0 .. Cardinality(Entities)]]

MemoryTypes ==
    /\ known \in Seq(Endpoints) /\ IsInjective(known)
    /\ online \in [Endpoints -> BOOLEAN]
    /\ area \in [Endpoints -> Areas \cup {NoArea}]

Loops == [entity : Entities, at : 1 .. Cardinality(Endpoints) + 1,
          size : 0 .. Cardinality(Endpoints)]

LevelTypes ==
    /\ level \in [Entities -> Levels]
    /\ fanout = Idle \/ fanout \in Loops

TaskTypes ==
    /\ scenario \in ScenarioType
    /\ task \in [Tasks -> {"new", "assigned", "arranged", "saved", "refused", "gone"}]

Presented == [entity : Entities, press : Presses]

SocketTypes ==
    /\ handler \in [Sockets -> {"unregistered", "replacing", "serving", "leaving", "done"}]
    /\ up \in [Sockets -> Seq(Presented)]
    /\ shown \in [Endpoints -> Dashboards]
    /\ commands \subseteq [entity : Entities, command : CommandNames, level : Levels]

SendTypes ==
    /\ connections \in [Endpoints -> Sockets \cup {NoSocket}]
    /\ down \in [Sockets -> Seq(Dashboards)]
    /\ missed \subseteq Endpoints

LinkTypes == ws \in [Sockets -> LinkStates]

LEMMA Parts ==
    /\ TypeOK <=> (/\ PairingTypes /\ ChoiceTypes /\ MemoryTypes /\ LevelTypes
                   /\ TaskTypes /\ SocketTypes /\ SendTypes /\ LinkTypes)
    /\ TypeOK' <=> (/\ PairingTypes' /\ ChoiceTypes' /\ MemoryTypes' /\ LevelTypes'
                    /\ TaskTypes' /\ SocketTypes' /\ SendTypes' /\ LinkTypes')
<1> USE DEF TypeOK, PairingTypes, ChoiceTypes, MemoryTypes, LevelTypes, TaskTypes, SocketTypes,
        SendTypes, LinkTypes, ConnectionTypeOK, Loops, Presented
<1>1. TypeOK => /\ PairingTypes /\ ChoiceTypes /\ MemoryTypes /\ LevelTypes
                /\ TaskTypes /\ SocketTypes /\ SendTypes /\ LinkTypes
    BY Zenon
<1>2. PairingTypes /\ ChoiceTypes /\ MemoryTypes /\ LevelTypes /\ TaskTypes
        /\ SocketTypes /\ SendTypes /\ LinkTypes => TypeOK
    BY Zenon
<1>3. PairingTypes' /\ ChoiceTypes' /\ MemoryTypes' /\ LevelTypes' /\ TaskTypes'
        /\ SocketTypes' /\ SendTypes' /\ LinkTypes' => TypeOK'
    BY Zenon
<1>4. TypeOK' => /\ PairingTypes' /\ ChoiceTypes' /\ MemoryTypes' /\ LevelTypes'
                 /\ TaskTypes' /\ SocketTypes' /\ SendTypes' /\ LinkTypes'
    BY Zenon
<1> QED
  <2> HIDE DEF TypeOK, PairingTypes, ChoiceTypes, MemoryTypes, LevelTypes, TaskTypes,
          SocketTypes, SendTypes, LinkTypes
  <2> QED
    BY <1>1, <1>2, <1>3, <1>4

LEMMA Constants ==
    /\ Levels' = Levels /\ Codes' = Codes /\ Sockets' = Sockets
    /\ Dashboards' = Dashboards /\ Presented' = Presented /\ Loops' = Loops
    /\ ScenarioType' = ScenarioType /\ Idle' = Idle /\ LinkStates' = LinkStates
    /\ \A s : Owner(s)' = Owner(s)
    /\ CommandNames' = CommandNames
<1>1. Levels' = Levels /\ Codes' = Codes /\ Sockets' = Sockets
    BY DEF Levels, Codes, Sockets
<1>2. Dashboards' = Dashboards /\ Presented' = Presented /\ Loops' = Loops
    BY <1>1 DEF Dashboards, Items, Presented, Presses, Takes, Loops
<1>3. ScenarioType' = ScenarioType
    BY <1>1 DEF ScenarioType, UpdateType
<1>4. Idle' = Idle /\ LinkStates' = LinkStates
    BY DEF Idle, LinkStates
<1>5. \A s : Owner(s)' = Owner(s) /\ CommandNames' = CommandNames
    BY DEF Owner, CommandNames
<1> QED
  BY <1>1, <1>2, <1>3, <1>4, <1>5

\* A part whose variables a step leaves alone stays true.
LEMMA PartsKept ==
    /\ PairingTypes /\ UNCHANGED <<codes, credentials, assignments, admitted, refused>>
         => PairingTypes'
    /\ ChoiceTypes /\ UNCHANGED choices => ChoiceTypes'
    /\ MemoryTypes /\ UNCHANGED memory => MemoryTypes'
    /\ LevelTypes /\ UNCHANGED <<level, fanout>> => LevelTypes'
    /\ TaskTypes /\ UNCHANGED <<scenario, task>> => TaskTypes'
    /\ SocketTypes /\ UNCHANGED <<handler, up, shown, commands>> => SocketTypes'
    /\ SendTypes /\ UNCHANGED <<connections, down, missed>> => SendTypes'
    /\ LinkTypes /\ UNCHANGED ws => LinkTypes'
<1>1. PairingTypes /\ UNCHANGED <<codes, credentials, assignments, admitted, refused>>
        => PairingTypes'
    BY Constants DEF PairingTypes
<1>2. ChoiceTypes /\ UNCHANGED choices => ChoiceTypes'
    BY DEF ChoiceTypes, choices
<1>3. MemoryTypes /\ UNCHANGED memory => MemoryTypes'
    BY DEF MemoryTypes, memory, IsInjective
<1>4. LevelTypes /\ UNCHANGED <<level, fanout>> => LevelTypes'
    BY Constants DEF LevelTypes
<1>5. TaskTypes /\ UNCHANGED <<scenario, task>> => TaskTypes'
    BY Constants DEF TaskTypes, Tasks
<1>6. SocketTypes /\ UNCHANGED <<handler, up, shown, commands>> => SocketTypes'
    BY Constants DEF SocketTypes
<1>7. SendTypes /\ UNCHANGED <<connections, down, missed>> => SendTypes'
    BY Constants DEF SendTypes
<1>8. LinkTypes /\ UNCHANGED ws => LinkTypes'
    BY Constants DEF LinkTypes
<1> QED
  BY <1>1, <1>2, <1>3, <1>4, <1>5, <1>6, <1>7, <1>8

LEMMA PanelsAreFinite ==
    /\ Cardinality(Endpoints) \in Nat /\ Cardinality(Entities) \in Nat
    /\ \A q \in Seq(Endpoints) : IsInjective(q) => Len(q) <= Cardinality(Endpoints)
    /\ \A q \in Seq(Entities) : IsInjective(q) => Len(q) <= Cardinality(Entities)
<1>1. \A S : IsFiniteSet(S) =>
        Cardinality(S) \in Nat
        /\ \A q \in Seq(S) : IsInjective(q) => Len(q) <= Cardinality(S)
  <2> SUFFICES ASSUME NEW S, IsFiniteSet(S), NEW q \in Seq(S), IsInjective(q)
               PROVE  Len(q) <= Cardinality(S)
      BY FS_CardinalityType
  <2>1. Len(q) \in Nat /\ q \in [1 .. Len(q) -> S] /\ DOMAIN q = 1 .. Len(q)
      BY LenProperties
  <2>2. q \in Injection(1 .. Len(q), S)
      BY <2>1 DEF Injection, IsInjective
  <2>3. Cardinality(1 .. Len(q)) <= Cardinality(S)
      BY <2>2, FS_Injection
  <2>4. Cardinality(1 .. Len(q)) = Len(q)
      BY <2>1, FS_Interval
  <2> QED
    BY <2>3, <2>4
<1> QED
  BY <1>1, PanelsAssumption

LEMMA TypedInit == Init => TypeOK
<1> SUFFICES ASSUME Init PROVE TypeOK
    OBVIOUS
<1>1. Len(<<>>) = 0 /\ \A S : <<>> \in Seq(S)
    OBVIOUS
<1>2. scenario \in ScenarioType /\ Low \in Levels
    BY PanelsAssumption DEF Init, Levels
<1>3. NoDashboard \in Dashboards
    BY <1>1 DEF NoDashboard, Dashboards
<1>4. PairingTypes
    BY <1>2 DEF Init, PairingTypes, ScenarioType
<1>5. ChoiceTypes
    BY PanelsAreFinite DEF Init, ChoiceTypes
<1>6. MemoryTypes
    BY <1>1 DEF Init, MemoryTypes, IsInjective
<1>7. LevelTypes
    BY <1>2 DEF Init, LevelTypes
<1>8. TaskTypes
    BY <1>2 DEF Init, TaskTypes, Tasks
<1>9. SocketTypes
    BY <1>1, <1>3 DEF Init, SocketTypes
<1>10. SendTypes /\ LinkTypes
    BY <1>1 DEF Init, SendTypes, LinkTypes, ConnectionInit, LinkStates
<1> QED
  BY <1>4, <1>5, <1>6, <1>7, <1>8, <1>9, <1>10, Parts

LEMMA LeastExists ==
    ASSUME NEW S \in SUBSET Nat, S # {}
    PROVE  Min(S) \in S /\ \A k \in S : Min(S) <= k
<1>1. PICK x \in S : \A y \in S : ~ (<<y, x>> \in OpToRel(<, Nat))
    BY WFMin, NatLessThanWellFounded, Zenon
<1>2. \A y \in S : x <= y
  <2> SUFFICES ASSUME NEW y \in S, ~ (x <= y) PROVE FALSE
      OBVIOUS
  <2>1. x \in Nat /\ y \in Nat /\ y < x
      OBVIOUS
  <2>2. <<y, x>> \in {p \in Nat \X Nat : p[1] < p[2]}
      BY <2>1
  <2> QED
    BY <1>1, <2>1, <2>2, Zenon DEF OpToRel
<1> QED
  BY <1>2 DEF Min

\* A message joins a queue, or leaves it.
LEMMA QueueTypes ==
    ASSUME NEW S, NEW q \in [Sockets -> Seq(S)], NEW s \in Sockets
    PROVE  /\ \A m \in S : [q EXCEPT ![s] = Append(@, m)] \in [Sockets -> Seq(S)]
           /\ [q EXCEPT ![s] = <<>>] \in [Sockets -> Seq(S)]
           /\ q[s] # <<>> => /\ [q EXCEPT ![s] = Tail(@)] \in [Sockets -> Seq(S)]
                             /\ Head(q[s]) \in S
<1>1. q[s] \in Seq(S) /\ <<>> \in Seq(S)
    OBVIOUS
<1>2. q[s] # <<>> => Tail(q[s]) \in Seq(S) /\ Head(q[s]) \in S
    BY <1>1, HeadTailProperties
<1>3. \A m \in S : Append(q[s], m) \in Seq(S)
    BY <1>1, AppendProperties
<1> QED
  BY <1>1, <1>2, <1>3

LEMMA Owners == \A s \in Sockets : Owner(s) \in Endpoints
BY DEF Sockets, Owner

LEMMA SnapshotTyped ==
    ASSUME NEW e \in Endpoints
    PROVE  /\ MemoryTypes /\ ChoiceTypes /\ LevelTypes => Snapshot(e) \in Dashboards
           /\ MemoryTypes' /\ ChoiceTypes' /\ LevelTypes' => Snapshot(e)' \in Dashboards
<1>1. \A r \in [Entities -> 0 .. Cardinality(Entities)] : r \in [Entities -> Nat]
    BY PanelsAreFinite
<1>2. ASSUME MemoryTypes, ChoiceTypes, LevelTypes
      PROVE  Snapshot(e) \in Dashboards
  <2>1. /\ area[e] \in Areas \cup {NoArea} /\ hidden[e] \in SUBSET Entities
        /\ pinned[e] \in SUBSET Entities /\ rank[e] \in [Entities -> Nat]
        /\ level \in [Entities -> Levels]
      BY <1>1, <1>2 DEF MemoryTypes, ChoiceTypes, LevelTypes
  <2> QED
    BY <2>1, SnapshotIsPicture, PictureTyped
<1>3. ASSUME MemoryTypes', ChoiceTypes', LevelTypes'
      PROVE  Snapshot(e)' \in Dashboards
  <2>1. /\ area'[e] \in Areas \cup {NoArea} /\ hidden'[e] \in SUBSET Entities
        /\ pinned'[e] \in SUBSET Entities /\ rank'[e] \in [Entities -> Nat]
        /\ level' \in [Entities -> Levels]
      BY <1>1, <1>3, Constants DEF MemoryTypes, ChoiceTypes, LevelTypes
  <2> QED
    BY <2>1, SnapshotIsPicture, PictureTyped
<1> QED
  BY <1>2, <1>3

LEMMA SendTyped ==
    ASSUME NEW e \in Endpoints, SendTypes, LinkTypes, MemoryTypes', ChoiceTypes', LevelTypes',
           SendDashboard(e)
    PROVE  SendTypes'
<1>1. Snapshot(e)' \in Dashboards
    BY SnapshotTyped
<1>2. CASE e \in Range(known) /\ online[e] /\ Reachable(e)
  <2> DEFINE s == connections[e]
  <2>1. s \in Sockets
      BY <1>2 DEF SendTypes, Reachable
  <2>2. /\ Returned(s) /\ missed' = missed \ {e}
        /\ down' = IF ws[s] = "open" THEN [down EXCEPT ![s] = Append(@, Snapshot(e)')]
                   ELSE down
      BY <1>2 DEF SendDashboard
  <2>3. connections' \in [Endpoints -> Sockets \cup {NoSocket}]
      BY <2>1, <2>2, Owners DEF SendTypes, Returned, Delivered, Raised, Disconnect, Without
  <2>4. down' \in [Sockets -> Seq(Dashboards)]
      BY <1>1, <2>1, <2>2, QueueTypes DEF SendTypes
  <2> QED
    BY <2>2, <2>3, <2>4, Constants DEF SendTypes
<1>3. CASE ~ (e \in Range(known) /\ online[e] /\ Reachable(e))
    BY <1>3, Constants DEF SendDashboard, SendTypes
<1> QED
  BY <1>2, <1>3

\* A registration as the table of assignments has it when the step is over.
Joins(s) ==
    LET e == Owner(s) IN
    /\ known' = IF e \in Range(known) THEN known ELSE Append(known, e)
    /\ online' = [online EXCEPT ![e] = TRUE]
    /\ area' = [area EXCEPT ![e] = assignments'[e]]
    /\ handler' = [handler EXCEPT ![s] = "serving"]
    /\ down' = IF ws[s] = "open" THEN [down EXCEPT ![s] = Append(@, Snapshot(e)')]
               ELSE down
    /\ missed' = IF connections'[e] = s THEN missed \ {e} ELSE missed

LEMMA KnownJoined ==
    ASSUME NEW q \in Seq(Endpoints), IsInjective(q), NEW e \in Endpoints, e \notin Range(q)
    PROVE  /\ Append(q, e) \in Seq(Endpoints) /\ IsInjective(Append(q, e))
           /\ Len(Append(q, e)) = Len(q) + 1 /\ Len(q) \in Nat
           /\ Range(Append(q, e)) = Range(q) \cup {e}
<1>1. /\ Len(q) \in Nat /\ DOMAIN q = 1 .. Len(q)
      /\ Append(q, e) \in Seq(Endpoints) /\ Len(Append(q, e)) = Len(q) + 1
      /\ DOMAIN Append(q, e) = 1 .. Len(q) + 1
      /\ Append(q, e)[Len(q) + 1] = e
      /\ \A i \in 1 .. Len(q) : Append(q, e)[i] = q[i]
    BY AppendProperties, LenProperties
<1>2. \A i \in 1 .. Len(q) : q[i] # e
    BY <1>1 DEF Range
<1>3. IsInjective(Append(q, e))
    BY <1>1, <1>2 DEF IsInjective
<1>4. Range(Append(q, e)) = Range(q) \cup {e}
  <2>1. \A i \in 1 .. Len(q) + 1 : i = Len(q) + 1 \/ i \in 1 .. Len(q)
      BY <1>1
  <2>2. Len(q) + 1 \in 1 .. Len(q) + 1 /\ \A i \in 1 .. Len(q) : i \in 1 .. Len(q) + 1
      BY <1>1
  <2> QED
    BY <1>1, <2>1, <2>2 DEF Range
<1> QED
  BY <1>1, <1>3, <1>4

LEMMA JoinTyped ==
    ASSUME NEW s \in Sockets, Joins(s), MemoryTypes, SocketTypes, SendTypes, ChoiceTypes',
           LevelTypes', PairingTypes', UNCHANGED <<up, shown, commands>>,
           connections' \in [Endpoints -> Sockets \cup {NoSocket}]
    PROVE  MemoryTypes' /\ SocketTypes' /\ SendTypes'
<1> DEFINE e == Owner(s)
<1>1. e \in Endpoints
    BY Owners
<1>2. MemoryTypes'
  <2>1. known' \in Seq(Endpoints) /\ IsInjective(known')
    <3>1. CASE e \in Range(known)
        BY <3>1 DEF Joins, MemoryTypes
    <3>2. CASE e \notin Range(known)
        BY <1>1, <3>2, KnownJoined DEF Joins, MemoryTypes
    <3> QED
      BY <3>1, <3>2
  <2>2. IsInjective(known)'
      BY <2>1 DEF IsInjective
  <2>3. online' \in [Endpoints -> BOOLEAN]
      BY DEF Joins, MemoryTypes
  <2>4. area' \in [Endpoints -> Areas \cup {NoArea}]
      BY <1>1 DEF Joins, MemoryTypes, PairingTypes
  <2> QED
    BY <2>1, <2>2, <2>3, <2>4 DEF MemoryTypes
<1>3. SocketTypes'
    BY Constants DEF Joins, SocketTypes
<1>4. Snapshot(e)' \in Dashboards
    BY <1>1, <1>2, SnapshotTyped
<1>5. down' \in [Sockets -> Seq(Dashboards)]
    BY <1>4, QueueTypes DEF Joins, SendTypes
<1>6. missed' \subseteq Endpoints
    BY DEF Joins, SendTypes
<1> QED
  BY <1>2, <1>3, <1>5, <1>6, Constants DEF SendTypes

\* What is left of a scenario is a scenario, with the same codes and updates.
LEMMA ScenarioSpent ==
    ASSUME scenario \in ScenarioType, NEW n \in Nat,
           \/ scenario' = [scenario EXCEPT !.changes = n]
           \/ scenario' = [scenario EXCEPT !.presses = n]
           \/ scenario' = [scenario EXCEPT !.restarts = n]
    PROVE  /\ scenario' \in ScenarioType
           /\ scenario'.token = scenario.token /\ scenario'.updates = scenario.updates
BY DEF ScenarioType

LEMMA TypedCodes ==
    ASSUME TypeOK, NEW c \in Codes, CreateCode(c) \/ ExpireCode(c)
    PROVE  TypeOK'
<1>1. PairingTypes'
    BY Parts, Constants DEF CreateCode, ExpireCode, PairingTypes
<1>2. UNCHANGED <<choices, memory, level, fanout, scenario, task, handler, links, commands,
                  missed>>
    BY DEF CreateCode, ExpireCode
<1> QED
  BY <1>1, <1>2, Parts, PartsKept DEF links

LEMMA TypedLevel ==
    ASSUME TypeOK, NEW x \in Entities, NEW v \in Levels, ChangeLevel(x, v)
    PROVE  TypeOK'
<1>1. LevelTypes'
  <2>1. Len(known) \in 0 .. Cardinality(Endpoints)
      BY Parts, PanelsAreFinite, LenProperties DEF MemoryTypes
  <2>2. [entity |-> x, at |-> 1, size |-> Len(known)] \in Loops
      BY <2>1, PanelsAreFinite DEF Loops
  <2> QED
    BY <2>2, Parts, Constants DEF ChangeLevel, LevelTypes
<1>2. TaskTypes'
  <2>1. /\ scenario \in ScenarioType /\ scenario.changes \in Nat /\ scenario.changes > 0
        /\ scenario' = [scenario EXCEPT !.changes = scenario.changes - 1] /\ task' = task
      BY Parts DEF ChangeLevel, TaskTypes, ScenarioType
  <2>2. scenario' \in ScenarioType /\ scenario'.updates = scenario.updates
    <3>1. PICK n \in Nat : n = scenario.changes - 1
        BY <2>1
    <3> QED
      BY <2>1, <3>1, ScenarioSpent
  <2> QED
    BY <2>1, <2>2, Parts, Constants DEF TaskTypes, Tasks
<1>3. UNCHANGED <<tables, memory, handler, links, admitted, refused, commands, missed>>
    BY DEF ChangeLevel
<1> QED
  BY <1>1, <1>2, <1>3, Parts, PartsKept DEF links, tables

\* The panels of the loop that are still to be sent the level.
There == {i \in fanout.at .. Len(known) :
            online[known[i]] /\ area[known[i]] = AreaOf[fanout.entity]}

LEMMA NextPanelSteps ==
    ASSUME TypeOK, NextPanel
    PROVE  /\ fanout \in Loops /\ Len(known) \in Nat
           /\ \/ /\ Len(known) # fanout.size
                 /\ fanout' = Idle /\ missed' = missed \cup Range(known)
                 /\ UNCHANGED <<connections, down>>
              \/ /\ Len(known) = fanout.size /\ There = {}
                 /\ fanout' = Idle
                 /\ UNCHANGED <<connections, down, missed>>
              \/ /\ Len(known) = fanout.size
                 /\ \E i \in There :
                      /\ \A j \in There : i <= j
                      /\ i \in 1 .. Len(known) /\ known[i] \in Endpoints
                      /\ fanout' = [fanout EXCEPT !.at = i + 1]
                      /\ SendDashboard(known[i])
           /\ UNCHANGED <<scenario, tables, memory, level, task, handler, ws, up, shown,
                          admitted, refused, commands>>
<1>1. fanout \in Loops /\ Len(known) \in Nat /\ known \in Seq(Endpoints)
    BY Parts, LenProperties DEF NextPanel, LevelTypes, MemoryTypes
<1>2. There \in SUBSET Nat /\ There \subseteq 1 .. Len(known)
    BY <1>1 DEF There, Loops
<1>3. \/ /\ Len(known) # fanout.size
         /\ fanout' = Idle /\ missed' = missed \cup Range(known)
         /\ UNCHANGED <<connections, down>>
      \/ /\ Len(known) = fanout.size /\ There = {}
         /\ fanout' = Idle
         /\ UNCHANGED <<connections, down, missed>>
      \/ /\ Len(known) = fanout.size /\ There # {}
         /\ fanout' = [fanout EXCEPT !.at = Min(There) + 1]
         /\ \E e \in Endpoints : e = known[Min(There)] /\ SendDashboard(e)
    BY DEF NextPanel, There
<1>4. There # {} => Min(There) \in There /\ \A j \in There : Min(There) <= j
    BY <1>2, LeastExists
<1>5. UNCHANGED <<scenario, tables, memory, level, task, handler, ws, up, shown,
                  admitted, refused, commands>>
    BY DEF NextPanel
<1>6. ASSUME Len(known) = fanout.size, There # {},
             fanout' = [fanout EXCEPT !.at = Min(There) + 1],
             \E e \in Endpoints : e = known[Min(There)] /\ SendDashboard(e)
      PROVE  \E i \in There :
               /\ \A j \in There : i <= j
               /\ i \in 1 .. Len(known) /\ known[i] \in Endpoints
               /\ fanout' = [fanout EXCEPT !.at = i + 1]
               /\ SendDashboard(known[i])
  <2>1. PICK i \in There : i = Min(There)
      BY <1>4, <1>6
  <2>2. PICK e \in Endpoints : e = known[i] /\ SendDashboard(e)
      BY <1>6, <2>1
  <2>3. SendDashboard(known[i])
      BY <2>2
  <2> QED
    BY <1>2, <1>4, <1>6, <2>1, <2>2, <2>3
<1> QED
  BY <1>1, <1>3, <1>5, <1>6

LEMMA TypedLoop ==
    ASSUME TypeOK, NextPanel
    PROVE  TypeOK'
<1>1. UNCHANGED <<scenario, tables, memory, level, task, handler, ws, up, shown,
                  admitted, refused, commands>>
    BY DEF NextPanel
<1>2. MemoryTypes' /\ ChoiceTypes' /\ TaskTypes' /\ SocketTypes' /\ PairingTypes' /\ LinkTypes'
    BY <1>1, Parts, PartsKept DEF tables
<1>3. fanout \in Loops /\ Len(known) \in 0 .. Cardinality(Endpoints)
    BY NextPanelSteps, Parts, PanelsAreFinite DEF MemoryTypes
<1>4. LevelTypes'
  <2>1. fanout' = Idle \/ \E i \in 1 .. Len(known) : fanout' = [fanout EXCEPT !.at = i + 1]
      BY NextPanelSteps
  <2>2. \A i \in 1 .. Len(known) : i + 1 \in 1 .. Cardinality(Endpoints) + 1
      BY <1>3, PanelsAreFinite
  <2>3. fanout' = Idle \/ fanout' \in Loops
      BY <1>3, <2>1, <2>2 DEF Loops
  <2> QED
    BY <1>1, <2>3, Parts, Constants DEF LevelTypes
<1>5. SendTypes'
  <2>1. SendTypes /\ LinkTypes /\ Range(known) \subseteq Endpoints
    <3>1. known \in Seq(Endpoints)
        BY Parts DEF MemoryTypes
    <3>2. known \in [1 .. Len(known) -> Endpoints]
        BY <3>1, LenProperties
    <3> QED
      BY <3>2, Parts DEF Range
  <2>2. CASE missed' = missed \cup Range(known) /\ UNCHANGED <<connections, down>>
      BY <2>1, <2>2, Constants DEF SendTypes
  <2>3. CASE UNCHANGED <<connections, down, missed>>
      BY <2>1, <2>3, PartsKept
  <2>4. CASE \E e \in Endpoints : SendDashboard(e)
      BY <1>2, <1>4, <2>1, <2>4, SendTyped
  <2> QED
    BY <2>2, <2>3, <2>4, NextPanelSteps
<1> QED
  BY <1>2, <1>4, <1>5, Parts

LEMMA TypedLink ==
    ASSUME TypeOK, NEW s \in Sockets, Open(s) \/ Lose(s) \/ Notice(s)
    PROVE  TypeOK'
<1>1. LinkTypes'
    BY Parts, Constants
    DEF Open, Lose, Notice, OpenSocket, LoseSocket, NoticeLoss, LinkTypes, LinkStates
<1>2. down' \in [Sockets -> Seq(Dashboards)] /\ up' \in [Sockets -> Seq(Presented)]
  <2>1. down \in [Sockets -> Seq(Dashboards)] /\ up \in [Sockets -> Seq(Presented)]
      BY Parts DEF SendTypes, SocketTypes
  <2>2. \/ down' = down /\ up' = up
        \/ down' = [down EXCEPT ![s] = <<>>] /\ up' = [up EXCEPT ![s] = <<>>]
      BY DEF Open, Lose, Notice
  <2>3. /\ [down EXCEPT ![s] = <<>>] \in [Sockets -> Seq(Dashboards)]
        /\ [up EXCEPT ![s] = <<>>] \in [Sockets -> Seq(Presented)]
      BY <2>1, QueueTypes
  <2> QED
    BY <2>1, <2>2, <2>3
<1>3. UNCHANGED <<scenario, tables, memory, level, fanout, task, handler, connections, shown,
                  admitted, refused, commands, missed>>
    BY DEF Open, Lose, Notice
<1>4. SocketTypes' /\ SendTypes'
    BY <1>2, <1>3, Parts, Constants DEF SocketTypes, SendTypes
<1> QED
  BY <1>1, <1>3, <1>4, Parts, PartsKept DEF tables

LEMMA RegisterSteps ==
    ASSUME NEW s \in Sockets, Register(s)
    PROVE  /\ connections' = [connections EXCEPT ![Owner(s)] = s]
           /\ \/ /\ Reachable(Owner(s))
                 /\ handler' = [handler EXCEPT ![s] = "replacing"]
                 /\ UNCHANGED <<memory, down, missed>>
              \/ Joins(s)
           /\ UNCHANGED <<scenario, choices, level, fanout, task, ws, up, shown, refused,
                          commands>>
           /\ ws[s] = "open" /\ handler[s] = "unregistered"
<1>1. \/ /\ Reachable(Owner(s))
         /\ handler' = [handler EXCEPT ![s] = "replacing"]
         /\ UNCHANGED <<memory, down, missed>>
      \/ Joins(s)
    BY DEF Register, RegisterEndpoint, Joins
<1> QED
  BY <1>1 DEF Register, Connect

LEMMA PreviousClosedSteps ==
    ASSUME NEW s \in Sockets, PreviousClosed(s)
    PROVE  /\ handler[s] = "replacing" /\ Joins(s)
           /\ UNCHANGED <<scenario, tables, level, fanout, task, connections, ws, up,
                          shown, admitted, refused, commands>>
<1>1. assignments' = assignments
    BY DEF PreviousClosed, tables
<1> QED
  BY <1>1 DEF PreviousClosed, RegisterEndpoint, Joins

LEMMA TypedRegister ==
    ASSUME TypeOK, NEW s \in Sockets, Register(s) \/ Reject(s) \/ PreviousClosed(s)
    PROVE  TypeOK'
<1>1. CASE Register(s)
  <2>1. UNCHANGED <<scenario, choices, level, fanout, task, ws, up, shown, refused, commands>>
      BY <1>1 DEF Register
  <2>2. ChoiceTypes' /\ LevelTypes' /\ TaskTypes' /\ LinkTypes'
      BY <2>1, Parts, PartsKept
  <2>3. PairingTypes'
    <3> DEFINE e == Owner(s)
    <3>1. e \in Endpoints /\ scenario.token[e] \in Codes \cup {NoCode}
        BY Parts, Owners DEF TaskTypes, ScenarioType
    <3>2. Paired(e, scenario.token[e]) => /\ scenario.token[e] \in Codes
                                          /\ CodeArea[scenario.token[e]] \in Areas
        BY <3>1, PanelsAssumption DEF Paired
    <3> QED
      BY <1>1, <2>1, <3>1, <3>2, Parts, Constants DEF Register, PairingTypes
  <2>4. connections' \in [Endpoints -> Sockets \cup {NoSocket}]
      BY <1>1, RegisterSteps, Parts, Owners DEF SendTypes
  <2>5. CASE Joins(s)
      BY <2>1, <2>2, <2>3, <2>4, <2>5, JoinTyped, Parts
  <2>6. CASE handler' = [handler EXCEPT ![s] = "replacing"] /\ UNCHANGED <<memory, down, missed>>
    <3>1. SocketTypes' /\ SendTypes' /\ MemoryTypes'
        BY <2>1, <2>4, <2>6, Parts, PartsKept, Constants DEF SocketTypes, SendTypes
    <3> QED
      BY <2>2, <2>3, <3>1, Parts
  <2> QED
    BY <1>1, <2>5, <2>6, RegisterSteps
<1>2. CASE Reject(s)
  <2>1. PairingTypes'
      BY <1>2, Parts, Owners, Constants DEF Reject, PairingTypes, tables
  <2>2. UNCHANGED <<choices, memory, level, fanout, scenario, task, handler, links, commands,
                    missed>>
      BY <1>2 DEF Reject, tables
  <2> QED
    BY <2>1, <2>2, Parts, PartsKept DEF links
<1>3. CASE PreviousClosed(s)
  <2>1. Joins(s) /\ UNCHANGED <<scenario, tables, level, fanout, task, connections, ws, up,
                                shown, admitted, refused, commands>>
      BY <1>3, PreviousClosedSteps
  <2>2. ChoiceTypes' /\ LevelTypes' /\ TaskTypes' /\ LinkTypes' /\ PairingTypes'
      BY <2>1, Parts, PartsKept DEF tables
  <2>3. connections' \in [Endpoints -> Sockets \cup {NoSocket}]
      BY <2>1, Parts DEF SendTypes
  <2> QED
    BY <2>1, <2>2, <2>3, JoinTyped, Parts
<1> QED
  BY <1>1, <1>2, <1>3

LEMMA TypedLeave ==
    ASSUME TypeOK, NEW s \in Sockets, Leave(s) \/ MarkOffline(s)
    PROVE  TypeOK'
<1>1. CASE Leave(s)
  <2>1. connections' \in [Endpoints -> Sockets \cup {NoSocket}]
      BY <1>1, Parts, Owners DEF Leave, Disconnect, Without, SendTypes
  <2>2. SocketTypes' /\ SendTypes'
      BY <1>1, <2>1, Parts, Constants DEF Leave, SocketTypes, SendTypes
  <2>3. UNCHANGED <<scenario, tables, memory, level, fanout, task, ws, admitted, refused>>
      BY <1>1 DEF Leave
  <2> QED
    BY <2>2, <2>3, Parts, PartsKept DEF tables
<1>2. CASE MarkOffline(s)
  <2>1. /\ handler' = [handler EXCEPT ![s] = "done"]
        /\ online' = [online EXCEPT ![Owner(s)] = FALSE]
        /\ missed' \subseteq missed \cup {Owner(s)}
        /\ UNCHANGED <<scenario, tables, known, area, level, fanout, task, links,
                       admitted, refused, commands>>
      BY <1>2 DEF MarkOffline
  <2>2. SocketTypes' /\ SendTypes'
      BY <2>1, Parts, Owners, Constants DEF SocketTypes, SendTypes, links
  <2>3. MemoryTypes'
      BY <2>1, Parts DEF MemoryTypes, IsInjective
  <2> QED
    BY <2>1, <2>2, <2>3, Parts, PartsKept DEF tables, links
<1> QED
  BY <1>1, <1>2

LEMMA OneOfTwo ==
    ASSUME NEW m \in Int, NEW n \in Int
    PROVE  /\ Min({m, n}) \in {m, n} /\ Min({m, n}) <= m
           /\ Max({m, n}) \in {m, n} /\ Max({m, n}) >= m
<1>1. \E x \in {m, n} : \A y \in {m, n} : x =< y
    OBVIOUS
<1>2. \E x \in {m, n} : \A y \in {m, n} : x >= y
    OBVIOUS
<1> QED
  BY <1>1, <1>2 DEF Min, Max

\* A command has a name.
LEMMA CommandNamed ==
    ASSUME NEW x, NEW press
    PROVE  CommandFor(x, press) \in CommandNames
BY DEF CommandFor, CommandNames

\* Whatever the core knows of an entity when a control is pressed, the level
\* that is asked of it is within its limits.
LEMMA TargetInLimits ==
    ASSUME LevelTypes, NEW x \in Entities, NEW press
    PROVE  Target(x, press) \in Levels
<1>1. /\ Low \in Nat /\ High \in Nat /\ Low < High
      /\ level[x] \in Nat /\ Low <= level[x] /\ level[x] <= High
    BY PanelsAssumption DEF LevelTypes, Levels
<1>2. PICK up1 \in Int, down1 \in Int : up1 = level[x] + 1 /\ down1 = level[x] - 1
    BY <1>1
<1> DEFINE least == IF KindOf[x] = "light" THEN Low + 1 ELSE Low
           raised == Min({High, level[x] + 1})
           lowered == Max({least, level[x] - 1})
           next == IF level[x] = High THEN Low ELSE level[x] + 1
<1>4. least \in Levels /\ least \in Int
    BY <1>1 DEF Levels
<1>5. raised \in Levels
  <2>1. raised = Min({High, up1})
      BY <1>2
  <2>2. raised \in {High, up1} /\ raised <= High
      BY <1>1, <1>2, <2>1, OneOfTwo
  <2> HIDE DEF raised
  <2> QED
    BY <1>1, <1>2, <2>2 DEF Levels
<1>6. lowered \in Levels
  <2> HIDE DEF least
  <2>1. lowered = Max({least, down1})
      BY <1>2
  <2>2. lowered \in {least, down1} /\ lowered >= least
      BY <1>2, <1>4, <2>1, OneOfTwo
  <2> HIDE DEF lowered
  <2> QED
    BY <1>1, <1>2, <1>4, <2>2 DEF Levels
<1>7. next \in Levels /\ level[x] \in Levels
    BY <1>1 DEF Levels
<1>8. Target(x, press) \in {raised, lowered, next, level[x]}
    BY DEF Target
<1> HIDE DEF raised, lowered, next, least
<1> QED
  BY <1>5, <1>6, <1>7, <1>8

LEMMA TypedControls ==
    ASSUME TypeOK, NEW s \in Sockets,
           Deliver(s) \/ HandlePress(s)
             \/ \E item \in Items, p \in Presses : Press(s, item, p)
    PROVE  TypeOK'
<1>1. CASE Deliver(s)
  <2>1. down \in [Sockets -> Seq(Dashboards)] /\ down[s] # <<>>
      BY <1>1, Parts DEF Deliver, SendTypes
  <2>2. [down EXCEPT ![s] = Tail(@)] \in [Sockets -> Seq(Dashboards)]
        /\ Head(down[s]) \in Dashboards
      BY <2>1, QueueTypes
  <2>3. SendTypes' /\ SocketTypes'
      BY <1>1, <2>2, Parts, Owners, Constants DEF Deliver, SendTypes, SocketTypes
  <2>4. UNCHANGED <<scenario, tables, memory, level, fanout, task, ws, admitted, refused>>
      BY <1>1 DEF Deliver
  <2> QED
    BY <2>3, <2>4, Parts, PartsKept DEF tables
<1>2. CASE HandlePress(s)
  <2>1. up \in [Sockets -> Seq(Presented)] /\ up[s] # <<>>
      BY <1>2, Parts DEF HandlePress, SocketTypes
  <2>2. [up EXCEPT ![s] = Tail(@)] \in [Sockets -> Seq(Presented)]
        /\ Head(up[s]) \in Presented
      BY <2>1, QueueTypes
  <2> DEFINE x == Head(up[s]).entity
             press == Head(up[s]).press
             command == [entity |-> x, command |-> CommandFor(x, press),
                         level |-> Target(x, press)]
  <2>3. x \in Entities
      BY <2>2 DEF Presented
  <2>4. Target(x, press) \in Levels
      BY <2>3, Parts, TargetInLimits
  <2>5. CommandFor(x, press) \in CommandNames
      BY CommandNamed
  <2>6. command \in [entity : Entities, command : CommandNames, level : Levels]
      BY <2>3, <2>4, <2>5
  <2>7. commands' \subseteq commands \cup {command}
      BY <1>2 DEF HandlePress
  <2>8. SocketTypes'
    <3> HIDE DEF command
    <3> QED
      BY <1>2, <2>2, <2>6, <2>7, Parts, Constants DEF HandlePress, SocketTypes
  <2>9. UNCHANGED <<scenario, tables, memory, level, fanout, task, connections, ws, down,
                    admitted, refused, missed>>
      BY <1>2 DEF HandlePress
  <2> QED
    BY <2>8, <2>9, Parts, PartsKept DEF tables
<1>3. ASSUME NEW item \in Items, NEW p \in Presses, Press(s, item, p)
      PROVE  TypeOK'
  <2>3. PICK m \in Presented : m = [entity |-> item.entity, press |-> p]
      BY DEF Presented, Items
  <2>4. up' = [up EXCEPT ![s] = Append(@, m)]
      BY <1>3, <2>3 DEF Press
  <2>5. up' \in [Sockets -> Seq(Presented)]
      BY <2>4, Parts, QueueTypes DEF SocketTypes
  <2>6. SocketTypes'
      BY <1>3, <2>5, Parts, Constants DEF Press, SocketTypes
  <2>7. TaskTypes'
    <3>1. /\ scenario \in ScenarioType /\ scenario.presses \in Nat /\ scenario.presses > 0
          /\ scenario' = [scenario EXCEPT !.presses = scenario.presses - 1] /\ task' = task
        BY <1>3, Parts DEF Press, TaskTypes, ScenarioType
    <3>2. PICK n \in Nat : n = scenario.presses - 1
        BY <3>1
    <3>3. scenario' \in ScenarioType /\ scenario'.updates = scenario.updates
        BY <3>1, <3>2, ScenarioSpent
    <3> QED
      BY <3>1, <3>3, Parts, Constants DEF TaskTypes, Tasks
  <2>8. UNCHANGED <<tables, memory, level, fanout, connections, ws, down, admitted, refused,
                    missed>>
      BY <1>3 DEF Press
  <2> QED
    BY <2>6, <2>7, <2>8, Parts, PartsKept DEF tables
<1> QED
  BY <1>1, <1>2, <1>3

\* An update is for a panel there is, and says what it may.
LEMMA UpdateTyped ==
    ASSUME TypeOK, NEW u \in Tasks
    PROVE  scenario.updates[u] \in UpdateType
<1>1. scenario.updates \in Seq(UpdateType)
    BY Parts DEF TaskTypes, ScenarioType
<1> QED
  BY <1>1, ElementOfSeq DEF Tasks

LEMMA TypedAssign ==
    ASSUME TypeOK, NEW u \in Tasks, Assign(u) \/ SaveDisplay(u)
    PROVE  TypeOK'
<1> DEFINE update == scenario.updates[u]
           e == update.id
<1>1. e \in Endpoints /\ update.area \in Areas
    BY UpdateTyped DEF UpdateType
<1>2. CASE Assign(u)
  <2>1. UNCHANGED <<scenario, codes, credentials, choices, known, online, level,
                    fanout, handler, ws, up, shown, admitted, refused, commands>>
      BY <1>2 DEF Assign
  <2>2. \/ UNCHANGED <<assignments, area, connections, down, missed>>
        \/ /\ assignments' = [assignments EXCEPT ![e] = update.area]
           /\ area' = [area EXCEPT ![e] = update.area]
           /\ SendDashboard(e)
      BY <1>2 DEF Assign
  <2>3. TaskTypes'
      BY <1>2, <2>1, Parts, Constants DEF Assign, TaskTypes, Tasks
  <2>4. ChoiceTypes' /\ LevelTypes' /\ SocketTypes' /\ LinkTypes'
      BY <2>1, Parts, PartsKept
  <2>5. PairingTypes' /\ MemoryTypes'
      BY <1>1, <2>1, <2>2, Parts, Constants DEF PairingTypes, MemoryTypes, IsInjective
  <2>6. SendTypes'
      BY <1>1, <2>2, <2>4, <2>5, Parts, PartsKept, SendTyped
  <2> QED
    BY <2>3, <2>4, <2>5, <2>6, Parts
<1>3. CASE SaveDisplay(u)
  <2>1. UNCHANGED <<scenario, tables, memory, level, fanout, handler, ws, up, shown,
                    admitted, refused, commands>> /\ SendDashboard(e)
      BY <1>3 DEF SaveDisplay
  <2>2. TaskTypes'
      BY <1>3, <2>1, Parts, Constants DEF SaveDisplay, TaskTypes, Tasks
  <2>3. /\ ChoiceTypes' /\ LevelTypes' /\ SocketTypes' /\ LinkTypes' /\ PairingTypes'
        /\ MemoryTypes'
      BY <2>1, Parts, PartsKept DEF tables
  <2> QED
    BY <1>1, <2>1, <2>2, <2>3, Parts, SendTyped
<1> QED
  BY <1>2, <1>3

\* A list that names each entity at most once gives positions.
LEMMA PositionsTyped ==
    ASSUME NEW order \in Seq(Entities), IsInjective(order), NEW x \in Range(order)
    PROVE  (CHOOSE i \in DOMAIN order : order[i] = x) \in 0 .. Cardinality(Entities)
<1>1. /\ DOMAIN order = 1 .. Len(order) /\ Len(order) \in Nat
      /\ Len(order) <= Cardinality(Entities) /\ Cardinality(Entities) \in Nat
    BY LenProperties, PanelsAreFinite
<1>2. \E i \in DOMAIN order : order[i] = x
    BY DEF Range
<1>3. (CHOOSE i \in DOMAIN order : order[i] = x) \in DOMAIN order
    BY <1>2
<1> QED
  BY <1>1, <1>3

LEMMA TypedArrange ==
    ASSUME TypeOK, NEW u \in Tasks, ReplaceExclusions(u)
    PROVE  TypeOK'
<1> DEFINE update == scenario.updates[u]
           e == update.id
           eligible == Eligible(e)
           order == IF update.order = <<>> THEN Sorted(eligible, pinned[e], rank[e])
                    ELSE update.order
<1>1. /\ e \in Endpoints /\ update.order \in Seq(Entities)
      /\ eligible \in SUBSET Entities
    BY UpdateTyped DEF UpdateType, Eligible
<1>2. UNCHANGED <<scenario, codes, credentials, assignments, memory, level, fanout,
                  handler, ws, up, shown, admitted, refused, commands>>
    BY DEF ReplaceExclusions
<1>3. /\ PairingTypes' /\ MemoryTypes' /\ LevelTypes' /\ SocketTypes' /\ LinkTypes'
      /\ TaskTypes'
    BY <1>2, Parts, PartsKept, Constants DEF ReplaceExclusions, TaskTypes, Tasks
<1>4. \/ UNCHANGED <<choices, connections, down, missed>>
      \/ /\ update.hide \subseteq eligible /\ update.pin \subseteq eligible
         /\ Range(order) = eligible /\ IsInjective(order)
         /\ hidden' = [hidden EXCEPT ![e] = (@ \ eligible) \cup update.hide]
         /\ pinned' = [pinned EXCEPT ![e] = (@ \ eligible) \cup update.pin]
         /\ rank' = [rank EXCEPT ![e] = [x \in Entities |->
                       IF x \in eligible THEN CHOOSE i \in DOMAIN order : order[i] = x
                       ELSE @[x]]]
         /\ SendDashboard(e)
    BY DEF ReplaceExclusions
<1>5. CASE UNCHANGED <<choices, connections, down, missed>>
    BY <1>3, <1>5, Parts, PartsKept
<1>6. CASE /\ update.hide \subseteq eligible /\ update.pin \subseteq eligible
           /\ Range(order) = eligible /\ IsInjective(order)
           /\ hidden' = [hidden EXCEPT ![e] = (@ \ eligible) \cup update.hide]
           /\ pinned' = [pinned EXCEPT ![e] = (@ \ eligible) \cup update.pin]
           /\ rank' = [rank EXCEPT ![e] = [x \in Entities |->
                         IF x \in eligible THEN CHOOSE i \in DOMAIN order : order[i] = x
                         ELSE @[x]]]
           /\ SendDashboard(e)
  <2>1. rank[e] \in [Entities -> 0 .. Cardinality(Entities)] /\ rank[e] \in [Entities -> Nat]
      BY <1>1, Parts, PanelsAreFinite DEF ChoiceTypes
  <2>2. order \in Seq(Entities)
    <3>1. Sorted(eligible, pinned[e], rank[e]) \in Seq(eligible)
        BY <1>1, <2>1, SortedLists
    <3> HIDE DEF eligible
    <3>2. Seq(eligible) \subseteq Seq(Entities)
        BY <1>1
    <3> QED
      BY <1>1, <3>1, <3>2
  <2> HIDE DEF order
  <2>3. \A x \in eligible :
          (CHOOSE i \in DOMAIN order : order[i] = x) \in 0 .. Cardinality(Entities)
      BY <1>6, <2>2, PositionsTyped
  <2> HIDE DEF eligible
  <2> DEFINE ranks == [x \in Entities |->
                         IF x \in eligible THEN CHOOSE i \in DOMAIN order : order[i] = x
                         ELSE rank[e][x]]
  <2>4. ranks \in [Entities -> 0 .. Cardinality(Entities)]
      BY <2>1, <2>3
  <2>5. rank' = [rank EXCEPT ![e] = ranks]
      BY <1>6
  <2> HIDE DEF ranks
  <2>6. ChoiceTypes'
    <3>1. rank' \in [Endpoints -> [Entities -> 0 .. Cardinality(Entities)]]
        BY <2>4, <2>5, Parts DEF ChoiceTypes
    <3>2. hidden' \in [Endpoints -> SUBSET Entities] /\ pinned' \in [Endpoints -> SUBSET Entities]
        BY <1>1, <1>6, Parts DEF ChoiceTypes
    <3> QED
      BY <3>1, <3>2 DEF ChoiceTypes
  <2>7. SendTypes'
      BY <1>1, <1>3, <1>6, <2>6, Parts, SendTyped
  <2> QED
    BY <1>3, <2>6, <2>7, Parts
<1> QED
  BY <1>4, <1>5, <1>6

LEMMA TypedRestart ==
    ASSUME TypeOK, Restart
    PROVE  TypeOK'
<1>1. Len(<<>>) = 0 /\ \A S : <<>> \in Seq(S)
    OBVIOUS
<1>2. UNCHANGED <<tables, level, shown, admitted, refused, commands>>
    BY DEF Restart
<1>3. MemoryTypes'
    BY <1>1 DEF Restart, MemoryTypes, IsInjective
<1>4. LevelTypes'
    BY <1>2, Parts, Constants DEF Restart, LevelTypes
<1>5. SocketTypes' /\ SendTypes' /\ LinkTypes'
    BY <1>1, <1>2, Parts, Constants DEF Restart, SocketTypes, SendTypes, LinkTypes, LinkStates
<1>6. TaskTypes'
  <2>1. /\ scenario \in ScenarioType /\ scenario.restarts \in Nat /\ scenario.restarts > 0
        /\ scenario' = [scenario EXCEPT !.restarts = scenario.restarts - 1]
      BY Parts DEF Restart, TaskTypes, ScenarioType
  <2>2. PICK n \in Nat : n = scenario.restarts - 1
      BY <2>1
  <2>3. scenario' \in ScenarioType /\ scenario'.updates = scenario.updates
      BY <2>1, <2>2, ScenarioSpent
  <2> QED
    BY <2>3, Parts, Constants DEF Restart, TaskTypes, Tasks
<1> QED
  BY <1>2, <1>3, <1>4, <1>5, <1>6, Parts, PartsKept DEF tables

LEMMA TypedStep == TypeOK /\ [Next]_vars => TypeOK'
<1> SUFFICES ASSUME TypeOK, [Next]_vars PROVE TypeOK'
    OBVIOUS
<1>1. CASE UNCHANGED vars
  <2>1. UNCHANGED <<scenario, tables, memory, level, fanout, task, handler, links, admitted,
                    refused, commands, missed>>
      BY <1>1 DEF vars
  <2> QED
    BY <2>1, Parts, PartsKept DEF tables, links
<1>2. CASE \E s \in Sockets : Socket(s)
    BY <1>2, TypedLink, TypedRegister, TypedLeave, TypedControls DEF Socket
<1>3. CASE \E u \in Tasks : Management(u)
    BY <1>3, TypedAssign, TypedArrange DEF Management
<1> QED
  BY <1>1, <1>2, <1>3, TypedCodes, TypedLevel, TypedLoop, TypedRestart DEF Next

\* Tables, registry and messages keep their types, and no published command
\* asks for a level outside the entity's limits (dashboard_handler.py),
\* whatever was moved, arranged, lost or restarted.
THEOREM PanelTypes == Spec => []TypeOK
BY TypedInit, TypedStep, PTL DEF Spec

-----------------------------------------------------------------------------
(* A panel that was accepted comes back                                    *)

\* Who has credentials had them from the code he is provisioned with, which
\* nobody uses again, and who was accepted with a code has them.
Credited ==
    \A e \in Endpoints : credentials[e] # NoCode =>
      credentials[e] = scenario.token[e] /\ codes[credentials[e]] = "past"

AdmittedHasCode == \A e \in admitted : credentials[e] # NoCode

Accepted == TypeOK /\ Credited /\ AdmittedHasCode /\ AcceptedComesBack

LEMMA PairingSteps ==
    ASSUME TypeOK, [Next]_vars
    PROVE  /\ scenario'.token = scenario.token
           /\ \/ UNCHANGED pairing
              \/ UNCHANGED <<credentials, admitted, refused>>
                 /\ \E c \in Codes : CreateCode(c) \/ ExpireCode(c)
              \/ \E s \in Sockets : Register(s) \/ Reject(s)
<1>1. scenario'.token = scenario.token
  <2>1. /\ scenario \in ScenarioType /\ scenario.changes \in Nat /\ scenario.presses \in Nat
        /\ scenario.restarts \in Nat
      BY Parts DEF TaskTypes, ScenarioType
  <2>2. \/ scenario' = scenario
        \/ /\ scenario.changes > 0
           /\ scenario' = [scenario EXCEPT !.changes = scenario.changes - 1]
        \/ /\ scenario.presses > 0
           /\ scenario' = [scenario EXCEPT !.presses = scenario.presses - 1]
        \/ /\ scenario.restarts > 0
           /\ scenario' = [scenario EXCEPT !.restarts = scenario.restarts - 1]
    <3>1. CASE UNCHANGED vars
        BY <3>1 DEF vars
    <3>2. CASE \E c \in Codes : CreateCode(c) \/ ExpireCode(c)
        BY <3>2 DEF CreateCode, ExpireCode
    <3>3. CASE \E x \in Entities, v \in Levels : ChangeLevel(x, v)
        BY <2>1, <3>3 DEF ChangeLevel
    <3>4. CASE NextPanel
        BY <3>4 DEF NextPanel
    <3>5. CASE \E s \in Sockets : Socket(s)
      <4>1. PICK s \in Sockets : Socket(s)
          BY <3>5
      <4>2. CASE \E item \in Items, p \in Presses : Press(s, item, p)
          BY <2>1, <4>2 DEF Press
      <4>3. CASE Open(s) \/ Lose(s) \/ Notice(s) \/ Register(s) \/ Reject(s)
                   \/ PreviousClosed(s) \/ Leave(s) \/ MarkOffline(s) \/ Deliver(s)
                   \/ HandlePress(s)
          BY <4>3 DEF Open, Lose, Notice, Register, Reject, PreviousClosed, Leave,
                      MarkOffline, Deliver, HandlePress
      <4> QED
        BY <4>1, <4>2, <4>3, Zenon DEF Socket
    <3>6. CASE \E u \in Tasks : Management(u)
        BY <3>6 DEF Management, Assign, ReplaceExclusions, SaveDisplay
    <3>7. CASE Restart
        BY <2>1, <3>7 DEF Restart
    <3> QED
      BY <3>1, <3>2, <3>3, <3>4, <3>5, <3>6, <3>7, Zenon DEF Next
  <2>3. \E n \in Nat : \/ scenario' = scenario
                       \/ scenario' = [scenario EXCEPT !.changes = n]
                       \/ scenario' = [scenario EXCEPT !.presses = n]
                       \/ scenario' = [scenario EXCEPT !.restarts = n]
      BY <2>1, <2>2
  <2> QED
    BY <2>1, <2>3, ScenarioSpent
<1>2. CASE UNCHANGED vars
    BY <1>1, <1>2 DEF vars, tables, pairing
<1>3. CASE \E c \in Codes : CreateCode(c) \/ ExpireCode(c)
    BY <1>1, <1>3 DEF CreateCode, ExpireCode
<1>4. CASE \E x \in Entities, v \in Levels : ChangeLevel(x, v)
    BY <1>1, <1>4 DEF ChangeLevel, tables, pairing
<1>5. CASE NextPanel
    BY <1>1, <1>5 DEF NextPanel, tables, pairing
<1>6. CASE \E s \in Sockets : Socket(s)
  <2>1. PICK s \in Sockets : Socket(s)
      BY <1>6
  <2>2. CASE \E item \in Items, p \in Presses : Press(s, item, p)
      BY <1>1, <2>2 DEF Press, tables, pairing
  <2>3. CASE Open(s) \/ Lose(s) \/ Notice(s) \/ PreviousClosed(s) \/ Leave(s)
               \/ MarkOffline(s) \/ Deliver(s) \/ HandlePress(s)
      BY <1>1, <2>3 DEF Open, Lose, Notice, PreviousClosed, Leave, MarkOffline, Deliver,
                        HandlePress, tables, pairing
  <2> QED
    BY <1>1, <2>1, <2>2, <2>3, Zenon DEF Socket
<1>7. CASE \E u \in Tasks : Management(u)
    BY <1>1, <1>7 DEF Management, Assign, ReplaceExclusions, SaveDisplay, tables, pairing
<1>8. CASE Restart
    BY <1>1, <1>8 DEF Restart, tables, pairing
<1> QED
  BY <1>2, <1>3, <1>4, <1>5, <1>6, <1>7, <1>8, Zenon DEF Next

LEMMA AcceptedStep == Accepted /\ [Next]_vars => Accepted'
<1> SUFFICES ASSUME Accepted, [Next]_vars PROVE Accepted'
    OBVIOUS
<1> USE DEF Credited, AdmittedHasCode, AcceptedComesBack
<1>1. TypeOK /\ TypeOK' /\ PairingTypes /\ TaskTypes
    BY TypedStep, Parts DEF Accepted
<1>2. /\ Credited /\ AdmittedHasCode /\ AcceptedComesBack
      /\ scenario'.token = scenario.token
    BY <1>1, PairingSteps DEF Accepted
<1>3. SUFFICES Credited' /\ AdmittedHasCode' /\ AcceptedComesBack'
    BY <1>1 DEF Accepted
<1>4. CASE UNCHANGED pairing
    BY <1>2, <1>4 DEF pairing
<1>5. CASE /\ UNCHANGED <<credentials, admitted, refused>>
           /\ \E c \in Codes : CreateCode(c) \/ ExpireCode(c)
  <2>1. PICK c \in Codes : CreateCode(c) \/ ExpireCode(c)
      BY <1>5
  <2>2. \A d \in Codes : codes[d] = "past" => codes'[d] = "past"
      BY <1>1, <2>1 DEF CreateCode, ExpireCode, PairingTypes
  <2> QED
    BY <1>1, <1>2, <1>5, <2>2 DEF PairingTypes
<1>6. ASSUME NEW s \in Sockets, Register(s)
      PROVE  Credited' /\ AdmittedHasCode' /\ AcceptedComesBack'
  <2> DEFINE e == Owner(s)
             token == scenario.token[e]
  <2>1. e \in Endpoints
      BY Owners
  <2>2. /\ credentials' = IF Paired(e, token) THEN [credentials EXCEPT ![e] = token]
                          ELSE credentials
        /\ codes' = IF Paired(e, token) THEN [codes EXCEPT ![token] = "past"] ELSE codes
        /\ admitted' = IF credentials'[e] = NoCode THEN admitted ELSE admitted \cup {e}
        /\ refused' = refused
      BY <1>6 DEF Register
  <2>3. CASE Paired(e, token)
    <3>1. /\ token \in Codes /\ token # NoCode /\ codes[token] = "valid"
          /\ credentials[e] = NoCode
        BY <1>1, <2>1, <2>3 DEF Paired, TaskTypes, ScenarioType
    <3>2. \A d \in Endpoints : credentials[d] # token
        BY <1>2, <3>1
    <3>3. /\ credentials'[e] = token /\ codes'[token] = "past"
          /\ \A d \in Endpoints : d # e => credentials'[d] = credentials[d]
          /\ \A c \in Codes : c # token => codes'[c] = codes[c]
        BY <1>1, <2>1, <2>2, <2>3, <3>1 DEF PairingTypes
    <3>4. Credited'
        BY <1>1, <1>2, <3>2, <3>3 DEF PairingTypes
    <3>5. AdmittedHasCode'
        BY <1>1, <1>2, <2>2, <3>1, <3>3 DEF PairingTypes
    <3>6. AcceptedComesBack'
        BY <1>2, <2>2, <3>2, <3>3
    <3> QED
      BY <3>4, <3>5, <3>6
  <2>4. CASE ~ Paired(e, token)
      BY <1>2, <2>2, <2>4
  <2> QED
    BY <2>3, <2>4
<1>7. ASSUME NEW s \in Sockets, Reject(s)
      PROVE  Credited' /\ AdmittedHasCode' /\ AcceptedComesBack'
  <2>1. Owner(s) \in Endpoints /\ ~ Authenticated(Owner(s), scenario.token[Owner(s)])
      BY <1>7, Owners DEF Reject
  <2>2. Owner(s) \notin admitted
      BY <1>2, <2>1 DEF Authenticated
  <2>3. UNCHANGED <<codes, credentials, admitted, refused>>
      BY <1>7, <2>2 DEF Reject, tables
  <2> QED
    BY <1>2, <2>3
<1> QED
  BY <1>1, <1>4, <1>5, <1>6, <1>7, PairingSteps

\* A panel that was accepted with its code, and keeps it, is accepted whenever
\* it comes back, and a code admits one panel: authenticate compares the token
\* with the credentials before it looks for a code, and a code is used up when
\* it makes credentials (endpoint_pairing_service.py).
THEOREM AcceptedForGood == Spec => []AcceptedComesBack
<1>1. Init => Accepted
  <2>1. Init => TypeOK
      BY TypedInit
  <2> QED
    BY <2>1 DEF Init, Accepted, Credited, AdmittedHasCode, AcceptedComesBack
<1>2. Accepted => AcceptedComesBack
    BY DEF Accepted
<1> QED
  BY <1>1, <1>2, AcceptedStep, PTL DEF Spec

-----------------------------------------------------------------------------
(* What a panel shows is current                                           *)

\* A panel opens its sockets in their order, and gives each up before the next.
Ordered ==
    \A s, t \in Sockets :
      Owner(s) = Owner(t) /\ s[2] < t[2] /\ ws[t] # "unopened" => ws[s] \in {"lost", "dead"}

Unused == \A s \in Sockets : ws[s] = "unopened" => handler[s] = "unregistered"

\* The dictionary only grows while a loop runs over it.
\* The table has an endpoint's own sockets.
Own == \A e \in Endpoints : Reachable(e) => Owner(connections[e]) = e

Grown == fanout # Idle => fanout.size <= Len(known)

\* The panel that speaks on s is there.
Here(s) == ws[s] = "open" /\ IsCurrent(s) /\ handler[s] = "serving"

\* The latest dashboard it was sent.
Latest(s) == IF down[s] = <<>> THEN shown[Owner(s)] ELSE down[s][Len(down[s])]

\* The loop of a level comes to panel e, or breaks off.
Awaited(e) ==
    /\ fanout # Idle
    /\ \/ Len(known) # fanout.size
       \/ \E i \in fanout.at .. Len(known) :
            known[i] = e /\ area[e] = AreaOf[fanout.entity]

Informed(s) ==
    LET e == Owner(s) IN
    /\ e \in Range(known)
    /\ area[e] = assignments[e]
    /\ e \notin missed => online[e] /\ (Latest(s) = Snapshot(e) \/ Awaited(e))

Current == Own /\ Grown /\ \A s \in Sockets : Here(s) => Informed(s)

Shown == TypeOK /\ Ordered /\ Unused /\ Current

LEMMA SocketsOfOne ==
    \A s, t \in Sockets : s # t /\ Owner(s) = Owner(t) => s[2] < t[2] \/ t[2] < s[2]
<1> SUFFICES ASSUME NEW s \in Sockets, NEW t \in Sockets, s # t, Owner(s) = Owner(t)
             PROVE  s[2] < t[2] \/ t[2] < s[2]
    OBVIOUS
<1>1. s = <<s[1], s[2]>> /\ t = <<t[1], t[2]>> /\ s[2] \in Nat /\ t[2] \in Nat
    BY MaxReconnectsAssumption DEF Sockets
<1>2. s[1] = t[1]
    BY DEF Owner
<1>3. s[2] # t[2]
    BY <1>1, <1>2
<1> QED
  BY <1>1, <1>3

\* Links fail, sockets are opened and handlers move in their order.
LEMMA OrderedKept ==
    ASSUME TypeOK, Ordered,
           \/ UNCHANGED ws
           \/ \E t \in Sockets : OpenSocket(t) \/ LoseSocket(t) \/ NoticeLoss(t)
           \/ ws' = [s \in Sockets |-> IF ws[s] = "unopened" THEN "unopened" ELSE "dead"]
    PROVE  Ordered'
<1>1. ws \in [Sockets -> LinkStates]
    BY Parts DEF LinkTypes
<1> SUFFICES ASSUME NEW a \in Sockets, NEW b \in Sockets, Owner(a) = Owner(b), a[2] < b[2],
                    ws'[b] # "unopened"
             PROVE  ws'[a] \in {"lost", "dead"}
    BY Constants DEF Ordered
<1>2. a[2] \in Nat /\ b[2] \in Nat /\ a # b
    BY MaxReconnectsAssumption DEF Sockets
<1>3. ASSUME NEW t \in Sockets, OpenSocket(t)
      PROVE  ws'[a] \in {"lost", "dead"}
  <2>1. CASE b = t
      BY <1>1, <1>2, <1>3, <2>1 DEF OpenSocket
  <2>2. CASE b # t
      BY <1>1, <1>3, <2>2 DEF OpenSocket, Ordered
  <2> QED
    BY <2>1, <2>2
<1>4. ASSUME NEW t \in Sockets, LoseSocket(t) \/ NoticeLoss(t)
      PROVE  ws'[a] \in {"lost", "dead"}
    BY <1>1, <1>4 DEF LoseSocket, NoticeLoss, Ordered
<1>5. CASE ws' = [s \in Sockets |-> IF ws[s] = "unopened" THEN "unopened" ELSE "dead"]
    BY <1>5 DEF Ordered
<1>6. CASE UNCHANGED ws
    BY <1>6 DEF Ordered
<1> QED
  BY <1>3, <1>4, <1>5, <1>6

LEMMA UnusedKept ==
    ASSUME TypeOK, Unused, [Next]_vars
    PROVE  Unused'
<1>1. ws \in [Sockets -> LinkStates] /\ TypeOK
    BY Parts DEF LinkTypes
<1>2. ASSUME NEW t \in Sockets, Socket(t)
      PROVE  Unused'
  <2>1. CASE Open(t) \/ Lose(t) \/ Notice(t)
      BY <1>1, <2>1, Constants
      DEF Unused, Open, Lose, Notice, OpenSocket, LoseSocket, NoticeLoss
  <2>2. CASE Register(t) \/ PreviousClosed(t)
    <3>1. /\ \/ handler' = [handler EXCEPT ![t] = "replacing"]
             \/ handler' = [handler EXCEPT ![t] = "serving"]
          /\ ws' = ws /\ ws[t] # "unopened"
      <4>1. CASE Register(t)
          BY <4>1, RegisterSteps DEF Joins
      <4>2. CASE PreviousClosed(t)
          BY <4>2, PreviousClosedSteps DEF Joins, Unused
      <4> QED
        BY <2>2, <4>1, <4>2
    <3>2. \A s \in Sockets : s # t => handler'[s] = handler[s]
        BY <3>1, Parts DEF SocketTypes
    <3> QED
      BY <3>1, <3>2, Constants DEF Unused
  <2>3. CASE Leave(t) \/ MarkOffline(t)
    <3>1. /\ ws' = ws /\ ws[t] # "unopened"
          /\ \A s \in Sockets : s # t => handler'[s] = handler[s]
        BY <2>3, Parts DEF Leave, MarkOffline, links, Unused, SocketTypes
    <3> QED
      BY <3>1, Constants DEF Unused
  <2>4. CASE Reject(t) \/ Deliver(t) \/ HandlePress(t)
               \/ \E item \in Items, p \in Presses : Press(t, item, p)
    <3>1. UNCHANGED <<ws, handler>>
        BY <2>4 DEF Reject, Deliver, HandlePress, Press, links
    <3> QED
      BY <3>1, Constants DEF Unused
  <2> QED
    BY <1>2, <2>1, <2>2, <2>3, <2>4, Zenon DEF Socket
<1>3. CASE Restart
    BY <1>3, Constants DEF Restart, Unused
<1>4. CASE ~ Restart /\ ~ \E t \in Sockets : Socket(t)
  <2>1. UNCHANGED <<ws, handler>>
    <3>1. CASE UNCHANGED vars
        BY <3>1 DEF vars, links
    <3>2. CASE \E c \in Codes : CreateCode(c) \/ ExpireCode(c)
        BY <3>2 DEF CreateCode, ExpireCode, links
    <3>3. CASE \E x \in Entities, v \in Levels : ChangeLevel(x, v)
        BY <3>3 DEF ChangeLevel, links
    <3>4. CASE NextPanel
        BY <3>4 DEF NextPanel
    <3>5. CASE \E u \in Tasks : Management(u)
        BY <3>5 DEF Management, Assign, ReplaceExclusions, SaveDisplay
    <3> QED
      BY <1>4, <3>1, <3>2, <3>3, <3>4, <3>5, Zenon DEF Next
  <2> QED
    BY <2>1, Constants DEF Unused
<1> QED
  BY <1>2, <1>3, <1>4

\* What the dashboard of panel e is made of stays.
Untouched(e) ==
    /\ area'[e] = area[e] /\ assignments'[e] = assignments[e]
    /\ hidden'[e] = hidden[e] /\ pinned'[e] = pinned[e] /\ rank'[e] = rank[e]
    /\ \A x \in Entities : AreaOf[x] = area[e] => level'[x] = level[x]

LEMMA SnapshotStays ==
    ASSUME TypeOK, TypeOK', NEW e \in Endpoints, Untouched(e)
    PROVE  Snapshot(e)' = Snapshot(e)
<1>1. ChoiceTypes /\ MemoryTypes /\ LevelTypes /\ level' \in [Entities -> Levels]
  <2>1. level' \in [Entities -> Levels']
      BY DEF TypeOK
  <2> QED
    BY <2>1, Parts, Constants
<1>2. \A r \in [Entities -> 0 .. Cardinality(Entities)] : r \in [Entities -> Nat]
    BY PanelsAreFinite
<1>3. /\ area[e] \in Areas \cup {NoArea} /\ hidden[e] \in SUBSET Entities
      /\ pinned[e] \in SUBSET Entities /\ rank[e] \in [Entities -> Nat]
      /\ level \in [Entities -> Levels]
    BY <1>1, <1>2 DEF MemoryTypes, ChoiceTypes, LevelTypes
<1>4. Picture(e, area[e], hidden[e], pinned[e], rank[e], level')
        = Picture(e, area[e], hidden[e], pinned[e], rank[e], level)
    BY <1>1, <1>3, PictureTyped DEF Untouched
<1>5. Snapshot(e)' = Picture(e, area[e], hidden[e], pinned[e], rank[e], level')
    BY SnapshotIsPicture DEF Untouched
<1> QED
  BY <1>4, <1>5, SnapshotIsPicture

\* The loop goes on although the dictionary may have grown.
LEMMA AwaitedKept ==
    ASSUME TypeOK, Grown, NEW e \in Endpoints, Awaited(e), fanout' = fanout, area'[e] = area[e],
           known' = known \/ \E d \in Endpoints \ Range(known) : known' = Append(known, d)
    PROVE  Awaited(e)'
<1>1. CASE known' = known
    BY <1>1, Constants DEF Awaited
<1>2. CASE \E d \in Endpoints \ Range(known) : known' = Append(known, d)
  <2>1. Len(known') = Len(known) + 1 /\ Len(known) \in Nat
      BY <1>2, Parts, KnownJoined DEF MemoryTypes
  <2>2. fanout # Idle /\ fanout.size <= Len(known) /\ fanout.size \in Nat
      BY Parts, PanelsAreFinite DEF Awaited, Grown, LevelTypes, Loops
  <2> QED
    BY <2>1, <2>2, Constants DEF Awaited
<1> QED
  BY <1>1, <1>2

\* A panel whose dashboard a step leaves as it is stays informed.
LEMMA OthersInformed ==
    ASSUME TypeOK, TypeOK', NEW s \in Sockets, Informed(s), Untouched(Owner(s)),
           Latest(s)' = Latest(s), Range(known) \subseteq Range(known'),
           Owner(s) \in missed' \/ (Owner(s) \notin missed /\ online'[Owner(s)]),
           online[Owner(s)] /\ Awaited(Owner(s)) => Awaited(Owner(s))'
    PROVE  Informed(s)'
<1> DEFINE e == Owner(s)
<1>1. e \in Endpoints
    BY Owners
<1>2. e \in Range(known')
    BY DEF Informed
<1>3. area'[e] = assignments'[e] /\ Snapshot(e)' = Snapshot(e)
    BY <1>1, SnapshotStays DEF Informed, Untouched
<1>4. e \notin missed' => online'[e] /\ (Latest(s)' = Snapshot(e)' \/ Awaited(e)')
    BY <1>3 DEF Informed
<1> QED
  BY <1>2, <1>3, <1>4 DEF Informed, Owner

\* A panel that a step sends nothing stays informed, if the step does not
\* concern it.
LEMMA InformedKept ==
    ASSUME Shown, TypeOK', NEW s \in Sockets, Here(s), Untouched(Owner(s)),
           Latest(s)' = Latest(s), fanout' = fanout,
           known' = known \/ \E d \in Endpoints \ Range(known) : known' = Append(known, d),
           Owner(s) \in missed' \/ (Owner(s) \notin missed /\ online'[Owner(s)])
    PROVE  Informed(s)'
<1>1. TypeOK /\ Grown /\ Informed(s) /\ Owner(s) \in Endpoints
    BY Owners DEF Shown, Current
<1>2. Range(known) \subseteq Range(known')
    BY <1>1, Parts, KnownJoined DEF MemoryTypes
<1>3. area'[Owner(s)] = area[Owner(s)]
    BY DEF Untouched
<1>4. Awaited(Owner(s)) => Awaited(Owner(s))'
  <2>1. PICK e \in Endpoints : e = Owner(s)
      BY <1>1
  <2>2. Awaited(e) => Awaited(e)'
      BY <1>1, <1>3, <2>1, AwaitedKept
  <2> QED
    BY <2>1, <2>2 DEF Awaited, Owner
<1> QED
  BY <1>1, <1>2, <1>4, OthersInformed

LEMMA LastAppended ==
    ASSUME NEW S, NEW q \in Seq(S), NEW m \in S
    PROVE  Append(q, m) # <<>> /\ Append(q, m)[Len(Append(q, m))] = m
<1>1. Len(Append(q, m)) = Len(q) + 1 /\ Len(q) \in Nat /\ Append(q, m)[Len(q) + 1] = m
    BY AppendProperties, LenProperties
<1>2. Len(<<>>) = 0
    OBVIOUS
<1>3. Append(q, m) # <<>>
    BY <1>1, <1>2
<1> QED
  BY <1>1, <1>3

\* A panel that is sent its dashboard is informed, and no other hears of it.
LEMMA InformedSent ==
    ASSUME Shown, TypeOK', NEW e \in Endpoints, SendDashboard(e),
           UNCHANGED <<known, online, ws, handler, shown>>,
           \/ area'[e] = assignments'[e]
           \/ area'[e] = area[e] /\ assignments'[e] = assignments[e],
           \A d \in Endpoints \ {e} : Untouched(d),
           \A d \in Endpoints \ {e} : online[d] /\ Awaited(d) => Awaited(d)',
           NEW s \in Sockets, Here(s)'
    PROVE  Informed(s)'
<1>1. TypeOK /\ SendTypes
    BY Parts DEF Shown
<1>2. connections'[Owner(s)] = s /\ ws[s] = "open" /\ handler[s] = "serving"
    BY Constants DEF Here, IsCurrent
<1>3. CASE e \in Range(known) /\ online[e] /\ Reachable(e)
  <2> DEFINE t == connections[e]
  <2>1. t \in Sockets
      BY <1>1, <1>3 DEF SendTypes, Reachable
  <2>2. /\ Returned(t) /\ missed' = missed \ {e}
        /\ down' = IF ws[t] = "open" THEN [down EXCEPT ![t] = Append(@, Snapshot(e)')]
                   ELSE down
      BY <1>3 DEF SendDashboard
  <2>3. connections' = connections \/ connections' = [connections EXCEPT ![Owner(t)] = NoSocket]
      BY <1>1, <2>1, <2>2, Owners DEF Returned, Delivered, Raised, Disconnect, Without, SendTypes
  <2>4. connections[Owner(s)] = s
      BY <1>1, <1>2, <2>1, <2>3, Owners, NoSocketAssumption DEF SendTypes
  <2>5. Informed(s)
      BY <1>2, <2>4 DEF Shown, Current, Here, IsCurrent
  <2>6. CASE Owner(s) = e
    <3>1. t = s
        BY <2>4, <2>6
    <3>2. MemoryTypes' /\ ChoiceTypes' /\ LevelTypes'
        BY Parts
    <3>3. Snapshot(e)' \in Dashboards
        BY <3>2, SnapshotTyped
    <3>4. down'[s] = Append(down[s], Snapshot(e)') /\ down[s] \in Seq(Dashboards)
        BY <1>1, <1>2, <2>2, <3>1 DEF SendTypes
    <3>5. Latest(s)' = Snapshot(e)'
        BY <3>3, <3>4, LastAppended DEF Latest
    <3>6. e \in Range(known') /\ area'[e] = assignments'[e] /\ online'[e]
        BY <1>3, <2>5, <2>6 DEF Informed
    <3> QED
      BY <2>6, <3>5, <3>6 DEF Informed, Owner
  <2>7. CASE Owner(s) # e
    <3>1. t # s /\ Owner(s) \in Endpoints \ {e}
      <4>1. Owner(t) = e
          BY <1>3 DEF Shown, Current, Own
      <4> QED
        BY <2>7, <4>1, Owners
    <3>2. down'[s] = down[s]
      <4>1. down \in [Sockets -> Seq(Dashboards)]
          BY <1>1 DEF SendTypes
      <4> HIDE DEF t
      <4> QED
        BY <2>1, <2>2, <3>1, <4>1
    <3>5. Owner(s) \in missed => Owner(s) \in missed'
        BY <2>2, <2>7
    <3>6. Latest(s)' = Latest(s)
        BY <3>2 DEF Latest, Owner
    <3>3. Owner(s) \in missed' \/ (Owner(s) \notin missed /\ online'[Owner(s)])
        BY <2>5, <3>5 DEF Informed
    <3>4. Awaited(Owner(s)) /\ online[Owner(s)] => Awaited(Owner(s))'
        BY <3>1 DEF Awaited, Owner
    <3> QED
      BY <1>1, <2>5, <3>1, <3>3, <3>4, <3>6, OthersInformed
  <2> QED
    BY <2>6, <2>7
<1>4. CASE ~ (e \in Range(known) /\ online[e] /\ Reachable(e))
  <2>1. UNCHANGED <<connections, down, missed>>
      BY <1>4 DEF SendDashboard
  <2>2. Informed(s)
      BY <1>2, <2>1 DEF Shown, Current, Here, IsCurrent
  <2>3. Owner(s) = e => ~ online[e] /\ e \in missed
      BY <1>2, <1>4, <2>1, <2>2, NoSocketAssumption DEF Informed, Reachable
  <2>4. CASE Owner(s) = e
    <3>1. e \in Range(known') /\ e \in missed' /\ area'[e] = assignments'[e]
        BY <2>1, <2>2, <2>3, <2>4 DEF Informed
    <3> QED
      BY <2>4, <3>1 DEF Informed, Owner
  <2>5. CASE Owner(s) # e
    <3>1. Owner(s) \in Endpoints \ {e}
        BY <2>5, Owners
    <3>2. Owner(s) \in missed' \/ (Owner(s) \notin missed /\ online'[Owner(s)])
        BY <2>1, <2>2 DEF Informed
    <3>3. Awaited(Owner(s)) /\ online[Owner(s)] => Awaited(Owner(s))'
        BY <3>1 DEF Awaited, Owner
    <3>4. Latest(s)' = Latest(s)
        BY <2>1 DEF Latest, Owner
    <3> QED
      BY <1>1, <2>1, <2>2, <3>1, <3>2, <3>3, <3>4, OthersInformed
  <2> QED
    BY <2>4, <2>5
<1> QED
  BY <1>3, <1>4

LEMMA OwnKept ==
    ASSUME TypeOK, Own,
           \/ UNCHANGED connections
           \/ \E s \in Sockets : connections' = [connections EXCEPT ![Owner(s)] = s]
           \/ \E s \in Sockets : connections' = Without(s)
           \/ connections' = [e \in Endpoints |-> NoSocket]
    PROVE  Own'
<1>1. connections \in [Endpoints -> Sockets \cup {NoSocket}]
    BY Parts DEF SendTypes
<1> SUFFICES ASSUME NEW e \in Endpoints, connections'[e] # NoSocket
             PROVE  Owner(connections'[e]) = e
    BY DEF Own, Reachable, Owner
<1>2. connections'[e] = connections[e] \/ Owner(connections'[e]) = e
    BY <1>1, Owners DEF Without
<1> QED
  BY <1>2 DEF Own, Reachable

LEMMA OwnSent ==
    ASSUME TypeOK, Own, NEW e \in Endpoints, SendDashboard(e)
    PROVE  Own'
<1>1. connections \in [Endpoints -> Sockets \cup {NoSocket}]
    BY Parts DEF SendTypes
<1>2. UNCHANGED connections \/ \E s \in Sockets : connections' = Without(s)
    BY <1>1 DEF SendDashboard, Reachable, Returned, Delivered, Raised, Disconnect
<1> QED
  BY <1>2, OwnKept

\* What a step leaves that sends no panel anything and moves none.
LEMMA CurrentKept ==
    ASSUME Shown, TypeOK',
           UNCHANGED <<assignments, choices, memory, level, fanout, connections, handler,
                       shown, missed>>,
           \A s \in Sockets : ws'[s] = "open" /\ handler[s] = "serving" =>
                                ws[s] = "open" /\ down'[s] = down[s]
    PROVE  Current'
<1>1. Own' /\ Grown'
    BY OwnKept, Constants DEF Shown, Current, Grown, memory
<1>2. ASSUME NEW s \in Sockets, Here(s)'
      PROVE  Informed(s)'
  <2>1. Here(s) /\ down'[s] = down[s]
      BY <1>2 DEF Here, IsCurrent, Owner
  <2>2. Untouched(Owner(s)) /\ Latest(s)' = Latest(s)
      BY <2>1 DEF Untouched, choices, memory, Latest, Owner
  <2>3. known' = known /\ online' = online /\ Informed(s)
      BY <2>1 DEF memory, Shown, Current
  <2>4. Owner(s) \in missed' \/ (Owner(s) \notin missed /\ online'[Owner(s)])
      BY <2>3 DEF Informed
  <2> QED
    BY <2>1, <2>2, <2>3, <2>4, InformedKept
<1> QED
  BY <1>1, <1>2, Constants DEF Current

LEMMA CurrentQuiet ==
    ASSUME Shown, TypeOK',
           \/ UNCHANGED vars
           \/ \E c \in Codes : CreateCode(c) \/ ExpireCode(c)
           \/ \E t \in Sockets :
                \/ Open(t) \/ Lose(t) \/ Notice(t) \/ Reject(t) \/ HandlePress(t)
                \/ \E item \in Items, p \in Presses : Press(t, item, p)
    PROVE  Current'
<1>1. ws \in [Sockets -> LinkStates] /\ down \in [Sockets -> Seq(Dashboards)]
    BY Parts DEF Shown, LinkTypes, SendTypes
<1>2. CASE UNCHANGED vars
    BY <1>2, CurrentKept DEF vars, tables, links
<1>3. CASE \E c \in Codes : CreateCode(c) \/ ExpireCode(c)
    BY <1>3, CurrentKept DEF CreateCode, ExpireCode, links
<1>4. ASSUME NEW t \in Sockets, Open(t) \/ Lose(t) \/ Notice(t)
      PROVE  Current'
  <2>1. \A s \in Sockets : ws'[s] = "open" /\ handler[s] = "serving" =>
                             ws[s] = "open" /\ down'[s] = down[s]
      BY <1>1, <1>4
      DEF Open, Lose, Notice, OpenSocket, LoseSocket, NoticeLoss, Shown, Unused
  <2>2. UNCHANGED <<assignments, choices, memory, level, fanout, connections, handler,
                    shown, missed>>
      BY <1>4 DEF Open, Lose, Notice, tables
  <2> QED
    BY <2>1, <2>2, CurrentKept
<1>5. ASSUME NEW t \in Sockets,
             \/ Reject(t) \/ HandlePress(t)
             \/ \E item \in Items, p \in Presses : Press(t, item, p)
      PROVE  Current'
    BY <1>5, CurrentKept DEF Reject, HandlePress, Press, tables, links
<1> QED
  BY <1>2, <1>3, <1>4, <1>5

LEMMA GrownJoined ==
    ASSUME TypeOK, Grown, NEW s \in Sockets, Joins(s), fanout' = fanout
    PROVE  /\ Grown'
           /\ known' = known \/ \E d \in Endpoints \ Range(known) : known' = Append(known, d)
<1>1. Owner(s) \in Endpoints /\ known \in Seq(Endpoints) /\ IsInjective(known)
    BY Owners, Parts DEF MemoryTypes
<1>2. known' = known \/ \E d \in Endpoints \ Range(known) : known' = Append(known, d)
    BY <1>1 DEF Joins
<1>3. Len(known) \in Nat /\ (Len(known') = Len(known) \/ Len(known') = Len(known) + 1)
    BY <1>1, <1>2, KnownJoined, LenProperties
<1>4. fanout # Idle => fanout.size \in Nat /\ fanout.size <= Len(known)
    BY Parts, PanelsAreFinite DEF LevelTypes, Loops, Grown
<1>5. fanout' # Idle => fanout'.size <= Len(known')
    BY <1>3, <1>4
<1> QED
  BY <1>2, <1>5, Constants DEF Grown

\* A registration shows the panel its place ...
LEMMA JoinInforms ==
    ASSUME TypeOK, TypeOK', NEW s \in Sockets, Joins(s), ws[s] = "open"
    PROVE  Informed(s)'
<1> DEFINE e == Owner(s)
<1>1. e \in Endpoints /\ down \in [Sockets -> Seq(Dashboards)]
    BY Owners, Parts DEF SendTypes
<1>2. e \in Range(known')
  <2>1. CASE e \in Range(known)
      BY <2>1 DEF Joins
  <2>2. CASE e \notin Range(known)
      BY <1>1, <2>2, Parts, KnownJoined DEF Joins, MemoryTypes
  <2> QED
    BY <2>1, <2>2
<1>3. area'[e] = assignments'[e] /\ online'[e]
    BY <1>1, Parts DEF Joins, MemoryTypes
<1>4. Snapshot(e)' \in Dashboards
    BY <1>1, Parts, SnapshotTyped
<1>5. down'[s] = Append(down[s], Snapshot(e)') /\ down[s] \in Seq(Dashboards)
    BY <1>1 DEF Joins
<1>6. Latest(s)' = Snapshot(e)'
    BY <1>4, <1>5, LastAppended DEF Latest
<1> QED
  BY <1>2, <1>3, <1>6 DEF Informed, Owner

\* ... and leaves the others as they were.
LEMMA JoinLeaves ==
    ASSUME Shown, TypeOK', NEW t \in Sockets, Joins(t),
           UNCHANGED <<choices, level, fanout, shown>>,
           \A d \in Endpoints \ {Owner(t)} : assignments'[d] = assignments[d],
           NEW s \in Sockets, Here(s), s # t,
           Owner(s) = Owner(t) =>
             assignments'[Owner(t)] = assignments[Owner(t)] /\ connections'[Owner(t)] # t
    PROVE  Informed(s)'
<1>1. /\ Owner(s) \in Endpoints /\ Owner(t) \in Endpoints /\ Informed(s) /\ TypeOK
      /\ MemoryTypes /\ SendTypes
    BY Owners, Parts DEF Shown, Current
<1>2. Latest(s)' = Latest(s)
  <2>1. down'[s] = down[s]
      BY <1>1 DEF Joins, SendTypes
  <2> QED
    BY <2>1 DEF Latest, Owner
<1>3. area'[Owner(s)] = area[Owner(s)] /\ assignments'[Owner(s)] = assignments[Owner(s)]
    BY <1>1 DEF Joins, MemoryTypes, Informed
<1>4. Untouched(Owner(s))
    BY <1>3 DEF Untouched, choices
<1>5. known' = known \/ \E d \in Endpoints \ Range(known) : known' = Append(known, d)
    BY <1>1, GrownJoined DEF Shown, Current
<1>6. Owner(s) \in missed' \/ (Owner(s) \notin missed /\ online'[Owner(s)])
    BY <1>1 DEF Joins, MemoryTypes, Informed
<1> QED
  BY <1>2, <1>4, <1>5, <1>6, InformedKept

LEMMA CurrentRegister ==
    ASSUME Shown, TypeOK', NEW t \in Sockets, Register(t)
    PROVE  Current'
<1> DEFINE e == Owner(t)
<1>1. /\ TypeOK /\ Own /\ Grown /\ e \in Endpoints
      /\ connections \in [Endpoints -> Sockets \cup {NoSocket}] /\ SocketTypes /\ PairingTypes
    BY Owners, Parts DEF Shown, Current, SendTypes
<1>2. /\ connections' = [connections EXCEPT ![e] = t]
      /\ UNCHANGED <<scenario, choices, level, fanout, task, ws, up, shown, refused, commands>>
      /\ ws[t] = "open" /\ handler[t] = "unregistered"
      /\ \A d \in Endpoints \ {e} : assignments'[d] = assignments[d]
    BY <1>1, RegisterSteps DEF Register, PairingTypes
<1>3. Own'
    BY <1>1, <1>2, OwnKept
<1>4. ASSUME NEW s \in Sockets, Here(s)', s # t
      PROVE  Owner(s) # e
    BY <1>1, <1>2, <1>4 DEF Here, IsCurrent, Owner
<1>5. CASE Joins(t)
  <2>1. Grown'
      BY <1>1, <1>2, <1>5, GrownJoined
  <2>2. Informed(t)'
      BY <1>1, <1>2, <1>5, JoinInforms DEF Shown
  <2>3. ASSUME NEW s \in Sockets, Here(s)', s # t
        PROVE  Informed(s)'
    <3>1. Owner(s) # e /\ Owner(s) \in Endpoints
        BY <1>4, <2>3, Owners
    <3>2. Here(s)
        BY <1>1, <1>2, <1>5, <2>3, <3>1 DEF Here, IsCurrent, Owner, Joins, SocketTypes
    <3> QED
      BY <1>2, <1>5, <2>3, <3>1, <3>2, JoinLeaves
  <2> QED
    BY <1>3, <2>1, <2>2, <2>3, Constants DEF Current
<1>6. CASE handler' = [handler EXCEPT ![t] = "replacing"] /\ UNCHANGED <<memory, down, missed>>
  <2>1. Grown'
      BY <1>1, <1>2, <1>6, Constants DEF Grown, memory
  <2>2. ASSUME NEW s \in Sockets, Here(s)'
        PROVE  Informed(s)'
    <3>1. s # t
        BY <1>1, <1>6, <2>2 DEF Here, SocketTypes
    <3>2. Owner(s) # e /\ Owner(s) \in Endpoints
        BY <1>4, <2>2, <3>1, Owners
    <3>3. Here(s)
        BY <1>1, <1>2, <1>6, <2>2, <3>1, <3>2 DEF Here, IsCurrent, Owner, SocketTypes
    <3>4. Untouched(Owner(s)) /\ Latest(s)' = Latest(s)
        BY <1>2, <1>6, <3>2 DEF Untouched, choices, memory, Latest, Owner
    <3>5. known' = known /\ online' = online /\ Informed(s)
        BY <1>6, <3>3 DEF memory, Shown, Current
    <3>6. Owner(s) \in missed' \/ (Owner(s) \notin missed /\ online'[Owner(s)])
        BY <1>6, <3>5 DEF Informed
    <3> QED
      BY <1>2, <3>3, <3>4, <3>5, <3>6, InformedKept
  <2> QED
    BY <1>3, <2>1, <2>2, Constants DEF Current
<1> QED
  BY <1>5, <1>6, RegisterSteps

LEMMA CurrentRejoin ==
    ASSUME Shown, TypeOK', NEW t \in Sockets, PreviousClosed(t)
    PROVE  Current'
<1>1. TypeOK /\ Own /\ Grown /\ SocketTypes
    BY Parts DEF Shown, Current
<1>2. /\ Joins(t)
      /\ UNCHANGED <<assignments, choices, level, fanout, connections, ws, shown>>
    BY PreviousClosedSteps DEF tables
<1>3. Own' /\ Grown'
    BY <1>1, <1>2, OwnKept, GrownJoined
<1>4. ASSUME NEW s \in Sockets, Here(s)'
      PROVE  Informed(s)'
  <2>1. CASE s = t
      BY <1>1, <1>2, <1>4, <2>1, JoinInforms DEF Here
  <2>2. CASE s # t
    <3>1. Here(s)
        BY <1>1, <1>2, <1>4, <2>2 DEF Here, IsCurrent, Owner, Joins, SocketTypes
    <3>2. Owner(s) = Owner(t) => connections'[Owner(t)] # t
        BY <1>2, <2>2, <3>1 DEF Here, IsCurrent
    <3> QED
      BY <1>2, <2>2, <3>1, <3>2, JoinLeaves
  <2> QED
    BY <2>1, <2>2
<1> QED
  BY <1>3, <1>4, Constants DEF Current

\* Whoever leaves takes no other socket's entry; who marks the endpoint offline
\* behind one leaves word of it.
LEMMA CurrentLeave ==
    ASSUME Shown, TypeOK', NEW t \in Sockets, Leave(t) \/ MarkOffline(t)
    PROVE  Current'
<1>1. /\ TypeOK /\ Own /\ Grown /\ SocketTypes /\ SendTypes /\ MemoryTypes
      /\ Owner(t) \in Endpoints
    BY Owners, Parts DEF Shown, Current
<1>2. /\ UNCHANGED <<assignments, choices, area, known, level, fanout, ws, down, shown>>
      /\ handler'[t] # "serving" /\ \A s \in Sockets : s # t => handler'[s] = handler[s]
      /\ connections' = connections \/ connections' = Without(t)
      /\ \/ online' = online /\ missed' = missed
         \/ /\ online' = [online EXCEPT ![Owner(t)] = FALSE]
            /\ missed' = IF Reachable(Owner(t)) THEN missed \cup {Owner(t)} ELSE missed
            /\ connections' = connections
    BY <1>1 DEF Leave, MarkOffline, Disconnect, tables, memory, links, SocketTypes
<1>3. Own' /\ Grown'
    BY <1>1, <1>2, OwnKept, Constants DEF Grown
<1>4. ASSUME NEW s \in Sockets, Here(s)'
      PROVE  Informed(s)'
  <2>1. s # t /\ Owner(s) \in Endpoints
      BY <1>2, <1>4, Owners DEF Here
  <2>2. connections[Owner(s)] = s
      BY <1>1, <1>2, <1>4, <2>1, NoSocketAssumption
      DEF Here, IsCurrent, Owner, Without, SendTypes
  <2>3. Here(s) /\ Reachable(Owner(s))
      BY <1>2, <1>4, <2>1, <2>2, NoSocketAssumption DEF Here, IsCurrent, Reachable
  <2>4. Untouched(Owner(s)) /\ Latest(s)' = Latest(s)
      BY <1>2 DEF Untouched, choices, Latest, Owner
  <2>5. Informed(s)
      BY <2>3 DEF Shown, Current
  <2>6. Owner(s) \in missed' \/ (Owner(s) \notin missed /\ online'[Owner(s)])
      BY <1>1, <1>2, <2>1, <2>3, <2>5 DEF Informed, MemoryTypes
  <2> QED
    BY <1>2, <2>3, <2>4, <2>6, InformedKept
<1> QED
  BY <1>3, <1>4, Constants DEF Current

LEMMA LatestDelivered ==
    ASSUME NEW S, NEW q \in Seq(S), q # <<>>
    PROVE  (IF Tail(q) = <<>> THEN Head(q) ELSE Tail(q)[Len(Tail(q))]) = q[Len(q)]
<1>1. /\ Len(q) \in Nat /\ Len(q) # 0 /\ Len(Tail(q)) = Len(q) - 1 /\ Head(q) = q[1]
      /\ Tail(q) \in Seq(S)
    BY EmptySeq, HeadTailProperties, LenProperties
<1>2. CASE Tail(q) = <<>>
  <2>1. Len(Tail(q)) = 0
      BY <1>1, <1>2, EmptySeq
  <2>2. PICK n \in Nat : n = Len(q)
      BY <1>1
  <2>3. n - 1 = 0
      BY <1>1, <2>1, <2>2
  <2>4. n = 1
      BY <2>3
  <2>5. Head(q) = q[Len(q)]
      BY <1>1, <2>2, <2>4, Zenon
  <2> QED
    BY <1>2, <2>5
<1>3. CASE Tail(q) # <<>>
  <2>1. Len(Tail(q)) # 0
      BY <1>1, <1>3, EmptySeq
  <2>2. Len(Tail(q)) \in 1 .. Len(Tail(q)) /\ Len(Tail(q)) + 1 = Len(q)
      BY <1>1, <2>1
  <2>3. Tail(q)[Len(Tail(q))] = q[Len(Tail(q)) + 1]
      BY <1>1, <2>2, HeadTailProperties
  <2> QED
    BY <1>3, <2>2, <2>3
<1> QED
  BY <1>2, <1>3

LEMMA CurrentDeliver ==
    ASSUME Shown, TypeOK', NEW t \in Sockets, Deliver(t)
    PROVE  Current'
<1>1. /\ TypeOK /\ Own /\ Grown /\ SocketTypes /\ SendTypes /\ Owner(t) \in Endpoints
    BY Owners, Parts DEF Shown, Current
<1>2. /\ UNCHANGED <<assignments, choices, area, known, online, level, fanout, ws, handler,
                     connections, missed>>
      /\ ws[t] = "open" /\ down[t] # <<>> /\ down[t] \in Seq(Dashboards)
      /\ shown' = [shown EXCEPT ![Owner(t)] = Head(down[t])]
      /\ down' = [down EXCEPT ![t] = Tail(down[t])]
    BY <1>1 DEF Deliver, tables, memory, SendTypes
<1>3. Own' /\ Grown'
    BY <1>1, <1>2, OwnKept, Constants DEF Grown
<1>4. ASSUME NEW s \in Sockets, Here(s)'
      PROVE  Informed(s)'
  <2>1. Here(s) /\ Untouched(Owner(s))
      BY <1>2, <1>4 DEF Here, IsCurrent, Owner, Untouched, choices
  <2>2. Latest(s)' = Latest(s)
    <3>1. CASE s = t
      <4>1. down'[s] = Tail(down[t]) /\ shown'[Owner(s)] = Head(down[t])
          BY <1>1, <1>2, <3>1 DEF SendTypes, SocketTypes
      <4>2. Latest(s) = down[t][Len(down[t])]
          BY <1>2, <3>1 DEF Latest
      <4>3. Latest(s)' = IF Tail(down[t]) = <<>> THEN Head(down[t])
                         ELSE Tail(down[t])[Len(Tail(down[t]))]
          BY <4>1 DEF Latest, Owner
      <4> QED
        BY <1>2, <4>2, <4>3, LatestDelivered
    <3>2. CASE s # t
      <4>1. Owner(s) # Owner(t)
        <5>1. ws[s] = "open" /\ ws[t] = "open"
            BY <1>2, <2>1 DEF Here
        <5>2. \A a, b \in Sockets : Owner(a) = Owner(b) /\ a[2] < b[2] =>
                                      ~ (ws[a] = "open" /\ ws[b] = "open")
            BY DEF Shown, Ordered
        <5> QED
          BY <3>2, <5>1, <5>2, SocketsOfOne
      <4>2. down'[s] = down[s] /\ shown'[Owner(s)] = shown[Owner(s)]
          BY <1>1, <1>2, <3>2, <4>1, Owners DEF SendTypes, SocketTypes
      <4> QED
        BY <4>2 DEF Latest, Owner
    <3> QED
      BY <3>1, <3>2
  <2>3. Informed(s)
      BY <2>1 DEF Shown, Current
  <2>4. Owner(s) \in missed' \/ (Owner(s) \notin missed /\ online'[Owner(s)])
      BY <1>2, <2>3 DEF Informed
  <2> QED
    BY <1>2, <2>1, <2>2, <2>4, InformedKept
<1> QED
  BY <1>3, <1>4, Constants DEF Current

LEMMA CurrentManagement ==
    ASSUME Shown, TypeOK', NEW u \in Tasks, Management(u)
    PROVE  Current'
<1> DEFINE e == scenario.updates[u].id
<1>1. /\ e \in Endpoints /\ TypeOK /\ Own /\ Grown /\ PairingTypes /\ MemoryTypes
      /\ ChoiceTypes
    BY UpdateTyped, Parts DEF Shown, Current, UpdateType
<1> HIDE DEF e
<1>2. UNCHANGED <<known, online, level, fanout, handler, ws, shown>>
    BY DEF Management, Assign, ReplaceExclusions, SaveDisplay, memory
<1>3. \/ UNCHANGED <<assignments, choices, area, connections, down, missed>>
      \/ /\ SendDashboard(e)
         /\ \/ area'[e] = assignments'[e]
            \/ area'[e] = area[e] /\ assignments'[e] = assignments[e]
         /\ \A d \in Endpoints \ {e} : Untouched(d)
  <2>1. CASE Assign(u)
    <3>1. \/ UNCHANGED <<assignments, choices, area, connections, down, missed>>
          \/ /\ assignments' = [assignments EXCEPT ![e] = scenario.updates[u].area]
             /\ area' = [area EXCEPT ![e] = scenario.updates[u].area]
             /\ SendDashboard(e)
             /\ UNCHANGED <<choices, level>>
        BY <2>1 DEF Assign, e
    <3> QED
      BY <1>1, <3>1 DEF Untouched, choices, PairingTypes, MemoryTypes
  <2>2. CASE ReplaceExclusions(u)
    <3>1. /\ UNCHANGED <<assignments, area, level>>
          /\ \/ UNCHANGED <<choices, connections, down, missed>>
             \/ /\ SendDashboard(e)
                /\ \A d \in Endpoints \ {e} :
                     hidden'[d] = hidden[d] /\ pinned'[d] = pinned[d] /\ rank'[d] = rank[d]
        BY <1>1, <2>2 DEF ReplaceExclusions, e, memory, ChoiceTypes
    <3> QED
      BY <1>1, <3>1 DEF Untouched
  <2>3. CASE SaveDisplay(u)
    <3>1. /\ UNCHANGED <<assignments, choices, area, level>>
          /\ SendDashboard(e)
        BY <2>3 DEF SaveDisplay, e, tables, memory
    <3> QED
      BY <1>1, <3>1 DEF Untouched, choices
  <2> QED
    BY <2>1, <2>2, <2>3 DEF Management
<1>4. CASE UNCHANGED <<assignments, choices, area, connections, down, missed>>
    BY <1>2, <1>4, CurrentKept DEF memory
<1>5. CASE /\ SendDashboard(e)
           /\ \/ area'[e] = assignments'[e]
              \/ area'[e] = area[e] /\ assignments'[e] = assignments[e]
           /\ \A d \in Endpoints \ {e} : Untouched(d)
  <2>1. Own' /\ Grown'
      BY <1>1, <1>2, <1>5, OwnSent, Constants DEF Grown
  <2>2. \A d \in Endpoints \ {e} : online[d] /\ Awaited(d) => Awaited(d)'
    <3>1. \A d \in Endpoints \ {e} : area'[d] = area[d]
        BY <1>5 DEF Untouched
    <3> QED
      BY <1>2, <3>1, Constants DEF Awaited
  <2>3. \A s \in Sockets : Here(s)' => Informed(s)'
      BY <1>1, <1>2, <1>5, <2>2, InformedSent
  <2> QED
    BY <2>1, <2>3, Constants DEF Current
<1> QED
  BY <1>3, <1>4, <1>5

LEMMA CurrentRestart ==
    ASSUME Shown, TypeOK', Restart
    PROVE  Current'
<1>1. connections' = [e \in Endpoints |-> NoSocket] /\ fanout' = Idle
    BY DEF Restart
<1>2. Own' /\ Grown'
    BY <1>1, OwnKept, Constants DEF Grown, Shown, Current
<1>3. \A s \in Sockets : ~ Here(s)'
    BY <1>1, Owners, NoSocketAssumption DEF Here, IsCurrent, Owner
<1> QED
  BY <1>2, <1>3, Constants DEF Current

\* A level changes: the loop will come to every panel of the entity's area, and
\* the other dashboards do not show it.
LEMMA CurrentLevel ==
    ASSUME Shown, TypeOK', NEW x \in Entities, NEW v \in Levels, ChangeLevel(x, v)
    PROVE  Current'
<1>1. /\ TypeOK /\ Own /\ MemoryTypes /\ LevelTypes /\ Len(known) \in Nat
      /\ DOMAIN known = 1 .. Len(known)
  <2>1. TypeOK /\ Own /\ MemoryTypes /\ LevelTypes
      BY Parts DEF Shown, Current
  <2> QED
    BY <2>1, LenProperties DEF MemoryTypes
<1>2. /\ UNCHANGED <<assignments, choices, area, known, online, handler, ws, connections,
                     down, shown, missed>>
      /\ fanout = Idle /\ level' = [level EXCEPT ![x] = v]
      /\ fanout' = [entity |-> x, at |-> 1, size |-> Len(known)]
    BY DEF ChangeLevel, tables, memory, links
<1>3. fanout'.size = Len(known') /\ fanout'.at = 1 /\ fanout'.entity = x
    BY <1>2
<1>4. Own' /\ Grown'
    BY <1>1, <1>2, <1>3, OwnKept, Constants DEF Grown
<1>5. ASSUME NEW s \in Sockets, Here(s)'
      PROVE  Informed(s)'
  <2> DEFINE e == Owner(s)
  <2>1. Here(s) /\ Informed(s) /\ e \in Endpoints
      BY <1>2, <1>5, Owners DEF Here, IsCurrent, Owner, Shown, Current
  <2>2. Latest(s)' = Latest(s)
      BY <1>2 DEF Latest, Owner
  <2>3. e \notin missed => online[e]
      BY <2>1 DEF Informed
  <2>4. CASE area[e] = AreaOf[x]
    <3>1. PICK j \in 1 .. Len(known) : known[j] = e
        BY <1>1, <2>1 DEF Informed, Range
    <3>2. fanout' # Idle
        BY <1>1, <1>3, <1>2, <3>1 DEF Idle
    <3>3. \E i \in fanout'.at .. Len(known') : known'[i] = e /\ area'[e] = AreaOf[fanout'.entity]
        BY <1>2, <1>3, <2>4, <3>1
    <3>4. Awaited(e)'
        BY <3>2, <3>3, Constants DEF Awaited, Owner
    <3>5. e \in Range(known') /\ area'[e] = assignments'[e]
        BY <1>2, <2>1 DEF Informed
    <3>6. e \notin missed' => online'[e]
        BY <1>2, <2>3
    <3> QED
      BY <3>4, <3>5, <3>6 DEF Informed, Awaited, Owner
  <2>5. CASE area[e] # AreaOf[x]
    <3>1. Untouched(e)
        BY <1>1, <1>2, <2>5 DEF Untouched, choices, LevelTypes
    <3>2. ~ Awaited(e)
        BY <1>2 DEF Awaited
    <3>3. e \in missed' \/ (e \notin missed /\ online'[e])
        BY <1>2, <2>3
    <3> QED
      BY <1>1, <1>2, <2>1, <2>2, <3>1, <3>2, <3>3, OthersInformed
  <2> QED
    BY <2>4, <2>5
<1> QED
  BY <1>4, <1>5, Constants DEF Current

LEMMA LoopGoesOn ==
    ASSUME TypeOK, fanout \in Loops, fanout # Idle, Len(known) = fanout.size,
           UNCHANGED <<known, area>>,
           NEW i \in There, \A j \in There : i <= j, fanout' = [fanout EXCEPT !.at = i + 1]
    PROVE  /\ fanout' # Idle /\ fanout'.size = fanout.size
           /\ \A d \in Endpoints : d # known[i] /\ online[d] /\ Awaited(d) => Awaited(d)'
<1>1. i \in Nat /\ i >= 1 /\ fanout.at \in Nat /\ fanout.at >= 1
    BY PanelsAreFinite DEF There, Loops
<1>2. /\ fanout'.at = i + 1 /\ fanout'.size = fanout.size /\ fanout'.entity = fanout.entity
    BY DEF Loops
<1>3. fanout' # Idle
    BY <1>1, <1>2 DEF Idle
<1>4. ASSUME NEW d \in Endpoints, d # known[i], online[d], Awaited(d)
      PROVE  Awaited(d)'
  <2>1. PICK j \in fanout.at .. Len(known) :
          known[j] = d /\ area[d] = AreaOf[fanout.entity]
      BY <1>4 DEF Awaited
  <2>2. j \in There /\ j # i
      BY <1>4, <2>1 DEF There
  <2>3. j \in fanout'.at .. Len(known')
      BY <1>1, <1>2, <2>1, <2>2
  <2>4. known'[j] = d /\ area'[d] = AreaOf[fanout'.entity]
      BY <1>2, <2>1
  <2> QED
    BY <1>3, <2>3, <2>4, Constants DEF Awaited
<1> QED
  BY <1>2, <1>3, <1>4

LEMMA CurrentLoop ==
    ASSUME Shown, TypeOK', NextPanel
    PROVE  Current'
<1>1. /\ TypeOK /\ Own /\ Grown /\ MemoryTypes /\ fanout \in Loops /\ fanout # Idle
      /\ Len(known) \in Nat
    BY NextPanelSteps, Parts DEF Shown, Current, NextPanel
<1>2. UNCHANGED <<assignments, choices, area, known, online, level, handler, ws, shown>>
    BY DEF NextPanel, tables, memory
<1>3. \A d \in Endpoints : Untouched(d)
    BY <1>2 DEF Untouched, choices
<1>4. ASSUME UNCHANGED <<connections, down>>, NEW s \in Sockets, Here(s)'
      PROVE  Informed(s) /\ Latest(s)' = Latest(s) /\ Owner(s) \in Endpoints
    BY <1>2, <1>4, Owners DEF Here, IsCurrent, Owner, Latest, Shown, Current
<1>5. CASE /\ Len(known) # fanout.size
           /\ fanout' = Idle /\ missed' = missed \cup Range(known)
           /\ UNCHANGED <<connections, down>>
  <2>1. Own' /\ Grown'
      BY <1>1, <1>5, OwnKept, Constants DEF Grown
  <2>2. ASSUME NEW s \in Sockets, Here(s)'
        PROVE  Informed(s)'
    <3>1. Informed(s)
        BY <1>4, <1>5, <2>2
    <3>2. Owner(s) \in missed' /\ Owner(s) \in Range(known')
        BY <1>2, <1>5, <3>1 DEF Informed
    <3> QED
      BY <1>2, <3>1, <3>2 DEF Informed, Owner
  <2> QED
    BY <2>1, <2>2, Constants DEF Current
<1>6. CASE /\ Len(known) = fanout.size /\ There = {}
           /\ fanout' = Idle
           /\ UNCHANGED <<connections, down, missed>>
  <2>1. Own' /\ Grown'
      BY <1>1, <1>6, OwnKept, Constants DEF Grown
  <2>2. ASSUME NEW s \in Sockets, Here(s)'
        PROVE  Informed(s)'
    <3>1. Informed(s) /\ Latest(s)' = Latest(s) /\ Owner(s) \in Endpoints
        BY <1>4, <1>6, <2>2
    <3>2. ~ (online[Owner(s)] /\ Awaited(Owner(s)))
        BY <1>6 DEF Awaited, There
    <3>3. Owner(s) \in missed' \/ (Owner(s) \notin missed /\ online'[Owner(s)])
        BY <1>2, <1>6, <3>1 DEF Informed
    <3> QED
      BY <1>1, <1>2, <1>3, <3>1, <3>2, <3>3, OthersInformed
  <2> QED
    BY <2>1, <2>2, Constants DEF Current
<1>7. ASSUME Len(known) = fanout.size, NEW i \in There, \A j \in There : i <= j,
             known[i] \in Endpoints, fanout' = [fanout EXCEPT !.at = i + 1],
             SendDashboard(known[i])
      PROVE  Current'
  <2>1. PICK e \in Endpoints : e = known[i]
      BY <1>7
  <2>2. SendDashboard(e)
      BY <1>7, <2>1
  <2>3. /\ fanout' # Idle /\ fanout'.size = fanout.size
        /\ \A d \in Endpoints \ {e} : online[d] /\ Awaited(d) => Awaited(d)'
      BY <1>1, <1>2, <1>7, <2>1, LoopGoesOn
  <2>4. Own' /\ Grown'
      BY <1>1, <1>2, <2>2, <2>3, OwnSent, Constants DEF Grown
  <2>5. \A s \in Sockets : Here(s)' => Informed(s)'
      BY <1>2, <1>3, <2>2, <2>3, InformedSent
  <2> QED
    BY <2>4, <2>5, Constants DEF Current
<1> QED
  BY <1>5, <1>6, <1>7, NextPanelSteps, <1>1

LEMMA LinkSteps ==
    ASSUME [Next]_vars
    PROVE  \/ UNCHANGED ws
           \/ \E t \in Sockets : OpenSocket(t) \/ LoseSocket(t) \/ NoticeLoss(t)
           \/ ws' = [s \in Sockets |-> IF ws[s] = "unopened" THEN "unopened" ELSE "dead"]
<1>1. CASE \E t \in Sockets : Socket(t)
    BY <1>1
    DEF Socket, Open, Lose, Notice, Register, Reject, PreviousClosed, Leave, MarkOffline,
        Deliver, HandlePress, Press, links
<1>2. CASE ~ \E t \in Sockets : Socket(t)
    BY <1>2
    DEF Next, CreateCode, ExpireCode, ChangeLevel, NextPanel, Management, Assign,
        ReplaceExclusions, SaveDisplay, Restart, links, vars
<1> QED
  BY <1>1, <1>2

LEMMA ShownInit == Init => Shown
<1>1. Init => TypeOK
    BY TypedInit
<1>2. ASSUME Init
      PROVE  Ordered /\ Unused /\ Own /\ Grown /\ \A s \in Sockets : ~ Here(s)
    BY <1>2 DEF Init, ConnectionInit, Ordered, Unused, Own, Reachable, Grown, Here
<1> QED
  BY <1>1, <1>2 DEF Shown, Current

LEMMA ShownStep == Shown /\ [Next]_vars => Shown'
<1> SUFFICES ASSUME Shown, [Next]_vars PROVE Shown'
    OBVIOUS
<1>1. TypeOK'
    BY TypedStep DEF Shown
<1>2. Ordered' /\ Unused'
    BY LinkSteps, OrderedKept, UnusedKept DEF Shown
<1>3. Current'
  <2>1. CASE UNCHANGED vars \/ \E c \in Codes : CreateCode(c) \/ ExpireCode(c)
      BY <1>1, <2>1, CurrentQuiet
  <2>2. CASE \E t \in Sockets : Socket(t)
      BY <1>1, <2>2, CurrentQuiet, CurrentRegister, CurrentRejoin, CurrentLeave,
         CurrentDeliver, Zenon
      DEF Socket
  <2>3. CASE \E x \in Entities, v \in Levels : ChangeLevel(x, v)
      BY <1>1, <2>3, CurrentLevel
  <2> QED
    BY <1>1, <2>1, <2>2, <2>3, CurrentLoop, CurrentManagement, CurrentRestart DEF Next
<1> QED
  BY <1>1, <1>2, <1>3 DEF Shown

\* What a panel shows when nothing is on its way to it is its area with the
\* present levels and choices (room_dashboard_service.py), whatever order
\* registrations, moves, choices, levels and lost links came in; but for a
\* panel that a broken-off loop or a superseded socket has passed over.
THEOREM ShownStaysCurrent == Spec => []ShownIsCurrent
<1>1. Init => Shown
    BY ShownInit
<1>2. Shown => ShownIsCurrent
  <2> SUFFICES ASSUME Shown, NEW s \in Sockets,
                      ws[s] = "open", IsCurrent(s), handler[s] = "serving",
                      down[s] = <<>>, fanout = Idle, Owner(s) \notin missed
               PROVE  /\ shown[Owner(s)] = Snapshot(Owner(s))
                      /\ area[Owner(s)] = assignments[Owner(s)]
      BY DEF ShownIsCurrent
  <2>1. Informed(s)
      BY DEF Shown, Current, Here
  <2>2. Latest(s) = shown[Owner(s)] /\ ~ Awaited(Owner(s))
      BY DEF Latest, Awaited
  <2> QED
    BY <2>1, <2>2 DEF Informed
<1> QED
  BY <1>1, <1>2, ShownStep, PTL DEF Spec

-----------------------------------------------------------------------------
(* What a panel shows is arranged                                          *)

\* Every dashboard on its way to panel e or on its screen is.
Coming(s) == \A i \in 1 .. Len(down[s]) : Arranged(Owner(s), down[s][i])
PanelsArranged ==
    /\ \A e \in Endpoints : Arranged(e, shown[e])
    /\ \A s \in Sockets : Coming(s)

LEMMA SnapshotArranged ==
    ASSUME NEW e \in Endpoints, TypeOK'
    PROVE  Arranged(e, Snapshot(e)')
<1>1. \A r \in [Entities -> 0 .. Cardinality(Entities)] : r \in [Entities -> Nat]
    BY PanelsAreFinite
<1>2. MemoryTypes' /\ ChoiceTypes' /\ LevelTypes'
    BY Parts
<1>3. /\ area'[e] \in Areas \cup {NoArea} /\ hidden'[e] \in SUBSET Entities
      /\ pinned'[e] \in SUBSET Entities /\ rank'[e] \in [Entities -> Nat]
      /\ level' \in [Entities -> Levels]
    BY <1>1, <1>2, Constants DEF MemoryTypes, ChoiceTypes, LevelTypes
<1> QED
  BY <1>3, SnapshotIsPicture, PictureArranged

\* A step that shows nothing new and leaves the queues, or empties them.
LEMMA QueuesArranged ==
    ASSUME TypeOK, PanelsArranged, shown' = shown,
           \/ down' = down
           \/ \E s \in Sockets : down' = [down EXCEPT ![s] = <<>>]
           \/ down' = [s \in Sockets |-> <<>>]
    PROVE  PanelsArranged'
<1>1. down \in [Sockets -> Seq(Dashboards)]
    BY Parts DEF SendTypes
<1>2. ASSUME NEW s \in Sockets, NEW i \in 1 .. Len(down'[s])
      PROVE  Arranged(Owner(s), down'[s][i])
  <2>1. down'[s] = down[s] \/ down'[s] = <<>>
      BY <1>1
  <2>2. down'[s] = down[s]
      BY <1>2, <2>1
  <2> QED
    BY <2>2 DEF PanelsArranged, Coming
<1> QED
  BY <1>2, Constants DEF PanelsArranged, Coming, Arranged

\* A dashboard that is composed joins one socket's queue, or none.
LEMMA ComposedArranged ==
    ASSUME TypeOK, TypeOK', PanelsArranged, NEW s \in Sockets, shown' = shown,
           \/ down' = down
           \/ down' = [down EXCEPT ![s] = Append(down[s], Snapshot(Owner(s))')]
    PROVE  PanelsArranged'
<1>1. Owner(s) \in Endpoints /\ down \in [Sockets -> Seq(Dashboards)]
    BY Owners, Parts DEF SendTypes
<1>2. CASE down' = down
    BY <1>2, QueuesArranged
<1>3. CASE down' = [down EXCEPT ![s] = Append(down[s], Snapshot(Owner(s))')]
  <2>1. Arranged(Owner(s), Snapshot(Owner(s))') /\ Snapshot(Owner(s))' \in Dashboards
      BY <1>1, Parts, SnapshotArranged, SnapshotTyped
  <2> SUFFICES ASSUME NEW t \in Sockets, NEW i \in 1 .. Len(down'[t])
               PROVE  Arranged(Owner(t), down'[t][i])
      BY Constants DEF PanelsArranged, Coming, Arranged
  <2>2. CASE t = s
    <3>1. down'[t] = Append(down[s], Snapshot(Owner(s))') /\ down[s] \in Seq(Dashboards)
        BY <1>1, <1>3, <2>2
    <3>2. /\ Len(down[s]) \in Nat /\ Len(down'[t]) = Len(down[s]) + 1
          /\ down'[t][Len(down[s]) + 1] = Snapshot(Owner(s))'
          /\ \A k \in 1 .. Len(down[s]) : down'[t][k] = down[s][k]
        BY <2>1, <3>1, AppendProperties, LenProperties
    <3>3. i = Len(down[s]) + 1 \/ i \in 1 .. Len(down[s])
        BY <3>2
    <3>4. \A k \in 1 .. Len(down[s]) : Arranged(Owner(s), down[s][k])
        BY DEF PanelsArranged, Coming
    <3>5. CASE i = Len(down[s]) + 1
        BY <2>1, <2>2, <3>2, <3>5
    <3>6. CASE i \in 1 .. Len(down[s])
        BY <2>2, <3>2, <3>4, <3>6
    <3> QED
      BY <3>3, <3>5, <3>6
  <2>3. CASE t # s
    <3>1. down'[t] = down[t]
        BY <1>1, <1>3, <2>3
    <3> QED
      BY <3>1 DEF PanelsArranged, Coming
  <2> QED
    BY <2>2, <2>3
<1> QED
  BY <1>2, <1>3

LEMMA SentArranged ==
    ASSUME Shown, TypeOK', PanelsArranged, shown' = shown, NEW e \in Endpoints,
           SendDashboard(e)
    PROVE  PanelsArranged'
<1>1. CASE Reachable(e)
  <2>1. PICK s \in Sockets : s = connections[e] /\ Owner(s) = e
      BY <1>1, Parts DEF Shown, Current, Own, SendTypes, Reachable
  <2>2. down' = down \/ down' = [down EXCEPT ![s] = Append(down[s], Snapshot(Owner(s))')]
      BY <2>1 DEF SendDashboard
  <2> QED
    BY <2>2, ComposedArranged DEF Shown
<1>2. CASE ~ Reachable(e)
  <2>1. down' = down
      BY <1>2 DEF SendDashboard
  <2> QED
    BY <2>1, QueuesArranged DEF Shown
<1> QED
  BY <1>1, <1>2

LEMMA DeliveredArranged ==
    ASSUME TypeOK, PanelsArranged, NEW t \in Sockets, Deliver(t)
    PROVE  PanelsArranged'
<1>1. /\ Owner(t) \in Endpoints /\ down \in [Sockets -> Seq(Dashboards)]
      /\ shown \in [Endpoints -> Dashboards]
    BY Owners, Parts DEF SendTypes, SocketTypes
<1>2. /\ down[t] # <<>> /\ down[t] \in Seq(Dashboards)
      /\ shown' = [shown EXCEPT ![Owner(t)] = Head(down[t])]
      /\ down' = [down EXCEPT ![t] = Tail(down[t])]
    BY <1>1 DEF Deliver
<1>3. /\ Len(down[t]) \in Nat /\ Len(down[t]) # 0 /\ Head(down[t]) = down[t][1]
      /\ Len(Tail(down[t])) = Len(down[t]) - 1
      /\ \A i \in 1 .. Len(Tail(down[t])) : Tail(down[t])[i] = down[t][i + 1]
    BY <1>2, EmptySeq, HeadTailProperties, LenProperties
<1>4. \A i \in 1 .. Len(down[t]) : Arranged(Owner(t), down[t][i])
    BY DEF PanelsArranged, Coming
<1>5. ASSUME NEW e \in Endpoints
      PROVE  Arranged(e, shown'[e])
  <2>1. 1 \in 1 .. Len(down[t])
      BY <1>3
  <2> QED
    BY <1>1, <1>2, <1>3, <1>4, <2>1 DEF PanelsArranged
<1>6. ASSUME NEW s \in Sockets, NEW i \in 1 .. Len(down'[s])
      PROVE  Arranged(Owner(s), down'[s][i])
  <2>1. CASE s = t
    <3>1. down'[s] = Tail(down[t])
        BY <1>1, <1>2, <2>1
    <3>2. i + 1 \in 1 .. Len(down[t]) /\ down'[s][i] = down[t][i + 1]
        BY <1>3, <1>6, <3>1
    <3> QED
      BY <1>4, <2>1, <3>2
  <2>2. CASE s # t
      BY <1>1, <1>2, <2>2 DEF PanelsArranged, Coming
  <2> QED
    BY <2>1, <2>2
<1> QED
  BY <1>5, <1>6, Constants DEF PanelsArranged, Coming, Arranged

LEMMA ArrangedStep == Shown /\ PanelsArranged /\ [Next]_vars => PanelsArranged'
<1> SUFFICES ASSUME Shown, PanelsArranged, [Next]_vars PROVE PanelsArranged'
    OBVIOUS
<1>1. TypeOK /\ TypeOK'
    BY TypedStep DEF Shown
<1>2. CASE UNCHANGED vars \/ \E c \in Codes : CreateCode(c) \/ ExpireCode(c)
  <2>1. UNCHANGED <<down, shown>>
      BY <1>2 DEF vars, links, CreateCode, ExpireCode
  <2> QED
    BY <1>1, <2>1, QueuesArranged
<1>3. CASE \E x \in Entities, v \in Levels : ChangeLevel(x, v)
  <2>1. UNCHANGED <<down, shown>>
      BY <1>3 DEF ChangeLevel, links
  <2> QED
    BY <1>1, <2>1, QueuesArranged
<1>4. CASE NextPanel
  <2>1. shown' = shown /\ (down' = down \/ \E e \in Endpoints : SendDashboard(e))
      BY <1>1, <1>4, NextPanelSteps
  <2> QED
    BY <1>1, <2>1, QueuesArranged, SentArranged
<1>5. ASSUME NEW s \in Sockets, Socket(s)
      PROVE  PanelsArranged'
  <2>1. CASE Joins(s) /\ shown' = shown
    <3>1. down' = down \/ down' = [down EXCEPT ![s] = Append(down[s], Snapshot(Owner(s))')]
        BY <2>1 DEF Joins
    <3> QED
      BY <1>1, <2>1, <3>1, ComposedArranged
  <2>2. CASE Register(s) \/ PreviousClosed(s)
    <3>1. shown' = shown /\ (Joins(s) \/ down' = down)
        BY <2>2, RegisterSteps, PreviousClosedSteps
    <3> QED
      BY <1>1, <2>1, <3>1, QueuesArranged
  <2>3. CASE Deliver(s)
      BY <1>1, <2>3, DeliveredArranged
  <2>4. CASE \/ Open(s) \/ Lose(s) \/ Notice(s) \/ Reject(s) \/ Leave(s) \/ MarkOffline(s)
             \/ HandlePress(s)
             \/ \E item \in Items, p \in Presses : Press(s, item, p)
    <3>1. shown' = shown /\ (down' = down \/ down' = [down EXCEPT ![s] = <<>>])
        BY <2>4
        DEF Open, Lose, Notice, Reject, Leave, MarkOffline, HandlePress, Press, links
    <3> QED
      BY <1>1, <3>1, QueuesArranged
  <2> QED
    BY <1>5, <2>2, <2>3, <2>4, Zenon DEF Socket
<1>6. ASSUME NEW u \in Tasks, Management(u)
      PROVE  PanelsArranged'
  <2>1. scenario.updates[u].id \in Endpoints
      BY <1>1, UpdateTyped DEF UpdateType
  <2>2. shown' = shown /\ (down' = down \/ SendDashboard(scenario.updates[u].id))
      BY <1>6 DEF Management, Assign, ReplaceExclusions, SaveDisplay
  <2> QED
    BY <1>1, <2>1, <2>2, QueuesArranged, SentArranged
<1>7. CASE Restart
  <2>1. shown' = shown /\ down' = [s \in Sockets |-> <<>>]
      BY <1>7 DEF Restart
  <2> QED
    BY <1>1, <2>1, QueuesArranged
<1> QED
  BY <1>2, <1>3, <1>4, <1>5, <1>6, <1>7 DEF Next

\* Whatever is arranged, moved or changed while a dashboard is on its way, a
\* panel lists the favourites first, no more entities than its firmware holds,
\* each once, and none of another area than the one it names; and apart from
\* them the media players of that area, by name, no more than MediaLimit
\* (room_dashboard_service.py; DOCS.md, "Favourites appear first").
THEOREM FavouritesFirst == Spec => [](\A e \in Endpoints : Arranged(e, shown[e]))
<1>1. Init => Shown /\ PanelsArranged
  <2> SUFFICES ASSUME Init PROVE Shown /\ PanelsArranged
      OBVIOUS
  <2>1. Shown
      BY ShownInit
  <2>2. Len(<<>>) = 0 /\ MediaLimit \in Nat /\ \A e \in Endpoints : Limit[e] \in Nat
      BY PanelsAssumption
  <2>3. \A e \in Endpoints : Arranged(e, NoDashboard)
      BY <2>2 DEF Arranged, NoDashboard
  <2> QED
    BY <2>1, <2>2, <2>3 DEF Init, PanelsArranged, Coming
<1>2. Shown /\ PanelsArranged /\ [Next]_vars => (Shown /\ PanelsArranged)'
    BY ShownStep, ArrangedStep
<1>3. PanelsArranged => \A e \in Endpoints : Arranged(e, shown[e])
    BY DEF PanelsArranged
<1> QED
  BY <1>1, <1>2, <1>3, PTL DEF Spec

=============================================================================
