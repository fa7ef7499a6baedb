------------------------- MODULE TrafficReservation -------------------------
(***************************************************************************)
(* The track and the reservation table of src/user/train_tracking/traffic. *)
(*                                                                         *)
(* traffic_reservation.c keeps one table, node_owner, that says which      *)
(* train may use each node of the track graph; every function of the file  *)
(* turns one table into the next or asks a question of it.  This module    *)
(* gives them as operators on a table `own` and on the stored positions    *)
(* `w` of the turnouts; RouteAuthority holds the two as variables and     *)
(* says when the position server calls them.                               *)
(*                                                                         *)
(* The track is a parameter: a directed graph in which every node has a    *)
(* reverse twin (the same place, met in the other direction), a branch has *)
(* a straight and a curved leg, and any other node one edge or none.       *)
(* Both legs of a branch have the length Dist of the branch.               *)
(***************************************************************************)
EXTENDS Naturals, Sequences, TLC

CONSTANTS
    Nodes,      \* the entries of g_track
    NoNode,     \* NULL
    Sensors,    \* the NODE_SENSOR entries
    Branches,   \* the NODE_BRANCH entries; one turnout each
    Merges,     \* the NODE_MERGE entries
    Crossing,   \* the branches of the diamond crossing, turnouts 153 to 156
    Rev,        \* node -> its reverse
    Ahead,      \* node other than a branch -> the node ahead, or NoNode
    Leg,        \* branch -> "S" or "C" -> the node at the end of that leg
    Dist,       \* node -> length of its outgoing edges
    Trains,
    NoTrain,    \* -1 in node_owner
    MaxHops     \* hops after which a walk along the track gives up

Directions == {"S", "C"}

(* What track_data.c lays down, and no more.                               *)
ASSUME TrackAssumption ==
    /\ Sensors \cup Branches \cup Merges \cup Crossing \subseteq Nodes
    /\ Crossing \subseteq Branches
    /\ Sensors \cap Branches = {}
    /\ NoNode \notin Nodes
    /\ NoTrain \notin Trains
    /\ Rev \in [Nodes -> Nodes]
    /\ \A n \in Nodes : Rev[Rev[n]] = n
    /\ \A n \in Sensors : Rev[n] \in Sensors
    /\ Ahead \in [Nodes \ Branches -> Nodes \cup {NoNode}]
    /\ Leg \in [Branches -> [Directions -> Nodes]]
    /\ \A b \in Branches : Leg[b]["S"] # Leg[b]["C"]
    /\ Dist \in [Nodes -> Nat]
    /\ MaxHops \in Nat \ {0}

-----------------------------------------------------------------------------
(* Zones: the nodes that are reserved together.                            *)

Pair(S) == UNION {{n, Rev[n]} : n \in S \cap Nodes}

Leads(n, m) == IF n \in Branches THEN \E d \in Directions : Leg[n][d] = m
                                 ELSE Ahead[n] = m

MergeZone(m) == Pair({m} \cup {n \in Nodes : Leads(n, m)})

Zones == {Pair(Crossing)} \cup {MergeZone(m) : m \in Merges}

(* One hop: a zone that the marks touch is added, a zone that only the     *)
(* added nodes touch is not.                                               *)
Expand(S) == S \cup UNION {z \in Zones : z \cap S # {}}

-----------------------------------------------------------------------------
(* Walking the track along the stored turnout positions.                   *)

Successor(w, n) == IF n = NoNode THEN NoNode
                    ELSE IF n \in Branches THEN Leg[n][w[n]] ELSE Ahead[n]

\* f itself: TLC keeps the values of a function it has compared.
Table(f) == CHOOSE g \in {f} : g = f

\* For each position of the turnouts, and each node to start from: the node
\* met at each hop.
WalkKind == [0 .. MaxHops -> Nodes \cup {NoNode}]

Walks ==
    LET onward(w) == [n \in Nodes \cup {NoNode} |-> Successor(w, n)]
        walk(w, start) ==
            LET f[k \in 0 .. MaxHops] == IF k = 0 THEN start ELSE onward(w)[f[k - 1]]
            IN  Table(f)
    IN  Table([w \in [Branches -> Directions] |->
                  Table([start \in Nodes \cup {NoNode} |-> walk(w, start)])])

\* The same table of something that is read off a walk.
OfWalks(value) ==
    LET of[ways \in [Nodes \cup {NoNode} -> WalkKind]] ==
            Table([start \in Nodes \cup {NoNode} |-> value[ways[start]]])
    IN  Table([w \in [Branches -> Directions] |-> of[Walks[w]]])

\* The millimetres covered up to each hop.
Lengths ==
    LET length[walk \in WalkKind] ==
            LET d[k \in 0 .. MaxHops] ==
                    IF k = 0 THEN 0
                    ELSE d[k - 1] + (IF walk[k - 1] = NoNode THEN 0 ELSE Dist[walk[k - 1]])
            IN  Table(d)
    IN  OfWalks(length)

Reaches(w, a, b) == \E k \in 0 .. MaxHops : Walks[w][a][k] = b

\* The first sensor after a node, or NoNode.
FirstSensors ==
    LET first[walk \in WalkKind] ==
            LET at == {k \in 0 .. MaxHops : walk[k] \in Sensors}
            IN  IF at = {} THEN NoNode ELSE walk[CHOOSE k \in at : \A j \in at : k <= j]
    IN  OfWalks(first)

SensorFrom(w, n) == FirstSensors[w][n]

NextSensor(w, n) == SensorFrom(w, Successor(w, n))

\* The nodes from start up to end, or up to the end of the track.
Stretches ==
    LET upTo[walk \in WalkKind] ==
            Table([end \in Nodes |->
                {walk[k] : k \in {i \in 0 .. MaxHops : \A j \in 0 .. i - 1 : walk[j] # end}}
                    \ {NoNode}])
    IN  OfWalks(upTo)

WalkTo(w, start, end) == Stretches[w][start][end]

\* The walk goes on until it has covered mm: the last node lies at or past it.
WalkDist(w, start, mm) ==
    {Walks[w][start][k] : k \in {i \in 0 .. MaxHops :
        \A j \in 0 .. i - 1 : Lengths[w][start][j] < mm}} \ {NoNode}

\* The track from one hit to the next, when the next can be reached at all.
Segment(w, from, to) ==
    IF to # NoNode /\ Reaches(w, from, to) THEN WalkTo(w, from, to) ELSE {from}

-----------------------------------------------------------------------------
(* Changes of the table.                                                   *)

\* t gives up what it owns outside keep.
Drop(own, t, keep) ==
    [n \in Nodes |-> IF own[n] = t /\ n \notin keep THEN NoTrain ELSE own[n]]

\* t becomes the owner of every node of S, whoever owned it.
Take(own, t, S) == [n \in Nodes |-> IF n \in S THEN t ELSE own[n]]

Free(own, t, S) == {n \in S : own[n] \in {t, NoTrain}}

PlanMarksOneWay(nodes) == Expand(nodes)
PlanMarks(nodes) == Expand(Pair(nodes))

CanReservePlan(own, t, nodes) == \A n \in PlanMarks(nodes) : own[n] \in {t, NoTrain}

ReservePlan(own, t, nodes) == Take(own, t, PlanMarks(nodes))

\* Every node a route of t must avoid (traffic_build_constraints).
Constraints(own, t) == Expand({n \in Nodes : own[n] \notin {t, NoTrain}})

KeepBodyMarks(w, last, body, next) ==
    Expand(Pair(  Segment(w, last, next)
                \cup WalkDist(w, Rev[last], body)
                \cup (IF next # NoNode /\ Reaches(w, last, next)
                      THEN WalkDist(w, next, body) ELSE {})))

ReleaseKeepAhead(own, w, t, last, body, next) ==
    Drop(own, t, IF next = NoNode THEN {} ELSE Expand(Pair(WalkDist(w, next, body))))

\* The sensor pair under the train is taken by force, whoever owns it.
ReleaseKeepBody(own, w, t, last, body, next) ==
    Take(Drop(own, t, KeepBodyMarks(w, last, body, next)), t, Pair({last}))

RefreshRouteSegment(own, w, t, cur, next, window) ==
    Take(Drop(own, t, Expand(Pair(Segment(w, cur, next)))), t, Pair({cur}))

RefreshRoute(own, w, t, cur, next, window) ==
    LET keep == Expand(Pair(Segment(w, cur, next) \cup window))
    IN  Take(Drop(own, t, keep), t, Pair({cur}))

RefreshPredictionBlind(own, w, t, cur, next, rear) ==
    Take(own, t, Expand(Pair(Segment(w, cur, next))))

\* Unlike the two above it also takes what it keeps, when nobody else owns it.
RefreshPrediction(own, w, t, cur, next, rear) ==
    LET keep == Expand(Pair(  Segment(w, cur, next)
                            \cup (IF rear > 0 THEN WalkDist(w, Rev[cur], rear) ELSE {})))
    IN  Take(Take(Drop(own, t, keep), t, Free(own, t, keep)), t, Pair({cur}))

-----------------------------------------------------------------------------
(* Turnouts.                                                               *)

\* The nodes asked for, in the order in which they are looked up.
Envelope ==
    Table([b \in Branches |-> << b, Rev[b], Leg[b]["S"], Rev[Leg[b]["S"]],
                                Leg[b]["C"], Rev[Leg[b]["C"]] >>])

CanSetSwitchAlways(own, b) == NoTrain

\* The first owner met in the envelope, the requester included, or NoTrain.
CanSetSwitch(own, b) ==
    LET taken == {i \in 1 .. 6 : own[Envelope[b][i]] # NoTrain}
    IN  IF taken = {} THEN NoTrain
        ELSE own[Envelope[b][CHOOSE i \in taken : \A j \in taken : i <= j]]

\* sws gives a <<branch, direction>> for each branch of a path, by its place there;
\* it is tried from the last one.
SwitchBlocker(own, w, sws) ==
    LET blocked == {i \in DOMAIN sws : /\ w[sws[i][1]] # sws[i][2]
                                       /\ CanSetSwitch(own, sws[i][1]) # NoTrain}
    IN  IF blocked = {} THEN NoTrain
        ELSE CanSetSwitch(own, sws[CHOOSE i \in blocked : \A j \in blocked : i >= j][1])

Throw(w, sws) ==
    [b \in Branches |->
        LET at == {i \in DOMAIN sws : sws[i][1] = b}
        IN  IF at = {} THEN w[b] ELSE sws[CHOOSE i \in at : \A j \in at : i <= j][2]]

-----------------------------------------------------------------------------
(* The part of a path that a train asks for: traffic_reservation_window.c. *)

DirectionTo(b, n) == IF Leg[b]["S"] = n THEN "S" ELSE "C"
OtherWay(d) == IF d = "S" THEN "C" ELSE "S"

\* The branch right after the window is staged and reserved too.
TrailingBranch(path, end) == /\ end + 2 <= Len(path)
                             /\ path[end + 1] \in Branches

WindowTail(path, start, end) == {path[i] : i \in start .. end}

WindowNodes(path, start, end) ==
    WindowTail(path, start, end) \cup
    (IF TrailingBranch(path, end)
     THEN {path[end + 1]} \cup {Leg[path[end + 1]][d] : d \in Directions} ELSE {})

SwitchesUpTo(path, start, last) ==
    [i \in {k \in start .. last : path[k] \in Branches} |->
        << path[i], DirectionTo(path[i], path[i + 1]) >>]

WindowSwitchesShort(path, start, end) == SwitchesUpTo(path, start, end - 2)

WindowSwitches(path, start, end) ==
    SwitchesUpTo(path, start, IF TrailingBranch(path, end) THEN end + 1 ELSE end - 1)

PathDist(path, start, end) ==
    LET d[i \in start .. end] == IF i = start THEN 0 ELSE d[i - 1] + Dist[path[i - 1]]
    IN  d[end]

=============================================================================
