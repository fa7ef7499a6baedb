------------------------- MODULE RouteAuthorityProofs -------------------------
(***************************************************************************)
(* On every track, for any trains and goals:                               *)
(*   - a place is held in both directions or in neither;                   *)
(*   - no request panics (Slots, an invariant of the trains' slots);       *)
(*   - unless a sensor hit is a false alarm (NoFalseAlarm), every train    *)
(*     owns its place and its window, whose turnouts stand as its path     *)
(*     needs them, and nothing a train holds is taken from it              *)
(*     (AllInOrder: a step gives, takes and throws only what is its own    *)
(*     train's or nobody's).                                               *)
(***************************************************************************)
EXTENDS RouteAuthority, QueueLemmas

\* A set of nodes that holds a node exactly when it holds its reverse.
Paired(S) == \A n \in Nodes : n \in S <=> Rev[n] \in S

-----------------------------------------------------------------------------
(* Sets of nodes.                                                          *)

(* The reverse twin is a node, and its twin is the node itself.            *)
LEMMA Twins == \A n \in Nodes : Rev[n] \in Nodes /\ Rev[Rev[n]] = n
  BY TrackAssumption DEF TrackAssumption

(* keep_mark_node and zone_add_node_pair always mark both directions.      *)
LEMMA PairPaired == ASSUME NEW S PROVE Paired(Pair(S))
  <1> SUFFICES ASSUME NEW n \in Nodes PROVE n \in Pair(S) <=> Rev[n] \in Pair(S)
    BY DEF Paired
  <1>1. \A m \in Pair(S) : m \in Nodes /\ Rev[m] \in Pair(S)
    BY Twins DEF Pair
  <1> QED  BY <1>1, Twins

LEMMA ZonesPaired == \A z \in Zones : Paired(z)
  <1> TAKE z \in Zones
  <1>1. \E S : z = Pair(S)
    BY DEF Zones, MergeZone
  <1> QED  BY <1>1, PairPaired

(* Adding whole zones keeps a set of marks paired (expand_marks_with_zones). *)
LEMMA ExpandPaired == ASSUME NEW S, Paired(S) PROVE Paired(Expand(S))
  BY ZonesPaired DEF Expand, Paired

LEMMA MarksPaired == ASSUME NEW S PROVE Paired(Expand(Pair(S)))
  BY PairPaired, ExpandPaired

LEMMA FreePaired ==
    ASSUME NEW own, NEW t, NEW S, Pairs(own), Paired(S) PROVE Paired(Free(own, t, S))
  BY DEF Free, Paired, Pairs

-----------------------------------------------------------------------------
(* Changes of the table.                                                   *)

LEMMA DropPairs ==
    ASSUME NEW own, NEW t, NEW keep, Pairs(own), Paired(keep)
    PROVE  Pairs(Drop(own, t, keep))
  BY Twins DEF Drop, Paired, Pairs

LEMMA TakePairs ==
    ASSUME NEW own, NEW t, NEW S, Pairs(own), Paired(S)
    PROVE  Pairs(Take(own, t, S))
  BY Twins DEF Take, Paired, Pairs

(* Reserving a window changes whole pairs (traffic_reserve_plan).          *)
LEMMA ReservePlanPairs ==
    ASSUME NEW own, NEW t, NEW nodes, Pairs(own)
    PROVE  Pairs(ReservePlan(own, t, nodes))
  BY MarksPaired, TakePairs DEF ReservePlan, PlanMarks

LEMMA ReleaseKeepBodyPairs ==
    ASSUME NEW own, NEW w, NEW t, NEW last, NEW body, NEW next, Pairs(own)
    PROVE  Pairs(ReleaseKeepBody(own, w, t, last, body, next))
  <1>1. Pairs(Drop(own, t, KeepBodyMarks(w, last, body, next)))
    BY MarksPaired, DropPairs DEF KeepBodyMarks
  <1> QED  BY <1>1, PairPaired, TakePairs DEF ReleaseKeepBody

LEMMA RefreshRoutePairs ==
    ASSUME NEW own, NEW w, NEW t, NEW cur, NEW next, NEW window, Pairs(own)
    PROVE  Pairs(RefreshRoute(own, w, t, cur, next, window))
  <1> DEFINE keep == Expand(Pair(Segment(w, cur, next) \cup window))
  <1>1. Pairs(Drop(own, t, keep))
    BY MarksPaired, DropPairs
  <1> QED  BY <1>1, PairPaired, TakePairs DEF RefreshRoute

LEMMA RefreshPredictionPairs ==
    ASSUME NEW own, NEW w, NEW t, NEW cur, NEW next, NEW rear, Pairs(own)
    PROVE  Pairs(RefreshPrediction(own, w, t, cur, next, rear))
  <1> DEFINE keep == Expand(Pair(  Segment(w, cur, next)
                              \cup (IF rear > 0 THEN WalkDist(w, Rev[cur], rear) ELSE {})))
  <1>1. Paired(keep)
    BY MarksPaired
  <1> HIDE DEF keep
  <1>2. Pairs(Drop(own, t, keep))
    BY <1>1, DropPairs
  <1>3. Pairs(Take(Drop(own, t, keep), t, Free(own, t, keep)))
    BY <1>1, <1>2, FreePaired, TakePairs
  <1> QED  BY <1>3, PairPaired, TakePairs DEF RefreshPrediction, keep

-----------------------------------------------------------------------------
(* What the handlers do to one train.                                      *)

PairWorld(x) == x = World(x.own, x.sw, x.p) /\ Pairs(x.own)

LEMMA WorldPairs == ASSUME NEW own, NEW w, NEW p, Pairs(own) PROVE PairWorld(World(own, w, p))
  BY DEF PairWorld, World

(* Only the slot of the train changes.                                     *)
LEMMA SlotPairs ==
    ASSUME NEW x, NEW p, PairWorld(x) PROVE PairWorld([x EXCEPT !.p = p])
  BY DEF PairWorld, World

LEMMA RefreshStopPairs ==
    ASSUME NEW own, NEW w, NEW t, NEW p, Pairs(own)
    PROVE  Pairs(RefreshStop(own, w, t, p))
  BY RefreshPredictionPairs, ReleaseKeepBodyPairs, RefreshRoutePairs DEF RefreshStop

LEMMA EnterWaitPairs ==
    ASSUME NEW x, NEW t, NEW mode, PairWorld(x) PROVE PairWorld(EnterWait(x, t, mode))
  <1>1. PairWorld([x EXCEPT !.p.mode = mode])
    BY SlotPairs
  <1>2. ASSUME NEW p
        PROVE  PairWorld(World(IF mode = "RESUME_ROUTE" THEN RefreshStop(x.own, x.sw, t, x.p)
                               ELSE ReleaseKeepBody(x.own, x.sw, t, x.p.cur, Body,
                                                    KeepEnd(x.sw, x.p)), x.sw, p))
    BY RefreshStopPairs, ReleaseKeepBodyPairs, WorldPairs DEF PairWorld
  <1> QED  BY <1>1, <1>2 DEF EnterWait

LEMMA LaunchedPairs ==
    ASSUME NEW x, NEW t, NEW from, NEW e, PairWorld(x)
    PROVE  PairWorld(Launched(x, t, from, e))
  BY ReservePlanPairs, WorldPairs DEF Launched, PairWorld

LEMMA LaunchPairs ==
    ASSUME NEW x, NEW t, PairWorld(x) PROVE \A y \in Launch(x, t) : PairWorld(y)
  <1>1. PairWorld([x EXCEPT !.p.state = "PANIC"])
    BY SlotPairs
  <1> QED  BY <1>1, LaunchedPairs, EnterWaitPairs DEF Launch

LEMMA DirectGotoPairs ==
    ASSUME NEW x, NEW t, PairWorld(x) PROVE \A y \in DirectGoto(x, t) : PairWorld(y)
  <1>1. PairWorld([x EXCEPT !.p.state = "PANIC"])
    BY SlotPairs
  <1>2. PairWorld(EnterWait(x, t, "NONE"))
    BY EnterWaitPairs
  <1>3. ASSUME NEW plan, NEW y \in Launch([x EXCEPT !.p = Commit(x.p, plan)], t)
        PROVE  PairWorld(y)
    BY SlotPairs, LaunchPairs
  <1> QED  BY <1>1, <1>2, <1>3 DEF DirectGoto

(* Planning once more starts from a world that differs in the slot only.   *)
LEMMA PlanAgainPairs ==
    ASSUME NEW x, NEW t, NEW p, PairWorld(x)
    PROVE  \A z \in UNION {DirectGoto(y, t) : y \in {[x EXCEPT !.p = p]}} : PairWorld(z)
  BY SlotPairs, DirectGotoPairs

LEMMA ReplanPairs ==
    ASSUME NEW x, NEW t, PairWorld(x) PROVE \A y \in Replan(x, t) : PairWorld(y)
  BY PlanAgainPairs DEF Replan

LEMMA RelaunchPairs ==
    ASSUME NEW x, NEW t, PairWorld(x) PROVE \A y \in Relaunch(x, t) : PairWorld(y)
  BY EnterWaitPairs, LaunchedPairs, ReplanPairs DEF Relaunch

LEMMA ParkedPairs ==
    ASSUME NEW x, NEW t, NEW g, NEW atGoal, PairWorld(x)
    PROVE  \A y \in Parked(x, t, g, atGoal) : PairWorld(y)
  BY SlotPairs, PlanAgainPairs, EnterWaitPairs DEF Parked

-----------------------------------------------------------------------------
(* The initial table and the steps.                                        *)

LEMMA InitPairs == Init => PairOwned
  <1> SUFFICES ASSUME Init, NEW n \in Nodes PROVE owner[n] = owner[Rev[n]]
    BY DEF PairOwned, Pairs
  <1> HIDE DEF Held
  <1>1. \A t \in Trains : n \in Held(t) <=> Rev[n] \in Held(t)
    BY MarksPaired DEF Held, Paired
  <1>2. \A m \in Nodes : owner[m] = IF \E t \in Trains : m \in Held(t)
                                    THEN CHOOSE t \in Trains : m \in Held(t) ELSE NoTrain
    BY DEF Init
  <1>3. CASE \E t \in Trains : n \in Held(t)
    <2>1. owner[n] \in Trains /\ n \in Held(owner[n])
      BY <1>2, <1>3
    <2>2. owner[Rev[n]] \in Trains /\ Rev[n] \in Held(owner[Rev[n]])
      BY <1>1, <1>2, <1>3, Twins
    <2> QED  BY <1>1, <2>1, <2>2, StartApart
  <1>4. CASE ~ \E t \in Trains : n \in Held(t)
    BY <1>1, <1>2, <1>4, Twins
  <1> QED  BY <1>3, <1>4

LEMMA HerePairs == ASSUME PairOwned, NEW t PROVE PairWorld(Here(t))
  BY WorldPairs DEF PairOwned, Here

LEMMA BecomesPairs ==
    ASSUME NEW t, NEW x, PairWorld(x), Becomes(t, x) PROVE PairOwned'
  BY DEF Becomes, PairWorld, PairOwned, Pairs

(* A place is held in both directions or in neither, whatever the trains   *)
(* are sent to do: PairOwned is inductive, because each change of the table *)
(* adds and removes paired sets of nodes only.                             *)
THEOREM PlacesHeldWhole == Spec => []PairOwned
  <1>1. Init => PairOwned
    BY InitPairs
  <1>2. PairOwned /\ [Next]_vars => PairOwned'
    <2> SUFFICES ASSUME PairOwned, [Next]_vars PROVE PairOwned'
      OBVIOUS
    <2>0. CASE UNCHANGED vars
      BY <2>0 DEF vars, PairOwned, Pairs
    <2>1. ASSUME NEW t \in Trains, NEW g \in Goals[t], Goto(t, g) PROVE PairOwned'
      <3>1. PICK x : PairWorld(x) /\ \E y \in DirectGoto(x, t) : Becomes(t, y)
        BY <2>1, WorldPairs DEF Goto, PairOwned
      <3> QED  BY <3>1, DirectGotoPairs, BecomesPairs
    <2>2. ASSUME NEW t \in Trains, Resume(t) PROVE PairOwned'
      BY <2>2, HerePairs, DirectGotoPairs, RelaunchPairs, BecomesPairs DEF Resume
    <2>3. ASSUME NEW t \in Trains, Settle(t) PROVE PairOwned'
      BY <2>3 DEF Settle, PairOwned, Pairs
    <2>4. ASSUME NEW t \in Trains, Hit(t) PROVE PairOwned'
      <3>1. PICK own, w, p : Becomes(t, World(own, w, p)) /\ Pairs(own)
        BY <2>4, RefreshRoutePairs DEF Hit, HitOn, PairOwned
      <3> QED  BY <3>1, WorldPairs, BecomesPairs
    <2>5. ASSUME NEW t \in Trains, HitOffRoute(t) PROVE PairOwned'
      BY <2>5 DEF HitOffRoute, HitOff, PairOwned, Pairs
    <2>6. ASSUME NEW t \in Trains, TopUp(t) PROVE PairOwned'
      BY <2>6, ReservePlanPairs, WorldPairs, BecomesPairs DEF TopUp, PairOwned
    <2>7. ASSUME NEW t \in Trains, Brake(t) \/ BrakeTold(t) \/ DeadTrack(t) \/ Retry(t)
          PROVE  PairOwned'
      BY <2>7 DEF Brake, BrakeTold, DeadTrack, Retry, PairOwned, Pairs
    <2>8. ASSUME NEW t \in Trains, NEW g \in Goals[t] \cup {NoNode}, Stop(t, g)
          PROVE  PairOwned'
      <3>1. PICK x, atGoal : PairWorld(x) /\ \E y \in Parked(x, t, g, atGoal) : Becomes(t, y)
        BY <2>8, RefreshStopPairs, WorldPairs DEF Stop, PairOwned
      <3> QED  BY <3>1, ParkedPairs, BecomesPairs
    <2>9. ASSUME NEW t \in Trains, RecoveryReplan(t) PROVE PairOwned'
      <3>1. PICK x : PairWorld(x) /\ \E y \in DirectGoto(x, t) : Becomes(t, y)
        BY <2>9, ReleaseKeepBodyPairs, WorldPairs DEF RecoveryReplan, PairOwned
      <3> QED  BY <3>1, DirectGotoPairs, BecomesPairs
    <2> QED
      BY <2>0, <2>1, <2>2, <2>3, <2>4, <2>5, <2>6, <2>7, <2>8, <2>9 DEF Next
  <1> QED
    BY <1>1, <1>2, PTL DEF Spec

-----------------------------------------------------------------------------
(* The invariant of the slots.                                             *)

Sensed == Sensors \cup {NoNode}
Lines == [Branches -> Directions]

\* The route states without PANIC, and the reasons to wait.
RouteStates ==
    {"STOPPED", "WAIT_RESOURCE", "SETTLE", "ON_ROUTE", "STOPPING", "DEAD_TRACK",
     "RECOVERY_STOPPING"}
Reasons == {"NONE", "PRELAUNCH_ROUTE", "RESUME_ROUTE"}
SlotFields ==
    {"state", "cur", "next", "alt", "branch", "path", "at", "rend", "goal", "target", "frozen",
     "mode", "reverse", "onTarget", "noReverse", "sent", "fresh", "recross"}

\* A path along the track that meets no node twice.
Course(q) ==
    /\ q \in Seq(Nodes) /\ q # << >>
    /\ \A i, j \in 1 .. Len(q) : q[i] = q[j] => i = j
    /\ \A i \in 1 .. Len(q) - 1 : q[i + 1] \in Onward(q[i])

\* What holds of the slot of a train whatever it does.
Basic(p) ==
    /\ DOMAIN p = SlotFields
    /\ p.state \in RouteStates /\ p.mode \in Reasons
    /\ p.cur \in Sensors /\ p.next \in Sensed /\ p.goal \in Sensed
    /\ p.path = << >> \/ Course(p.path)

\* A waiting train knows from where on its path it goes on.
Waiting(p) ==
    p.state = "WAIT_RESOURCE" /\ p.mode # "NONE" =>
        /\ p.path # << >> /\ p.at \in 1 .. Len(p.path)
        /\ p.mode = "PRELAUNCH_ROUTE" => p.at = 1

\* A train under way has its window before it, and brakes for a sensor of it.
Windowed(p) ==
    p.state \in Moving =>
        /\ p.path # << >> /\ p.rend \in 1 .. Len(p.path) /\ p.at \in 1 .. p.rend
        /\ p.target = p.path[p.rend]
Braking(p) ==
    ChecksOffroute(p) /\ p.sent => \E k \in 1 .. p.rend : p.path[k] = p.frozen

Slot(p) ==
    /\ Basic(p) /\ Waiting(p) /\ Windowed(p) /\ Braking(p)
    /\ p.state # "STOPPED" => p.goal # NoNode

\* What holds of the turnouts and the slots whatever happens.
Slots ==
    /\ sw \in Lines
    /\ pos = [t \in Trains |-> pos[t]]
    /\ \A t \in Trains : Slot(pos[t])

-----------------------------------------------------------------------------
(* Walks and paths.                                                        *)

Spots == Nodes \cup {NoNode}
Onwards(w) == [n \in Spots |-> Successor(w, n)]

LEMMA TableIs == ASSUME NEW f PROVE Table(f) = f
  BY DEF Table

LEMMA SuccessorSpot ==
    ASSUME NEW w \in Lines, NEW n \in Spots PROVE Successor(w, n) \in Spots
  BY TrackAssumption DEF TrackAssumption, Successor, Spots, Lines


\* The walk from one node, as the table of walks has it.
Walk(w, start) ==
    LET f[k \in 0 .. MaxHops] == IF k = 0 THEN start ELSE Onwards(w)[f[k - 1]] IN Table(f)

LEMMA WalksAre == Walks = [v \in Lines |-> [start \in Spots |-> Walk(v, start)]]
  BY TableIs DEF Walks, Walk, Lines, Spots, Onwards

LEMMA WalksHold ==
    ASSUME NEW w \in Lines, NEW s \in Spots
    PROVE  Walks[w][s] = CHOOSE g : Rounds(g, MaxHops, Onwards(w), s)
<1>1. Walk(w, s) = CHOOSE g : Rounds(g, MaxHops, Onwards(w), s)
  BY TableIs DEF Walk, Rounds
<1> QED  BY <1>1, WalksAre

\* A walk starts where it is asked to and stays on the track.
LEMMA WalkIs ==
    ASSUME NEW w \in Lines, NEW s \in Spots
    PROVE  Walks[w][s] \in WalkKind /\ Walks[w][s][0] = s
<1>1. PICK f : f = Walks[w][s]
  OBVIOUS
<1> DEFINE F == Onwards(w)
<1>5. \A n \in Spots : F[n] \in Spots
  BY SuccessorSpot DEF Onwards
<1> HIDE DEF F
<1>2. MaxHops \in Nat /\ f = CHOOSE g : Rounds(g, MaxHops, F, s)
  BY <1>1, WalksHold, TrackAssumption DEF TrackAssumption, F
<1>3. f[0] = s /\ \A k \in 0 .. MaxHops - 1 : f[k + 1] = F[f[k]]
  BY <1>2, RoundsDo
<1>4. Rounds(f, MaxHops, F, s)
  BY <1>2, RoundsExist
<1> DEFINE T == {k \in 0 .. MaxHops : f[k] \in Spots}
<1>6. 0 \in T
  BY <1>2, <1>3
<1>7. \A k \in 0 .. MaxHops - 1 : k \in T => k + 1 \in T
  BY <1>2, <1>3, <1>5
<1>8. \A k \in 0 .. MaxHops : k \in T
  <2> HIDE DEF T
  <2> QED  BY <1>2, <1>6, <1>7, Stepwise
<1>9. \A k \in 0 .. MaxHops : f[k] \in Spots
  BY <1>8
<1>10. f = [k \in 0 .. MaxHops |-> f[k]]
  BY <1>4 DEF Rounds
<1> QED  BY <1>1, <1>3, <1>9, <1>10 DEF WalkKind, Spots

\* What is read off the walks.
LEMMA OfWalksIs ==
    ASSUME NEW value, NEW w \in Lines, NEW s \in Spots
    PROVE  OfWalks(value)[w][s] = value[Walks[w][s]]
<1> DEFINE K == [Spots -> WalkKind]
           of == [ways \in K |-> Table([start \in Spots |-> value[ways[start]]])]
<1>1. OfWalks(value) = [v \in Lines |-> of[Walks[v]]]
  BY TableIs DEF OfWalks, Lines, Spots
<1>2. Walks[w] \in K
  <2>1. Walks[w] = [start \in Spots |-> Walks[w][start]]
    BY WalksAre
  <2> QED  BY <2>1, WalkIs
<1>3. OfWalks(value)[w] = of[Walks[w]]
  <2> HIDE DEF of
  <2> QED  BY <1>1
<1>4. of[Walks[w]] = [start \in Spots |-> value[Walks[w][start]]]
  BY <1>2, TableIs
<1> HIDE DEF of
<1> QED  BY <1>3, <1>4

LEMMA LeastOf ==
    ASSUME NEW S, NEW a, S \subseteq Nat, a = CHOOSE k \in S : \A j \in S : k <= j, S # {}
    PROVE  a \in S /\ \A j \in S : a <= j
  BY LeastNumber

\* The next sensor is one, if there is one.
LEMMA SensorFromIs ==
    ASSUME NEW w \in Lines, NEW n \in Spots PROVE SensorFrom(w, n) \in Sensed
<1> DEFINE walk == Walks[w][n]
           at(v) == {k \in 0 .. MaxHops : v[k] \in Sensors}
           first == [v \in WalkKind |-> IF at(v) = {} THEN NoNode
                                        ELSE v[CHOOSE k \in at(v) : \A j \in at(v) : k <= j]]
<1>1. FirstSensors = OfWalks(first)
  BY DEF FirstSensors
<1>2. walk \in WalkKind
  BY WalkIs
<1>3. SensorFrom(w, n) = first[walk]
  <2> HIDE DEF first
  <2> QED  BY <1>1, OfWalksIs DEF SensorFrom
<1> HIDE DEF walk
<1>4. at(walk) \subseteq Nat
  BY TrackAssumption DEF TrackAssumption
<1>5. at(walk) # {} => walk[CHOOSE k \in at(walk) : \A j \in at(walk) : k <= j] \in Sensors
  <2> SUFFICES ASSUME at(walk) # {}
               PROVE  walk[CHOOSE k \in at(walk) : \A j \in at(walk) : k <= j] \in Sensors
    OBVIOUS
  <2> DEFINE A == at(walk)
  <2>1. \A k \in A : walk[k] \in Sensors
    OBVIOUS
  <2>2. A \subseteq Nat /\ A # {}
    BY <1>4
  <2>3. PICK a : a = CHOOSE k \in A : \A j \in A : k <= j
    OBVIOUS
  <2>4. a \in A
    <3> HIDE DEF A
    <3> QED  BY <2>2, <2>3, LeastOf
  <2> QED  BY <2>1, <2>3, <2>4
<1> QED  BY <1>2, <1>3, <1>5 DEF Sensed

LEMMA NextSensorIs ==
    ASSUME NEW w \in Lines, NEW n \in Spots PROVE NextSensor(w, n) \in Sensed
  BY SuccessorSpot, SensorFromIs DEF NextSensor

\* A segment holds the node it starts from.
LEMMA SegmentFrom ==
    ASSUME NEW w \in Lines, NEW n \in Nodes, NEW to \in Sensed PROVE n \in Segment(w, n, to)
<1> DEFINE walk == Walks[w][n]
           passed(v, end) == {i \in 0 .. MaxHops : \A j \in 0 .. i - 1 : v[j] # end}
           met(v, end) == {v[k] : k \in passed(v, end)} \ {NoNode}
           upTo == [v \in WalkKind |-> [end \in Nodes |-> met(v, end)]]
<1>1. n \in Spots /\ n # NoNode /\ walk \in WalkKind /\ walk[0] = n /\ MaxHops \in Nat
      /\ (to # NoNode => to \in Nodes)
  BY WalkIs, TrackAssumption DEF TrackAssumption, Spots, Sensed
<1>2. to # NoNode => n \in WalkTo(w, n, to)
  <2> SUFFICES ASSUME to # NoNode PROVE n \in WalkTo(w, n, to)
    OBVIOUS
  <2>1. Stretches = OfWalks(upTo)
    BY TableIs DEF Stretches
  <2>2. WalkTo(w, n, to) = upTo[walk][to]
    <3> HIDE DEF upTo
    <3> QED  BY <1>1, <2>1, OfWalksIs DEF WalkTo
  <2> HIDE DEF walk
  <2>3. upTo[walk][to] = met(walk, to)
    BY <1>1
  <2>4. 0 \in passed(walk, to)
    BY <1>1
  <2>5. walk[0] \in met(walk, to)
    <3> HIDE DEF passed
    <3> QED  BY <1>1, <2>4
  <2> QED  BY <1>1, <2>2, <2>3, <2>5
<1> QED  BY <1>2 DEF Segment

LEMMA OnwardNodes == \A n \in Nodes : Onward(n) \subseteq Nodes
<1> TAKE n \in Nodes
<1>1. n \in Branches => \A d \in Directions : Leg[n][d] \in Nodes
  BY TrackAssumption DEF TrackAssumption
<1>2. n \notin Branches => Ahead[n] \in Nodes \cup {NoNode}
  BY TrackAssumption DEF TrackAssumption
<1> QED  BY <1>1, <1>2 DEF Onward

\* A path goes on to a node it has not met.
LEMMA CourseOn ==
    ASSUME NEW q, Course(q), NEW n \in Onward(q[Len(q)]) \ {q[i] : i \in 1 .. Len(q)}
    PROVE  Course(Append(q, n))
<1> DEFINE a == Append(q, n)
<1>1. q \in Seq(Nodes) /\ Len(q) \in Nat /\ Len(q) > 0 /\ q[Len(q)] \in Nodes
  BY DEF Course
<1>2. n \in Nodes /\ n \in Onward(q[Len(q)]) /\ \A i \in 1 .. Len(q) : q[i] # n
  BY <1>1, OnwardNodes
<1>3. /\ a \in Seq(Nodes) /\ Len(a) = Len(q) + 1 /\ a[Len(q) + 1] = n
      /\ \A i \in 1 .. Len(q) : a[i] = q[i]
  BY <1>1, <1>2
<1> HIDE DEF a
<1>4. \A i \in 1 .. Len(a) : i \in 1 .. Len(q) \/ i = Len(q) + 1
  BY <1>1, <1>3
<1>5. \A i, j \in 1 .. Len(a) : a[i] = a[j] => i = j
  BY <1>2, <1>3, <1>4 DEF Course
<1>6. \A i \in 1 .. Len(a) - 1 : a[i + 1] \in Onward(a[i])
  <2> TAKE i \in 1 .. Len(a) - 1
  <2>1. CASE i = Len(q)
    BY <1>1, <1>2, <1>3, <2>1
  <2>2. CASE i # Len(q)
    <3>1. i \in 1 .. Len(q) - 1 /\ i \in 1 .. Len(q) /\ i + 1 \in 1 .. Len(q)
      BY <1>1, <1>3, <2>2
    <3> QED  BY <1>3, <3>1 DEF Course
  <2> QED  BY <2>1, <2>2
<1>7. a # << >>
  BY <1>1, <1>3
<1> QED  BY <1>3, <1>5, <1>6, <1>7 DEF Course, a

LEMMA CourseOne == ASSUME NEW o \in Nodes PROVE Course(<<o>>)
  BY DEF Course

\* One round of the search lengthens every path by a node.
LongerBy(Q) == UNION {{Append(q, n) : n \in Onward(q[Len(q)]) \ {q[i] : i \in 1 .. Len(q)}} : q \in Q}
Lengthen == [Q \in SUBSET Seq(Nodes) |-> LongerBy(Q)]
PathsFrom(o) ==
    LET of[k \in 0 .. MaxHops - 1] == IF k = 0 THEN {<<o>>} ELSE Lengthen[of[k - 1]]
    IN  UNION {of[k] : k \in 0 .. MaxHops - 1}

Courses == {q \in Seq(Nodes) : Course(q)}

LEMMA PathsFromCourses == ASSUME NEW o \in Nodes PROVE PathsFrom(o) \subseteq Courses
<1>1. PICK N \in Nat : N = MaxHops - 1
  BY TrackAssumption DEF TrackAssumption
<1>2. PICK s, F : s = {<<o>>} /\ F = Lengthen
  OBVIOUS
<1> DEFINE f == CHOOSE g : Rounds(g, N, F, s)
<1>3. PathsFrom(o) = UNION {f[k] : k \in 0 .. N}
  BY <1>1, <1>2 DEF PathsFrom, Rounds
<1>4. \A Q \in SUBSET Courses : F[Q] \in SUBSET Courses
  <2> TAKE Q \in SUBSET Courses
  <2>1. Q \in SUBSET Seq(Nodes) /\ \A q \in Q : Course(q)
    BY DEF Courses
  <2>2. F[Q] = LongerBy(Q)
    BY <1>2, <2>1 DEF Lengthen
  <2>3. \A a \in LongerBy(Q) : Course(a)
    <3> TAKE a \in LongerBy(Q)
    <3>1. PICK q \in Q : a \in {Append(q, n) : n \in Onward(q[Len(q)]) \ {q[i] : i \in 1 .. Len(q)}}
      BY DEF LongerBy
    <3> DEFINE new == Onward(q[Len(q)]) \ {q[i] : i \in 1 .. Len(q)}
    <3>2. PICK n \in new : a = Append(q, n)
      BY <3>1
    <3> QED  BY <2>1, <3>2, CourseOn
  <2> QED  BY <2>2, <2>3 DEF Courses, Course
<1>5. s \in SUBSET Courses
  BY <1>2, CourseOne DEF Courses, Course
<1>6. f[0] = s /\ \A k \in 0 .. N - 1 : f[k + 1] = F[f[k]]
  <2>1. Rounds(f, N, F, s)
    BY RoundsExist
  <2> HIDE DEF f
  <2>2. \A k \in 0 .. N : f[k] = IF k = 0 THEN s ELSE F[f[k - 1]]
    BY <2>1 DEF Rounds
  <2>3. 0 \in 0 .. N /\ \A k \in 0 .. N - 1 : k + 1 \in 0 .. N /\ k + 1 # 0 /\ (k + 1) - 1 = k
    OBVIOUS
  <2> QED  BY <2>2, <2>3
<1> HIDE DEF f
<1> DEFINE T == {k \in 0 .. N : f[k] \in SUBSET Courses}
<1>7. 0 \in T
  BY <1>1, <1>5, <1>6
<1>8. \A k \in 0 .. N - 1 : k \in T => k + 1 \in T
  BY <1>1, <1>4, <1>6
<1>9. \A k \in 0 .. N : k \in T
  <2> HIDE DEF T
  <2> QED  BY <1>1, <1>7, <1>8, Stepwise
<1> QED  BY <1>3, <1>9

\* Every path the search may return is one.
LEMMA PathsAre == ASSUME NEW o \in Sensors, NEW g \in Sensors PROVE \A q \in Paths[o][g] : Course(q)
<1> DEFINE ending(paths) == Table([e \in Sensors |-> {q \in paths : Same(q[Len(q)], e)}])
<1>1. Paths = [s \in Sensors |-> ending(PathsFrom(s))]
  BY TableIs DEF Paths, PathsFrom, Lengthen, LongerBy
<1>2. Paths[o][g] \subseteq PathsFrom(o)
  <2>1. Paths[o] = ending(PathsFrom(o))
    <3> HIDE DEF ending
    <3> QED  BY <1>1
  <2> QED  BY <2>1, TableIs
<1>3. o \in Nodes
  BY TrackAssumption DEF TrackAssumption
<1> QED  BY <1>2, <1>3, PathsFromCourses DEF Courses

-----------------------------------------------------------------------------
(* What the helpers leave of a slot.                                       *)

SameTrain(p, q) == q.cur = p.cur /\ q.goal = p.goal
SameRoute(p, q) == q.path = p.path /\ q.at = p.at /\ q.rend = p.rend /\ q.target = p.target
SameDoing(p, q) == q.state = p.state /\ q.mode = p.mode /\ q.sent = p.sent /\ q.frozen = p.frozen

LEMMA PredictSlot ==
    ASSUME NEW w \in Lines, NEW p, Basic(p), NEW q, q = Predict(w, p)
    PROVE  /\ DOMAIN q = SlotFields /\ q.next \in Sensed
           /\ SameTrain(p, q) /\ SameRoute(p, q) /\ SameDoing(p, q)
<1>1. p.cur \in Spots /\ DOMAIN p = SlotFields
  BY TrackAssumption DEF TrackAssumption, Basic, Spots
<1>2. DOMAIN q = SlotFields /\ q.next = NextSensor(w, p.cur)
  BY <1>1 DEF Predict, SlotFields
<1>3. SameTrain(p, q) /\ SameRoute(p, q) /\ SameDoing(p, q)
  BY <1>1 DEF Predict, SlotFields, SameTrain, SameRoute, SameDoing
<1> QED  BY <1>1, <1>2, <1>3, NextSensorIs

LEMMA ClearPredictionSlot ==
    ASSUME NEW p, DOMAIN p = SlotFields, NEW q, q = ClearPrediction(p)
    PROVE  /\ DOMAIN q = SlotFields /\ q.next = NoNode
           /\ SameTrain(p, q) /\ SameRoute(p, q) /\ SameDoing(p, q)
  BY DEF ClearPrediction, SlotFields, SameTrain, SameRoute, SameDoing

LEMMA SyncTargetSlot ==
    ASSUME NEW p, DOMAIN p = SlotFields, NEW q, q = SyncTarget(p)
    PROVE  /\ DOMAIN q = SlotFields /\ q.next = p.next
           /\ SameTrain(p, q) /\ SameDoing(p, q)
           /\ q.path = p.path /\ q.at = p.at
           /\ q.rend = IF p.rend < p.at THEN p.at ELSE p.rend
           /\ q.target = p.path[q.rend]
  BY DEF SyncTarget, SlotFields, SameTrain, SameDoing

LEMMA SetOffSlot ==
    ASSUME NEW p, NEW q, DOMAIN p = SlotFields, q = SetOff(p)
    PROVE  /\ DOMAIN q = SlotFields /\ q.next = p.next
           /\ SameTrain(p, q) /\ SameRoute(p, q) /\ q.mode = p.mode
           /\ q.state = "ON_ROUTE" /\ q.sent = FALSE
  BY DEF SetOff, SlotFields, SameTrain, SameRoute

LEMMA PrepareSlot ==
    ASSUME NEW p, DOMAIN p = SlotFields, NEW g, NEW q, q = Prepare(p, g)
    PROVE  /\ DOMAIN q = SlotFields /\ q.next = p.next /\ q.cur = p.cur /\ q.state = p.state
           /\ q.goal = g /\ q.path = << >> /\ q.mode = "NONE"
  BY DEF Prepare, ClearRoute, SlotFields

LEMMA CommitSlot ==
    ASSUME NEW p, NEW plan, NEW q, DOMAIN p = SlotFields, q = Commit(p, plan)
    PROVE  /\ DOMAIN q = SlotFields /\ q.next = p.next /\ SameTrain(p, q) /\ q.state = p.state
           /\ q.path = plan[1] /\ q.at = 1 /\ q.mode = "PRELAUNCH_ROUTE"
  BY DEF Commit, ClearRoute, SlotFields, SameTrain

LEMMA TurnedSlot ==
    ASSUME NEW p, DOMAIN p = SlotFields, NEW q, q = Turned(p)
    PROVE  /\ DOMAIN q = SlotFields /\ q.goal = p.goal
           /\ SameRoute(p, q) /\ SameDoing(p, q)
           /\ \/ q.cur = p.cur /\ q.next = p.next
              \/ q.cur = Rev[p.cur] /\ q.next = Rev[p.cur]
<1>1. CASE p.reverse
  BY <1>1 DEF Turned, ClearPrediction, SlotFields, SameRoute, SameDoing
<1>2. CASE ~p.reverse
  BY <1>2 DEF Turned, SlotFields, SameRoute, SameDoing
<1> QED  BY <1>1, <1>2

LEMMA EnterRecoverySlot ==
    ASSUME NEW p, DOMAIN p = SlotFields, NEW q, q = EnterRecovery(p)
    PROVE  /\ DOMAIN q = SlotFields /\ q.next = p.next
           /\ SameTrain(p, q) /\ SameRoute(p, q) /\ q.mode = p.mode
           /\ q.state = "RECOVERY_STOPPING"
  BY DEF EnterRecovery, SlotFields, SameTrain, SameRoute

LEMMA SettledSlot ==
    ASSUME NEW w \in Lines, NEW p, Basic(p), NEW q, q = Settled(w, p)
    PROVE  /\ DOMAIN q = SlotFields /\ q.next \in Sensed
           /\ SameTrain(p, q) /\ SameRoute(p, q) /\ q.mode = p.mode
           /\ q.state = "ON_ROUTE" /\ q.sent = FALSE
<1>1. CASE p.recross
  <2> DEFINE r == [ClearPrediction(p) EXCEPT !.next = p.cur]
  <2>1. q = SetOff(r)
    BY <1>1 DEF Settled
  <2>2. /\ DOMAIN r = SlotFields /\ r.next = p.cur
        /\ SameTrain(p, r) /\ SameRoute(p, r) /\ r.mode = p.mode
    BY DEF Basic, ClearPrediction, SlotFields, SameTrain, SameRoute
  <2> HIDE DEF r
  <2>3. /\ DOMAIN q = SlotFields /\ q.next = r.next
        /\ SameTrain(r, q) /\ SameRoute(r, q) /\ q.mode = r.mode
        /\ q.state = "ON_ROUTE" /\ q.sent = FALSE
    BY <2>1, <2>2, SetOffSlot
  <2> QED  BY <2>2, <2>3 DEF Basic, Sensed, SameTrain, SameRoute
<1>2. CASE ~p.recross
  <2> DEFINE r == Predict(w, p)
  <2>1. q = SetOff(r)
    BY <1>2 DEF Settled
  <2>2. /\ DOMAIN r = SlotFields /\ r.next \in Sensed
        /\ SameTrain(p, r) /\ SameRoute(p, r) /\ r.mode = p.mode
    BY PredictSlot DEF SameDoing
  <2> HIDE DEF r
  <2>3. /\ DOMAIN q = SlotFields /\ q.next = r.next
        /\ SameTrain(r, q) /\ SameRoute(r, q) /\ q.mode = r.mode
        /\ q.state = "ON_ROUTE" /\ q.sent = FALSE
    BY <2>1, <2>2, SetOffSlot
  <2> QED  BY <2>2, <2>3 DEF SameTrain, SameRoute
<1> QED  BY <1>1, <1>2

-----------------------------------------------------------------------------
(* Turnouts and windows.                                                   *)

LEMMA GreatestOf ==
    ASSUME NEW n \in Nat, NEW S, S \subseteq 0 .. n, S # {},
           NEW a, a = CHOOSE k \in S : \A j \in S : k >= j
    PROVE  a \in S
<1> DEFINE R == {n - i : i \in S}
<1>1. R \subseteq Nat /\ R # {}
  <2>1. \A i \in 0 .. n : n - i \in Nat
    OBVIOUS
  <2>2. \A i \in S : n - i \in Nat
    BY <2>1
  <2> QED  BY <2>2
<1>2. PICK m \in R : \A j \in R : m <= j
  <2> HIDE DEF R
  <2> QED  BY <1>1, LeastNumber
<1>3. PICK k \in S : m = n - k
  OBVIOUS
<1>4. \A j \in S : k >= j
  <2> TAKE j \in S
  <2>1. n - j \in R
    OBVIOUS
  <2>2. m <= n - j
    <3> HIDE DEF R
    <3> QED  BY <1>2, <2>1
  <2>3. k \in Nat /\ j \in Nat
    OBVIOUS
  <2> QED  BY <1>3, <2>2, <2>3
<1> QED  BY <1>4

LEMMA UnblockedTurnouts ==
    ASSUME NEW own, NEW w, NEW n \in Nat, NEW sws, NEW i \in DOMAIN sws, NEW b, NEW d,
           DOMAIN sws \subseteq 0 .. n, SwitchBlocker(own, w, sws) = NoTrain,
           sws[i][1] = b, sws[i][2] = d, w[b] # d
    PROVE  CanSetSwitch(own, b) = NoTrain
<1> DEFINE B == {k \in DOMAIN sws : /\ w[sws[k][1]] # sws[k][2]
                                    /\ CanSetSwitch(own, sws[k][1]) # NoTrain}
<1> SUFFICES ASSUME B # {} PROVE FALSE
  OBVIOUS
<1>1. PICK a : a = CHOOSE k \in B : \A j \in B : k >= j
  OBVIOUS
<1>2. B \subseteq 0 .. n
  OBVIOUS
<1>3. CanSetSwitch(own, sws[a][1]) = NoTrain
  BY <1>1 DEF SwitchBlocker
<1>4. \A k \in B : CanSetSwitch(own, sws[k][1]) # NoTrain
  OBVIOUS
<1> HIDE DEF B
<1>5. a \in B
  BY <1>1, <1>2, GreatestOf
<1> QED  BY <1>3, <1>4, <1>5

LEMMA FreeTurnout ==
    ASSUME NEW own, NEW b \in Branches, CanSetSwitch(own, b) = NoTrain PROVE own[b] = NoTrain
<1> DEFINE taken == {i \in 1 .. 6 : own[Envelope[b][i]] # NoTrain}
<1>1. Envelope[b][1] = b
  BY TableIs DEF Envelope
<1> SUFFICES ASSUME taken # {} PROVE FALSE
  BY <1>1
<1>2. PICK a : a = CHOOSE i \in taken : \A j \in taken : i <= j
  OBVIOUS
<1>3. own[Envelope[b][a]] = NoTrain
  BY <1>2 DEF CanSetSwitch
<1>4. taken \subseteq Nat /\ \A i \in taken : own[Envelope[b][i]] # NoTrain
  OBVIOUS
<1> HIDE DEF taken
<1>5. a \in taken
  BY <1>2, <1>4, LeastOf
<1> QED  BY <1>3, <1>4, <1>5

\* The branches a window wants thrown: all of it but its last node, at least,
\* and never the last node of the path.
LEMMA WindowSwitchesAre ==
    ASSUME NEW path, Course(path), NEW from \in 1 .. Len(path), NEW e \in from .. Len(path),
           NEW sws, sws = WindowSwitches(path, from, e)
    PROVE  /\ DOMAIN sws \subseteq 0 .. Len(path)
           /\ \A i \in DOMAIN sws : /\ i \in 1 .. Len(path) - 1 /\ path[i] \in Branches
                                    /\ sws[i] = << path[i], DirectionTo(path[i], path[i + 1]) >>
           /\ \A i \in from .. e - 1 : path[i] \in Branches => i \in DOMAIN sws
<1>1. PICK last : last = IF TrailingBranch(path, e) THEN e + 1 ELSE e - 1
  OBVIOUS
<1>2. Len(path) \in Nat /\ last \in Int /\ last <= Len(path) - 1 /\ e - 1 <= last
  BY <1>1 DEF Course, TrailingBranch
<1>3. sws = SwitchesUpTo(path, from, last)
  BY <1>1 DEF WindowSwitches
<1>4. /\ DOMAIN sws = {k \in from .. last : path[k] \in Branches}
      /\ \A i \in DOMAIN sws : sws[i] = << path[i], DirectionTo(path[i], path[i + 1]) >>
  BY <1>3 DEF SwitchesUpTo
<1> QED  BY <1>2, <1>4

LEMMA LegLeads ==
    ASSUME NEW b \in Branches, NEW n \in Onward(b)
    PROVE  DirectionTo(b, n) \in Directions /\ Leg[b][DirectionTo(b, n)] = n
  BY DEF Onward, DirectionTo, Directions

\* What is thrown for a window.
LEMMA ThrowIs ==
    ASSUME NEW w \in Lines, NEW path, Course(path), NEW from \in 1 .. Len(path),
           NEW e \in from .. Len(path), NEW sws, sws = WindowSwitches(path, from, e),
           NEW b \in Branches
    PROVE  \/ Throw(w, sws)[b] = w[b] /\ \A i \in DOMAIN sws : path[i] # b
           \/ \E i \in DOMAIN sws : path[i] = b /\ Throw(w, sws)[b] = sws[i][2]
<1> DEFINE at == {i \in DOMAIN sws : sws[i][1] = b}
<1>1. Throw(w, sws)[b] = IF at = {} THEN w[b] ELSE sws[CHOOSE i \in at : \A j \in at : i <= j][2]
  BY DEF Throw
<1>2. DOMAIN sws \subseteq Nat /\ \A i \in DOMAIN sws : sws[i][1] = path[i]
  BY WindowSwitchesAre DEF Course
<1>3. CASE at = {}
  BY <1>1, <1>2, <1>3
<1>4. CASE at # {}
  <2>1. PICK a : a = CHOOSE i \in at : \A j \in at : i <= j
    OBVIOUS
  <2>2. at \subseteq Nat
    BY <1>2
  <2>3. a \in at
    <3> HIDE DEF at
    <3> QED  BY <1>4, <2>1, <2>2, LeastOf
  <2> QED  BY <1>1, <1>2, <1>4, <2>1, <2>3
<1> QED  BY <1>3, <1>4

\* A window that is granted throws turnouts that nobody holds, and lines its path.
LinesUp(own, w, new, path, from, e) ==
    /\ new \in Lines
    /\ \A b \in Branches : new[b] # w[b] => own[b] = NoTrain
    /\ \A i \in from .. e - 1 : path[i] \in Branches => path[i + 1] = Leg[path[i]][new[path[i]]]

LEMMA Lined ==
    ASSUME NEW own, NEW t, NEW w \in Lines, NEW path, NEW from, NEW e, NEW new,
           Course(path), from \in 1 .. Len(path), e \in from .. Len(path),
           Granted(own, w, t, path, from, e), new = Throw(w, WindowSwitches(path, from, e))
    PROVE  LinesUp(own, w, new, path, from, e)
<1>1. PICK sws : sws = WindowSwitches(path, from, e)
  OBVIOUS
<1>2. /\ DOMAIN sws \subseteq 0 .. Len(path) /\ Len(path) \in Nat
      /\ \A i \in DOMAIN sws : /\ i \in 1 .. Len(path) - 1 /\ path[i] \in Branches
                               /\ sws[i] = << path[i], DirectionTo(path[i], path[i + 1]) >>
      /\ \A i \in from .. e - 1 : path[i] \in Branches => i \in DOMAIN sws
  BY <1>1, WindowSwitchesAre DEF Course
<1>3. SwitchBlocker(own, w, sws) = NoTrain /\ new = Throw(w, sws)
  BY <1>1 DEF Granted
<1>4. \A b \in Branches :
         \/ new[b] = w[b] /\ \A i \in DOMAIN sws : path[i] # b
         \/ \E i \in DOMAIN sws : path[i] = b /\ new[b] = sws[i][2]
  BY <1>1, <1>3, ThrowIs
<1>5. /\ \A i \in DOMAIN sws : path[i + 1] \in Onward(path[i])
      /\ \A i, j \in DOMAIN sws : path[i] = path[j] => i = j
  <2>1. \A i \in DOMAIN sws : i \in 1 .. Len(path) - 1 /\ i \in 1 .. Len(path)
    BY <1>2
  <2>2. /\ \A i \in 1 .. Len(path) - 1 : path[i + 1] \in Onward(path[i])
        /\ \A i, j \in 1 .. Len(path) : path[i] = path[j] => i = j
    BY DEF Course
  <2> QED  BY <2>1, <2>2
<1>6. \A i \in DOMAIN sws : sws[i][1] = path[i] /\ sws[i][2] \in Directions /\ path[i + 1] = Leg[path[i]][sws[i][2]]
  BY <1>2, <1>5, LegLeads
<1>7. new \in Lines
  <2>1. new = [b \in Branches |-> new[b]]
    BY <1>3 DEF Throw
  <2>2. \A b \in Branches : new[b] \in Directions
    BY <1>4, <1>6 DEF Lines
  <2> QED  BY <2>1, <2>2 DEF Lines
<1>8. ASSUME NEW b \in Branches, new[b] # w[b] PROVE own[b] = NoTrain
  <2>1. PICK i \in DOMAIN sws : path[i] = b /\ new[b] = sws[i][2]
    BY <1>4, <1>8
  <2>2. sws[i][1] = b /\ w[b] # sws[i][2]
    BY <1>6, <1>8, <2>1
  <2>3. CanSetSwitch(own, b) = NoTrain
    <3>1. DOMAIN sws \subseteq 0 .. Len(path) /\ Len(path) \in Nat
      BY <1>2
    <3>2. PICK d : d = sws[i][2]
      OBVIOUS
    <3> QED  BY <1>3, <2>2, <3>1, <3>2, UnblockedTurnouts
  <2> QED  BY <2>3, FreeTurnout
<1>9. ASSUME NEW i \in from .. e - 1, path[i] \in Branches
      PROVE  path[i + 1] = Leg[path[i]][new[path[i]]]
  <2>1. i \in DOMAIN sws
    BY <1>2, <1>9
  <2>2. new[path[i]] = sws[i][2]
    BY <1>4, <1>5, <1>9, <2>1
  <2> QED  BY <1>6, <2>1, <2>2
<1> QED  BY <1>7, <1>8, <1>9 DEF LinesUp

\* A path that leaves alone what its train holds is not blocked by that train.
LEMMA NotSelfBlocked ==
    ASSUME NEW own, NEW t \in Trains, NEW w \in Lines, NEW path, Course(path),
           Keeps(w, Fixed(own, t), path), path # << >>
    PROVE  ~SelfBlocked(own, w, t, path, 1)
<1> SUFFICES ASSUME NEW e \in Ends(path, 1),
                    SwitchBlocker(own, w, WindowSwitches(path, 1, e)) = t
             PROVE  FALSE
  BY DEF SelfBlocked
<1>1. PICK sws : sws = WindowSwitches(path, 1, e)
  OBVIOUS
<1>2. Len(path) \in Nat /\ 1 \in 1 .. Len(path) /\ e \in 1 .. Len(path)
  BY DEF Ends, Course
<1>3. /\ DOMAIN sws \subseteq 0 .. Len(path)
      /\ \A i \in DOMAIN sws : /\ i \in 1 .. Len(path) - 1 /\ path[i] \in Branches
                               /\ sws[i] = << path[i], DirectionTo(path[i], path[i + 1]) >>
  BY <1>1, <1>2, WindowSwitchesAre
<1> DEFINE B == {k \in DOMAIN sws : /\ w[sws[k][1]] # sws[k][2]
                                    /\ CanSetSwitch(own, sws[k][1]) # NoTrain}
<1>4. PICK a : a = CHOOSE k \in B : \A j \in B : k >= j
  OBVIOUS
<1>5. B # {} /\ CanSetSwitch(own, sws[a][1]) = t
  BY <1>1, <1>4, TrackAssumption DEF TrackAssumption, SwitchBlocker
<1>6. a \in B
  <2>1. B \subseteq 0 .. Len(path)
    BY <1>3
  <2> HIDE DEF B
  <2> QED  BY <1>2, <1>4, <1>5, <2>1, GreatestOf
<1>7. a \in DOMAIN sws /\ w[sws[a][1]] # sws[a][2]
  BY <1>6
<1>8. /\ a \in 1 .. Len(path) - 1 /\ path[a] \in Branches
      /\ sws[a] = << path[a], DirectionTo(path[a], path[a + 1]) >>
  BY <1>3, <1>7
<1> HIDE DEF B
<1>9. path[a] \in Fixed(own, t)
  BY <1>5, <1>8 DEF Fixed
<1>10. path[a + 1] = Leg[path[a]][w[path[a]]]
  BY <1>8, <1>9 DEF Keeps
<1>11. DirectionTo(path[a], path[a + 1]) = w[path[a]]
  BY <1>8, <1>10, TrackAssumption DEF TrackAssumption, DirectionTo, Lines, Directions
<1> QED  BY <1>7, <1>8, <1>11

LEMMA WindowIs ==
    ASSUME NEW own, NEW w, NEW t, NEW path, Course(path), NEW from \in 1 .. Len(path),
           NEW past, NEW e \in Window(own, w, t, path, from, past)
    PROVE  e \in from .. Len(path) /\ e > past /\ Granted(own, w, t, path, from, e)
  BY DEF Window, Ends, Course

-----------------------------------------------------------------------------
(* What a train does to the table on its own behalf.                       *)

\* Only what is t's or nobody's changes, and becomes t's or nobody's.
Fair(own, new, t) ==
    \A n \in Nodes : \/ new[n] = own[n]
                     \/ own[n] \in {t, NoTrain} /\ new[n] \in {t, NoTrain}

Owns(own, t, n) == own[n] = t

LEMMA FairOn ==
    ASSUME NEW a, NEW b, NEW c, NEW t, Fair(a, b, t), Fair(b, c, t) PROVE Fair(a, c, t)
  BY DEF Fair

LEMMA FairSame == ASSUME NEW own, NEW t PROVE Fair(own, own, t)
  BY DEF Fair

LEMMA DropFair ==
    ASSUME NEW own, NEW t, NEW keep
    PROVE  /\ Fair(own, Drop(own, t, keep), t)
           /\ \A n \in Nodes : own[n] = t => Drop(own, t, keep)[n] \in {t, NoTrain}
           /\ \A n \in Nodes \cap keep : Drop(own, t, keep)[n] = own[n]
  BY DEF Fair, Drop

LEMMA TakeFair ==
    ASSUME NEW own, NEW t, NEW S, \A n \in S \cap Nodes : own[n] \in {t, NoTrain}
    PROVE  /\ Fair(own, Take(own, t, S), t)
           /\ \A n \in Nodes : n \in S \/ own[n] = t => Take(own, t, S)[n] = t
  BY DEF Fair, Take

\* What is given back first and then taken: the pair under the train.
LEMMA GiveBackFair ==
    ASSUME NEW own, NEW t, NEW n \in Nodes, NEW keep, Pairs(own), Owns(own, t, n)
    PROVE  /\ Fair(own, Take(Drop(own, t, keep), t, Pair({n})), t)
           /\ Owns(Take(Drop(own, t, keep), t, Pair({n})), t, n)
           /\ \A m \in Nodes \cap keep :
                 Owns(own, t, m) => Owns(Take(Drop(own, t, keep), t, Pair({n})), t, m)
<1>1. PICK left, pair : left = Drop(own, t, keep) /\ pair = Pair({n})
  OBVIOUS
<1>2. pair = {n, Rev[n]} /\ Rev[n] \in Nodes
  BY <1>1, Twins DEF Pair
<1>3. own[n] = t /\ own[Rev[n]] = t
  BY DEF Pairs, Owns
<1>4. /\ Fair(own, left, t)
      /\ \A m \in Nodes : own[m] = t => left[m] \in {t, NoTrain}
      /\ \A m \in Nodes \cap keep : left[m] = own[m]
  BY <1>1, DropFair
<1>5. \A m \in pair \cap Nodes : left[m] \in {t, NoTrain}
  BY <1>2, <1>3, <1>4
<1>6. /\ Fair(left, Take(left, t, pair), t)
      /\ \A m \in Nodes : m \in pair \/ left[m] = t => Take(left, t, pair)[m] = t
  BY <1>5, TakeFair
<1>7. Fair(own, Take(left, t, pair), t)
  BY <1>4, <1>6, FairOn
<1> QED  BY <1>1, <1>2, <1>4, <1>6, <1>7 DEF Owns

LEMMA ReleaseKeepBodyFair ==
    ASSUME NEW own, NEW w, NEW t, NEW n \in Nodes, NEW body, NEW next, Pairs(own), Owns(own, t, n)
    PROVE  /\ Fair(own, ReleaseKeepBody(own, w, t, n, body, next), t)
           /\ Owns(ReleaseKeepBody(own, w, t, n, body, next), t, n)
  BY GiveBackFair DEF ReleaseKeepBody

(* The marks of a window are nodes, the window among them, and grow with it. *)
LEMMA MarksAre ==
    ASSUME NEW S PROVE S \cap Nodes \subseteq PlanMarks(S) /\ PlanMarks(S) \subseteq Nodes
<1>1. \A R : R \cap Nodes \subseteq Pair(R) /\ Pair(R) \subseteq Nodes
  BY Twins DEF Pair
<1>2. \A z \in Zones : z \subseteq Nodes
  BY <1>1 DEF Zones, MergeZone
<1> QED  BY <1>1, <1>2 DEF PlanMarks, Expand

LEMMA MarksGrow ==
    ASSUME NEW S, NEW R, S \subseteq R
    PROVE  Expand(Pair(S)) \subseteq Expand(Pair(R))
<1>1. Pair(S) \subseteq Pair(R)
  BY DEF Pair
<1> QED  BY <1>1 DEF Expand

\* The window before a train is given back only behind it.
LEMMA RefreshRouteFair ==
    ASSUME NEW own, NEW w, NEW t, NEW n \in Nodes, NEW next, NEW window,
           Pairs(own), Owns(own, t, n)
    PROVE  /\ Fair(own, RefreshRoute(own, w, t, n, next, window), t)
           /\ Owns(RefreshRoute(own, w, t, n, next, window), t, n)
           /\ \A m \in PlanMarks(window) :
                 Owns(own, t, m) => Owns(RefreshRoute(own, w, t, n, next, window), t, m)
<1>1. PICK keep : keep = Expand(Pair(Segment(w, n, next) \cup window))
  OBVIOUS
<1>2. RefreshRoute(own, w, t, n, next, window) = Take(Drop(own, t, keep), t, Pair({n}))
  BY <1>1 DEF RefreshRoute
<1>3. PlanMarks(window) \subseteq keep /\ PlanMarks(window) \subseteq Nodes
  <2>1. window \subseteq Segment(w, n, next) \cup window
    OBVIOUS
  <2> QED  BY <1>1, <2>1, MarksGrow, MarksAre DEF PlanMarks
<1> QED  BY <1>2, <1>3, GiveBackFair

LEMMA RefreshPredictionFair ==
    ASSUME NEW own, NEW w, NEW t, NEW n \in Nodes, NEW next, NEW rear, Pairs(own), Owns(own, t, n)
    PROVE  /\ Fair(own, RefreshPrediction(own, w, t, n, next, rear), t)
           /\ Owns(RefreshPrediction(own, w, t, n, next, rear), t, n)
<1>1. PICK keep : keep = Expand(Pair(  Segment(w, n, next)
                              \cup (IF rear > 0 THEN WalkDist(w, Rev[n], rear) ELSE {})))
  OBVIOUS
<1>2. PICK left, pair : left = Drop(own, t, keep) /\ pair = Pair({n})
  OBVIOUS
<1>3. PICK more : more = Take(left, t, Free(own, t, keep))
  OBVIOUS
<1>4. RefreshPrediction(own, w, t, n, next, rear) = Take(more, t, pair)
  BY <1>1, <1>2, <1>3 DEF RefreshPrediction
<1>5. /\ Fair(own, left, t)
      /\ \A m \in Nodes : own[m] = t => left[m] \in {t, NoTrain}
      /\ \A m \in Nodes \cap keep : left[m] = own[m]
  BY <1>2, DropFair
<1>6. Fair(left, more, t) /\ \A m \in Nodes : left[m] = t => more[m] = t
  <2>1. \A m \in Free(own, t, keep) \cap Nodes : left[m] \in {t, NoTrain}
    BY <1>5 DEF Free
  <2> QED  BY <1>3, <2>1, TakeFair
<1>7. pair = {n, Rev[n]} /\ Rev[n] \in Nodes /\ own[n] = t /\ own[Rev[n]] = t
  BY <1>2, Twins DEF Pair, Pairs, Owns
<1>8. more[n] \in {t, NoTrain} /\ more[Rev[n]] \in {t, NoTrain}
  BY <1>5, <1>6, <1>7 DEF Fair
<1>9. Fair(more, Take(more, t, pair), t) /\ Take(more, t, pair)[n] = t
  <2>1. \A m \in pair \cap Nodes : more[m] \in {t, NoTrain}
    BY <1>7, <1>8
  <2> QED  BY <1>7, <2>1, TakeFair
<1>10. Fair(own, Take(more, t, pair), t)
  BY <1>5, <1>6, <1>9, FairOn
<1> QED  BY <1>4, <1>9, <1>10 DEF Owns

\* What is reserved was free, and is held with every zone it touches.
LEMMA ReservePlanFair ==
    ASSUME NEW own, NEW t, NEW path, NEW from, NEW e, NEW new,
           CanReservePlan(own, t, WindowNodes(path, from, e)),
           new = ReservePlan(own, t, WindowNodes(path, from, e))
    PROVE  /\ Fair(own, new, t)
           /\ \A n \in Nodes : Owns(own, t, n) => Owns(new, t, n)
           /\ \A n \in PlanMarks(WindowTail(path, from, e)) : Owns(new, t, n)
<1>1. PICK marks : marks = PlanMarks(WindowNodes(path, from, e))
  OBVIOUS
<1>2. new = Take(own, t, marks) /\ \A n \in marks : own[n] \in {t, NoTrain}
  BY <1>1 DEF ReservePlan, CanReservePlan
<1>3. PlanMarks(WindowTail(path, from, e)) \subseteq marks /\ marks \subseteq Nodes
  <2>1. WindowTail(path, from, e) \subseteq WindowNodes(path, from, e)
    BY DEF WindowNodes
  <2> QED  BY <1>1, <2>1, MarksGrow, MarksAre DEF PlanMarks
<1>4. Fair(own, new, t) /\ \A n \in Nodes : n \in marks \/ own[n] = t => new[n] = t
  BY <1>2, TakeFair
<1> QED  BY <1>3, <1>4 DEF Owns

-----------------------------------------------------------------------------
(* What the handlers make of a world.                                      *)

WindowHeld(own, t, p) ==
    p.state \in Moving => \A n \in PlanMarks(WindowTail(p.path, p.at, p.rend)) : Owns(own, t, n)

WindowLined(w, p) ==
    p.state \in Moving =>
        \A i \in p.at .. p.rend - 1 :
            p.path[i] \in Branches => p.path[i + 1] = Leg[p.path[i]][w[p.path[i]]]

\* A turnout that is thrown is the train's own, or nobody's.
Spares(own, w, new, t) == \A b \in Branches : new[b] # w[b] => own[b] \in {t, NoTrain}

\* What every handler may count on.
Ready(x) ==
    /\ x = World(x.own, x.sw, x.p) /\ x.sw \in Lines
    /\ Basic(x.p) /\ x.p.goal # NoNode

OwnsPlace(x, t) == Pairs(x.own) /\ Owns(x.own, t, x.p.cur)

\* What it makes of that: a slot in order; and, for a train that owns the place
\* it stands on, a fair change, that place, and the window it runs in.
Outcome(x, t, y) ==
    /\ y = World(y.own, y.sw, y.p) /\ y.sw \in Lines /\ Slot(y.p)
    /\ OwnsPlace(x, t) =>
          /\ Fair(x.own, y.own, t) /\ Spares(x.own, x.sw, y.sw, t)
          /\ Owns(y.own, t, y.p.cur) /\ WindowHeld(y.own, t, y.p) /\ WindowLined(y.sw, y.p)

LEMMA WorldIs ==
    ASSUME NEW own, NEW w, NEW p, NEW x, x = World(own, w, p)
    PROVE  x = World(x.own, x.sw, x.p) /\ x.own = own /\ x.sw = w /\ x.p = p
  BY DEF World

LEMMA WithSlot ==
    ASSUME NEW x, x = World(x.own, x.sw, x.p), NEW p
    PROVE  [x EXCEPT !.p = p] = World(x.own, x.sw, p)
  BY DEF World

\* Where the slot was changed first, in all but the place of the train.
LEMMA OutcomeOf ==
    ASSUME NEW x, NEW t, NEW y, NEW z, Outcome(z, t, y), z.own = x.own, z.sw = x.sw, z.p.cur = x.p.cur
    PROVE  Outcome(x, t, y)
  BY DEF Outcome, OwnsPlace

LEMMA RefreshStopFair ==
    ASSUME NEW own, NEW w \in Lines, NEW t, NEW p, p.cur \in Nodes, Pairs(own), Owns(own, t, p.cur)
    PROVE  /\ Fair(own, RefreshStop(own, w, t, p), t)
           /\ Owns(RefreshStop(own, w, t, p), t, p.cur)
<1>1. PICK end : end = NextSensor(w, p.cur)
  OBVIOUS
<1>2. PICK new : new = RefreshStop(own, w, t, p)
  OBVIOUS
<1>3. \/ new = RefreshPrediction(own, w, t, p.cur, end, 0)
      \/ new = ReleaseKeepBody(own, w, t, p.cur, Body, NoNode)
      \/ new = RefreshRoute(own, w, t, p.cur, end, WindowTail(p.path, p.at, p.rend))
      \/ new = own
  BY <1>1, <1>2 DEF RefreshStop
<1> QED  BY <1>2, <1>3, RefreshPredictionFair, ReleaseKeepBodyFair, RefreshRouteFair, FairSame

LEMMA EnterWaitOutcome ==
    ASSUME NEW x, NEW t, NEW mode \in Reasons, Ready(x),
           mode # "NONE" => /\ x.p.path # << >> /\ x.p.at \in 1 .. Len(x.p.path)
                            /\ mode = "PRELAUNCH_ROUTE" => x.p.at = 1
    PROVE  Outcome(x, t, EnterWait(x, t, mode))
<1>1. PICK y : y = EnterWait(x, t, mode)
  OBVIOUS
<1>2. PICK p : p = x.p
  OBVIOUS
<1>3. Basic(p) /\ p.goal # NoNode /\ DOMAIN p = SlotFields /\ p.cur \in Nodes
  BY <1>2, TrackAssumption DEF Ready, Basic, TrackAssumption
<1>4. ASSUME NEW q, DOMAIN q = SlotFields, q.state = "WAIT_RESOURCE", q.mode = mode,
             q.cur = p.cur, q.next \in Sensed, q.goal = p.goal, q.path = p.path, q.at = p.at
      PROVE  Slot(q) /\ q.state \notin Moving
  <2>1. Basic(q)
    BY <1>3, <1>4 DEF Basic, RouteStates
  <2>2. Waiting(q)
    BY <1>2, <1>4 DEF Waiting
  <2>3. q.state \notin Moving /\ ~ChecksOffroute(q)
    BY <1>4 DEF Moving, ChecksOffroute
  <2> QED  BY <1>3, <1>4, <2>1, <2>2, <2>3 DEF Slot, Windowed, Braking
<1>5. CASE p.state = "WAIT_RESOURCE"
  <2>1. PICK q : q = [p EXCEPT !.mode = mode]
    OBVIOUS
  <2>2. /\ DOMAIN q = SlotFields /\ q.state = p.state /\ q.mode = mode /\ q.cur = p.cur
        /\ q.next = p.next /\ q.goal = p.goal /\ q.path = p.path /\ q.at = p.at
    BY <1>3, <2>1 DEF SlotFields
  <2>3. y = World(x.own, x.sw, q)
    BY <1>1, <1>2, <1>5, <2>1 DEF EnterWait, Ready, World
  <2>4. y.own = x.own /\ y.sw = x.sw /\ y.p = q /\ y = World(y.own, y.sw, y.p)
    BY <2>3, WorldIs
  <2>5. Slot(q) /\ q.state \notin Moving
    BY <1>3, <1>4, <1>5, <2>2 DEF Basic
  <2> QED  BY <1>1, <1>2, <2>2, <2>4, <2>5, FairSame
           DEF Outcome, OwnsPlace, Ready, WindowHeld, WindowLined, Spares
<1>6. CASE p.state # "WAIT_RESOURCE"
  <2>1. PICK q : q = [ClearPrediction(p) EXCEPT !.state = "WAIT_RESOURCE", !.mode = mode,
                                                !.rend = 1, !.sent = TRUE]
    OBVIOUS
  <2>2. /\ DOMAIN q = SlotFields /\ q.state = "WAIT_RESOURCE" /\ q.mode = mode /\ q.cur = p.cur
        /\ q.next = NoNode /\ q.goal = p.goal /\ q.path = p.path /\ q.at = p.at
    BY <1>3, <2>1 DEF ClearPrediction, SlotFields
  <2>3. PICK new : new = IF mode = "RESUME_ROUTE" THEN RefreshStop(x.own, x.sw, t, p)
                         ELSE ReleaseKeepBody(x.own, x.sw, t, p.cur, Body, KeepEnd(x.sw, p))
    OBVIOUS
  <2>4. y = World(new, x.sw, q)
    BY <1>1, <1>2, <1>6, <2>1, <2>3 DEF EnterWait
  <2>5. y.own = new /\ y.sw = x.sw /\ y.p = q /\ y = World(y.own, y.sw, y.p)
    BY <2>4, WorldIs
  <2>6. Slot(q) /\ q.state \notin Moving
    BY <1>4, <2>2 DEF Sensed
  <2>7. OwnsPlace(x, t) => Fair(x.own, new, t) /\ Owns(new, t, p.cur)
    BY <1>2, <1>3, <2>3, RefreshStopFair, ReleaseKeepBodyFair DEF OwnsPlace, Ready
  <2> QED  BY <1>1, <1>2, <2>2, <2>5, <2>6, <2>7
           DEF Outcome, OwnsPlace, Ready, WindowHeld, WindowLined, Spares
<1> QED  BY <1>5, <1>6

LEMMA LaunchedOutcome ==
    ASSUME NEW x, NEW t, NEW from, NEW e, Ready(x), x.p.path # << >>, x.p.at = from,
           from \in 1 .. Len(x.p.path), e \in Window(x.own, x.sw, t, x.p.path, from, 0)
    PROVE  Outcome(x, t, Launched(x, t, from, e))
<1>1. PICK y : y = Launched(x, t, from, e)
  OBVIOUS
<1>2. PICK p : p = x.p
  OBVIOUS
<1>3. /\ Basic(p) /\ p.goal # NoNode /\ DOMAIN p = SlotFields /\ p.cur \in Nodes
      /\ Course(p.path) /\ Len(p.path) \in Nat
  BY <1>2, TrackAssumption DEF Ready, Basic, TrackAssumption, Course
<1>4. e \in from .. Len(p.path) /\ Granted(x.own, x.sw, t, p.path, from, e)
  BY <1>2, <1>3, WindowIs DEF Ready
<1>5. PICK new, sws, thrown :
         /\ new = ReservePlan(x.own, t, WindowNodes(p.path, from, e))
         /\ sws = WindowSwitches(p.path, from, e) /\ thrown = Throw(x.sw, sws)
  OBVIOUS
<1>6. PICK r : r = [Turned(p) EXCEPT !.rend = e, !.mode = "NONE", !.reverse = FALSE]
  OBVIOUS
<1>7. PICK s : s = SyncTarget(r)
  OBVIOUS
<1>8. PICK q : q = IF DOMAIN sws = {} THEN Settled(thrown, s) ELSE [s EXCEPT !.state = "SETTLE"]
  OBVIOUS
<1>9. y = World(new, thrown, q)
  BY <1>1, <1>2, <1>5, <1>6, <1>7, <1>8 DEF Launched
<1>10. y.own = new /\ y.sw = thrown /\ y.p = q /\ y = World(y.own, y.sw, y.p)
  BY <1>9, WorldIs
<1>11. /\ thrown \in Lines
       /\ \A b \in Branches : thrown[b] # x.sw[b] => x.own[b] = NoTrain
       /\ \A i \in from .. e - 1 :
             p.path[i] \in Branches => p.path[i + 1] = Leg[p.path[i]][thrown[p.path[i]]]
  <2>1. PICK own, w, path : own = x.own /\ w = x.sw /\ path = p.path
    OBVIOUS
  <2>2. /\ w \in Lines /\ Course(path) /\ from \in 1 .. Len(path) /\ e \in from .. Len(path)
        /\ Granted(own, w, t, path, from, e) /\ thrown = Throw(w, WindowSwitches(path, from, e))
    BY <1>2, <1>3, <1>4, <1>5, <2>1 DEF Ready
  <2>3. LinesUp(own, w, thrown, path, from, e)
    BY <2>2, Lined
  <2> QED  BY <2>1, <2>3 DEF LinesUp
<1>12. /\ DOMAIN s = SlotFields /\ s.goal = p.goal /\ s.path = p.path /\ s.at = from
       /\ s.rend = e /\ s.target = p.path[e] /\ s.mode = "NONE" /\ s.state = p.state
       /\ \/ s.cur = p.cur /\ s.next = p.next
          \/ s.cur = Rev[p.cur] /\ s.next = Rev[p.cur]
  <2>1. PICK u : u = Turned(p)
    OBVIOUS
  <2>2. /\ DOMAIN u = SlotFields /\ u.goal = p.goal /\ u.path = p.path /\ u.at = from
        /\ u.state = p.state
        /\ \/ u.cur = p.cur /\ u.next = p.next
           \/ u.cur = Rev[p.cur] /\ u.next = Rev[p.cur]
    BY <1>2, <1>3, <2>1, TurnedSlot DEF SameRoute, SameDoing
  <2>3. /\ DOMAIN r = SlotFields /\ r.goal = u.goal /\ r.path = u.path /\ r.at = u.at
        /\ r.rend = e /\ r.mode = "NONE" /\ r.state = u.state /\ r.cur = u.cur /\ r.next = u.next
    BY <1>6, <2>1, <2>2 DEF SlotFields
  <2>4. ~(r.rend < r.at)
    BY <1>2, <1>3, <1>4, <2>2, <2>3
  <2>5. /\ DOMAIN s = SlotFields /\ s.goal = r.goal /\ s.path = r.path /\ s.at = r.at
        /\ s.rend = r.rend /\ s.target = r.path[s.rend] /\ s.mode = r.mode /\ s.state = r.state
        /\ s.cur = r.cur /\ s.next = r.next
    BY <1>7, <2>3, <2>4, SyncTargetSlot DEF SameTrain, SameDoing
  <2> QED  BY <2>2, <2>3, <2>5
<1>13. s.cur \in Sensors /\ s.next \in Sensed /\ Basic(s)
  <2>1. s.cur \in Sensors /\ s.next \in Sensed
    BY <1>3, <1>12, TrackAssumption DEF Basic, Sensed, TrackAssumption
  <2> QED  BY <1>3, <1>12, <2>1 DEF Basic, Reasons
<1>14. /\ DOMAIN q = SlotFields /\ q.goal = p.goal /\ q.path = p.path /\ q.at = from
       /\ q.rend = e /\ q.target = p.path[e] /\ q.mode = "NONE" /\ q.cur = s.cur /\ q.next \in Sensed
       /\ q.state = "SETTLE" \/ (q.state = "ON_ROUTE" /\ q.sent = FALSE)
  <2>1. CASE DOMAIN sws = {}
    <3>1. q = Settled(thrown, s) /\ thrown \in Lines
      BY <1>8, <1>11, <2>1
    <3>2. /\ DOMAIN q = SlotFields /\ q.next \in Sensed
          /\ SameTrain(s, q) /\ SameRoute(s, q) /\ q.mode = s.mode
          /\ q.state = "ON_ROUTE" /\ q.sent = FALSE
      BY <1>13, <3>1, SettledSlot
    <3> QED  BY <1>12, <3>2 DEF SameTrain, SameRoute
  <2>2. CASE DOMAIN sws # {}
    BY <1>8, <1>12, <1>13, <2>2 DEF SlotFields
  <2> QED  BY <2>1, <2>2
<1>15. Slot(q)
  <2>1. Basic(q) /\ q.goal # NoNode
    BY <1>3, <1>13, <1>14 DEF Basic, RouteStates, Reasons
  <2>2. Waiting(q) /\ Braking(q)
    BY <1>14 DEF Waiting, Braking, ChecksOffroute
  <2>3. Windowed(q)
    BY <1>2, <1>3, <1>4, <1>14 DEF Windowed
  <2> QED  BY <2>1, <2>2, <2>3 DEF Slot
<1>16. ASSUME OwnsPlace(x, t)
       PROVE  /\ Fair(x.own, new, t) /\ Spares(x.own, x.sw, thrown, t)
              /\ Owns(new, t, q.cur) /\ WindowHeld(new, t, q) /\ WindowLined(thrown, q)
  <2>1. /\ Fair(x.own, new, t)
        /\ \A n \in Nodes : Owns(x.own, t, n) => Owns(new, t, n)
        /\ \A n \in PlanMarks(WindowTail(p.path, from, e)) : Owns(new, t, n)
    BY <1>4, <1>5, ReservePlanFair DEF Granted
  <2>2. Owns(new, t, q.cur)
    <3>1. Owns(x.own, t, p.cur) /\ Owns(x.own, t, Rev[p.cur]) /\ Rev[p.cur] \in Nodes
      BY <1>2, <1>3, <1>16, Twins DEF OwnsPlace, Pairs, Owns
    <3> QED  BY <1>3, <1>12, <1>14, <2>1, <3>1
  <2>3. WindowHeld(new, t, q)
    BY <1>14, <2>1 DEF WindowHeld
  <2>4. WindowLined(thrown, q)
    BY <1>11, <1>14 DEF WindowLined
  <2>5. Spares(x.own, x.sw, thrown, t)
    BY <1>11 DEF Spares
  <2> QED  BY <2>1, <2>2, <2>3, <2>4, <2>5
<1> QED  BY <1>1, <1>10, <1>11, <1>15, <1>16 DEF Outcome

\* What the search returns is a path that leaves the train's own turnouts alone.
LEMMA FoundIs ==
    ASSUME NEW w \in Lines, NEW o \in Sensors, NEW goal \in Sensors, NEW fixed, NEW blocked,
           NEW q \in Found(w, o, goal, fixed, blocked)
    PROVE  Course(q) /\ Keeps(w, fixed, q)
<1>1. q \in Paths[o][goal] /\ Keeps(w, fixed, q)
  BY DEF Found
<1> QED  BY <1>1, PathsAre

LEMMA OriginsAre ==
    ASSUME NEW w \in Lines, NEW p, Basic(p), NEW o \in Origins(w, p) PROVE o[1] \in Sensors
<1>1. /\ p.cur \in Sensors /\ Rev[p.cur] \in Sensors /\ p.next \in Sensed
      /\ NextSensor(w, p.cur) \in Sensed
  BY NextSensorIs, TrackAssumption DEF Basic, TrackAssumption, Spots
<1>2. PICK ahead \in Sensed : ahead = KeepEnd(w, p)
  BY <1>1 DEF KeepEnd
<1>3. ahead # NoNode => ahead \in Sensors /\ Rev[ahead] \in Sensors
  BY <1>2, TrackAssumption DEF Sensed, TrackAssumption
<1>4. PICK behind : behind = IF \/ p.state \in {"STOPPED", "WAIT_RESOURCE"} /\ p.onTarget
                                \/ ahead = NoNode
                             THEN Rev[p.cur] ELSE Rev[ahead]
  OBVIOUS
<1>5. behind \in Sensors
  BY <1>1, <1>3, <1>4
<1>6. o \in (IF ahead = NoNode THEN {} ELSE {<<ahead, FALSE>>}) \cup
            (IF p.noReverse \/ behind \in NoReverseStart THEN {} ELSE {<<behind, TRUE>>})
  BY <1>2, <1>4 DEF Origins
<1>7. \/ ahead # NoNode /\ o = <<ahead, FALSE>>
      \/ o = <<behind, TRUE>>
  BY <1>6
<1>8. o[1] = behind \/ (ahead # NoNode /\ o[1] = ahead)
  <2>1. \A a, f : <<a, f>>[1] = a
    OBVIOUS
  <2> QED  BY <1>7, <2>1, Zenon
<1> QED  BY <1>3, <1>5, <1>8

LEMMA PlansAre ==
    ASSUME NEW own, NEW w \in Lines, NEW t, NEW p, Basic(p), p.goal # NoNode,
           NEW plan \in Plans(own, w, t, p)
    PROVE  Course(plan[1]) /\ Keeps(w, Fixed(own, t), plan[1])
<1>1. PICK blocked : plan \in Best(w, Origins(w, p), p.goal, Fixed(own, t), blocked)
  BY DEF Plans
<1>2. PICK o \in Origins(w, p) : plan[1] \in Found(w, o[1], p.goal, Fixed(own, t), blocked)
  <2> DEFINE from(o) == {<<q, o[2]>> : q \in {r \in Found(w, o[1], p.goal, Fixed(own, t), blocked) :
                                              Total(r) > MinWindow}}
  <2>1. plan \in UNION {from(o) : o \in Origins(w, p)}
    BY <1>1 DEF Best
  <2>2. PICK o \in Origins(w, p) : plan \in from(o)
    BY <2>1
  <2>3. plan[1] \in Found(w, o[1], p.goal, Fixed(own, t), blocked)
    BY <2>2
  <2> QED  BY <2>3
<1>3. o[1] \in Sensors /\ p.goal \in Sensors
  BY OriginsAre DEF Basic, Sensed
<1> QED  BY <1>2, <1>3, FoundIs

LEMMA LaunchOutcome ==
    ASSUME NEW x, NEW t \in Trains, Ready(x), Course(x.p.path), x.p.at = 1,
           Keeps(x.sw, Fixed(x.own, t), x.p.path)
    PROVE  \A y \in Launch(x, t) : Outcome(x, t, y)
<1>1. x.p.path # << >> /\ Len(x.p.path) \in Nat /\ 1 \in 1 .. Len(x.p.path)
  BY DEF Course
<1>2. ~SelfBlocked(x.own, x.sw, t, x.p.path, 1)
  <2>1. PICK own, w, path : own = x.own /\ w = x.sw /\ path = x.p.path
    OBVIOUS
  <2> QED  BY <1>1, <2>1, NotSelfBlocked DEF Ready
<1>3. Outcome(x, t, EnterWait(x, t, "PRELAUNCH_ROUTE"))
  BY <1>1, EnterWaitOutcome DEF Reasons
<1>4. \A e \in Window(x.own, x.sw, t, x.p.path, 1, 0) : Outcome(x, t, Launched(x, t, 1, e))
  BY <1>1, LaunchedOutcome
<1> QED  BY <1>2, <1>3, <1>4 DEF Launch

LEMMA DirectGotoOutcome ==
    ASSUME NEW x, NEW t \in Trains, Ready(x)
    PROVE  \A y \in DirectGoto(x, t) : Outcome(x, t, y)
<1>1. PICK plans : plans = Plans(x.own, x.sw, t, x.p)
  OBVIOUS
<1>2. Outcome(x, t, EnterWait(x, t, "NONE"))
  BY EnterWaitOutcome DEF Reasons
<1>3. ASSUME NEW plan \in plans, NEW y \in Launch([x EXCEPT !.p = Commit(x.p, plan)], t)
      PROVE  Outcome(x, t, y)
  <2>1. PICK q : q = Commit(x.p, plan)
    OBVIOUS
  <2>2. PICK z : z = World(x.own, x.sw, q)
    OBVIOUS
  <2>3. z = [x EXCEPT !.p = Commit(x.p, plan)]
    BY <2>1, <2>2, WithSlot DEF Ready
  <2>4. z = World(z.own, z.sw, z.p) /\ z.own = x.own /\ z.sw = x.sw /\ z.p = q
    BY <2>2, WorldIs
  <2>5. Course(plan[1]) /\ Keeps(x.sw, Fixed(x.own, t), plan[1])
    BY <1>1, PlansAre DEF Ready
  <2>6. /\ DOMAIN q = SlotFields /\ q.next = x.p.next /\ q.cur = x.p.cur /\ q.goal = x.p.goal
        /\ q.state = x.p.state /\ q.path = plan[1] /\ q.at = 1 /\ q.mode = "PRELAUNCH_ROUTE"
    <3>1. PICK p : p = x.p
      OBVIOUS
    <3>2. DOMAIN p = SlotFields /\ q = Commit(p, plan)
      BY <2>1, <3>1 DEF Ready, Basic
    <3>3. /\ DOMAIN q = SlotFields /\ q.next = p.next /\ SameTrain(p, q) /\ q.state = p.state
          /\ q.path = plan[1] /\ q.at = 1 /\ q.mode = "PRELAUNCH_ROUTE"
      BY <3>2, CommitSlot
    <3> QED  BY <3>1, <3>3 DEF SameTrain
  <2>7. Basic(q) /\ q.goal # NoNode
    BY <2>5, <2>6 DEF Ready, Basic, Reasons
  <2>8. Ready(z)
    BY <2>4, <2>7 DEF Ready
  <2>9. Outcome(z, t, y)
    BY <1>3, <2>3, <2>4, <2>5, <2>6, <2>8, LaunchOutcome
  <2> QED  BY <2>4, <2>6, <2>9, OutcomeOf
<1> QED  BY <1>1, <1>2, <1>3 DEF DirectGoto, Ready

\* Planning for a goal, with the slot prepared for it.
LEMMA PreparedOutcome ==
    ASSUME NEW x, NEW t \in Trains, NEW g \in Sensors,
           x = World(x.own, x.sw, x.p), x.sw \in Lines, Basic(x.p)
    PROVE  \A y \in DirectGoto(World(x.own, x.sw, Prepare(x.p, g)), t) : Outcome(x, t, y)
<1>1. PICK q : q = Prepare(x.p, g)
  OBVIOUS
<1>2. PICK z : z = World(x.own, x.sw, q)
  OBVIOUS
<1>3. z = World(z.own, z.sw, z.p) /\ z.own = x.own /\ z.sw = x.sw /\ z.p = q
  BY <1>2, WorldIs
<1>4. /\ DOMAIN q = SlotFields /\ q.next = x.p.next /\ q.cur = x.p.cur /\ q.state = x.p.state
      /\ q.goal = g /\ q.path = << >> /\ q.mode = "NONE"
  BY <1>1, PrepareSlot DEF Basic
<1>5. Ready(z)
  BY <1>3, <1>4, TrackAssumption DEF Ready, Basic, Reasons, Sensed, TrackAssumption
<1> QED  BY <1>1, <1>2, <1>3, <1>4, <1>5, DirectGotoOutcome, OutcomeOf

LEMMA ReplanOutcome ==
    ASSUME NEW x, NEW t \in Trains, Ready(x)
    PROVE  \A y \in Replan(x, t) : Outcome(x, t, y)
<1>1. x.p.goal \in Sensors /\ x.p.goal # NoNode
  BY DEF Ready, Basic, Sensed
<1>2. Replan(x, t) = DirectGoto([x EXCEPT !.p = Prepare(x.p, x.p.goal)], t)
  BY <1>1 DEF Replan
<1>3. [x EXCEPT !.p = Prepare(x.p, x.p.goal)] = World(x.own, x.sw, Prepare(x.p, x.p.goal))
  BY WithSlot DEF Ready
<1> QED  BY <1>1, <1>2, <1>3, PreparedOutcome DEF Ready

LEMMA RelaunchOutcome ==
    ASSUME NEW x, NEW t \in Trains, Ready(x), Waiting(x.p), x.p.state = "WAIT_RESOURCE",
           x.p.mode # "NONE"
    PROVE  \A y \in Relaunch(x, t) : Outcome(x, t, y)
<1>1. PICK p : p = x.p
  OBVIOUS
<1>2. PICK from : from = IF p.mode = "RESUME_ROUTE" THEN p.at ELSE 1
  OBVIOUS
<1>3. /\ p.path # << >> /\ p.at \in 1 .. Len(p.path) /\ p.mode \in Reasons
      /\ p.mode = "PRELAUNCH_ROUTE" => p.at = 1
  BY <1>1 DEF Waiting, Ready, Basic
<1>4. p.at = from /\ from \in 1 .. Len(p.path)
  BY <1>1, <1>2, <1>3 DEF Reasons
<1>5. \A y \in Replan(x, t) : Outcome(x, t, y)
  BY ReplanOutcome
<1>6. Outcome(x, t, EnterWait(x, t, p.mode))
  BY <1>1, <1>3, EnterWaitOutcome
<1>7. \A e \in Window(x.own, x.sw, t, p.path, from, 0) : Outcome(x, t, Launched(x, t, from, e))
  BY <1>1, <1>3, <1>4, LaunchedOutcome
<1> QED  BY <1>1, <1>2, <1>3, <1>5, <1>6, <1>7 DEF Relaunch

-----------------------------------------------------------------------------
(* What a request does to its train.                                       *)

\* The train owns the place it stands on and, under way, its window, which is lined.
InOrder(own, w, t, p) ==
    Pairs(own) /\ Owns(own, t, p.cur) /\ WindowHeld(own, t, p) /\ WindowLined(w, p)

\* The world y may follow for t: a slot in order, and all that again, at nobody's
\* expense, unless the step is a false alarm.
Result(t, y) ==
    /\ y.sw \in Lines /\ Slot(y.p)
    /\ InOrder(owner, sw, t, pos[t]) /\ Expected =>
          /\ Fair(owner, y.own, t) /\ Spares(owner, sw, y.sw, t)
          /\ Owns(y.own, t, y.p.cur) /\ WindowHeld(y.own, t, y.p) /\ WindowLined(y.sw, y.p)

Does(t) == \E y : Becomes(t, y) /\ Result(t, y)

LEMMA HereIs ==
    ASSUME NEW t PROVE /\ Here(t) = World(Here(t).own, Here(t).sw, Here(t).p)
                       /\ Here(t).own = owner /\ Here(t).sw = sw /\ Here(t).p = pos[t]
  BY DEF Here, World

\* A world that was made ready first, at the train's own expense.
LEMMA OutcomeResult ==
    ASSUME NEW t, NEW x, NEW y, Outcome(x, t, y), x.sw = sw,
           Pairs(owner) /\ Owns(owner, t, pos[t].cur) => Fair(owner, x.own, t) /\ OwnsPlace(x, t)
    PROVE  Result(t, y)
<1>1. y.sw \in Lines /\ Slot(y.p)
  BY DEF Outcome
<1>2. ASSUME InOrder(owner, sw, t, pos[t])
      PROVE  /\ Fair(owner, y.own, t) /\ Spares(owner, sw, y.sw, t)
             /\ Owns(y.own, t, y.p.cur) /\ WindowHeld(y.own, t, y.p) /\ WindowLined(y.sw, y.p)
  <2>1. Fair(owner, x.own, t) /\ OwnsPlace(x, t)
    BY <1>2 DEF InOrder
  <2>2. /\ Fair(x.own, y.own, t) /\ Spares(x.own, x.sw, y.sw, t)
        /\ Owns(y.own, t, y.p.cur) /\ WindowHeld(y.own, t, y.p) /\ WindowLined(y.sw, y.p)
    BY <2>1 DEF Outcome
  <2>3. Fair(owner, y.own, t)
    BY <2>1, <2>2, FairOn
  <2>4. Spares(owner, sw, y.sw, t)
    <3>1. ASSUME NEW b \in Branches, y.sw[b] # sw[b] PROVE owner[b] \in {t, NoTrain}
      <4>1. x.own[b] \in {t, NoTrain}
        BY <2>2, <3>1 DEF Spares
      <4>2. b \in Nodes
        BY TrackAssumption DEF TrackAssumption
      <4> QED  BY <2>1, <4>1, <4>2 DEF Fair
    <3> QED  BY <3>1 DEF Spares
  <2> QED  BY <2>2, <2>3, <2>4
<1> QED  BY <1>1, <1>2 DEF Result

LEMMA HereResult ==
    ASSUME NEW t, NEW y, Outcome(Here(t), t, y) PROVE Result(t, y)
<1>1. PICK x : x = Here(t)
  OBVIOUS
<1>2. x.own = owner /\ x.sw = sw /\ x.p = pos[t]
  BY <1>1, HereIs
<1> QED  BY <1>1, <1>2, OutcomeResult, FairSame DEF OwnsPlace

LEMMA HereReady ==
    ASSUME Slots, NEW t \in Trains, pos[t].state # "STOPPED" PROVE Ready(Here(t))
  BY HereIs DEF Slots, Slot, Ready

LEMMA GotoDoes == ASSUME Slots, NEW t \in Trains, NEW g \in Goals[t], Goto(t, g) PROVE Does(t)
<1>1. g \in Sensors
  BY RouteAssumption DEF RouteAssumption
<1>2. PICK y \in DirectGoto(World(owner, sw, Prepare(pos[t], g)), t) : Becomes(t, y)
  BY DEF Goto
<1>3. Outcome(Here(t), t, y)
  <2>1. PICK x : x = Here(t)
    OBVIOUS
  <2>2. x = World(x.own, x.sw, x.p) /\ x.own = owner /\ x.sw = sw /\ x.p = pos[t]
    BY <2>1, HereIs
  <2>3. x.sw \in Lines /\ Basic(x.p)
    BY <2>2 DEF Slots, Slot
  <2> QED  BY <1>1, <1>2, <2>1, <2>2, <2>3, PreparedOutcome
<1> QED  BY <1>2, <1>3, HereResult DEF Does

LEMMA ResumeDoes == ASSUME Slots, NEW t \in Trains, Resume(t) PROVE Does(t)
<1>1. PICK x : x = Here(t)
  OBVIOUS
<1>2. x.p = pos[t] /\ pos[t].state = "WAIT_RESOURCE" /\ Waiting(x.p)
  BY <1>1, HereIs DEF Slots, Slot, Resume
<1>3. Ready(x)
  BY <1>1, <1>2, HereReady
<1>4. PICK y : /\ y \in (IF pos[t].mode = "NONE" THEN DirectGoto(x, t) ELSE Relaunch(x, t))
               /\ Becomes(t, y)
  BY <1>1 DEF Resume
<1>5. Outcome(x, t, y)
  BY <1>2, <1>3, <1>4, DirectGotoOutcome, RelaunchOutcome
<1> QED  BY <1>1, <1>4, <1>5, HereResult DEF Does

\* The brakes have done their work: the slot of the train at a stand.
LEMMA StopDoes ==
    ASSUME Slots, NEW t \in Trains, NEW g \in Goals[t] \cup {NoNode}, Stop(t, g)
    PROVE  Does(t)
<1>1. PICK p : p = pos[t]
  OBVIOUS
<1>2. p.state = "STOPPING" /\ Slot(p) /\ sw \in Lines /\ DOMAIN p = SlotFields /\ p.cur \in Nodes
  BY <1>1, TrackAssumption DEF Stop, Slots, Slot, Basic, TrackAssumption
<1>3. p.goal # NoNode /\ p.path # << >> /\ p.at \in 1 .. Len(p.path)
  BY <1>2 DEF Slot, Windowed, Moving, Basic, Course
<1>4. PICK stopped : stopped = IF p.frozen # NoNode THEN p.frozen ELSE p.target
  OBVIOUS
<1>5. PICK q : q = [p EXCEPT !.state = "STOPPED", !.frozen = NoNode, !.fresh = FALSE,
                        !.onTarget = LegGoal(p) /\ Same(p.cur, stopped),
                        !.noReverse = stopped \in NoReverseRestart]
  OBVIOUS
<1>6. PICK r : r = ClearPrediction(q)
  OBVIOUS
<1>7. PICK x : x = World(RefreshStop(owner, sw, t, q), sw, r)
  OBVIOUS
<1>8. PICK y \in Parked(x, t, g, LegGoal(p)) : Becomes(t, y)
  BY <1>1, <1>4, <1>5, <1>6, <1>7 DEF Stop
<1>9. /\ DOMAIN q = SlotFields /\ q.state = "STOPPED" /\ q.cur = p.cur /\ q.mode = p.mode
      /\ q.goal = p.goal /\ q.path = p.path /\ q.at = p.at
  BY <1>2, <1>5 DEF SlotFields
<1>10. /\ DOMAIN r = SlotFields /\ r.state = "STOPPED" /\ r.cur = p.cur /\ r.next = NoNode
       /\ r.mode = p.mode /\ r.goal = p.goal /\ r.path = p.path /\ r.at = p.at
  BY <1>6, <1>9, ClearPredictionSlot DEF SameTrain, SameRoute, SameDoing
<1>11. Basic(r)
  BY <1>2, <1>10 DEF Slot, Basic, RouteStates, Sensed
<1>12. /\ x = World(x.own, x.sw, x.p) /\ x.own = RefreshStop(owner, sw, t, q)
       /\ x.sw = sw /\ x.p = r
  BY <1>7, WorldIs
<1>13. Ready(x)
  BY <1>2, <1>3, <1>10, <1>11, <1>12 DEF Ready
<1>14. Outcome(x, t, y)
  <2>1. CASE g # NoNode
    <3>1. g \in Sensors
      BY <2>1, RouteAssumption DEF RouteAssumption
    <3>2. y \in DirectGoto(World(x.own, x.sw, Prepare(x.p, g)), t)
      BY <1>8, <1>12, <2>1, WithSlot DEF Parked
    <3> QED  BY <1>2, <1>11, <1>12, <3>1, <3>2, PreparedOutcome
  <2>2. CASE g = NoNode /\ LegGoal(p)
    <3>1. PICK u : u = [ClearRoute(r) EXCEPT !.goal = NoNode]
      OBVIOUS
    <3>2. /\ DOMAIN u = SlotFields /\ u.state = "STOPPED" /\ u.cur = r.cur /\ u.next = r.next
          /\ u.mode = "NONE" /\ u.goal = NoNode /\ u.path = << >>
      BY <1>10, <3>1 DEF ClearRoute, SlotFields
    <3>3. y = World(x.own, x.sw, u)
      BY <1>8, <1>12, <2>2, <3>1, WithSlot DEF Parked
    <3>4. y = World(y.own, y.sw, y.p) /\ y.own = x.own /\ y.sw = x.sw /\ y.p = u
      BY <3>3, WorldIs
    <3>5. Basic(u)
      BY <1>10, <1>11, <3>2 DEF Basic, Reasons, Sensed
    <3>6. Slot(u) /\ u.state \notin Moving
      BY <3>2, <3>5 DEF Slot, Waiting, Windowed, Braking, ChecksOffroute, Moving
    <3> QED  BY <1>2, <1>12, <3>2, <3>4, <3>6, FairSame
             DEF Outcome, OwnsPlace, WindowHeld, WindowLined, Spares
  <2>3. CASE g = NoNode /\ ~LegGoal(p)
    <3>1. y = EnterWait(x, t, "RESUME_ROUTE")
      BY <1>8, <2>3 DEF Parked
    <3> QED  BY <1>3, <1>10, <1>12, <1>13, <3>1, EnterWaitOutcome DEF Reasons
  <2> QED  BY <2>1, <2>2, <2>3
<1>15. ASSUME Pairs(owner), Owns(owner, t, pos[t].cur)
       PROVE  Fair(owner, x.own, t) /\ OwnsPlace(x, t)
  <2>1. /\ Fair(owner, RefreshStop(owner, sw, t, q), t)
        /\ Owns(RefreshStop(owner, sw, t, q), t, q.cur)
    BY <1>1, <1>2, <1>9, <1>15, RefreshStopFair
  <2>2. Pairs(RefreshStop(owner, sw, t, q))
    BY <1>15, RefreshStopPairs
  <2> QED  BY <1>9, <1>10, <1>12, <2>1, <2>2 DEF OwnsPlace
<1>16. Result(t, y)
  BY <1>12, <1>14, <1>15, OutcomeResult
<1> QED  BY <1>8, <1>16 DEF Does

LEMMA RecoveryReplanDoes == ASSUME Slots, NEW t \in Trains, RecoveryReplan(t) PROVE Does(t)
<1>1. PICK p : p = [pos[t] EXCEPT !.fresh = FALSE]
  OBVIOUS
<1>2. PICK own : own = ReleaseKeepBody(owner, sw, t, p.cur, Body, KeepEnd(sw, p))
  OBVIOUS
<1>3. PICK x : x = World(own, sw, p)
  OBVIOUS
<1>4. PICK y \in DirectGoto(x, t) : Becomes(t, y)
  BY <1>1, <1>2, <1>3 DEF RecoveryReplan
<1>5. x = World(x.own, x.sw, x.p) /\ x.own = own /\ x.sw = sw /\ x.p = p
  BY <1>3, WorldIs
<1>6. /\ pos[t].state = "RECOVERY_STOPPING" /\ Basic(pos[t]) /\ pos[t].goal # NoNode
      /\ DOMAIN pos[t] = SlotFields /\ sw \in Lines
  BY DEF RecoveryReplan, Slots, Slot, Basic
<1>7. /\ DOMAIN p = SlotFields /\ p.state = pos[t].state /\ p.cur = pos[t].cur
      /\ p.next = pos[t].next /\ p.mode = pos[t].mode /\ p.goal = pos[t].goal
      /\ p.path = pos[t].path
  BY <1>1, <1>6 DEF SlotFields
<1>8. Basic(p)
  BY <1>6, <1>7 DEF Basic
<1>9. Outcome(x, t, y)
  BY <1>4, <1>5, <1>6, <1>7, <1>8, DirectGotoOutcome DEF Ready
<1>10. ASSUME Pairs(owner), Owns(owner, t, pos[t].cur)
       PROVE  Fair(owner, x.own, t) /\ OwnsPlace(x, t)
  <2>1. p.cur \in Nodes /\ Owns(owner, t, p.cur)
    BY <1>7, <1>8, <1>10, TrackAssumption DEF Basic, TrackAssumption
  <2> QED  BY <1>2, <1>5, <1>10, <2>1, ReleaseKeepBodyFair, ReleaseKeepBodyPairs DEF OwnsPlace
<1>11. Result(t, y)
  BY <1>5, <1>9, <1>10, OutcomeResult
<1> QED  BY <1>4, <1>11 DEF Does

\* A train under way that keeps its place and its window.
LEMMA StayDoes ==
    ASSUME NEW t, NEW q, sw \in Lines, Slot(q), pos[t].state \in Moving,
           owner' = owner, sw' = sw, pos' = [pos EXCEPT ![t] = q],
           q.cur = pos[t].cur, q.path = pos[t].path, q.at = pos[t].at, q.rend = pos[t].rend
    PROVE  Does(t)
<1>1. PICK y : y = World(owner, sw, q)
  OBVIOUS
<1>2. y.own = owner /\ y.sw = sw /\ y.p = q
  BY <1>1, WorldIs
<1>3. Becomes(t, y)
  BY <1>2 DEF Becomes
<1>4. Result(t, y)
  BY <1>2, FairSame DEF Result, InOrder, WindowHeld, WindowLined, Spares
<1> QED  BY <1>3, <1>4 DEF Does

\* The slot of a train under way.
LEMMA UnderWay ==
    ASSUME Slots, NEW t \in Trains, NEW p, p = pos[t], p.state \in Moving
    PROVE  /\ Slot(p) /\ Basic(p) /\ DOMAIN p = SlotFields /\ p.goal # NoNode /\ sw \in Lines
           /\ Course(p.path) /\ Len(p.path) \in Nat
           /\ p.rend \in 1 .. Len(p.path) /\ p.at \in 1 .. p.rend /\ p.rend \in Nat /\ p.at \in Nat
           /\ p.target = p.path[p.rend] /\ p.mode \in Reasons
<1>1. Slot(p) /\ sw \in Lines /\ Basic(p)
  BY DEF Slots, Slot
<1>2. p.state # "STOPPED"
  BY DEF Moving
<1>3. /\ p.path # << >> /\ p.rend \in 1 .. Len(p.path) /\ p.at \in 1 .. p.rend
      /\ p.target = p.path[p.rend] /\ p.goal # NoNode
  BY <1>1, <1>2 DEF Slot, Windowed
<1>4. Course(p.path) /\ DOMAIN p = SlotFields /\ p.mode \in Reasons
  BY <1>1, <1>3 DEF Basic
<1> QED  BY <1>1, <1>3, <1>4 DEF Course

\* A slot in order again, on the same path.
LEMMA MovingSlot ==
    ASSUME NEW p, NEW q, Basic(p), p.goal # NoNode, Course(p.path), DOMAIN q = SlotFields,
           q.state \in Moving, q.mode \in Reasons, q.cur \in Sensors, q.next \in Sensed,
           q.goal = p.goal, q.path = p.path,
           q.rend \in 1 .. Len(p.path), q.at \in 1 .. q.rend, q.target = p.path[q.rend],
           ChecksOffroute(q) /\ q.sent => \E k \in 1 .. q.rend : p.path[k] = q.frozen
    PROVE  Slot(q)
<1>1. Basic(q)
  BY DEF Basic, Moving, RouteStates
<1>2. Waiting(q)
  BY DEF Waiting, Moving
<1>3. Windowed(q) /\ Braking(q)
  BY DEF Windowed, Braking, Course
<1> QED  BY <1>1, <1>2, <1>3 DEF Slot

LEMMA SettleDoes == ASSUME Slots, NEW t \in Trains, Settle(t) PROVE Does(t)
<1>1. PICK p : p = pos[t]
  OBVIOUS
<1>2. PICK q : q = Settled(sw, p)
  OBVIOUS
<1>3. /\ p.state \in Moving /\ owner' = owner /\ sw' = sw
      /\ pos' = [pos EXCEPT ![t] = q]
  BY <1>1, <1>2 DEF Settle, Moving
<1>4. /\ Slot(p) /\ Basic(p) /\ DOMAIN p = SlotFields /\ p.goal # NoNode /\ sw \in Lines
      /\ Course(p.path) /\ p.rend \in 1 .. Len(p.path) /\ p.at \in 1 .. p.rend
      /\ p.target = p.path[p.rend] /\ p.mode \in Reasons
  BY <1>1, <1>3, UnderWay
<1>5. /\ DOMAIN q = SlotFields /\ q.next \in Sensed
      /\ SameTrain(p, q) /\ SameRoute(p, q) /\ q.mode = p.mode
      /\ q.state = "ON_ROUTE" /\ q.sent = FALSE
  BY <1>2, <1>4, SettledSlot
<1>6. /\ q.cur = p.cur /\ q.goal = p.goal /\ q.path = p.path /\ q.at = p.at /\ q.rend = p.rend
      /\ q.target = p.target /\ q.state \in Moving
  BY <1>5 DEF SameTrain, SameRoute, Moving
<1>7. Slot(q)
  <2>1. p.cur \in Sensors
    BY <1>4 DEF Basic
  <2> QED  BY <1>4, <1>5, <1>6, <2>1, MovingSlot
<1> QED  BY <1>1, <1>3, <1>4, <1>6, <1>7, StayDoes

LEMMA BrakeDoes == ASSUME Slots, NEW t \in Trains, Brake(t) PROVE Does(t)
<1>1. PICK p : p = pos[t]
  OBVIOUS
<1>2. PICK q : q = [p EXCEPT !.sent = TRUE, !.frozen = p.target,
                             !.state = IF p.fresh THEN "ON_ROUTE" ELSE "STOPPING"]
  OBVIOUS
<1>3. p.state \in Moving /\ owner' = owner /\ sw' = sw
  BY <1>1 DEF Brake, Moving
<1>4. /\ Slot(p) /\ Basic(p) /\ DOMAIN p = SlotFields /\ p.goal # NoNode /\ sw \in Lines
      /\ Course(p.path) /\ p.rend \in 1 .. Len(p.path) /\ p.at \in 1 .. p.rend
      /\ p.target = p.path[p.rend] /\ p.mode \in Reasons /\ Len(p.path) \in Nat
  BY <1>1, <1>3, UnderWay
<1>5. pos' = [pos EXCEPT ![t] = q]
  BY <1>1, <1>2 DEF Brake, Slots
<1>6. /\ DOMAIN q = SlotFields /\ q.next = p.next /\ q.cur = p.cur /\ q.goal = p.goal
      /\ q.path = p.path /\ q.at = p.at /\ q.rend = p.rend /\ q.target = p.target
      /\ q.mode = p.mode /\ q.frozen = p.target /\ q.state \in Moving
  BY <1>2, <1>4 DEF SlotFields, Moving
<1>7. Slot(q)
  <2>1. p.cur \in Sensors /\ p.next \in Sensed
    BY <1>4 DEF Basic
  <2>2. p.rend \in 1 .. q.rend /\ p.path[p.rend] = q.frozen
    BY <1>4, <1>6
  <2> QED  BY <1>4, <1>6, <2>1, <2>2, MovingSlot
<1> QED  BY <1>1, <1>3, <1>4, <1>5, <1>6, <1>7, StayDoes

LEMMA BrakeToldDoes == ASSUME Slots, NEW t \in Trains, BrakeTold(t) PROVE Does(t)
<1>1. PICK p : p = pos[t]
  OBVIOUS
<1>2. PICK q : q = [p EXCEPT !.state = "STOPPING"]
  OBVIOUS
<1>3. /\ p.state \in Moving /\ owner' = owner /\ sw' = sw
      /\ p.state = "ON_ROUTE" /\ p.sent
  BY <1>1 DEF BrakeTold, Moving
<1>4. /\ Slot(p) /\ Basic(p) /\ DOMAIN p = SlotFields /\ p.goal # NoNode /\ sw \in Lines
      /\ Course(p.path) /\ p.rend \in 1 .. Len(p.path) /\ p.at \in 1 .. p.rend
      /\ p.target = p.path[p.rend] /\ p.mode \in Reasons
  BY <1>1, <1>3, UnderWay
<1>5. pos' = [pos EXCEPT ![t] = q]
  BY <1>1, <1>2 DEF BrakeTold, Slots
<1>6. /\ DOMAIN q = SlotFields /\ q.next = p.next /\ q.cur = p.cur /\ q.goal = p.goal
      /\ q.path = p.path /\ q.at = p.at /\ q.rend = p.rend /\ q.target = p.target
      /\ q.mode = p.mode /\ q.frozen = p.frozen /\ q.state \in Moving
  BY <1>2, <1>4 DEF SlotFields, Moving
<1>7. Slot(q)
  <2>1. p.cur \in Sensors /\ p.next \in Sensed
    BY <1>4 DEF Basic
  <2>2. \E k \in 1 .. q.rend : p.path[k] = q.frozen
    BY <1>3, <1>4, <1>6 DEF Slot, Braking, ChecksOffroute
  <2> QED  BY <1>4, <1>6, <2>1, <2>2, MovingSlot
<1> QED  BY <1>1, <1>3, <1>4, <1>5, <1>6, <1>7, StayDoes

LEMMA DeadTrackDoes == ASSUME Slots, NEW t \in Trains, DeadTrack(t) PROVE Does(t)
<1>1. PICK p : p = pos[t]
  OBVIOUS
<1>2. PICK q : q = [p EXCEPT !.state = "DEAD_TRACK", !.sent = TRUE, !.fresh = FALSE]
  OBVIOUS
<1>3. p.state \in Moving /\ owner' = owner /\ sw' = sw
  BY <1>1 DEF DeadTrack, Moving
<1>4. /\ Slot(p) /\ Basic(p) /\ DOMAIN p = SlotFields /\ p.goal # NoNode /\ sw \in Lines
      /\ Course(p.path) /\ p.rend \in 1 .. Len(p.path) /\ p.at \in 1 .. p.rend
      /\ p.target = p.path[p.rend] /\ p.mode \in Reasons
  BY <1>1, <1>3, UnderWay
<1>5. pos' = [pos EXCEPT ![t] = q]
  BY <1>1, <1>2 DEF DeadTrack, Slots
<1>6. /\ DOMAIN q = SlotFields /\ q.next = p.next /\ q.cur = p.cur /\ q.goal = p.goal
      /\ q.path = p.path /\ q.at = p.at /\ q.rend = p.rend /\ q.target = p.target
      /\ q.mode = p.mode /\ q.state = "DEAD_TRACK" /\ q.state \in Moving
  BY <1>2, <1>4 DEF SlotFields, Moving
<1>7. Slot(q)
  <2>1. p.cur \in Sensors /\ p.next \in Sensed /\ ~ChecksOffroute(q)
    BY <1>4, <1>6 DEF Basic, ChecksOffroute
  <2> QED  BY <1>4, <1>6, <2>1, MovingSlot
<1> QED  BY <1>1, <1>3, <1>4, <1>5, <1>6, <1>7, StayDoes

LEMMA RetryDoes == ASSUME Slots, NEW t \in Trains, Retry(t) PROVE Does(t)
<1>1. PICK p : p = pos[t]
  OBVIOUS
<1>2. PICK s : s = SyncTarget(p)
  OBVIOUS
<1>3. PICK r : r = SetOff(s)
  OBVIOUS
<1>4. PICK q : q = Predict(sw, r)
  OBVIOUS
<1>5. /\ p.state \in Moving /\ owner' = owner /\ sw' = sw
      /\ pos' = [pos EXCEPT ![t] = q]
  BY <1>1, <1>2, <1>3, <1>4 DEF Retry, Moving
<1>6. /\ Slot(p) /\ Basic(p) /\ DOMAIN p = SlotFields /\ p.goal # NoNode /\ sw \in Lines
      /\ Course(p.path) /\ p.rend \in 1 .. Len(p.path) /\ p.at \in 1 .. p.rend
      /\ p.target = p.path[p.rend] /\ p.mode \in Reasons /\ p.rend \in Nat /\ p.at \in Nat
  BY <1>1, <1>5, UnderWay
<1>7. /\ DOMAIN s = SlotFields /\ s.next = p.next /\ s.cur = p.cur /\ s.goal = p.goal
      /\ s.mode = p.mode /\ s.path = p.path /\ s.at = p.at /\ s.rend = p.rend
      /\ s.target = p.target
  BY <1>2, <1>6, SyncTargetSlot DEF SameTrain, SameDoing
<1>8. /\ DOMAIN r = SlotFields /\ r.next = p.next /\ r.cur = p.cur /\ r.goal = p.goal
      /\ r.mode = p.mode /\ r.path = p.path /\ r.at = p.at /\ r.rend = p.rend
      /\ r.target = p.target /\ r.state = "ON_ROUTE" /\ r.sent = FALSE
  <2>1. /\ DOMAIN r = SlotFields /\ r.next = s.next /\ SameTrain(s, r) /\ SameRoute(s, r)
        /\ r.mode = s.mode /\ r.state = "ON_ROUTE" /\ r.sent = FALSE
    BY <1>3, <1>7, SetOffSlot
  <2> QED  BY <1>7, <2>1 DEF SameTrain, SameRoute
<1>9. Basic(r)
  BY <1>6, <1>8 DEF Basic, RouteStates
<1>10. /\ DOMAIN q = SlotFields /\ q.next \in Sensed /\ q.cur = p.cur /\ q.goal = p.goal
       /\ q.path = p.path /\ q.at = p.at /\ q.rend = p.rend /\ q.target = p.target
       /\ q.mode = p.mode /\ q.state = "ON_ROUTE" /\ q.state \in Moving /\ q.sent = FALSE
  BY <1>4, <1>6, <1>8, <1>9, PredictSlot DEF SameTrain, SameRoute, SameDoing, Moving
<1>11. Slot(q)
  <2>1. p.cur \in Sensors
    BY <1>6 DEF Basic
  <2> QED  BY <1>6, <1>10, <2>1, MovingSlot
<1> QED  BY <1>1, <1>5, <1>6, <1>10, <1>11, StayDoes

LEMMA TopUpDoes == ASSUME Slots, NEW t \in Trains, TopUp(t) PROVE Does(t)
<1>1. PICK p : p = pos[t]
  OBVIOUS
<1>2. PICK e : /\ e \in Window(owner, sw, t, p.path, p.at, p.rend)
               /\ Becomes(t, World(ReservePlan(owner, t, WindowNodes(p.path, p.at, e)),
                                   Throw(sw, WindowSwitches(p.path, p.at, e)),
                                   SyncTarget([p EXCEPT !.rend = e])))
  BY <1>1 DEF TopUp, Longer
<1>3. PICK new, thrown : /\ new = ReservePlan(owner, t, WindowNodes(p.path, p.at, e))
                         /\ thrown = Throw(sw, WindowSwitches(p.path, p.at, e))
  OBVIOUS
<1>4. PICK s : s = [p EXCEPT !.rend = e]
  OBVIOUS
<1>5. PICK q : q = SyncTarget(s)
  OBVIOUS
<1>6. PICK y : y = World(new, thrown, q)
  OBVIOUS
<1>7. y.own = new /\ y.sw = thrown /\ y.p = q /\ Becomes(t, y)
  BY <1>2, <1>3, <1>4, <1>5, <1>6, WorldIs
<1>8. p.state = "ON_ROUTE" /\ p.state \in Moving
  BY <1>1 DEF TopUp, Moving
<1>9. /\ Slot(p) /\ Basic(p) /\ DOMAIN p = SlotFields /\ p.goal # NoNode /\ sw \in Lines
      /\ Course(p.path) /\ Len(p.path) \in Nat
      /\ p.rend \in 1 .. Len(p.path) /\ p.at \in 1 .. p.rend /\ p.rend \in Nat /\ p.at \in Nat
      /\ p.mode \in Reasons
  BY <1>1, <1>8, UnderWay
<1>10. p.at \in 1 .. Len(p.path)
  BY <1>9
<1>11. e \in p.at .. Len(p.path) /\ e > p.rend /\ Granted(owner, sw, t, p.path, p.at, e)
  BY <1>2, <1>9, <1>10, WindowIs
<1>12. LinesUp(owner, sw, thrown, p.path, p.at, e)
  <2>1. PICK w, path, at : w = sw /\ path = p.path /\ at = p.at
    OBVIOUS
  <2> QED  BY <1>3, <1>9, <1>10, <1>11, <2>1, Lined
<1>13. /\ DOMAIN q = SlotFields /\ q.next = p.next /\ q.cur = p.cur /\ q.goal = p.goal
       /\ q.mode = p.mode /\ q.state = p.state /\ q.sent = p.sent /\ q.frozen = p.frozen
       /\ q.path = p.path /\ q.at = p.at /\ q.rend = e /\ q.target = p.path[e]
  <2>1. /\ DOMAIN s = SlotFields /\ s.next = p.next /\ s.cur = p.cur /\ s.goal = p.goal
        /\ s.mode = p.mode /\ s.state = p.state /\ s.sent = p.sent /\ s.frozen = p.frozen
        /\ s.path = p.path /\ s.at = p.at /\ s.rend = e
    BY <1>4, <1>9 DEF SlotFields
  <2>2. ~(s.rend < s.at)
    BY <1>9, <1>11, <2>1
  <2> QED  BY <1>5, <2>1, <2>2, SyncTargetSlot DEF SameTrain, SameDoing
<1>14. Slot(q)
  <2>1. p.cur \in Sensors /\ p.next \in Sensed /\ q.state \in Moving
    BY <1>8, <1>9, <1>13 DEF Basic
  <2>2. e \in 1 .. Len(p.path) /\ p.at \in 1 .. e /\ \A k \in 1 .. p.rend : k \in 1 .. e
    BY <1>9, <1>11
  <2>3. ChecksOffroute(q) /\ q.sent => \E k \in 1 .. q.rend : p.path[k] = q.frozen
    BY <1>9, <1>13, <2>2 DEF Slot, Braking, ChecksOffroute
  <2> QED  BY <1>9, <1>13, <2>1, <2>2, <2>3, MovingSlot
<1>15. ASSUME InOrder(owner, sw, t, pos[t])
       PROVE  /\ Fair(owner, new, t) /\ Spares(owner, sw, thrown, t)
              /\ Owns(new, t, q.cur) /\ WindowHeld(new, t, q) /\ WindowLined(thrown, q)
  <2>1. /\ Fair(owner, new, t)
        /\ \A n \in Nodes : Owns(owner, t, n) => Owns(new, t, n)
        /\ \A n \in PlanMarks(WindowTail(p.path, p.at, e)) : Owns(new, t, n)
    BY <1>3, <1>11, ReservePlanFair DEF Granted
  <2>2. Owns(new, t, q.cur)
    BY <1>1, <1>9, <1>13, <1>15, <2>1, TrackAssumption DEF InOrder, Basic, TrackAssumption
  <2>3. WindowHeld(new, t, q) /\ WindowLined(thrown, q) /\ Spares(owner, sw, thrown, t)
    BY <1>12, <1>13, <2>1 DEF WindowHeld, WindowLined, LinesUp, Spares
  <2> QED  BY <2>1, <2>2, <2>3
<1>16. Result(t, y)
  BY <1>7, <1>12, <1>14, <1>15 DEF Result, LinesUp
<1> QED  BY <1>7, <1>16 DEF Does

\* A turnout believed to stand wrong is one that a train may name.
LEMMA CorrectedIs ==
    ASSUME NEW t, NEW hit, sw \in Lines PROVE Corrected(t, hit) \in Lines
<1>1. PICK b : b = pos[t].branch
  OBVIOUS
<1>2. Corrected(t, hit) \in {sw, [sw EXCEPT ![b] = OtherWay(@)]}
  BY <1>1 DEF Corrected
<1>3. \A d : OtherWay(d) \in Directions
  BY DEF OtherWay, Directions
<1> QED  BY <1>2, <1>3 DEF Lines

LEMMA NextHitIs ==
    ASSUME NEW w \in Lines, NEW p, Basic(p) PROVE NextHit(w, p) \in Sensed
<1>1. p.cur \in Sensors /\ p.cur \in Spots
  BY TrackAssumption DEF Basic, Spots, TrackAssumption
<1> QED  BY <1>1, NextSensorIs DEF NextHit, Sensed

\* A train rolls no further than the end of its window.
InWindow(p, i, hit) == i \in p.at .. p.rend /\ p.path[i] = hit /\ hit \in Nodes

LEMMA RollsInWindow ==
    ASSUME NEW t \in Trains, NEW p, NEW hit, NEW i,
           Slots, p = pos[t], Rolls(p, hit), i \in OnPath(p, hit)
    PROVE  InWindow(p, i, hit)
<1>1. p.state \in Moving /\ ChecksOffroute(p)
  BY DEF Rolls, ChecksOffroute, Moving
<1>2. /\ Slot(p) /\ Course(p.path) /\ Len(p.path) \in Nat
      /\ p.rend \in 1 .. Len(p.path) /\ p.at \in 1 .. p.rend /\ p.rend \in Nat /\ p.at \in Nat
  BY <1>1, UnderWay
<1>3. i \in p.at .. Len(p.path) /\ p.path[i] = hit
  BY DEF OnPath
<1>4. i \in 1 .. Len(p.path) /\ hit \in Nodes
  BY <1>2, <1>3 DEF Course
<1>5. CASE p.sent
  <2>1. PICK j \in i .. Len(p.path) : p.path[j] = p.frozen
    BY <1>5 DEF Rolls
  <2>2. PICK k \in 1 .. p.rend : p.path[k] = p.frozen
    BY <1>1, <1>2, <1>5 DEF Slot, Braking
  <2>3. j \in 1 .. Len(p.path) /\ k \in 1 .. Len(p.path)
    BY <1>2, <1>4, <2>1, <2>2
  <2>4. j = k
    BY <1>2, <2>1, <2>2, <2>3 DEF Course
  <2> QED  BY <1>2, <1>3, <1>4, <2>1, <2>2, <2>4 DEF InWindow
<1>6. CASE ~p.sent
  <2>1. i < p.rend
    BY <1>6 DEF Rolls
  <2> QED  BY <1>2, <1>3, <1>4, <2>1 DEF InWindow
<1> QED  BY <1>5, <1>6

LEMMA HitDoes == ASSUME Slots, NEW t \in Trains, Hit(t) PROVE Does(t)
<1>1. PICK p : p = pos[t]
  OBVIOUS
<1>2. PICK hit : hit = NextHit(sw, p)
  OBVIOUS
<1>3. PICK w : w = Corrected(t, hit)
  OBVIOUS
<1>4. PICK i : i = CHOOSE j \in OnPath(p, hit) : TRUE
  OBVIOUS
<1>5. PICK h : h = [p EXCEPT !.cur = hit, !.fresh = FALSE, !.recross = FALSE, !.at = i]
  OBVIOUS
<1>6. PICK s : s = SyncTarget(h)
  OBVIOUS
<1>7. PICK q : q = Predict(w, s)
  OBVIOUS
<1>8. PICK new : new = IF p.state = "ON_ROUTE"
                       THEN RefreshRoute(owner, w, t, hit, q.next, WindowTail(q.path, q.at, q.rend))
                       ELSE owner
  OBVIOUS
<1>9. PICK y : y = World(new, w, q)
  OBVIOUS
<1>10. HitOn(t, p, hit, w)
  BY <1>1, <1>2, <1>3 DEF Hit
<1>11. Rolls(p, hit) /\ OnPath(p, hit) # {} /\ Becomes(t, y)
  BY <1>4, <1>5, <1>6, <1>7, <1>8, <1>9, <1>10 DEF HitOn
<1>12. y.own = new /\ y.sw = w /\ y.p = q
  BY <1>9, WorldIs
<1>13. p.state \in Moving /\ hit # NoNode /\ p.state # "SETTLE"
  BY <1>11 DEF Rolls, ChecksOffroute, Moving
<1>14. /\ Slot(p) /\ Basic(p) /\ DOMAIN p = SlotFields /\ p.goal # NoNode /\ sw \in Lines
       /\ Course(p.path) /\ Len(p.path) \in Nat
       /\ p.rend \in 1 .. Len(p.path) /\ p.at \in 1 .. p.rend /\ p.rend \in Nat /\ p.at \in Nat
       /\ p.target = p.path[p.rend] /\ p.mode \in Reasons
  BY <1>1, <1>13, UnderWay
<1>15. i \in p.at .. p.rend /\ p.path[i] = hit /\ hit \in Nodes
  <2>1. i \in OnPath(p, hit)
    BY <1>4, <1>11
  <2>2. InWindow(p, i, hit)
    BY <1>1, <1>11, <2>1, RollsInWindow
  <2> QED  BY <2>2 DEF InWindow
<1>16. hit \in Sensors /\ w \in Lines
  BY <1>2, <1>3, <1>13, <1>14, NextHitIs, CorrectedIs DEF Sensed
<1>17. /\ DOMAIN q = SlotFields /\ q.next \in Sensed /\ q.cur = hit /\ q.goal = p.goal
       /\ q.mode = p.mode /\ q.state = p.state /\ q.sent = p.sent /\ q.frozen = p.frozen
       /\ q.path = p.path /\ q.at = i /\ q.rend = p.rend /\ q.target = p.path[p.rend]
  <2>1. /\ DOMAIN h = SlotFields /\ h.next = p.next /\ h.cur = hit /\ h.goal = p.goal
        /\ h.mode = p.mode /\ h.state = p.state /\ h.sent = p.sent /\ h.frozen = p.frozen
        /\ h.path = p.path /\ h.at = i /\ h.rend = p.rend
    BY <1>5, <1>14 DEF SlotFields
  <2>2. ~(h.rend < h.at)
    BY <1>14, <1>15, <2>1
  <2>3. /\ DOMAIN s = SlotFields /\ s.next = p.next /\ s.cur = hit /\ s.goal = p.goal
        /\ s.mode = p.mode /\ s.state = p.state /\ s.sent = p.sent /\ s.frozen = p.frozen
        /\ s.path = p.path /\ s.at = i /\ s.rend = p.rend /\ s.target = p.path[p.rend]
    BY <1>6, <2>1, <2>2, SyncTargetSlot DEF SameTrain, SameDoing
  <2>4. Basic(s)
    BY <1>14, <1>16, <2>3 DEF Basic
  <2> QED  BY <1>7, <1>16, <2>3, <2>4, PredictSlot DEF SameTrain, SameRoute, SameDoing
<1>18. Slot(q)
  <2>1. i \in 1 .. p.rend
    BY <1>14, <1>15
  <2>2. ChecksOffroute(q) /\ q.sent => \E k \in 1 .. q.rend : p.path[k] = q.frozen
    BY <1>14, <1>17 DEF Slot, Braking, ChecksOffroute
  <2> QED  BY <1>13, <1>14, <1>16, <1>17, <2>1, <2>2, MovingSlot
<1>19. ASSUME InOrder(owner, sw, t, pos[t]), Expected
       PROVE  /\ Fair(owner, new, t) /\ Spares(owner, sw, w, t)
              /\ Owns(new, t, q.cur) /\ WindowHeld(new, t, q) /\ WindowLined(w, q)
  <2>1. w = sw
    <3>1. sw' = w /\ pos' = [pos EXCEPT ![t] = q]
      BY <1>11, <1>12 DEF Becomes
    <3>2. \A u \in Trains : u # t => pos'[u] = pos[u]
      BY <3>1 DEF Slots
    <3>3. pos'[t] = q
      BY <3>1 DEF Slots
    <3>4. q.state # "SETTLE" /\ ~(q.rend > p.rend)
      BY <1>13, <1>14, <1>17
    <3>5. \A u \in Trains : pos'[u] # pos[u] =>
             pos'[u].state # "SETTLE" /\ ~(pos'[u].rend > pos[u].rend)
      BY <1>1, <3>2, <3>3, <3>4
    <3>6. sw' = sw
      BY <1>19, <3>5 DEF Expected
    <3> QED  BY <3>1, <3>6
  <2> DEFINE old == PlanMarks(WindowTail(p.path, p.at, p.rend))
             left == PlanMarks(WindowTail(p.path, i, p.rend))
  <2>2. left \subseteq old /\ hit \in old
    <3>1. WindowTail(p.path, i, p.rend) \subseteq WindowTail(p.path, p.at, p.rend)
      BY <1>14, <1>15 DEF WindowTail
    <3>2. hit \in WindowTail(p.path, p.at, p.rend)
      BY <1>15 DEF WindowTail
    <3> QED  BY <1>15, <3>1, <3>2, MarksGrow, MarksAre DEF PlanMarks
  <2>3. \A n \in old : Owns(owner, t, n)
    BY <1>1, <1>13, <1>19 DEF InOrder, WindowHeld
  <2> HIDE DEF old, left
  <2>4. Owns(owner, t, hit) /\ Pairs(owner)
    BY <1>19, <2>2, <2>3 DEF InOrder
  <2>5. Fair(owner, new, t) /\ Owns(new, t, hit) /\ \A n \in left : Owns(new, t, n)
    <3>1. CASE p.state = "ON_ROUTE"
      <4>1. new = RefreshRoute(owner, w, t, hit, q.next, WindowTail(p.path, i, p.rend))
        BY <1>8, <1>17, <3>1
      <4>2. /\ Fair(owner, new, t) /\ Owns(new, t, hit)
            /\ \A n \in left : Owns(owner, t, n) => Owns(new, t, n)
        BY <1>15, <2>4, <4>1, RefreshRouteFair DEF left
      <4> QED  BY <2>2, <2>3, <4>2
    <3>2. CASE p.state # "ON_ROUTE"
      BY <1>8, <2>2, <2>3, <2>4, <3>2, FairSame
    <3> QED  BY <3>1, <3>2
  <2>6. WindowHeld(new, t, q)
    BY <1>17, <2>5 DEF WindowHeld, left
  <2>7. WindowLined(w, q)
    <3>1. \A j \in i .. p.rend - 1 : j \in p.at .. p.rend - 1
      BY <1>14, <1>15
    <3>2. WindowLined(sw, p)
      BY <1>1, <1>19 DEF InOrder
    <3> QED  BY <1>13, <1>17, <2>1, <3>1, <3>2 DEF WindowLined
  <2> QED  BY <1>17, <2>1, <2>5, <2>6, <2>7 DEF Spares
<1>20. Result(t, y)
  BY <1>12, <1>16, <1>18, <1>19 DEF Result
<1> QED  BY <1>11, <1>20 DEF Does

\* A train that left its route stops, and so may others.
Strays(t, u) == pos'[u] = pos[u] \/ (/\ ChecksOffroute(pos[u]) /\ u # t
                                     /\ pos'[u] = EnterRecovery(pos[u]))

LEMMA HitOffDoes ==
    ASSUME Slots, NEW t \in Trains, HitOffRoute(t)
    PROVE  /\ owner' = owner /\ Slots'
           /\ Expected => /\ sw' = sw
                          /\ \A u \in Trains : /\ pos'[u].cur = pos[u].cur
                                               /\ pos'[u] = pos[u] \/ pos'[u].state \notin Moving
<1>1. PICK p : p = pos[t]
  OBVIOUS
<1>2. PICK hit : hit = NextHit(sw, p)
  OBVIOUS
<1>3. PICK w : w = Corrected(t, hit)
  OBVIOUS
<1>4. PICK h : h = [p EXCEPT !.cur = hit, !.fresh = FALSE, !.recross = FALSE]
  OBVIOUS
<1>5. HitOff(t, p, hit, w)
  BY <1>1, <1>2, <1>3 DEF HitOffRoute
<1>6. /\ Rolls(p, hit) /\ sw' = w /\ owner' = owner
      /\ pos' = [u \in Trains |-> pos'[u]] /\ pos'[t] = EnterRecovery(h)
      /\ \A u \in Trains \ {t} : Strays(t, u)
  BY <1>4, <1>5 DEF HitOff, Strays
<1>7. ChecksOffroute(p) /\ hit # NoNode /\ p.state \in Moving /\ p.state # "RECOVERY_STOPPING"
  BY <1>6 DEF Rolls, ChecksOffroute, Moving
<1>8. /\ Slot(p) /\ Basic(p) /\ DOMAIN p = SlotFields /\ p.goal # NoNode /\ sw \in Lines
      /\ p.rend \in Nat
  BY <1>1, <1>7, UnderWay
<1>9. hit \in Sensors /\ w \in Lines
  BY <1>2, <1>3, <1>7, <1>8, NextHitIs, CorrectedIs DEF Sensed
<1>10. /\ DOMAIN h = SlotFields /\ h.state = p.state /\ h.mode = p.mode /\ h.cur = hit
       /\ h.next = p.next /\ h.goal = p.goal /\ h.path = p.path /\ h.rend = p.rend
  BY <1>4, <1>8 DEF SlotFields
<1>11. ASSUME NEW r, Basic(r), r.goal # NoNode, NEW q, q = EnterRecovery(r)
       PROVE  /\ Slot(q) /\ q.state = "RECOVERY_STOPPING" /\ q.state \notin Moving
              /\ q.cur = r.cur /\ q.rend = r.rend
  <2>1. /\ DOMAIN q = SlotFields /\ q.next = r.next /\ q.cur = r.cur /\ q.goal = r.goal
        /\ q.path = r.path /\ q.rend = r.rend /\ q.mode = r.mode
        /\ q.state = "RECOVERY_STOPPING"
    BY <1>11, EnterRecoverySlot DEF Basic, SameTrain, SameRoute
  <2>2. Basic(q)
    BY <1>11, <2>1 DEF Basic, RouteStates
  <2>3. q.state \notin Moving /\ ~ChecksOffroute(q) /\ q.state # "WAIT_RESOURCE"
    BY <2>1 DEF Moving, ChecksOffroute
  <2> QED  BY <1>11, <2>1, <2>2, <2>3 DEF Slot, Waiting, Windowed, Braking
<1>12. /\ Slot(pos'[t]) /\ pos'[t].state = "RECOVERY_STOPPING" /\ pos'[t].state \notin Moving
       /\ pos'[t].cur = hit /\ pos'[t].rend = p.rend
  <2>1. Basic(h) /\ h.goal # NoNode
    BY <1>8, <1>9, <1>10 DEF Basic
  <2>2. PICK q : q = EnterRecovery(h)
    OBVIOUS
  <2>3. /\ Slot(q) /\ q.state = "RECOVERY_STOPPING" /\ q.state \notin Moving
        /\ q.cur = hit /\ q.rend = p.rend
    BY <1>10, <1>11, <2>1, <2>2
  <2> QED  BY <1>6, <2>2, <2>3
<1>13. ASSUME NEW u \in Trains, u # t
       PROVE  \/ pos'[u] = pos[u]
              \/ /\ Slot(pos'[u]) /\ pos'[u].state = "RECOVERY_STOPPING"
                 /\ pos'[u].state \notin Moving
                 /\ pos'[u].cur = pos[u].cur /\ pos'[u].rend = pos[u].rend /\ pos[u].rend \in Nat
  <2>1. Strays(t, u)
    BY <1>6, <1>13
  <2>2. CASE ChecksOffroute(pos[u]) /\ pos'[u] = EnterRecovery(pos[u])
    <3>1. PICK r : r = pos[u]
      OBVIOUS
    <3>2. r.state \in Moving
      BY <2>2, <3>1 DEF ChecksOffroute, Moving
    <3>3. Basic(r) /\ r.goal # NoNode /\ r.rend \in Nat
      BY <3>1, <3>2, UnderWay
    <3>4. PICK q : q = EnterRecovery(r)
      OBVIOUS
    <3>5. /\ Slot(q) /\ q.state = "RECOVERY_STOPPING" /\ q.state \notin Moving
          /\ q.cur = r.cur /\ q.rend = r.rend
      BY <1>11, <3>3, <3>4
    <3> QED  BY <2>2, <3>1, <3>3, <3>4, <3>5
  <2> QED  BY <2>1, <2>2 DEF Strays
<1>14. Slots'
  <2>1. \A u \in Trains : Slot(pos'[u])
    BY <1>12, <1>13 DEF Slots
  <2> QED  BY <1>6, <1>9, <2>1 DEF Slots
<1>15. ASSUME Expected
       PROVE  /\ sw' = sw
              /\ \A u \in Trains : /\ pos'[u].cur = pos[u].cur
                                   /\ pos'[u] = pos[u] \/ pos'[u].state \notin Moving
  <2>1. \A u \in Trains : pos'[u] # pos[u] =>
           pos'[u].state # "SETTLE" /\ ~(pos'[u].rend > pos[u].rend)
    <3>1. \A n \in Nat : ~(n > n)
      OBVIOUS
    <3> QED  BY <1>1, <1>8, <1>12, <1>13, <3>1
  <2>2. sw' = sw
    BY <1>15, <2>1 DEF Expected
  <2>3. p.recross
    BY <1>1, <1>7, <1>12, <1>15 DEF Expected
  <2>4. hit = p.cur
    BY <1>2, <2>3 DEF NextHit
  <2> QED  BY <1>1, <1>12, <1>13, <2>2, <2>4
<1> QED  BY <1>6, <1>14, <1>15

-----------------------------------------------------------------------------
(* The theorems.                                                           *)

LEMMA NextDoes ==
    ASSUME Slots, Next PROVE \E t \in Trains : Does(t) \/ HitOffRoute(t)
  BY GotoDoes, ResumeDoes, SettleDoes, HitDoes, TopUpDoes, BrakeDoes, BrakeToldDoes,
     DeadTrackDoes, RetryDoes, StopDoes, RecoveryReplanDoes DEF Next

LEMMA InitSlots == Init => Slots
<1> SUFFICES ASSUME Init PROVE Slots
  OBVIOUS
<1>1. sw \in Lines
  BY DEF Init, Straight, Lines, Directions
<1>2. pos = [t \in Trains |-> pos[t]]
  BY DEF Init
<1>3. ASSUME NEW t \in Trains PROVE Slot(pos[t])
  <2>1. PICK p : p = pos[t]
    OBVIOUS
  <2>2. /\ DOMAIN p = SlotFields /\ p.state = "STOPPED" /\ p.cur = Start[t] /\ p.next = NoNode
        /\ p.goal = NoNode /\ p.path = << >> /\ p.mode = "NONE"
    BY <2>1 DEF Init, SlotFields
  <2>3. Start[t] \in Sensors
    BY RouteAssumption DEF RouteAssumption
  <2>4. Slot(p)
    BY <2>2, <2>3 DEF Slot, Basic, Waiting, Windowed, Braking, ChecksOffroute, Moving,
                      RouteStates, Reasons, Sensed
  <2> QED  BY <2>1, <2>4
<1> QED  BY <1>1, <1>2, <1>3 DEF Slots

LEMMA SlotsKept == Slots /\ [Next]_vars => Slots'
<1>1. ASSUME Slots, NEW t \in Trains, Does(t) PROVE Slots'
  <2>1. PICK y : Becomes(t, y) /\ Result(t, y)
    BY <1>1 DEF Does
  <2>2. sw' \in Lines /\ Slot(y.p) /\ pos' = [pos EXCEPT ![t] = y.p]
    BY <2>1 DEF Becomes, Result
  <2>3. PICK q : q = y.p
    OBVIOUS
  <2>4. pos' = [u \in Trains |-> IF u = t THEN q ELSE pos[u]]
    BY <1>1, <2>2, <2>3 DEF Slots
  <2>5. \A u \in Trains : Slot(pos'[u])
    BY <1>1, <2>2, <2>3, <2>4 DEF Slots
  <2> QED  BY <2>2, <2>4, <2>5 DEF Slots
<1>2. ASSUME Slots, UNCHANGED vars PROVE Slots'
  BY <1>2 DEF vars, Slots
<1> QED  BY <1>1, <1>2, NextDoes, HitOffDoes

(* No request ends in a failed assertion or in planning the same blocked   *)
(* route over and over: a train that plans has a goal, and a path that the *)
(* search has just returned leaves alone the turnouts its own train holds.  *)
THEOREM NobodyPanics == Spec => []NoPanic
<1>1. Slots => NoPanic
  BY DEF Slots, Slot, Basic, RouteStates, NoPanic
<1> QED  BY <1>1, InitSlots, SlotsKept, PTL DEF Spec

-----------------------------------------------------------------------------
(* Places, windows and turnouts.                                           *)

AllInOrder ==
    \A t \in Trains : /\ Owns(owner, t, pos[t].cur)
                      /\ WindowHeld(owner, t, pos[t]) /\ WindowLined(sw, pos[t])

LEMMA InitInOrder == Init => AllInOrder
<1> SUFFICES ASSUME Init, NEW t \in Trains
             PROVE  /\ Owns(owner, t, pos[t].cur)
                    /\ WindowHeld(owner, t, pos[t]) /\ WindowLined(sw, pos[t])
  BY DEF AllInOrder
<1>1. pos[t].cur = Start[t] /\ pos[t].state \notin Moving
  BY DEF Init, Moving
<1>2. Straight \in Lines
  BY DEF Straight, Lines, Directions
<1>3. Start[t] \in Nodes /\ Start[t] \in Spots
  BY RouteAssumption, TrackAssumption DEF RouteAssumption, TrackAssumption, Spots
<1>4. Start[t] \in Held(t)
  <2>1. Start[t] \in Segment(Straight, Start[t], NextSensor(Straight, Start[t]))
    BY <1>2, <1>3, NextSensorIs, SegmentFrom
  <2>2. Start[t] \in Pair(  Segment(Straight, Start[t], NextSensor(Straight, Start[t]))
                           \cup WalkDist(Straight, Rev[Start[t]], Body))
    BY <1>3, <2>1 DEF Pair
  <2> QED  BY <2>2 DEF Held, Expand
<1>5. \A u \in Trains : Start[t] \in Held(u) => u = t
  BY <1>4, StartApart
<1>6. owner[Start[t]] = t
  BY <1>3, <1>4, <1>5 DEF Init
<1> QED  BY <1>1, <1>6 DEF Owns, WindowHeld, WindowLined

\* What t does on its own behalf leaves everybody else in order.
LEMMA OthersInOrder ==
    ASSUME Slots, AllInOrder, NEW t \in Trains, NEW u \in Trains, u # t, NEW own, NEW w,
           Fair(owner, own, t), Spares(owner, sw, w, t)
    PROVE  /\ Owns(own, u, pos[u].cur)
           /\ WindowHeld(own, u, pos[u]) /\ WindowLined(w, pos[u])
<1>1. PICK p : p = pos[u]
  OBVIOUS
<1>2. /\ Owns(owner, u, p.cur) /\ WindowHeld(owner, u, p) /\ WindowLined(sw, p)
      /\ p.cur \in Nodes
  BY <1>1, TrackAssumption DEF AllInOrder, Slots, Slot, Basic, TrackAssumption
<1>3. \A n \in Nodes : Owns(owner, u, n) => Owns(own, u, n)
  BY TrackAssumption DEF Owns, Fair, TrackAssumption
<1>4. Owns(own, u, p.cur)
  BY <1>2, <1>3
<1>5. WindowHeld(own, u, p)
  BY <1>2, <1>3, MarksAre DEF WindowHeld
<1>6. WindowLined(w, p)
  <2> SUFFICES ASSUME p.state \in Moving, NEW i \in p.at .. p.rend - 1, p.path[i] \in Branches
               PROVE  p.path[i + 1] = Leg[p.path[i]][w[p.path[i]]]
    BY DEF WindowLined
  <2>1. PICK b : b = p.path[i]
    OBVIOUS
  <2>2. p.rend \in Nat /\ p.at \in Nat
    BY <1>1, UnderWay
  <2>3. b \in Branches /\ b \in Nodes /\ b \in WindowTail(p.path, p.at, p.rend)
    BY <2>1, <2>2, TrackAssumption DEF WindowTail, TrackAssumption
  <2>4. Owns(owner, u, b)
    BY <1>2, <2>3, MarksAre DEF WindowHeld
  <2>5. w[b] = sw[b]
    BY <2>3, <2>4, TrackAssumption DEF Spares, Owns, TrackAssumption
  <2>6. p.path[i + 1] = Leg[b][sw[b]]
    BY <1>2, <2>1, <2>3 DEF WindowLined
  <2> QED  BY <2>1, <2>5, <2>6
<1> QED  BY <1>1, <1>4, <1>5, <1>6

\* What one step does to everybody, unless it is a false alarm.
LEMMA InOrderDoes ==
    ASSUME Slots, PairOwned, AllInOrder, NEW t \in Trains, Does(t), Expected
    PROVE  AllInOrder' /\ Fair(owner, owner', t)
<1>1. PICK y : Becomes(t, y) /\ Result(t, y)
  BY DEF Does
<1>2. PICK own, w, q : own = y.own /\ w = y.sw /\ q = y.p
  OBVIOUS
<1>3. owner' = own /\ sw' = w /\ pos' = [pos EXCEPT ![t] = q]
  BY <1>1, <1>2 DEF Becomes
<1>4. pos'[t] = q /\ \A u \in Trains : u # t => pos'[u] = pos[u]
  BY <1>3 DEF Slots
<1>5. InOrder(owner, sw, t, pos[t])
  BY DEF InOrder, AllInOrder, PairOwned
<1>6. /\ Fair(owner, own, t) /\ Spares(owner, sw, w, t)
      /\ Owns(own, t, q.cur) /\ WindowHeld(own, t, q) /\ WindowLined(w, q)
  BY <1>1, <1>2, <1>5 DEF Result
<1>7. ASSUME NEW u \in Trains
      PROVE  /\ Owns(owner', u, pos'[u].cur)
             /\ WindowHeld(owner', u, pos'[u]) /\ WindowLined(sw', pos'[u])
  <2>1. CASE u = t
    BY <1>3, <1>4, <1>6, <2>1
  <2>2. CASE u # t
    <3>1. /\ Owns(own, u, pos[u].cur)
          /\ WindowHeld(own, u, pos[u]) /\ WindowLined(w, pos[u])
      BY <1>6, <2>2, OthersInOrder
    <3> QED  BY <1>3, <1>4, <2>2, <3>1
  <2> QED  BY <2>1, <2>2
<1> QED  BY <1>3, <1>6, <1>7 DEF AllInOrder

LEMMA InOrderStrays ==
    ASSUME Slots, AllInOrder, NEW t \in Trains, HitOffRoute(t), Expected
    PROVE  AllInOrder' /\ Fair(owner, owner', t)
<1>1. /\ owner' = owner /\ sw' = sw
      /\ \A u \in Trains : /\ pos'[u].cur = pos[u].cur
                           /\ pos'[u] = pos[u] \/ pos'[u].state \notin Moving
  BY HitOffDoes
<1>2. ASSUME NEW u \in Trains
      PROVE  /\ Owns(owner', u, pos'[u].cur)
             /\ WindowHeld(owner', u, pos'[u]) /\ WindowLined(sw', pos'[u])
  <2>1. Owns(owner', u, pos'[u].cur)
    BY <1>1 DEF AllInOrder
  <2>2. CASE pos'[u] = pos[u]
    BY <1>1, <2>1, <2>2 DEF AllInOrder
  <2>3. CASE pos'[u].state \notin Moving
    BY <2>1, <2>3 DEF WindowHeld, WindowLined
  <2> QED  BY <1>1, <2>2, <2>3
<1> QED  BY <1>1, <1>2, FairSame DEF AllInOrder

LEMMA InOrderKept ==
    Slots /\ PairOwned /\ AllInOrder /\ [Next]_vars /\ [Expected]_vars => AllInOrder'
<1>1. ASSUME UNCHANGED vars, AllInOrder PROVE AllInOrder'
  BY <1>1 DEF vars, AllInOrder
<1>2. ASSUME Slots, PairOwned, AllInOrder, Next, Expected PROVE AllInOrder'
  BY <1>2, NextDoes, InOrderDoes, InOrderStrays
<1> QED  BY <1>1, <1>2

(* The invariant of the next three theorems: if no sensor hit is a false    *)
(* alarm, every train owns the sensor it is known by, and a train under     *)
(* way owns its window and has the turnouts of that window lined for it.    *)
THEOREM EverybodyInOrder == Spec /\ NoFalseAlarm => []AllInOrder
  BY InitSlots, SlotsKept, PlacesHeldWhole, InitInOrder, InOrderKept, PTL DEF Spec, NoFalseAlarm

(* The sensor a train is known by stays its own for as long as no sensor   *)
(* hit raises a false alarm, whatever it or another train gives back: a    *)
(* stop, a wait, a launch in reverse, the way back over the last sensor.    *)
THEOREM TrainsOwnTheirPlace == Spec /\ NoFalseAlarm => []PositionOwned
<1>1. AllInOrder => PositionOwned
  BY DEF AllInOrder, PositionOwned, Owns
<1> QED  BY <1>1, EverybodyInOrder, PTL

(* Under the same condition a train under way holds the whole of its       *)
(* remaining window, with every zone it touches, in spite of what its hits *)
(* give back behind it and of what the others reserve.                     *)
THEOREM TrainsOwnTheirWindow == Spec /\ NoFalseAlarm => []WindowOwned
<1>1. AllInOrder => WindowOwned
  BY DEF AllInOrder, WindowOwned, WindowHeld, Owns
<1> QED  BY <1>1, EverybodyInOrder, PTL

(* And the turnouts of that window stand as its path needs them, whatever  *)
(* the other trains throw for theirs.                                      *)
THEOREM WindowsStayLined == Spec /\ NoFalseAlarm => []RouteLined
<1>1. AllInOrder => RouteLined
  BY DEF AllInOrder, RouteLined, WindowLined
<1> QED  BY <1>1, EverybodyInOrder, PTL

(* No step takes from a train what it holds: a node is given back before   *)
(* it has a new owner, although the node under a train is taken unasked.   *)
THEOREM NothingIsStolen == Spec /\ NoFalseAlarm => NoSteal
<1>1. ASSUME Slots, PairOwned, AllInOrder, Next, Expected
      PROVE  \A n \in Nodes : owner[n] = NoTrain \/ owner'[n] \in {owner[n], NoTrain}
  <2>1. PICK t \in Trains : Fair(owner, owner', t)
    BY <1>1, NextDoes, InOrderDoes, InOrderStrays
  <2> QED  BY <2>1 DEF Fair
<1>2. Slots /\ PairOwned /\ AllInOrder /\ [Next]_vars /\ [Expected]_vars
         => [\A n \in Nodes : owner[n] = NoTrain \/ owner'[n] \in {owner[n], NoTrain}]_vars
  BY <1>1
<1> QED  BY <1>2, InitSlots, SlotsKept, PlacesHeldWhole, EverybodyInOrder, PTL
         DEF Spec, NoFalseAlarm, NoSteal
=============================================================================
