--------------------------- MODULE RouteAuthority ---------------------------
(***************************************************************************)
(* Trains that drive themselves to a goal under rolling authority: the     *)
(* route states of src/user/train_tracking/position.                       *)
(*                                                                         *)
(* A train that is sent to a goal commits a path.  It is launched when a   *)
(* first window of the path can be reserved and its turnouts can be        *)
(* thrown, and runs towards the end of that window; on the way the window  *)
(* is topped up.  When it cannot be, the train brakes, waits there, and    *)
(* resumes later.  Whatever lies behind is given back at every sensor hit  *)
(* and at every stop.                                                      *)
(*                                                                         *)
(* Each action is one request of the position server, which handles them   *)
(* one at a time.  The order in which its ticks, sensor hits and commands  *)
(* arrive is open, and so are the times (brake point, settling of the      *)
(* turnouts, retry, dead-track deadline).  Open too is which of several     *)
(* equally short paths the route search returns.                           *)
(*                                                                         *)
(* The railway itself is in here as far as the code depends on it: a       *)
(* train rolls along the turnouts as they stand and each sensor it meets   *)
(* is reported and attributed to it; it does not run past the sensor it    *)
(* brakes for; a train stopped off its route does not roll over another    *)
(* sensor.  Routes with a reversal half way, manual driving, the search    *)
(* for a lost train and the resolution of deadlocks are not in here.       *)
(***************************************************************************)
EXTENDS TrafficReservation

CONSTANTS
    Goals,              \* train -> the sensors it is sent to
    Start,              \* train -> the sensor at which it is known to stand
    MinWindow,          \* pos_route_authority_min_mm: brake distance and reserve
    BrakeDist,          \* how far from the end of the window the train may brake:
                        \* its braking distance and the length of a segment
    Body,               \* TRAIN_BODY_MM
    MayStall,           \* the trains that may come to a stand on dead track
    NoReverseRestart,   \* sensors after which a parked train may not reverse
    NoReverseStart      \* sensors from which a reversed route may not start

ASSUME RouteAssumption ==
    /\ Goals \in [Trains -> SUBSET Sensors]
    /\ Start \in [Trains -> Sensors]

VARIABLES
    owner,  \* node_owner
    sw,     \* the stored positions of the turnouts
    pos     \* train -> its slot of g_pos

vars == <<owner, sw, pos>>

Moving  == {"SETTLE", "ON_ROUTE", "STOPPING", "DEAD_TRACK"}

Same(a, b) == a = b \/ (a \in Nodes /\ b = Rev[a])

-----------------------------------------------------------------------------
(* Prediction.                                                             *)

\* The first branch met before the next sensor, or NoNode.
FirstBranches ==
    LET first[walk \in WalkKind] ==
            LET at == {k \in 1 .. MaxHops : /\ walk[k] \in Branches
                                            /\ \A j \in 1 .. k : walk[j] \notin Sensors}
            IN  IF at = {} THEN NoNode ELSE walk[CHOOSE k \in at : \A j \in at : k <= j]
    IN  OfWalks(first)

BranchAhead(w, n) == FirstBranches[w][n]

\* predict_next_sensor: where the train goes, and where if that branch is wrong.
Predict(w, p) ==
    LET astray[b \in Branches \cup {NoNode}] ==
            IF b = NoNode THEN NoNode ELSE SensorFrom(w, Leg[b][OtherWay(w[b])])
    IN  [p EXCEPT !.next = NextSensor(w, p.cur),
                  !.branch = BranchAhead(w, p.cur),
                  !.alt = astray[BranchAhead(w, p.cur)]]

ClearPrediction(p) == [p EXCEPT !.next = NoNode, !.alt = NoNode, !.branch = NoNode]

\* pos_release_keep_end
KeepEnd(w, p) == IF p.next # NoNode THEN p.next ELSE NextSensor(w, p.cur)

-----------------------------------------------------------------------------
(* The route search.                                                       *)

Onward(n) == IF n \in Branches THEN {Leg[n][d] : d \in Directions}
             ELSE {Ahead[n]} \ {NoNode}

\* Every path without a repeated node, by its first node and by where it ends,
\* met in either direction.
Paths ==
    LET onward(q) == {Append(q, n) : n \in Onward(q[Len(q)]) \ {q[i] : i \in 1 .. Len(q)}}
        longer == [Q \in SUBSET Seq(Nodes) |-> UNION {onward(q) : q \in Q}]
        from(o) == LET of[k \in 0 .. MaxHops - 1] == IF k = 0 THEN {<<o>>} ELSE longer[of[k - 1]]
                   IN  UNION {of[k] : k \in 0 .. MaxHops - 1}
        ending(paths) == Table([g \in Sensors |-> {q \in paths : Same(q[Len(q)], g)}])
    IN  Table([o \in Sensors |-> ending(from(o))])

FixedNone(own, t) == {}

\* A turnout whose envelope the train itself holds stays as it stands.
Fixed(own, t) == {b \in Branches : CanSetSwitch(own, b) = t}

\* The first sensor ahead, and the node to start from if reversed first.
Origins(w, p) ==
    LET behind(ahead) == IF \/ p.state \in {"STOPPED", "WAIT_RESOURCE"} /\ p.onTarget
                            \/ ahead = NoNode
                         THEN Rev[p.cur] ELSE Rev[ahead]
        from(ahead) == (IF ahead = NoNode THEN {} ELSE {<<ahead, FALSE>>}) \cup
                       (IF p.noReverse \/ behind(ahead) \in NoReverseStart THEN {}
                        ELSE {<<behind(ahead), TRUE>>})
    IN  from(KeepEnd(w, p))

Keeps(w, fixed, path) ==
    \A i \in 1 .. Len(path) - 1 :
        path[i] \in fixed => path[i + 1] = Leg[path[i]][w[path[i]]]

Total(path) == PathDist(path, 1, Len(path))

\* What A* finds from o: a shortest path to the goal.
Found(w, o, goal, fixed, blocked) ==
    LET shortest(paths) == {q \in paths : \A r \in paths : Total(q) <= Total(r)}
    IN  shortest({q \in Paths[o][goal] : /\ Keeps(w, fixed, q)
                                         /\ \A i \in 2 .. Len(q) : q[i] \notin blocked})

\* The shorter of what is found from the two origins, as <<path, reverse first?>>.
Best(w, origins, goal, fixed, blocked) ==
    LET from(o) == {<<q, o[2]>> : q \in {r \in Found(w, o[1], goal, fixed, blocked) :
                                              Total(r) > MinWindow}}
        shortest(plans) == {a \in plans : \A b \in plans : Total(a[1]) <= Total(b[1])}
    IN  shortest(UNION {from(o) : o \in origins})

\* Around what other trains hold if it can be, else through it, to wait there.
Plans(own, w, t, p) ==
    LET best(blocked) == Best(w, Origins(w, p), p.goal, Fixed(own, t), blocked)
        orElse(clear) == IF clear # {} THEN clear ELSE best({})
    IN  orElse(best(Constraints(own, t)))

-----------------------------------------------------------------------------
(* Authority.                                                              *)

\* Where a window starting at `from` may end.
Ends(path, from) ==
    {e \in from .. Len(path) : /\ e = Len(path) \/ path[e] \in Sensors
                               /\ PathDist(path, from, e) > 0}

Granted(own, w, t, path, from, e) ==
    /\ SwitchBlocker(own, w, WindowSwitches(path, from, e)) = NoTrain
    /\ CanReservePlan(own, t, WindowNodes(path, from, e))

\* The shortest window that is long enough, ends after `past` and meets no obstacle.
Window(own, w, t, path, from, past) ==
    LET ends == Ends(path, from)
        long == {e \in ends : e > past /\ PathDist(path, from, e) >= MinWindow}
    IN  {e \in long : /\ \A f \in long : e <= f
                      /\ \A f \in ends : f <= e => Granted(own, w, t, path, from, f)}

\* No window, because the first obstacle is a turnout inside what the train holds.
SelfBlocked(own, w, t, path, from) ==
    \E e \in Ends(path, from) :
        /\ SwitchBlocker(own, w, WindowSwitches(path, from, e)) = t
        /\ \A f \in Ends(path, from) : f < e => Granted(own, w, t, path, from, f)

\* pos_route_authority_sync_target
SyncTarget(p) ==
    LET upTo(e) == [p EXCEPT !.rend = e, !.target = p.path[e]]
    IN  upTo(IF p.rend < p.at THEN p.at ELSE p.rend)

LegGoal(p) == p.path = << >> \/ p.rend >= Len(p.path)

-----------------------------------------------------------------------------
(* What the handlers do to one train.  A world is the table, the turnouts  *)
(* and the slot of that train.                                             *)

World(own, w, p) == [own |-> own, sw |-> w, p |-> p]

ClearRoute(p) == [p EXCEPT !.path = << >>, !.at = 1, !.rend = 1,
                           !.mode = "NONE", !.reverse = FALSE]

\* pos_refresh_stop_reservation
RefreshStop(own, w, t, p) ==
    LET upTo(end) ==
            IF p.cur = p.target
            THEN IF end # NoNode THEN RefreshPrediction(own, w, t, p.cur, end, 0)
                 ELSE ReleaseKeepBody(own, w, t, p.cur, Body, NoNode)
            ELSE IF p.at < p.rend
                 THEN RefreshRoute(own, w, t, p.cur, end, WindowTail(p.path, p.at, p.rend))
                 ELSE own
    IN  upTo(NextSensor(w, p.cur))

EnterWait(x, t, mode) ==
    IF x.p.state = "WAIT_RESOURCE" THEN [x EXCEPT !.p.mode = mode]
    ELSE World(IF mode = "RESUME_ROUTE" THEN RefreshStop(x.own, x.sw, t, x.p)
               ELSE ReleaseKeepBody(x.own, x.sw, t, x.p.cur, Body, KeepEnd(x.sw, x.p)),
               x.sw,
               [ClearPrediction(x.p) EXCEPT !.state = "WAIT_RESOURCE", !.mode = mode,
                                            !.rend = 1, !.sent = TRUE])

\* pos_launch_at_goto_speed
SetOff(p) == [p EXCEPT !.state = "ON_ROUTE", !.fresh = TRUE, !.sent = FALSE,
                       !.frozen = NoNode, !.onTarget = FALSE, !.noReverse = FALSE]

\* pos_complete_switch_settle: a reversed train expects the sensor it stands past.
Settled(w, p) ==
    SetOff(IF p.recross THEN [ClearPrediction(p) EXCEPT !.next = p.cur] ELSE Predict(w, p))

\* A launch in reverse: the sensor behind the train is the next one.
Turned(p) == IF p.reverse
             THEN [ClearPrediction(p) EXCEPT !.cur = Rev[p.cur], !.next = Rev[p.cur],
                                             !.recross = TRUE]
             ELSE p

\* The window path[from .. e] is granted: throw, reserve, turn round, set off.
Launched(x, t, from, e) ==
    LET ready == SyncTarget([Turned(x.p) EXCEPT !.rend = e, !.mode = "NONE",
                                                !.reverse = FALSE])
        with(sws, thrown) ==
            World(ReservePlan(x.own, t, WindowNodes(x.p.path, from, e)), thrown,
                  IF DOMAIN sws = {} THEN Settled(thrown, ready)
                  ELSE [ready EXCEPT !.state = "SETTLE"])
        throwing(sws) == with(sws, Throw(x.sw, sws))
    IN  throwing(WindowSwitches(x.p.path, from, e))

\* A first launch.  Blocked by itself, it would plan the same route for ever.
Launch(x, t) ==
    LET ends == Window(x.own, x.sw, t, x.p.path, 1, 0)
    IN  IF ends # {} THEN {Launched(x, t, 1, e) : e \in ends}
        ELSE IF SelfBlocked(x.own, x.sw, t, x.p.path, 1)
             THEN {[x EXCEPT !.p.state = "PANIC"]}
             ELSE {EnterWait(x, t, "PRELAUNCH_ROUTE")}

Commit(p, plan) == [ClearRoute(p) EXCEPT !.path = plan[1], !.reverse = plan[2],
                                         !.mode = "PRELAUNCH_ROUTE"]

\* pos_try_direct_goto; without a goal it reports failure and its caller asserts.
DirectGoto(x, t) ==
    LET plans == Plans(x.own, x.sw, t, x.p)
    IN  IF x.p.goal = NoNode THEN {[x EXCEPT !.p.state = "PANIC"]}
        ELSE IF plans = {} THEN {EnterWait(x, t, "NONE")}
        ELSE UNION {Launch(y, t) : y \in {[x EXCEPT !.p = Commit(x.p, plan)] : plan \in plans}}

\* pos_prepare_goto_request
Prepare(p, g) == [ClearRoute(p) EXCEPT !.goal = g, !.target = g]

\* pos_replan_from_current_stop
Replan(x, t) ==
    LET g == IF x.p.goal # NoNode THEN x.p.goal ELSE x.p.target
    IN  UNION {DirectGoto(y, t) : y \in {[x EXCEPT !.p = Prepare(x.p, g)]}}

\* A waiting train takes up the route it has committed.
Relaunch(x, t) ==
    LET p == x.p
        from == IF p.mode = "RESUME_ROUTE" THEN p.at ELSE 1
        tooShort == p.mode = "RESUME_ROUTE" /\ PathDist(p.path, from, Len(p.path)) < MinWindow
        ends == Window(x.own, x.sw, t, p.path, from, 0)
    IN  IF p.path = << >> THEN {EnterWait(x, t, p.mode)}
        ELSE IF tooShort \/ (ends = {} /\ SelfBlocked(x.own, x.sw, t, p.path, from))
             THEN Replan(x, t)
        ELSE IF ends = {} THEN {EnterWait(x, t, p.mode)}
        ELSE {Launched(x, t, from, e) : e \in ends}

-----------------------------------------------------------------------------
(* Sensor hits.                                                            *)

\* The first sensor the route still has before it, or the predicted one.
Planned(p) ==
    LET first(left) == IF left = {} THEN p.next
                       ELSE p.path[CHOOSE i \in left : \A j \in left : i <= j]
    IN  first({i \in p.at .. Len(p.path) : p.path[i] \in Sensors})

\* The leg of b that leads to n, or the one stored when both or none do.
LegTo(w, b, n) ==
    LET only(legs) == IF legs = {"S"} \/ legs = {"C"} THEN legs ELSE {w[b]}
    IN  only({d \in Directions : n # NoNode /\ Reaches(w, Leg[b][d], n)})

\* The branch ahead leads to the hit by the leg the route does not take.
CurrentLegAlt(w, p, hit) ==
    \E b \in {BranchAhead(w, p.cur)} \ {NoNode} : \E d \in LegTo(w, b, Planned(p)) :
        ~Reaches(w, Leg[b][d], hit) /\ Reaches(w, Leg[b][OtherWay(d)], hit)

\* pos_hit_matches_alt_branch
TookAltAnyway(w, p, hit) ==
    IF p.branch # NoNode /\ p.alt # NoNode /\ Reaches(w, p.alt, hit)
    THEN TRUE ELSE CurrentLegAlt(w, p, hit)

TookAlt(w, p, hit) ==
    IF p.branch # NoNode /\ p.alt # NoNode /\ Reaches(w, p.alt, hit)
    THEN hit = p.alt \/ p.next = NoNode \/ ~Reaches(w, p.next, hit)
    ELSE CurrentLegAlt(w, p, hit)

\* The sensor a rolling train meets next; one that has turned round meets
\* the sensor it had last passed once more.
NextHit(w, p) == IF p.recross THEN p.cur ELSE NextSensor(w, p.cur)

OnPath(p, hit) == {i \in p.at .. Len(p.path) : p.path[i] = hit}

EnterRecovery(p) == [p EXCEPT !.state = "RECOVERY_STOPPING", !.sent = TRUE]

ChecksOffroute(p) == p.state \in {"ON_ROUTE", "STOPPING"}

-----------------------------------------------------------------------------
Becomes(t, x) == /\ owner' = x.own
                 /\ sw' = x.sw
                 /\ pos' = [pos EXCEPT ![t] = x.p]

Here(t) == World(owner, sw, pos[t])

\* A goto for a train that is parked.
Goto(t, g) ==
    /\ pos[t].state = "STOPPED"
    /\ \E x \in {World(owner, sw, Prepare(pos[t], g))} :
          \E y \in DirectGoto(x, t) : Becomes(t, y)

\* pos_try_resume_wait_resource, by the replan tick
Resume(t) ==
    /\ pos[t].state = "WAIT_RESOURCE"
    /\ pos[t].mode = "NONE" => pos[t].goal # NoNode
    /\ \E x \in {Here(t)} :
          \E y \in (IF pos[t].mode = "NONE" THEN DirectGoto(x, t) ELSE Relaunch(x, t)) :
             Becomes(t, y)

\* The turnouts of a launch have had their time.
Settle(t) ==
    /\ pos[t].state = "SETTLE"
    /\ pos' = [pos EXCEPT ![t] = Settled(sw, @)]
    /\ UNCHANGED <<owner, sw>>

\* How far a train rolls: short of the end of its window until it has been
\* told to brake, to the sensor it brakes for afterwards; and not on to a
\* further sensor before the tick that handles a pending brake.
Rolls(p, hit) ==
    /\ ChecksOffroute(p)
    /\ p.state = "ON_ROUTE" /\ p.sent => p.fresh
    /\ hit # NoNode
    /\ p.sent => p.cur # p.frozen
    /\ \A i \in OnPath(p, hit) :
          IF p.sent THEN \E j \in i .. Len(p.path) : p.path[j] = p.frozen
                    ELSE i < p.rend

\* The turnout is corrected first (pos_event.c), then the hit is handled.
Corrected(t, hit) ==
    IF pos[t].branch # NoNode /\ TookAlt(sw, pos[t], hit)
    THEN [sw EXCEPT ![pos[t].branch] = OtherWay(@)] ELSE sw

\* The train is on its route: the track behind it is given back.
HitOn(t, p, hit, w) ==
    LET here == [p EXCEPT !.cur = hit, !.fresh = FALSE, !.recross = FALSE,
                          !.at = CHOOSE i \in OnPath(p, hit) : TRUE]
        kept(q) == IF p.state = "ON_ROUTE"
                   THEN RefreshRoute(owner, w, t, hit, q.next,
                                     WindowTail(q.path, q.at, q.rend))
                   ELSE owner
        then(q) == Becomes(t, World(kept(q), w, q))
    IN  /\ Rolls(p, hit)
        /\ ~TookAlt(w, p, hit)
        /\ OnPath(p, hit) # {}
        /\ then(Predict(w, SyncTarget(here)))

\* It is not: it stops, and so does a train whose track it is on.
HitOff(t, p, hit, w) ==
    LET also == {o \in Trains \ {t} : o = owner[hit] /\ ChecksOffroute(pos[o])}
    IN  /\ Rolls(p, hit)
        /\ TookAlt(w, p, hit) \/ OnPath(p, hit) = {}
        /\ sw' = w
        /\ pos' = [o \in Trains |->
                     IF o = t THEN EnterRecovery([p EXCEPT !.cur = hit, !.fresh = FALSE,
                                                           !.recross = FALSE])
                     ELSE IF o \in also THEN EnterRecovery(pos[o]) ELSE pos[o]]
        /\ UNCHANGED owner

Hit(t) == LET at(hit) == HitOn(t, pos[t], hit, Corrected(t, hit))
          IN  at(NextHit(sw, pos[t]))
HitOffRoute(t) == LET at(hit) == HitOff(t, pos[t], hit, Corrected(t, hit))
                  IN  at(NextHit(sw, pos[t]))

-----------------------------------------------------------------------------
(* Ticks.                                                                  *)

Longer(t) == Window(owner, sw, t, pos[t].path, pos[t].at, pos[t].rend)

\* pos_route_authority_try_top_up, by the replan tick or at the brake point
TopUp(t) ==
    LET p == pos[t]
    IN  /\ p.state = "ON_ROUTE"
        /\ \E e \in Longer(t) :
              Becomes(t, World(ReservePlan(owner, t, WindowNodes(p.path, p.at, e)),
                               Throw(sw, WindowSwitches(p.path, p.at, e)),
                               SyncTarget([p EXCEPT !.rend = e])))

\* The brake point, when the window cannot be topped up.
Brake(t) ==
    LET p == pos[t]
    IN  /\ p.state = "ON_ROUTE"
        /\ ~p.sent
        /\ PathDist(p.path, p.at, p.rend) <= BrakeDist
        /\ Longer(t) = {}
        /\ pos' = [pos EXCEPT ![t].sent = TRUE, ![t].frozen = p.target,
                              ![t].state = IF p.fresh THEN "ON_ROUTE" ELSE "STOPPING"]
        /\ UNCHANGED <<owner, sw>>

\* A brake commanded before the first hit of the run counts from that hit.
BrakeTold(t) ==
    /\ pos[t].state = "ON_ROUTE" /\ pos[t].sent /\ ~pos[t].fresh
    /\ pos' = [pos EXCEPT ![t].state = "STOPPING"]
    /\ UNCHANGED <<owner, sw>>

\* No sensor was hit before the deadline: the train has come to a stand.  A
\* hit moves the deadline well past the tick that handles a pending brake.
DeadTrack(t) ==
    /\ t \in MayStall
    /\ pos[t].state = "ON_ROUTE"
    /\ pos[t].sent => pos[t].fresh
    /\ pos' = [pos EXCEPT ![t].state = "DEAD_TRACK", ![t].sent = TRUE, ![t].fresh = FALSE]
    /\ UNCHANGED <<owner, sw>>

Retry(t) ==
    /\ pos[t].state = "DEAD_TRACK"
    /\ pos' = [pos EXCEPT ![t] = Predict(sw, SetOff(SyncTarget(@)))]
    /\ UNCHANGED <<owner, sw>>

\* Where a stop leads, with g the goto queued meanwhile, or NoNode.
Parked(x, t, g, atGoal) ==
    IF g # NoNode THEN UNION {DirectGoto(y, t) : y \in {[x EXCEPT !.p = Prepare(x.p, g)]}}
    ELSE IF atGoal THEN {[x EXCEPT !.p = [ClearRoute(x.p) EXCEPT !.goal = NoNode]]}
    ELSE {EnterWait(x, t, "RESUME_ROUTE")}

\* The brakes have done their work.
Stop(t, g) ==
    LET p == pos[t]
        stopped == IF p.frozen # NoNode THEN p.frozen ELSE p.target
        at == [p EXCEPT !.state = "STOPPED", !.frozen = NoNode, !.fresh = FALSE,
                        !.onTarget = LegGoal(p) /\ Same(p.cur, stopped),
                        !.noReverse = stopped \in NoReverseRestart]
    IN  /\ p.state = "STOPPING"
        /\ \E q \in {at} :
              \E x \in {World(RefreshStop(owner, sw, t, q), sw, ClearPrediction(q))} :
                 \E y \in Parked(x, t, g, LegGoal(p)) : Becomes(t, y)

\* A train that left its route has stopped and plans afresh.
RecoveryReplan(t) ==
    LET p == [pos[t] EXCEPT !.fresh = FALSE]
        own == ReleaseKeepBody(owner, sw, t, p.cur, Body, KeepEnd(sw, p))
    IN  /\ p.state = "RECOVERY_STOPPING"
        /\ \E x \in {World(own, sw, p)} : \E y \in DirectGoto(x, t) : Becomes(t, y)

-----------------------------------------------------------------------------
(* Every train stands just past the sensor Start[t], holding the track up   *)
(* to the next sensor and the track under it: what a search for its         *)
(* position leaves behind.                                                  *)
Straight == [b \in Branches |-> "S"]

Held(t) == Expand(Pair(  Segment(Straight, Start[t], NextSensor(Straight, Start[t]))
                    \cup WalkDist(Straight, Rev[Start[t]], Body)))

ASSUME StartApart == \A t, u \in Trains : t # u => Held(t) \cap Held(u) = {}

Init ==
    /\ sw = Straight
    /\ owner = [n \in Nodes |-> IF \E t \in Trains : n \in Held(t)
                                THEN CHOOSE t \in Trains : n \in Held(t) ELSE NoTrain]
    /\ pos = [t \in Trains |->
                [state |-> "STOPPED", cur |-> Start[t], next |-> NoNode, alt |-> NoNode,
                 branch |-> NoNode, path |-> << >>, at |-> 1, rend |-> 1, goal |-> NoNode,
                 target |-> NoNode, frozen |-> NoNode, mode |-> "NONE", reverse |-> FALSE,
                 onTarget |-> FALSE, noReverse |-> FALSE, sent |-> FALSE,
                 fresh |-> FALSE, recross |-> FALSE]]

Next ==
    \/ \E t \in Trains : \E g \in Goals[t] : Goto(t, g)
    \/ \E t \in Trains : Resume(t)
    \/ \E t \in Trains : Settle(t)
    \/ \E t \in Trains : Hit(t)
    \/ \E t \in Trains : HitOffRoute(t)
    \/ \E t \in Trains : TopUp(t)
    \/ \E t \in Trains : Brake(t)
    \/ \E t \in Trains : BrakeTold(t)
    \/ \E t \in Trains : DeadTrack(t)
    \/ \E t \in Trains : Retry(t)
    \/ \E t \in Trains : \E g \in Goals[t] \cup {NoNode} : Stop(t, g)
    \/ \E t \in Trains : RecoveryReplan(t)

Spec == Init /\ [][Next]_vars

-----------------------------------------------------------------------------
(* Properties.                                                             *)

Pairs(own) == \A n \in Nodes : own[n] = own[Rev[n]]

(* A place is held in both directions or in neither: the two entries of a  *)
(* node pair never disagree.  Every function of traffic_reservation.c sets  *)
(* pairs of its own; none compares them.                                   *)
PairOwned == Pairs(owner)

(* The sensor a train is known by is its own, whatever it or another train *)
(* has given back since: a stop, a wait, a launch in reverse, a lost route. *)
PositionOwned == \A t \in Trains : owner[pos[t].cur] = t

(* A train under way holds the whole of its remaining window, with every   *)
(* zone it touches, in spite of what each hit and each top-up gives back.   *)
WindowOwned ==
    \A t \in Trains : pos[t].state \in Moving =>
        \A n \in PlanMarks(WindowTail(pos[t].path, pos[t].at, pos[t].rend)) : owner[n] = t

(* The turnouts of that window stand as the path needs them, though any    *)
(* train may throw any turnout it can reserve.                             *)
RouteLined ==
    \A t \in Trains : pos[t].state \in Moving =>
        \A i \in pos[t].at .. pos[t].rend - 1 :
            pos[t].path[i] \in Branches =>
                pos[t].path[i + 1] = Leg[pos[t].path[i]][sw[pos[t].path[i]]]

(* No train ever takes what another one holds: a node is given back before *)
(* it has a new owner, although three functions take the node under the    *)
(* train without looking.                                                  *)
NoSteal == [][\A n \in Nodes : owner[n] = NoTrain \/ owner'[n] \in {owner[n], NoTrain}]_vars

(* No turnout is thrown on the track between a train and its next sensor,  *)
(* be it a merge in that direction.                                        *)
NoThrowUnderTrain ==
    [][\A t \in Trains, b \in Branches :
          sw'[b] # sw[b] =>
              b \notin Pair(Segment(sw, pos[t].cur, NextSensor(sw, pos[t].cur)))]_vars

\* Turnouts change for a launch or a longer window, and a train counts as off
\* its route when it has turned round and meets the sensor behind it again.
Expected ==
    /\ sw' # sw => \E t \in Trains : /\ pos'[t] # pos[t]
                                     /\ \/ pos'[t].state = "SETTLE"
                                        \/ pos'[t].rend > pos[t].rend
    /\ \A t \in Trains :
          pos'[t].state = "RECOVERY_STOPPING" /\ pos[t].state # "RECOVERY_STOPPING"
              => pos[t].recross

(* Without a fault no sensor hit raises a false alarm: no turnout is taken  *)
(* to stand otherwise than it was thrown, and no train to have left its     *)
(* route because of it.                                                    *)
NoFalseAlarm == [][Expected]_vars

(* No KASSERT fails and no train plans the same blocked route for ever.    *)
NoPanic == \A t \in Trains : pos[t].state # "PANIC"

(* position.h:173-174: stopped_on_target_hit is "1 when the last STOPPED    *)
(* state was reached after physically hitting the route target sensor".    *)
OnTargetIsThere ==
    \A t \in Trains : pos[t].state = "STOPPED" /\ pos[t].onTarget =>
        Same(pos[t].cur, pos[t].target)

=============================================================================
