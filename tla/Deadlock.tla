------------------------------ MODULE Deadlock ------------------------------
(***************************************************************************)
(* Trains that wait for each other's track, and how the position server    *)
(* gets them going again (pos_replan.c, pos_deadlock.c, pos_route_yield.c, *)
(* pos_game_deadlock.c).                                                   *)
(*                                                                         *)
(* A train that cannot reserve the next window of its route waits and      *)
(* tries again, when the reservations have changed or a back-off has       *)
(* passed.  Before it tries, the server looks for a cycle of trains that   *)
(* wait for one another, or for a stopped train in the way: one of them is *)
(* sent to a place where it is out of the way, and, when the others have   *)
(* gone, back to its own target.  When no train can move, this is noted,   *)
(* and the same deadlock is not examined again until something changed.    *)
(*                                                                         *)
(* The railway is a graph of places, one train in each; a train may leave  *)
(* a place in either direction (it is reversed before it starts), and a    *)
(* window of a route is one place.  Module RouteAuthority has the same     *)
(* trains with their track, turnouts, braking and sensors.  Each action is *)
(* one request of the position server; the times are open.                 *)
(***************************************************************************)
EXTENDS Integers, SequencesExt

CONSTANTS
    Order,              \* the trains, in the order of the masks: 13, 14, 15, ...
    MaxParticipants,    \* DEADLOCK_MAX_TRAINS
    PlaceOrder,         \* the places, in the order of g_track
    Links,              \* pairs of neighbouring places
    Start,              \* train -> where it stands
    Goals,              \* train -> the places the user may send it to
    MaxGotos,           \* how often he sends each train
    Rank,               \* game_deadlock_victim_rank: 0 for the neutral train
    Standby,            \* where the neutral train rather waits, or NoPlace
    GameModes,          \* whether a game round runs: a subset of BOOLEAN
    NoPlace

Trains == ToSet(Order)
Places == ToSet(PlaceOrder)

ASSUME DeadlockAssumption ==
    /\ NoPlace \notin Places
    /\ Links \subseteq Places \X Places
    /\ Start \in [Trains -> Places]
    /\ \A t, u \in Trains : t # u => Start[t] # Start[u]
    /\ Goals \in [Trains -> SUBSET Places]
    /\ Rank \in [Trains -> 0 .. 2]
    /\ Standby \in Places \cup {NoPlace}
    /\ GameModes \subseteq BOOLEAN
    /\ MaxGotos \in Nat /\ MaxParticipants \in Nat

VARIABLES
    train,      \* train -> its slot of g_pos
    waiting,    \* the trains that wait, by stopping_since_us
    news,       \* those who have not seen the last change of the reservations
    notice,     \* g_deadlock_notice
    cache,      \* g_deadlock_no_solution_cache, NoDeadlock when it is not valid
    game,       \* game_deadlock_mode_active
    want,       \* train -> where the user last sent it, until it is there
    gotos       \* train -> how often the user has sent it

vars == <<train, waiting, news, notice, cache, game, want, gotos>>

\* What the handlers read and write, as one value.
World == [train |-> train, waiting |-> waiting, news |-> news,
          notice |-> notice, cache |-> cache]

NoRecover  == [yield |-> NoPlace, resume |-> NoPlace, mask |-> {}, parked |-> FALSE]
NoDeadlock == [kind |-> "NONE", trains |-> {}]
NoNotice   == [kind |-> "NONE", trains |-> {}, victim |-> 0]

-----------------------------------------------------------------------------
(* The railway.                                                            *)

Neighbours(p) == {q \in Places : <<p, q>> \in Links \/ <<q, p>> \in Links}

\* Op(x), with x evaluated once.
With(x, Op(_)) == CHOOSE r \in {Op(y) : y \in {x}} : TRUE

\* f itself: TLC keeps the values of a function it has compared.
Table(f) == CHOOSE g \in {f} : g = f

\* The routes between two places, shortest first; to where the train stands, it
\* runs to a neighbouring place and back (a reversal on the way).
Routes ==
    LET longer(r) == {Append(r, q) : q \in Neighbours(Last(r)) \ ToSet(r)}
        from(p) == LET of[k \in 1 .. Cardinality(Places)] ==
                           IF k = 1 THEN {<<p>>} ELSE UNION {longer(r) : r \in of[k - 1]}
                   IN  UNION {of[k] : k \in 2 .. Cardinality(Places)}
        place(p) == CHOOSE i \in DOMAIN PlaceOrder : PlaceOrder[i] = p
        less(r, s) == \/ Len(r) < Len(s)
                      \/ /\ Len(r) = Len(s)
                         /\ \E i \in DOMAIN r : /\ place(r[i]) < place(s[i])
                                                /\ \A j \in 1 .. i - 1 : r[j] = s[j]
    IN  Table([p \in Places |-> Table([q \in Places |->
            SetToSortSeq(IF p = q THEN {<<p, n, p>> : n \in Neighbours(p)}
                         ELSE {r \in from(p) : Last(r) = q}, less)])])

\* The other places, nearest first: pos_deadlock_merge_sorted_candidates.
Near ==
    LET hops(p, q) == Len(Head(Routes[p][q]))
        place(p) == CHOOSE i \in DOMAIN PlaceOrder : PlaceOrder[i] = p
    IN  Table([p \in Places |->
            SetToSortSeq({q \in Places \ {p} : Routes[p][q] # <<>>},
                         LAMBDA q, r : \/ hops(p, q) < hops(p, r)
                                       \/ hops(p, q) = hops(p, r) /\ place(q) < place(r))])

\* node_owner: a moving train holds the rest of its window, others where they stand.
Held(w, t) ==
    LET s == w.train[t]
    IN  IF s.state = "ON_ROUTE" THEN {s.path[i] : i \in 1 .. s.end} ELSE {s.at}

Others(w, t) == UNION {Held(w, u) : u \in Trains \ {t}}

Holders(w, t, places) == {u \in Trains \ {t} : Held(w, u) \cap places # {}}

Ahead(route) == ToSet(Tail(route))

\* The route found when the track of the others is closed, or <<>>.
FreeRoute(w, t, p) ==
    LET blocked == Others(w, t)
        free == SelectSeq(Routes[w.train[t].at][p], LAMBDA r : Ahead(r) \cap blocked = {})
    IN  IF free = <<>> THEN <<>> ELSE Head(free)

\* pos_evaluate_target_ready_now = POS_ROUTE_EVAL_READY
Ready(w, t, p) == FreeRoute(w, t, p) # <<>>

-----------------------------------------------------------------------------
(* A train's slot changes: traffic_note_change wakes those who wait and    *)
(* makes the cache out of date.                                            *)

\* Mutant: the cache outlives a change of the reservations.
AfterChange_Kept(c, changed) == c

AfterChange(c, changed) == IF changed THEN NoDeadlock ELSE c

Put(old, t, new) ==
    LET put(w, slot) ==
            LET moved   == [w EXCEPT !.train[t] = slot]
                changed == Held(moved, t) # Held(w, t)
                waits   == slot.state = "WAIT_RESOURCE"
            IN  [moved EXCEPT
                    !.news = IF changed THEN Trains ELSE @,
                    !.cache = AfterChange(@, changed),
                    !.waiting = IF waits = (w.train[t].state = "WAIT_RESOURCE") THEN @
                                ELSE IF waits THEN Append(@, t)
                                ELSE Remove(@, t)]
    IN  With(old, LAMBDA w : With(new, LAMBDA slot : put(w, slot)))

\* seen_generation = traffic_get_change_generation()
Seen(w, t) == [w EXCEPT !.news = @ \ {t}]

EnterWait(w, t, mode) ==
    Seen(Put(w, t, [w.train[t] EXCEPT !.state = "WAIT_RESOURCE", !.mode = mode]), t)

\* authority_sync_target_internal: the yield place follows the staged target.
Synced(slot) ==
    [slot EXCEPT !.target = slot.path[slot.end],
                 !.recover.yield = IF @ # NoPlace /\ ~slot.recover.parked
                                   THEN slot.path[slot.end] ELSE @]

\* pos_try_launch_committed_route: at least the first place ahead must be free.
Launch(w, t) ==
    LET s == w.train[t]
    IN  IF s.path[2] \in Others(w, t) THEN EnterWait(w, t, s.mode)
        ELSE Seen(Put(w, t, Synced([s EXCEPT !.state = "ON_ROUTE", !.mode = "NONE", !.end = 2])), t)

\* pos_try_direct_goto: around the others if possible, else along the best route.
Direct(w, t) ==
    LET s      == w.train[t]
        routes == Routes[s.at][s.goal]
        along(free) == [w EXCEPT !.train[t].path = IF free # <<>> THEN free ELSE Head(routes),
                                 !.train[t].end = 1, !.train[t].mode = "PRELAUNCH_ROUTE"]
    IN  IF routes = <<>> THEN EnterWait(w, t, "NONE")
        ELSE With(along(FreeRoute(w, t, s.goal)), LAMBDA next : Launch(next, t))

\* pos_prepare_goto_request and the fields that a resumed target sets alike.
Aim(w, t, p) ==
    [w EXCEPT !.train[t] = [@ EXCEPT !.goal = p, !.target = p, !.path = <<>>, !.end = 1,
                                     !.mode = "NONE", !.recover = NoRecover]]

\* pos_replan_from_current_stop is what a goto of a stopped train is.
GotoNow(w, t, p) == With(Aim(w, t, p), LAMBDA aimed : Direct(aimed, t))

\* pos_try_resume_wait_resource
TryResume(w, t) == IF w.train[t].mode = "NONE" THEN Direct(w, t) ELSE Launch(w, t)

-----------------------------------------------------------------------------
(* Detection.                                                              *)

Waits(w, t) == w.train[t].state = "WAIT_RESOURCE"
Stands(w, t) == w.train[t].state = "STOPPED"

\* pos_wait_resource_current_blocker_mask
Blockers(w, t) ==
    LET s == w.train[t]
    IN  IF s.mode # "NONE" THEN Holders(w, t, {s.path[2]})
        ELSE IF Routes[s.at][s.goal] = <<>> \/ Ready(w, t, s.goal) THEN {}
        ELSE Holders(w, t, Ahead(Head(Routes[s.at][s.goal])))

\* Mutant: a stopped train is not looked at.
Participants_Waiting(w) == SelectSeq(Order, LAMBDA t : Waits(w, t))

\* deadlock_collect_participants: the first few that wait or stand in the way.
Participants(w) ==
    LET all == SelectSeq(Order, LAMBDA t : Waits(w, t) \/ Stands(w, t))
    IN  SubSeq(all, 1, IF Len(all) < MaxParticipants THEN Len(all) ELSE MaxParticipants)

\* deadlock_compute_reachability: those t waits for and who wait for t, by graph.
Ring(graph, t) ==
    LET reach(u) == LET by[n \in 0 .. Cardinality(DOMAIN graph)] ==
                            IF n = 0 THEN {u} ELSE UNION {{v} \cup graph[v] : v \in by[n - 1]}
                    IN  by[Cardinality(DOMAIN graph)]
    IN  {u \in reach(t) : t \in reach(u)}

\* deadlock_find_mask_for_train
Detect(w, t) ==
    LET parts   == ToSet(Participants(w))
        waiters == {u \in parts : Waits(w, u)}
        graph   == Table([u \in waiters |-> Blockers(w, u) \cap waiters])
        stopped == {u \in Blockers(w, t) \cap parts : Stands(w, u)}
        found(ring) ==
            IF Cardinality(ring) >= 2 THEN [kind |-> "WAIT_CYCLE", trains |-> ring]
            ELSE IF stopped # {} THEN [kind |-> "STOPPED_BLOCKER", trains |-> stopped \cup {t}]
            ELSE NoDeadlock
    IN  IF t \notin waiters THEN NoDeadlock
        ELSE With(graph, LAMBDA g : With(Ring(g, t), found))

-----------------------------------------------------------------------------
(* Who yields, and where to.                                               *)

\* traffic_simulate_parked_train: as if v stood at p.
Parked(w, v, p) == [w EXCEPT !.train[v].state = "STOPPED", !.train[v].at = p]

MayYieldTo(w, v, p) ==
    /\ p \notin {w.train[v].at, w.train[v].goal}
    /\ w.train[v].goal # NoPlace \/ p # w.train[v].target
    /\ \A u \in Trains \ {v} : w.train[u].at # p
    /\ Ready(w, v, p)

\* pos_simulate_deadlock_unblocked_mask
Unblocked(w, v, p, cycle) ==
    {u \in cycle \ {v} : /\ Waits(w, u) /\ v \in Blockers(w, u)
                         /\ Ready(Parked(w, v, p), u, w.train[u].goal)}

\* pos_pick_deadlock_yield_target: the nearest place that lets another go, else
\* the last place that can be reached at all; <<>> when there is none.
Pick(w, v, cycle) ==
    LET to(p, mask) == <<[train |-> v, place |-> p, mask |-> mask]>>
        of(cands, unblock) ==
            IF unblock # <<>> THEN to(Head(unblock), Unblocked(w, v, Head(unblock), cycle))
            ELSE IF cands # <<>> THEN to(Last(cands), cycle \ {v})
            ELSE <<>>
        lets(cands) == SelectSeq(cands, LAMBDA p : Unblocked(w, v, p, cycle) # {})
    IN  With(SelectSeq(Near[w.train[v].at], LAMBDA p : MayYieldTo(w, v, p)),
             LAMBDA cands : With(lets(cands), LAMBDA unblock : of(cands, unblock)))

\* deadlock_wait_cycle_start_index: after the train that was tried last.
Rotated(w, cycle) ==
    LET all   == Participants(w)
        again == w.notice.kind = "UNRESOLVED" /\ w.notice.trains = cycle
        after == IF again THEN IndexFirstSubSeq(<<w.notice.victim>>, all) ELSE 0
    IN  SelectSeq(SubSeq(all, after + 1, Len(all)) \o SubSeq(all, 1, after),
                  LAMBDA t : t \in cycle /\ Waits(w, t))

-----------------------------------------------------------------------------
(* In a game round: the neutral train first, the privileged player last.   *)

\* game_deadlock_collect_counts: blockers of the privileged player (-1 if it is
\* not among them), of all, and how many are free to go.
Counts(w, v, cycle) ==
    LET others == {u \in cycle \ {v} : Waits(w, u)}
        count(u) == Cardinality(Blockers(w, u))
        first  == {u \in others : Rank[u] = 2}
    IN  [priority |-> IF first = {} THEN -1 ELSE count(CHOOSE u \in first : TRUE),
         total    |-> MapThenSumSet(count, others),
         ready    |-> Cardinality({u \in others : Blockers(w, u) = {}})]

\* game_deadlock_evaluate_candidate
Gain(w, v, p, cycle) ==
    LET gain(old, new) ==
            <<IF old.priority >= 0 /\ new.priority < old.priority THEN 1 ELSE 0,
              old.total - new.total, new.ready - old.ready>>
    IN  With(Counts(w, v, cycle), LAMBDA old :
             With(Counts(Parked(w, v, p), v, cycle), LAMBDA new : gain(old, new)))

\* game_deadlock_search_victim_targets
GamePick(w, v, cycle) ==
    LET may  == SelectSeq(PlaceOrder, LAMBDA p : MayYieldTo(w, v, p))
        gains == Table([p \in ToSet(may) |-> Gain(w, v, p, cycle)])
        better(x, y) == \E i \in 1 .. 3 : x[i] > y[i] /\ \A j \in 1 .. i - 1 : x[j] = y[j]
        best(cands, gain) ==
            IF Rank[v] = 0 /\ Standby \in ToSet(cands) THEN Standby
            ELSE Head(SelectSeq(cands, LAMBDA p : \A q \in ToSet(cands) : ~better(gain[q], gain[p])))
        choice(cands, gain) ==
            IF cands = <<>> THEN <<>>
            ELSE <<[train |-> v, place |-> best(cands, gain), mask |-> cycle \ {v}]>>
        useful(gain) == SelectSeq(may, LAMBDA p : \E i \in 1 .. 3 : gain[p][i] > 0)
    IN  With(gains, LAMBDA gain : With(useful(gain), LAMBDA cands : choice(cands, gain)))

ByRank(w, cycle) ==
    FlattenSeq([r \in 1 .. 3 |->
        SelectSeq(Order, LAMBDA t : t \in cycle /\ Waits(w, t) /\ Rank[t] = r - 1)])

-----------------------------------------------------------------------------
(* Resolution: deadlock_apply_selected_reroute.                            *)

\* game_deadlock_should_resume_after_yield
ComesBack(v, rank0) == ~(rank0 /\ Rank[v] = 0)

\* deadlock_current_target
Target(s) == IF s.goal # NoPlace THEN s.goal ELSE s.target

\* Mutant: the yield place of an earlier deadlock becomes the target.
ResumeTarget_Now(s) == Target(s)

\* The target to come back to: one that already waits to be resumed stays.
ResumeTarget(s) == IF s.recover.yield # NoPlace THEN s.recover.resume ELSE Target(s)

Send(w, pick, found, resume) ==
    LET v == pick.train
        s == w.train[v]
        recover == IF resume
                   THEN [yield |-> pick.place, resume |-> ResumeTarget(s),
                         mask |-> pick.mask, parked |-> FALSE]
                   ELSE [NoRecover EXCEPT !.yield = pick.place]
        aimed == [Aim(w, v, pick.place) EXCEPT !.train[v].recover = recover]
    IN  [Direct(aimed, v) EXCEPT
            !.cache = NoDeadlock,
            !.notice = [kind |-> "RESOLVED", trains |-> found.trains, victim |-> v]]

\* deadlock_note_no_solution
NoteNoSolution(w, found, victim) ==
    [w EXCEPT !.cache = found,
              !.notice = [kind |-> "UNRESOLVED", trains |-> found.trains, victim |-> victim]]

\* The trains that may be sent out of the way, in the order they are tried.
Victims(w, found, round) ==
    IF found.kind = "STOPPED_BLOCKER"
    THEN SelectSeq(Order, LAMBDA u : u \in found.trains /\ Stands(w, u) /\ Target(w.train[u]) # NoPlace)
    ELSE IF round THEN ByRank(w, found.trains)
    ELSE Rotated(w, found.trains)

\* What is done about a deadlock: a train and the place it is sent to, or <<>>.
Solution(w, found, round) ==
    LET pick(v) == IF round /\ found.kind = "WAIT_CYCLE" THEN GamePick(w, v, found.trains)
                   ELSE Pick(w, v, found.trains)
        first(v, rest) == With(pick(v), LAMBDA p : IF p = <<>> THEN rest ELSE p)
    IN  FoldRight(first, Victims(w, found, round), <<>>)

\* Whom the notice names when nobody can yield.
LastTried(w, found, round) ==
    IF found.kind = "STOPPED_BLOCKER"
    THEN Head(SelectSeq(Order, LAMBDA u : u \in found.trains /\ Stands(w, u)))
    ELSE IF round THEN Head(SelectSeq(Order, LAMBDA u : u \in found.trains))
    ELSE Last(Rotated(w, found.trains))

\* A stopped train comes back only if it was already to come back.
Resumes(w, found, v, round) ==
    /\ found.kind = "WAIT_CYCLE" \/ w.train[v].recover.resume # NoPlace
    /\ ComesBack(v, round)

\* deadlock_no_solution_retry_pending
Hopeless(w, found) == w.cache = found

\* pos_replan_service_waiter, with pos_deadlock_maybe_reroute_waiter
Service(w, t, round) ==
    LET apply(found, pick) ==
            IF pick # <<>>
            THEN Send(w, pick[1], found, Resumes(w, found, pick[1].train, round))
            ELSE With(NoteNoSolution(w, found, LastTried(w, found, round)),
                      LAMBDA noted : TryResume(noted, t))
        decide(found) ==
            IF found = NoDeadlock \/ Hopeless(w, found) THEN TryResume(w, t)
            ELSE With(Solution(w, found, round), LAMBDA pick : apply(found, pick))
    IN  With(Detect(w, t), decide)

-----------------------------------------------------------------------------
(* The requests of the position server.                                    *)

Become(next) ==
    \E w \in {next} : /\ train' = w.train /\ waiting' = w.waiting /\ news' = w.news
                      /\ notice' = w.notice /\ cache' = w.cache

\* deadlock_notice_still_active: seen from its victim, else from one that waits.
StillDeadlocked(w) ==
    LET named == SelectSeq(<<w.notice.victim>> \o Order,
                           LAMBDA u : u \in w.notice.trains /\ Waits(w, u))
    IN  named # <<>> /\ w.notice.trains \subseteq Detect(w, Head(named)).trains

ClearNotice(w) == [w EXCEPT !.notice = NoNotice, !.cache = NoDeadlock]

\* pos_deadlock_refresh_notice_state, as far as it is not about time
Refreshed(w) ==
    IF w.notice.kind = "UNRESOLVED" /\ ~StillDeadlocked(w) THEN ClearNotice(w) ELSE w

\* pos_route_authority_try_top_up
TopUp(w, t) ==
    LET s == w.train[t]
    IN  IF s.path[s.end + 1] \in Others(w, t) THEN Seen(w, t)
        ELSE Seen(Put(w, t, Synced([s EXCEPT !.end = @ + 1])), t)

\* sort_movers: the shortest rest of a window first; the last of Order wins a tie.
Movers(w, due) ==
    LET may(n) == SelectSeq(Reverse(Order), LAMBDA t : /\ t \in {due} \cup w.news
                                                       /\ w.train[t].state = "ON_ROUTE"
                                                       /\ w.train[t].end = n
                                                       /\ n < Len(w.train[t].path))
    IN  FlattenSeq([n \in 1 .. Len(PlaceOrder) |-> may(n)])

\* pos_replan_on_tick, when the retry time or the top-up point of a train has come.
\* (Several at the same tick are as several ticks in a row.)
AfterTick(due) ==
    LET top(w)     == FoldLeft(TopUp, w, Movers(w, due))
        turn(w, t) == IF Waits(w, t) /\ t \in {due} \cup w.news
                      THEN With(Seen(w, t), LAMBDA seen : Service(seen, t, game))
                      ELSE w
    IN  FoldLeft(turn, With(Refreshed(World), top), waiting)

Tick(due) == UNCHANGED <<game, want, gotos>> /\ Become(AfterTick(due))

\* A sensor within the window: what lies behind is released.
Roll(t) ==
    /\ train[t].state = "ON_ROUTE" /\ train[t].end > 2
    /\ Become(Put(World, t, [train[t] EXCEPT !.at = train[t].path[2],
                                                !.path = Tail(@), !.end = @ - 1]))
    /\ UNCHANGED <<game, want, gotos>>

\* handle_normal_stop, at the end of the window.
AtRest(t) ==
    [train[t] EXCEPT !.state = "STOPPED", !.at = train[t].path[2],
                     !.path = Tail(@), !.end = 1]

Stopped(t) ==
    LET s    == AtRest(t)
        here == Put(World, t, s)
        park == [s EXCEPT !.goal = s.at, !.target = s.at, !.path = <<>>, !.recover = NoRecover]
    IN  IF s.queued # NoPlace
        THEN GotoNow([here EXCEPT !.train[t].queued = NoPlace], t, s.queued)
        ELSE IF s.recover.yield = s.at
        THEN [here EXCEPT !.train[t] = IF s.recover.resume # NoPlace
                                       THEN [s EXCEPT !.recover.parked = TRUE] ELSE park]
        ELSE IF Len(s.path) > 1 THEN EnterWait(here, t, "RESUME_ROUTE")
        ELSE [here EXCEPT !.train[t].path = <<>>, !.train[t].goal = NoPlace]

Stop(t) ==
    /\ train[t].state = "ON_ROUTE" /\ train[t].end = 2
    /\ Become(Stopped(t))
    /\ want' = [want EXCEPT ![t] = IF @ = train'[t].at /\ train'[t].state = "STOPPED"
                                   THEN NoPlace ELSE @]
    /\ UNCHANGED <<game, gotos>>

\* pos_goto: a train under way, or that waits, goes there after its next stop.
Goto(t, p) ==
    /\ gotos[t] < MaxGotos
    /\ gotos' = [gotos EXCEPT ![t] = @ + 1]
    /\ want' = [want EXCEPT ![t] = p]
    /\ IF Stands(World, t) THEN Become(GotoNow(World, t, p))
       ELSE Become([World EXCEPT !.train[t].queued = p])
    /\ UNCHANGED game

\* deadlock_resume_waiting_trains_reserved
OthersGone(w, mask) ==
    LET waits == \E u \in mask : Waits(w, u)
    IN  IF game THEN ~waits
        ELSE ~waits \/ \E u \in mask : w.train[u].state = "ON_ROUTE"

\* pos_deadlock_maybe_resume_after_yield, when its delay is over.
Resumable(t) ==
    /\ Stands(World, t)
    /\ train[t].recover.parked /\ train[t].recover.resume # NoPlace
    /\ OthersGone(World, train[t].recover.mask)

ResumeAfterYield(t) ==
    /\ Resumable(t)
    /\ Become(GotoNow(World, t, train[t].recover.resume))
    /\ UNCHANGED <<game, want, gotos>>

\* A resolved notice has been shown long enough.
NoticeExpires ==
    /\ notice.kind = "RESOLVED"
    /\ Become(ClearNotice(World))
    /\ UNCHANGED <<game, want, gotos>>

\* DEADLOCK_NO_SOLUTION_RETRY_US has passed.
RetryAgain ==
    /\ cache # NoDeadlock
    /\ cache' = NoDeadlock
    /\ UNCHANGED <<train, waiting, news, notice, game, want, gotos>>

Init ==
    /\ train = [t \in Trains |->
                  [state |-> "STOPPED", at |-> Start[t], path |-> <<>>, end |-> 1,
                   mode |-> "NONE", goal |-> NoPlace, target |-> NoPlace,
                   queued |-> NoPlace, recover |-> NoRecover]]
    /\ waiting = <<>> /\ news = {} /\ notice = NoNotice /\ cache = NoDeadlock
    /\ game \in GameModes
    /\ want = [t \in Trains |-> NoPlace]
    /\ gotos = [t \in Trains |-> 0]

Next ==
    \/ \E t \in Trains : Tick(t)
    \/ \E t \in Trains : Roll(t)
    \/ \E t \in Trains : Stop(t)
    \/ \E t \in Trains : \E p \in Goals[t] : Goto(t, p)
    \/ \E t \in Trains : ResumeAfterYield(t)
    \/ NoticeExpires
    \/ RetryAgain

Spec == Init /\ [][Next]_vars

\* The user sends every train; one under way moves on; one that may resume does;
\* retry times come.  (Weak fairness, with state predicates for ENABLED.)
Fairness ==
    /\ \A t \in Trains :
          /\ <>(gotos[t] > 0)
          /\ []<>(train[t].state # "ON_ROUTE") \/ []<><<train'[t].at # train[t].at>>_vars
          /\ []<>~Resumable(t)
          /\ []<>(AfterTick(t) = World) \/ []<><<Tick(t)>>_vars
    /\ WF_vars(NoticeExpires)
    /\ WF_vars(RetryAgain)

FairSpec == Spec /\ Fairness

-----------------------------------------------------------------------------
(* Properties.                                                             *)

Neutral(t) == game /\ Rank[t] = 0

\* A place the user sends a train to is not forgotten while the train is sent
\* aside, however often: the train heads for it, or will resume it after the
\* yield stop, or will go there after its next stop.
TargetKept ==
    \A t \in Trains : want[t] # NoPlace /\ ~Neutral(t) =>
        want[t] \in {train[t].goal, train[t].recover.resume, train[t].queued}

\* A deadlock that is skipped because it had no solution still has none.
SkipsOnlyHopeless ==
    \A t \in Trains : LET found == Detect(World, t)
                       IN  found # NoDeadlock /\ Hopeless(World, found) =>
                               Solution(World, found, game) = <<>>

\* Every train gets to the place the user sent it to, though they meet on the
\* way.  (In a game the neutral train is sent away for good.)
EveryTargetReached ==
    \A t \in Trains : want[t] # NoPlace /\ ~Neutral(t) ~> want[t] = NoPlace

=============================================================================
