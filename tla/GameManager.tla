----------------------------- MODULE GameManager -----------------------------
(***************************************************************************)
(* The two-round game (src/user/game_manager*.c) over the position         *)
(* server's game events (position/pos_game_events.c).                      *)
(*                                                                         *)
(* The game server answers one request at a time, and every position       *)
(* function it calls runs while the runtime waits for it (TrainRuntime,    *)
(* OnePositionWriter), so a command or a tick of the game is one step,     *)
(* written as an operator from the game's record and the trains to what    *)
(* they become.  Between two such steps the position server moves the      *)
(* trains; of a train it keeps here what the game reads.  The reservation  *)
(* table is abstracted to the places trains stand on: a target is BLOCKED  *)
(* by the trains on the way to it.                                         *)
(***************************************************************************)
EXTENDS Integers, Sequences, FiniteSets, SequencesExt

CONSTANTS
  Trains,
  Sensors,              \* the sensor pool; each direction is a node of its own
  Rev,                  \* the node of the other direction
  Way,                  \* Way[x][y]: the sensors from x to y, y included; {}: no route
  Near,                 \* Near[x]: the sensors by their distance from x
  Far,                  \* pairs at least GAME_MIN_TRIP_MM apart
  Plan,                 \* Plan[role][x]: the fixed targets of a role that starts at x
  GAME_ROUNDS,
  POS_GAME_EVENT_CAP,
  Starts,               \* the trains when the game is started
  OldEvents,            \* what a goto or an earlier game has left in the event ring
  Entry,                \* bound: the numbers entered at each step of the setup
  MAX_STOP_ROUND,       \* bound: "game stop" and "game stop force" are entered up to this round
  MayStall,             \* bound: the trains that may stop on dead track
  MAX_UNREAD,           \* bound: events between two ticks of a game (one second apart),
                        \* and one once it is stopping, when nothing is done with them
  None

Human == "human"
AI == "ai"
Neutral == "neutral"
Roles == {Human, AI, Neutral}
Players == {Human, AI}
Order == <<Human, AI, Neutral>>     \* the roles in the order of the setup
Other(r) == IF r = Human THEN AI ELSE Human

\* the fields of train_pos_t that the game reads
PosFields == {"st", "at", "goal", "fin", "queued", "yield", "resume", "parked", "yielded"}

ASSUME GameAssumption ==
  /\ GAME_ROUNDS \in Nat \ {0} /\ POS_GAME_EVENT_CAP \in Nat \ {0}
  /\ MAX_UNREAD \in 1..POS_GAME_EVENT_CAP /\ MAX_STOP_ROUND \in Nat
  /\ Rev \in [Sensors -> Sensors] /\ \A s \in Sensors : Rev[Rev[s]] = s
  /\ Way \in [Sensors -> [Sensors -> SUBSET Sensors]]
  /\ \A p \in Starts : /\ DOMAIN p = Trains
                      /\ \A t \in Trains : DOMAIN p[t] = PosFields
  /\ \A old \in OldEvents :
        /\ old \in Seq([type : {"hit", "stop"}, train : Trains, sensor : Sensors])
        /\ Len(old) <= POS_GAME_EVENT_CAP
  /\ None \notin Sensors \cup Trains

VARIABLES
  game,     \* game_context_t
  pos,      \* what the game reads of train_pos_t, for each train
  events,   \* the game events from event_seq + 1 on
  news,     \* how many of them are of the game, and came since its last tick
  earned,   \* history: <<role, sensor>> hit by a player's train in a round of the match
  led,      \* history: those of earned that came before the other player's hit
  arrived,  \* history: roles whose train has stopped on its target since the pick
  early     \* history: rounds whose pick came before a tick had read the ring empty

history == <<earned, led, arrived, early>>
vars == <<game, pos, events, news, history>>

\* "PANIC": a KASSERT failed; "OVERRUN": setup_trains was written past its end.
Faults == {"PANIC", "OVERRUN"}
States == {"OFF", "SETUP", "WAIT_PICK", "ROUND_RUNNING", "MATCH_OVER", "STOPPING"} \cup Faults

Place(s) == {s, Rev[s]}
SameSensor(s, t) == s # None /\ t # None /\ s \in Place(t)

\* game_reset_round_state
ResetRound(g) ==
  [g EXCEPT !.target = [r \in Roles |-> None], !.done = {},
            !.standby = None, !.stood = FALSE]

\* game_reset_all
ResetAll(g) ==
  ResetRound([g EXCEPT !.state = "OFF", !.step = 0, !.pending = 0,
                       !.entered = [i \in 1..3 |-> None],
                       !.train = [r \in Roles |-> None],
                       !.claims = {}, !.used = {},
                       !.score = [r \in Players |-> 0],
                       !.round = 0, !.first = Human])

Init ==
  /\ game = [state |-> "OFF",
             step |-> 0,                    \* setup_step
             pending |-> 0,                 \* setup_pending_role + 1
             entered |-> [i \in 1..3 |-> None],
             train |-> [r \in Roles |-> None],
             target |-> [r \in Roles |-> None],
             done |-> {},                   \* roles with completed set
             standby |-> None,              \* the neutral's standby_target
             stood |-> FALSE,               \* and standby_completed
             round |-> 0,                   \* round_index + 1
             first |-> Human,               \* round1_priority
             claims |-> {},                 \* claim_mask as <<role, sensor>>
             used |-> {},                   \* neutral_used
             score |-> [r \in Players |-> 0],
             started |-> FALSE]             \* bound: one game; what a second one finds
                                            \* in the ring is in OldEvents
  /\ pos \in Starts
  /\ events \in OldEvents /\ news = 0
  /\ earned = {} /\ led = {} /\ arrived = {} /\ early = {}

-----------------------------------------------------------------------------
(* The position server *)

GotoActive(p) == p.st \in {"finding", "moving", "waiting", "dead"}
PositionConfirmed(p) == p.at # None /\ p.st \notin {"unknown", "finding"}
KnownStopped(p) == p.at # None /\ p.st = "stopped"

Blockers(p, t, s) == {u \in Trains \ {t} : \E x \in Way[p[t].at][s] : SameSensor(p[u].at, x)}
Reachable(p, t, s) == p[t].at # None /\ Way[p[t].at][s] # {}
Ready(p, t, s) == Reachable(p, t, s) /\ Blockers(p, t, s) = {}

\* pos_prepare_goto_request; the train waits until it has its track, at once if it is free
SetGoal(q, s) ==
  [q EXCEPT !.st = "waiting", !.goal = s, !.fin = FALSE,
            !.queued = None, !.yield = None, !.resume = None, !.parked = FALSE,
            !.yielded = {}]

\* pos_goto
GotoRefused(p, t) == p[t].st = "dead"
Goto(p, t, s) ==
  IF GotoActive(p[t]) THEN [p EXCEPT ![t].queued = s] ELSE [p EXCEPT ![t] = SetGoal(@, s)]

\* pos_publish_game_event
Published(type, t, s) ==
  LET all == Append(events, [type |-> type, train |-> t, sensor |-> s])
  IN  IF Len(all) > POS_GAME_EVENT_CAP THEN Tail(all) ELSE all

RoleOf(t) == {r \in Roles : game.train[r] = t}

\* No other train stands at s.
Clear(t, s) == \A u \in Trains \ {t} : ~SameSensor(pos[u].at, s)

\* the next sensor on the way of t
NextOnWay(t, s) == s \in Way[pos[t].at][pos[t].goal] /\ Way[pos[t].at][s] = {s}

Up == game.state \notin Faults

\* pos_publish_game_event: nothing is read before a game, and then once a second.
Publish(type, t, s) ==
  /\ events' = Published(type, t, s)
  /\ \/ game.state \in {"OFF", "SETUP"} /\ UNCHANGED news
     \/ /\ news < IF game.state = "STOPPING" THEN 1 ELSE MAX_UNREAD
        /\ news' = news + 1

\* pos_on_sensor_trigger: a train that looks for its position, or one under way
Hit(t, s) ==
  LET claim == IF game.state = "ROUND_RUNNING" THEN (RoleOf(t) \cap Players) \X {s} ELSE {}
  IN  /\ Up /\ Clear(t, s)
      /\ \/ pos[t].st = "finding" /\ pos[t].at = None
         \/ pos[t].st = "moving" /\ NextOnWay(t, s)
      /\ pos' = [pos EXCEPT ![t].at = s]
      /\ Publish("hit", t, s)
      /\ earned' = earned \cup claim
      /\ led' = led \cup {c \in claim : \A r \in Players : <<r, s>> \notin earned}
      /\ UNCHANGED <<game, arrived, early>>

\* the end of a findpos: tick_handle_stopping_goto
Found(t) ==
  /\ Up /\ pos[t].st = "finding" /\ pos[t].at # None
  /\ pos' = [pos EXCEPT ![t].st = "stopped"]
  /\ UNCHANGED <<game, events, news, history>>

\* handle_normal_stop at the goal of the route, which need not have been hit
Stopped(p, t) ==
  LET q == [p[t] EXCEPT !.st = "stopped", !.fin = TRUE]
  IN  IF q.queued # None THEN [p EXCEPT ![t] = SetGoal(q, q.queued)]
      ELSE IF q.yield # None /\ SameSensor(q.goal, q.yield)
      THEN [p EXCEPT ![t] = [q EXCEPT !.parked = q.resume # None,
                                      !.yield = IF q.resume = None THEN None ELSE @]]
      ELSE [p EXCEPT ![t] = q]

Stop(t) ==
  /\ Up /\ pos[t].st = "moving" /\ Clear(t, pos[t].goal)
  /\ Way[pos[t].at][pos[t].goal] \subseteq {pos[t].goal}
  /\ Publish("stop", t, pos[t].goal)
  /\ pos' = Stopped(pos, t)
  /\ arrived' = arrived \cup {r \in RoleOf(t) : SameSensor(pos[t].goal, game.target[r])}
  /\ UNCHANGED <<game, earned, led, early>>

\* handle_normal_stop short of the goal, and pos_enter_wait_resource
StopShort(t) ==
  /\ Up /\ pos[t].st = "moving"
  /\ pos' = [pos EXCEPT ![t] =
               IF @.queued # None THEN SetGoal(@, @.queued) ELSE [@ EXCEPT !.st = "waiting"]]
  /\ UNCHANGED <<game, events, news, history>>

\* pos_try_resume_wait_resource: for as much of the route as is free
Resume(t) ==
  /\ Up /\ pos[t].st = "waiting"
  /\ \A s \in Sensors : NextOnWay(t, s) => Clear(t, s)
  /\ pos' = [pos EXCEPT ![t].st = "moving"]
  /\ UNCHANGED <<game, events, news, history>>

\* enter_terminal_dead_track, and the retry
DeadTrack(t) ==
  /\ Up /\ t \in MayStall
  /\ \/ pos[t].st = "moving" /\ pos' = [pos EXCEPT ![t].st = "dead"]
     \/ pos[t].st = "dead" /\ pos' = [pos EXCEPT ![t].st = "moving"]
  /\ UNCHANGED <<game, events, news, history>>

DeadlockMode == game.state = "ROUND_RUNNING"

\* pos_deadlock_maybe_resume_after_yield, deadlock_resume_waiting_trains_reserved
ResumeAfterYield(t) ==
  LET for == pos[t].yielded
      waiting == {u \in for : pos[u].st = "waiting"}
      underway == {u \in for : pos[u].st \in {"moving", "finding"}}
  IN  /\ Up /\ pos[t].st = "stopped" /\ pos[t].parked
      /\ waiting = {} \/ (~DeadlockMode /\ underway # {})
      /\ pos' = [pos EXCEPT ![t] = SetGoal(@, @.resume)]
      /\ UNCHANGED <<game, events, news, history>>

\* game_note_neutral_deadlock_yield
NoteNeutralYield(g, t, y) ==
  IF g.state = "ROUND_RUNNING" /\ g.train[Neutral] = t
  THEN [g EXCEPT !.standby = y, !.stood = FALSE] ELSE g

\* pos_wait_resource_current_blocker_mask: who holds the next place of a route
HeldBy(u) == {t \in Trains \ {u} : \E s \in Sensors : NextOnWay(u, s) /\ SameSensor(pos[t].at, s)}

\* pos_simulate_deadlock_unblocked_mask
Unblocked(t, u, y) ==
  IF Ready([pos EXCEPT ![t].at = y], u, pos[u].goal) THEN {u} ELSE {}

\* pos_pick_deadlock_yield_target: the nearest place that lets u go, or else the farthest
YieldTargets(t, u) ==
  LET ready == SelectSeq(Near[pos[t].at], LAMBDA y :
                 /\ Ready(pos, t, y)
                 /\ ~SameSensor(y, pos[t].at) /\ ~SameSensor(y, pos[t].goal))
      helps == SelectSeq(ready, LAMBDA y : Unblocked(t, u, y) # {})
  IN  IF helps # <<>> THEN {Head(helps)} ELSE IF ready # <<>> THEN {Last(ready)} ELSE {}

\* deadlock_apply_stopped_blocker_reroute: t makes way for the waiting u, and returns
\* afterwards if it was to return anyway
Yield(t, u) ==
  LET resumes == pos[t].resume # None /\ ~(DeadlockMode /\ Neutral \in RoleOf(t))
  IN  /\ Up /\ pos[u].st = "waiting" /\ t \in HeldBy(u)
      /\ pos[t].st = "stopped" /\ pos[t].goal # None
      /\ \E y \in YieldTargets(t, u) :
           /\ pos' = [pos EXCEPT ![t] = [@ EXCEPT
                        !.st = "moving", !.goal = y, !.fin = FALSE, !.yield = y,
                        !.parked = FALSE,
                        !.resume = IF resumes THEN pos[t].resume ELSE None,
                        !.yielded = IF ~resumes THEN {} ELSE {u}]]
           /\ game' = IF resumes THEN game ELSE NoteNeutralYield(game, t, y)
      /\ UNCHANGED <<events, news, history>>

PositionStep ==
  \E t \in Trains :
     \/ \E s \in Sensors : Hit(t, s)
     \/ Found(t) \/ Stop(t) \/ StopShort(t) \/ Resume(t) \/ DeadTrack(t)
     \/ ResumeAfterYield(t)
     \/ \E u \in Trains \ {t} : Yield(t, u)

-----------------------------------------------------------------------------
(* Targets *)

\* The first of the sets in tiers that is not empty.
FirstTier(tiers) ==
  LET some == {i \in DOMAIN tiers : tiers[i] # {}}
  IN  IF some = {} THEN {} ELSE tiers[CHOOSE i \in some : \A j \in some : i <= j]

Occupied(g, p, s) == \E r \in Roles : g.train[r] # None /\ p[g.train[r]].at = s

LongTrip(p, t, s) == <<p[t].at, s>> \in Far

\* game_train_has_min_trip_candidate
HasMinTrip(p, t) ==
  \E s \in Sensors : s # p[t].at /\ Reachable(p, t, s) /\ LongTrip(p, t, s)

\* game_pick_fixed_ai_target, then game_pick_online_ai_target, whose scoring is left open
AITargets(g, p) ==
  LET t == g.train[AI]
      C == {s \in Sensors : s # p[t].at /\ Reachable(p, t, s)}
      F == {s \in C \cap Plan[AI][p[t].at] :
              ~SameSensor(p[t].at, s) /\ ~Occupied(g, p, s)}
      Long(S) == {s \in S : LongTrip(p, t, s)}
  IN  IF p[t].at = None THEN {}
      ELSE FirstTier(<<IF HasMinTrip(p, t) THEN Long(F) ELSE F, F, Long(C), C>>)

\* game_pick_fixed_neutral_target, then game_pick_online_neutral_target
NeutralTargets(g, p) ==
  LET t == g.train[Neutral]
      C == {s \in Sensors \ g.used : ~Occupied(g, p, s) /\ Reachable(p, t, s)}
      F == {s \in C \cap Plan[Neutral][p[t].at] : ~SameSensor(p[t].at, s)}
      Long(S) == {s \in S : LongTrip(p, t, s)}
      Free(S) == {s \in S : Ready(p, t, s)}
  IN  IF p[t].at = None THEN {}
      ELSE FirstTier(<<Long(Free(F)), Free(F), Long(F), F, Long(Free(C)), Free(C), Long(C), C>>)

\* game_pick_neutral_standby_target: the nearest that can be reached at once
StandbyTargets(g, p) ==
  LET t == g.train[Neutral]
      ready == IF p[t].at = None THEN <<>>
               ELSE SelectSeq(Near[p[t].at], LAMBDA s :
                      s \notin {p[t].at, g.target[Neutral]} /\ Ready(p, t, s))
  IN  IF ready = <<>> THEN {} ELSE {Head(ready)}

\* game_current_priority_role
Priority(g) == IF g.round % 2 = 1 THEN g.first ELSE Other(g.first)

\* the targets the manager has picked; without one for each the game ends
Chosen(g, a, n) ==
  [g EXCEPT !.target[AI] = a, !.target[Neutral] = n,
            !.used = @ \cup ({n} \ {None}),
            !.state = IF a = None \/ n = None THEN "STOPPING" ELSE "WAIT_PICK"]

OrNone(S) == IF S = {} THEN {None} ELSE S

\* game_begin_wait_pick: what the game may become
BeginWaitPick(g, p) ==
  {Chosen(g, a, n) : a \in OrNone(AITargets(g, p)), n \in OrNone(NeutralTargets(g, p))}

-----------------------------------------------------------------------------
(* The setup *)

\* game_start_interactive_setup
StartSetup ==
  /\ game.state = "OFF" /\ ~game.started
  /\ game' = [ResetAll(game) EXCEPT !.state = "SETUP", !.started = TRUE]
  /\ earned' = {} /\ led' = {} /\ early' = {}
  /\ UNCHANGED <<pos, events, news, arrived>>

\* game_train_is_setup_ready, and the same test in game_launch_match
SetupReady(p, t) == ~GotoActive(p[t]) /\ p[t].st \in {"stopped", "unknown"}

\* game_launch_match: event_seq becomes 0, so that all events still in the ring are unread
LaunchMatch(g, p) ==
  IF \E i \in 1..3 : ~SetupReady(p, g.entered[i]) THEN {g}
  ELSE UNION {BeginWaitPick([ResetAll(g) EXCEPT
                !.train = [r \in Roles |-> g.entered[CHOOSE i \in 1..3 : Order[i] = r]],
                !.first = f, !.round = 1], p) : f \in Players}

\* the train of a step is known to stand still
SetupStepDone(g, p, i) ==
  LET next == [g EXCEPT !.step = i, !.pending = 0]
  IN  IF i < 3 THEN {next} ELSE LaunchMatch(next, p)

\* game_handle_setup_input: a valid number that is no duplicate, of a train that is ready
EnterTrain(t) ==
  LET i == game.step + 1
      g == [game EXCEPT !.entered[i] = t, !.train[Order[i]] = t]
  IN  /\ game.state = "SETUP" /\ game.pending = 0
      /\ \A j \in 1..game.step : game.entered[j] # t
      /\ SetupReady(pos, t)
      /\ \/ /\ i > 3
            /\ game' = [game EXCEPT !.state = "OVERRUN"] /\ UNCHANGED pos
         \/ /\ i <= 3 /\ t \in Entry[i] /\ KnownStopped(pos[t])
            /\ game' \in SetupStepDone(g, pos, i)
            /\ UNCHANGED pos
         \/ /\ i <= 3 /\ t \in Entry[i] /\ pos[t].st = "unknown"   \* pos_start_find_pos
            /\ pos' = [pos EXCEPT ![t].st = "finding"]
            /\ game' = [g EXCEPT !.pending = i]
      /\ UNCHANGED <<events, news, history>>

\* game_on_tick in SETUP
SetupTick ==
  /\ game.state = "SETUP" /\ game.pending > 0
  /\ PositionConfirmed(pos[game.entered[game.pending]])
  /\ KnownStopped(pos[game.entered[game.pending]])
  /\ game' \in SetupStepDone(game, pos, game.pending)
  /\ UNCHANGED <<pos, events, news, history>>

-----------------------------------------------------------------------------
(* A round *)

\* mutant: the player's own bit is looked up for the other's
NoteHitOwn(g, r, s) ==
  IF r = Neutral \/ <<r, s>> \in g.claims THEN g
  ELSE [g EXCEPT !.claims = @ \cup {<<r, s>>},
                 !.score[r] = @ + (IF <<r, s>> \in g.claims THEN 2 ELSE 3)]

\* game_consume_events: one sensor hit of a player's train
NoteHit(g, r, s) ==
  IF r = Neutral \/ <<r, s>> \in g.claims THEN g
  ELSE [g EXCEPT !.claims = @ \cup {<<r, s>>},
                 !.score[r] = @ + (IF <<Other(r), s>> \in g.claims THEN 2 ELSE 3)]

\* mutant: a stop at a yield place counts for the target
NoteAnyStop(g, r, s) ==
  [g EXCEPT !.done = @ \cup {r}, !.stood = @ \/ (r = Neutral /\ SameSensor(s, g.standby))]

\* game_consume_events: one stop on a goal
NoteStop(g, r, s) ==
  [g EXCEPT !.done = IF SameSensor(s, g.target[r]) THEN @ \cup {r} ELSE @,
            !.stood = @ \/ (r = Neutral /\ SameSensor(s, g.standby))]

NoteEvent(g, e) ==
  LET R == {r \in Roles : g.train[r] = e.train}
  IN  IF R = {} \/ g.state # "ROUND_RUNNING" THEN g
      ELSE LET r == CHOOSE r \in R : TRUE
           IN  IF e.type = "hit" THEN NoteHit(g, r, e.sensor) ELSE NoteStop(g, r, e.sensor)

\* mutant: the newest event is taken and the ring is considered read
ConsumeNewest(g) == IF events = <<>> THEN g ELSE NoteEvent(g, Last(events))

\* game_consume_events: the unread events, oldest first
ConsumeEvents(g) ==
  LET after[n \in 0..Len(events)] ==
        IF n = 0 THEN g ELSE NoteEvent(after[n - 1], events[n])
  IN  after[Len(events)]

\* game_pos_is_stopped_at_target
StoppedAtTarget(q, s) == q.st = "stopped" /\ q.fin /\ SameSensor(q.goal, s)

\* game_sync_slot_completion_from_position, for the three roles
SyncCompletion(g, p) ==
  [g EXCEPT !.done = @ \cup {r \in Roles : StoppedAtTarget(p[g.train[r]], g.target[r])},
            !.stood = @ \/ StoppedAtTarget(p[g.train[Neutral]], g.standby)]

\* game_try_redirect_neutral: game and trains
Redirected(g, p) ==
  LET t == g.train[Neutral]
  IN  IF StandbyTargets(g, p) = {} \/ GotoRefused(p, t) THEN {<<g, p>>}
      ELSE {<<[g EXCEPT !.standby = s], Goto(p, t, s)>> : s \in StandbyTargets(g, p)}

\* game_mark_neutral_resolved_at_standby
Resolved(g, s) == IF s = None THEN g ELSE [g EXCEPT !.standby = s, !.stood = TRUE]

\* game_neutral_resolve_target
ResolveTarget(g, p) ==
  IF p[g.train[Neutral]].at # None THEN p[g.train[Neutral]].at
  ELSE IF g.standby # None THEN g.standby ELSE g.target[Neutral]

\* game_try_resolve_neutral_cases
ResolveNeutral(g, p) ==
  LET t == g.train[Neutral]
      q == p[t]
      over == Players \subseteq g.done
      Obstructed(r) == /\ r \notin g.done
                       /\ Reachable(p, g.train[r], g.target[r])
                       /\ Blockers(p, g.train[r], g.target[r]) = {t}
      B == IF Reachable(p, t, g.target[Neutral])
           THEN Blockers(p, t, g.target[Neutral]) ELSE {}
  IN  IF Neutral \in g.done THEN {<<g, p>>}
      ELSE IF over /\ q.st \in {"waiting", "stopped"}
      THEN {<<Resolved(g, ResolveTarget(g, p)), p>>}
      ELSE IF g.standby # None THEN {<<g, p>>}
      ELSE IF q.st = "stopped" /\ \E r \in Players : Obstructed(r)
      THEN Redirected(g, p)
      ELSE IF over /\ B # {} /\ B \subseteq {g.train[r] : r \in Players}
      THEN IF q.parked THEN {<<Resolved(g, q.yield), p>>} ELSE Redirected(g, p)
      ELSE {<<g, p>>}

RoundDone(g) == Players \subseteq g.done /\ (Neutral \in g.done \/ g.stood)

\* game_advance_round_or_finish
AdvanceRound(g, p) ==
  IF g.round >= GAME_ROUNDS THEN {[g EXCEPT !.state = "MATCH_OVER"]}
  ELSE BeginWaitPick([ResetRound(g) EXCEPT !.round = @ + 1], p)

\* game_on_tick in WAIT_PICK and MATCH_OVER: the events are read and forgotten
IdleTick ==
  /\ game.state \in {"WAIT_PICK", "MATCH_OVER"} /\ events # <<>>
  /\ events' = <<>> /\ news' = 0
  /\ UNCHANGED <<game, pos, history>>

\* game_on_tick in ROUND_RUNNING
RoundTick ==
  /\ game.state = "ROUND_RUNNING"
  /\ \E w \in ResolveNeutral(SyncCompletion(ConsumeEvents(game), pos), pos) :
       LET g == SyncCompletion(w[1], w[2])
       IN  /\ game' \in IF RoundDone(g) THEN AdvanceRound(g, w[2]) ELSE {g}
           /\ pos' = w[2]
  /\ events' = <<>> /\ news' = 0
  /\ UNCHANGED history

\* game_handle_pick and its three dispatches, in the order of the round's priority
Pick(s) ==
  LET h == game.train[Human]
      g == [game EXCEPT !.target[Human] = s]
      turns == <<Priority(game), Other(Priority(game)), Neutral>>
      refused == {i \in 1..3 : GotoRefused(pos, g.train[turns[i]])}
      sent == {i \in 1..3 : \A j \in refused : i < j}
      Send(p, i) == IF i \in sent THEN Goto(p, g.train[turns[i]], g.target[turns[i]]) ELSE p
  IN  /\ game.state = "WAIT_PICK"
      /\ s # pos[h].at /\ Reachable(pos, h, s)
      /\ HasMinTrip(pos, h) => LongTrip(pos, h, s)
      /\ game' = [g EXCEPT !.state = IF refused = {} THEN "ROUND_RUNNING" ELSE "STOPPING"]
      /\ pos' = Send(Send(Send(pos, 1), 2), 3)
      /\ arrived' = {}
      /\ early' = IF events = <<>> THEN early ELSE early \cup {game.round}
      /\ UNCHANGED <<events, news, earned, led>>

-----------------------------------------------------------------------------
(* The end of the game *)

InGame == {game.train[r] : r \in Roles} \ {None}

\* pos_reset_dead_train, in game_emergency_stop_train
Reset(q) == [q EXCEPT !.st = "stopped", !.goal = None, !.fin = FALSE, !.queued = None,
                      !.yield = None, !.resume = None, !.parked = FALSE, !.yielded = {}]

\* game_force_stop_now; pos_reset_dead_train asserts that the train has met a sensor
ForceStopNow ==
  IF \E t \in InGame : pos[t].at = None
  THEN game' = [game EXCEPT !.state = "PANIC"] /\ UNCHANGED pos
  ELSE /\ pos' = [t \in Trains |-> IF t \in InGame THEN Reset(pos[t]) ELSE pos[t]]
       /\ game' = ResetAll(game)

\* "game stop force"
StopForce ==
  /\ game.state # "OFF" /\ Up /\ game.round <= MAX_STOP_ROUND
  /\ ForceStopNow
  /\ news' = 0
  /\ UNCHANGED <<events, history>>

\* "game stop"
StopGame ==
  /\ game.state \notin {"OFF", "STOPPING"} /\ Up /\ game.round <= MAX_STOP_ROUND
  /\ game' = [game EXCEPT !.state = "STOPPING"]
  /\ UNCHANGED <<pos, events, news, history>>

\* game_on_tick in STOPPING
StoppingTick ==
  /\ game.state = "STOPPING"
  /\ events' = <<>> /\ news' = 0
  /\ IF \E t \in InGame : GotoActive(pos[t]) THEN UNCHANGED <<game, pos>>
     ELSE ForceStopNow
  /\ UNCHANGED history

Tick == SetupTick \/ IdleTick \/ RoundTick \/ StoppingTick

Command ==
  \/ StartSetup \/ StopGame \/ StopForce
  \/ \E t \in Trains : EnterTrain(t)
  \/ \E s \in Sensors : Pick(s)

Next == PositionStep \/ Tick \/ Command

Spec == Init /\ [][Next]_vars

-----------------------------------------------------------------------------
(* Properties *)

\* When a round has ended, every node a player's train hit while a round ran has been counted:
\* none is left in the ring by the tick that ends the round (game_on_tick).  Nothing else has
\* been, unless a pick came so early that a tick of the round read what was in the ring before.
HitsScored ==
  game.state = "MATCH_OVER" \/ (game.state = "WAIT_PICK" /\ game.round > 1)
    => /\ earned \subseteq game.claims
       /\ early = {} => game.claims \subseteq earned

\* Of the two players, the one whose train is first at a sensor node gets 3 half points for it
\* and the other 2, each once in the match, however the hits are spread over rounds and ticks
\* (game_consume_events).  The code keeps its claims by directional node, so the two directions
\* of one physical sensor count as two here as they do there; README.md says otherwise.
FirstGetsMore ==
  early = {} => \A r \in Players :
    LET own == {c \in game.claims : c[1] = r}
    IN  game.score[r] = 2 * Cardinality(own) + Cardinality(own \cap led)

\* A role counts as done only once its train has stopped on the round's target after the pick
\* (game_consume_events, game_sync_slot_completion_from_position), when the pick came after a
\* tick that emptied the ring.  A pick before the first such tick lets the code take a stop of
\* an earlier game, of a plain goto, or from between the rounds, for an arrival.
DoneIsThere ==
  game.state = "ROUND_RUNNING" /\ game.round \notin early => game.done \subseteq arrived

\* The command that aborts a game works in every state of it.
AbortWorks == game.state # "PANIC"

=============================================================================
