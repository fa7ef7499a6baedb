----------------------------- MODULE TrainRuntime -----------------------------
(***************************************************************************)
(* The servers of the train program and the calls between them             *)
(* (src/user/train_runtime.c, train_control.c, track.c,                    *)
(* server/track_server.c, server/position_server.c,                        *)
(* server/manager_server.c).  A server handles one request at a time;      *)
(* "todo" is the rest of the handler it is in, the calls and effects still  *)
(* to come; a request at its head blocks the task until it is answered.    *)
(* Tasks that only ever send to the runtime (couriers, tick tasks, delay   *)
(* tasks of a reverse) are no callers anybody waits for: the messages of   *)
(* couriers and delay tasks are the bag "mail", in no order, and a tick is *)
(* sent and taken in one step.                                             *)
(*                                                                         *)
(* The track server and the box behind the CAN bus are modelled in full    *)
(* for speeds and turnouts.  Of the position, demo and game servers only   *)
(* the calls they make are here; what they compute is in RouteAuthority,   *)
(* Deadlock and GameManager.  The demo server and the runtime also call    *)
(* the planner of routes themselves, and then they make its calls.  The    *)
(* CAN server (CanServer) keeps the order of frames and calls nobody; here *)
(* a bus that loses nothing.                                               *)
(***************************************************************************)
EXTENDS UIServer, Integers, FiniteSets, Bags, SequencesExt

CONSTANTS
  Trains,               \* the valid train numbers
  StartupTrains,        \* those the start-up stops
  MAX_ACTIVE_TRAINS,
  Turnouts,
  Partner,              \* Partner[s]: the other turnout of a crossing pair, or s itself
  Speeds,               \* the speeds a command or the position server sets, 0 among them
  TickTasks,            \* the tick tasks that run
  Commands,             \* the commands typed
  RV_QUEUE_MAX,
  MaxCommands,          \* bound: commands typed
  MaxCalls,             \* bound: sensor hits, calls the position, demo and game servers make
                        \* on their own, and deadlocks they report
  MaxCouriers           \* bound: couriers alive at once

Managers == {"demo", "game"}
Servers == {"runtime", "track", "position"} \cup Managers
Tasks == Servers \cup {"input", "control", "ui_tick"}
Directions == {"S", "C"}

\* What the parser of the command line lets through.
CommandLines ==
  [type : {"TR"}, train : Trains, speed : Speeds] \cup [type : {"RV"}, train : Trains]
    \cup [type : {"SW"}, sw : Turnouts, dir : Directions]
    \cup [type : {"DEMO", "GAME"}, server : Managers, force : BOOLEAN]
    \cup [type : {"GOTO", "QUIT"}]

ASSUME RuntimeAssumption ==
  /\ IsFiniteSet(Trains) /\ IsFiniteSet(Turnouts) /\ StartupTrains \subseteq Trains
  /\ MAX_ACTIVE_TRAINS \in Nat /\ Cardinality(StartupTrains) <= MAX_ACTIVE_TRAINS
  /\ Partner \in [Turnouts -> Turnouts] /\ \A s \in Turnouts : Partner[Partner[s]] = s
  /\ 0 \in Speeds /\ Speeds \subseteq Nat /\ RV_QUEUE_MAX \in Nat
  /\ {MaxCommands, MaxCalls, MaxCouriers} \subseteq Nat
  /\ TickTasks \subseteq {"FAST", "SETTLE", "REPLAN", "DEMO", "GAME"}
  /\ Commands \subseteq CommandLines
  /\ Nobody \notin Tasks

VARIABLES
  todo,         \* the rest of the handler each task is in; blocked in Send when
                \* a request comes first
  client,       \* the task whose request a server has still to answer
  mail,         \* the bag of messages from tasks that only send to the runtime
  trains,       \* track.c trains[], for the trains that have an entry
  switchState,  \* track.c switch_state
  corrected,    \* history: the turnouts whose stored direction a hit has turned over since
                \* their last acknowledgement
  reversed,     \* the reply to the last track_start_reverse
  rvQueue,      \* rv_queue
  rvPending,    \* rv_pending_count
  delaying,     \* the trains whose delay task counts down
  prompt,       \* g_deadlock_prompt.active
  overrides,    \* switches of which the deadlock prompt has lifted the lock
  unresolved,   \* the deadlock notice is active and unresolved
  bus, rx,      \* frames to the box, frames from it
  layout,       \* the box and the track: speed of each train, direction of each turnout
  asked,        \* the speed last asked for each train
  used          \* bound: commands and calls so far

kernel == <<todo, client>>
track == <<trains, switchState, corrected, bus, asked>>
deadlock == <<prompt, overrides, unresolved>>
rv == <<reversed, rvQueue, rvPending, delaying>>
box == <<rx, layout>>
vars == <<kernel, mail, track, deadlock, rv, box, used, ui>>

-----------------------------------------------------------------------------
(* Requests and frames *)

Ask(to, op) == [to |-> to, op |-> op]
SetSpeed(t, v) == [to |-> "track", op |-> "SET_SPEED", train |-> t, speed |-> v]
SetSwitch(s, d) == [to |-> "track", op |-> "SET_SWITCH", sw |-> s, dir |-> d]
UpdateSwitch(s, d) == [to |-> "track", op |-> "UPDATE_SWITCH", sw |-> s, dir |-> d]
\* The same request from the handler of a hit; "hit" marks it for "corrected".
Correction(s, d) == [to |-> "track", op |-> "UPDATE_SWITCH", sw |-> s, dir |-> d, hit |-> TRUE]
StartReverse(t) == [to |-> "track", op |-> "START_REVERSE", train |-> t]
CompleteReverse(t) == [to |-> "track", op |-> "COMPLETE_REVERSE", train |-> t]
Override(s) == [to |-> "position", op |-> "ALLOW_SWITCH_OVERRIDE", sw |-> s]
\* effects within a handler
Do(op) == [do |-> op]
Started(t) == [do |-> "START_REVERSE_REPLY", train |-> t]
Throw(s, d) == [do |-> "THROW", sw |-> s, dir |-> d]
Batch(m) == <<[do |-> "ACQUIRE", mode |-> m], [do |-> "DRAW", mode |-> m]>>
LogLine == Batch("COMMAND")
Redraw == Batch("RAW")

SpeedFrame(t, v) == [frame |-> "SPEED", train |-> t, speed |-> v]
SwitchFrame(s, d) == [frame |-> "SWITCH", sw |-> s, dir |-> d]
Hit == [frame |-> "HIT"]

Asks(t, s) == todo[t] # <<>> /\ "to" \in DOMAIN Head(todo[t]) /\ Head(todo[t]).to = s
Request(t) == Head(todo[t])
Blocked(t) == Waiting(t) \/ \E s \in Tasks : Asks(t, s)
\* the next effect of t's handler
At(t, op) == ~Waiting(t) /\ todo[t] # <<>> /\ "do" \in DOMAIN Head(todo[t])
               /\ Head(todo[t]).do = op
Idle(s) == todo[s] = <<>> /\ client[s] = Nobody
Then(t, steps) == todo' = [todo EXCEPT ![t] = steps \o Tail(@)]

-----------------------------------------------------------------------------
(* track.c *)

Entries(tr) == {t \in Trains : tr[t].entry}
HasEntry(tr, t) == tr[t].entry \/ Cardinality(Entries(tr)) < MAX_ACTIVE_TRAINS

\* Mutant: a speed set while a train waits to be reversed is forgotten afterwards.
NoteSpeedOnly(tr, t, v) ==
  IF ~HasEntry(tr, t) THEN tr ELSE [tr EXCEPT ![t].entry = TRUE, ![t].speed = v]

\* track_local_set_speed; a train that waits to be reversed is to have the new speed afterwards.
NoteSpeed(tr, t, v) ==
  IF ~HasEntry(tr, t) THEN tr
  ELSE [tr EXCEPT ![t].entry = TRUE, ![t].speed = v,
                  ![t].prev = IF tr[t].rv THEN v ELSE @]

\* track_local_bootstrap_defaults: plain turnouts straight, the first of each pair
\* curved; the others' "S" sends no frame.  The order among turnouts does not matter.
Curved(s) == Partner[s] # s /\ s < Partner[s]
StartupFrames ==
  LET thrown == SetToSeq({s \in Turnouts : Partner[s] = s \/ Curved(s)})
      stopped == SetToSeq(StartupTrains)
  IN  [i \in 1..Len(thrown) |-> SwitchFrame(thrown[i], IF Curved(thrown[i]) THEN "C" ELSE "S")]
        \o [i \in 1..Len(stopped) |-> SpeedFrame(stopped[i], 0)]
StartupSwitches ==
  [s \in Turnouts |-> IF Partner[s] # s /\ Curved(Partner[s]) THEN "S" ELSE "?"]
\* track_local_reset_state empties the table, and the start-up trains then take entries.
StartupEntries ==
  [t \in Trains |-> [entry |-> t \in StartupTrains, speed |-> 0, rv |-> FALSE, prev |-> 0]]

\* The start-up is over and the box has executed and acknowledged its frames.
Init ==
  /\ todo = [t \in Tasks |-> <<>>]
  /\ client = [s \in Tasks |-> Nobody]
  /\ mail = EmptyBag
  /\ trains = StartupEntries
  /\ switchState = [s \in Turnouts |-> IF Curved(s) THEN "C" ELSE "S"]
  /\ reversed = 0 /\ rvQueue = <<>> /\ rvPending = 0
  /\ delaying = EmptyBag
  /\ prompt = FALSE /\ overrides = {} /\ unresolved = FALSE
  /\ corrected = {}
  /\ bus = <<>> /\ rx = <<>>
  /\ layout = [speed |-> [t \in Trains |-> 0], sw |-> switchState]
  /\ asked = [t \in Trains |-> 0]
  /\ used = [commands |-> 0, calls |-> 0]
  /\ UIInit

-----------------------------------------------------------------------------
(* Steps every task takes *)

\* The end of a handler: Reply.
Answer(s) ==
  /\ todo[s] = <<>> /\ client[s] # Nobody
  /\ Then(client[s], <<>>)
  /\ client' = [client EXCEPT ![s] = Nobody]
  /\ UNCHANGED <<mail, track, deadlock, rv, box, used, ui>>

\* ui_server_begin_batch, ui_server_send_simple, ui_server_end_batch
Drawing(t) ==
  /\ \/ At(t, "ACQUIRE") /\ Acquire(t, Head(todo[t]).mode)
     \/ At(t, "DRAW") /\ DrawAndRelease(t, Head(todo[t]).mode)
  /\ Then(t, <<>>)
  /\ UNCHANGED <<client, mail, track, deadlock, rv, box, used>>

-----------------------------------------------------------------------------
(* The track server *)

Served(c, op) ==
  /\ Idle("track") /\ Asks(c, "track") /\ Request(c).op = op
  /\ Then(c, <<>>)
  /\ UNCHANGED <<client, mail, deadlock, rvQueue, rvPending, delaying, box, used, ui>>

TrackSetSpeed(c) ==
  /\ Served(c, "SET_SPEED")
  /\ LET q == Request(c) IN
     /\ bus' = Append(bus, SpeedFrame(q.train, q.speed))
     /\ trains' = NoteSpeed(trains, q.train, q.speed)
     /\ asked' = [asked EXCEPT ![q.train] = q.speed]
  /\ UNCHANGED <<switchState, corrected, reversed>>

\* A turnout of a crossing pair is set only to curved; its partner then counts as straight.
TrackSetSwitch(c) ==
  /\ Served(c, "SET_SWITCH")
  /\ LET q == Request(c)
         paired == Partner[q.sw] # q.sw
     IN IF paired /\ q.dir = "S" THEN UNCHANGED <<bus, switchState>>
        ELSE /\ bus' = Append(bus, SwitchFrame(q.sw, q.dir))
             /\ switchState' = IF paired THEN [switchState EXCEPT ![Partner[q.sw]] = "S"]
                               ELSE switchState
  /\ UNCHANGED <<trains, corrected, asked, reversed>>

TrackUpdateSwitch(c) ==
  /\ Served(c, "UPDATE_SWITCH")
  /\ LET q == Request(c) IN
     /\ switchState' = [switchState EXCEPT ![q.sw] = q.dir]
     /\ corrected' = IF "hit" \in DOMAIN q THEN corrected \cup {q.sw} ELSE corrected
  /\ UNCHANGED <<trains, bus, asked, reversed>>

\* A moving train is stopped first, and its speed kept for the end of the delay (1);
\* a standing one is reversed at once (2); one that waits already is left alone (0).
TrackStartReverse(c) ==
  /\ Served(c, "START_REVERSE")
  /\ LET t == Request(c).train
         tr == [trains EXCEPT ![t].entry = TRUE]
     IN /\ HasEntry(trains, t)
        /\ CASE trains[t].rv -> reversed' = 0 /\ trains' = tr /\ UNCHANGED bus
             [] ~trains[t].rv /\ trains[t].speed = 0 ->
                  reversed' = 2 /\ trains' = tr /\ UNCHANGED bus
             [] OTHER ->
                  /\ reversed' = 1
                  /\ bus' = Append(bus, SpeedFrame(t, 0))
                  /\ trains' = [NoteSpeed([tr EXCEPT ![t].prev = trains[t].speed], t, 0)
                                  EXCEPT ![t].rv = TRUE]
  /\ UNCHANGED <<switchState, corrected, asked>>

TrackCompleteReverse(c) ==
  /\ Served(c, "COMPLETE_REVERSE")
  /\ LET t == Request(c).train IN
     IF trains[t].rv
     THEN /\ bus' = Append(bus, SpeedFrame(t, trains[t].prev))
          /\ trains' = NoteSpeed([trains EXCEPT ![t].rv = FALSE], t, trains[t].prev)
     ELSE UNCHANGED <<bus, trains>>
  /\ UNCHANGED <<switchState, corrected, asked, reversed>>

\* Mutant: the reset forgets the state and sends no frames.
TrackForget(c) ==
  /\ Served(c, "RESET_STARTUP")
  /\ trains' = StartupEntries
  /\ switchState' = StartupSwitches
  /\ UNCHANGED <<corrected, bus, asked, reversed>>

\* TRACK_REQ_RESET_STARTUP
TrackReset(c) ==
  /\ Served(c, "RESET_STARTUP")
  /\ trains' = StartupEntries
  /\ switchState' = StartupSwitches
  /\ bus' = bus \o StartupFrames
  /\ asked' = [t \in Trains |-> IF t \in StartupTrains THEN 0 ELSE asked[t]]
  /\ UNCHANGED <<corrected, reversed>>

\* Mutant: the track server sends to the runtime itself.
NotifyDirectly(event) == todo' = [todo EXCEPT !["track"] = <<event>>] /\ UNCHANGED mail

\* track_notify_runtime: a courier carries the event, so that the track server does
\* not wait for the runtime.
NotifyRuntime(event) == mail' = mail (+) SetToBag({event}) /\ UNCHANGED todo
Couriers ==
  LET alive(m) == IF BagIn(m, mail) THEN mail[m] ELSE 0
  IN  alive(Ask("runtime", "SENSOR_HIT")) + alive(Ask("runtime", "SWITCH_ACK"))

\* runtime_can_ingress_task, track_local_process_can_frame
TrackFrame ==
  /\ Idle("track") /\ rx # <<>> /\ Couriers < MaxCouriers
  /\ rx' = Tail(rx)
  /\ IF Head(rx).frame = "HIT"
     THEN UNCHANGED <<switchState, corrected>> /\ NotifyRuntime(Ask("runtime", "SENSOR_HIT"))
     ELSE /\ switchState' = [switchState EXCEPT ![Head(rx).sw] = Head(rx).dir]
          /\ corrected' = corrected \ {Head(rx).sw}
          /\ NotifyRuntime(Ask("runtime", "SWITCH_ACK"))
  /\ UNCHANGED <<client, trains, bus, asked, deadlock, rv, layout, used, ui>>

-----------------------------------------------------------------------------
(* The box and the track *)

Spend(some) ==
  /\ some => used.calls < MaxCalls
  /\ used' = IF some THEN [used EXCEPT !.calls = @ + 1] ELSE used

BoxFrame ==
  /\ bus # <<>>
  /\ bus' = Tail(bus)
  /\ LET f == Head(bus) IN
     IF f.frame = "SPEED"
     THEN layout' = [layout EXCEPT !.speed[f.train] = f.speed] /\ UNCHANGED rx
     ELSE layout' = [layout EXCEPT !.sw[f.sw] = f.dir] /\ rx' = Append(rx, f)
  /\ UNCHANGED <<kernel, mail, trains, switchState, corrected, asked, deadlock, rv, used, ui>>

SensorHit ==
  /\ \E t \in Trains : layout.speed[t] # 0
  /\ Spend(TRUE)
  /\ rx' = Append(rx, Hit)
  /\ UNCHANGED <<kernel, mail, track, deadlock, rv, layout, ui>>

-----------------------------------------------------------------------------
(* The position server and the managers: what they may call *)

Drives == {"SENSOR", "FAST_TICK", "SETTLE_TICK", "REPLAN_TICK", "GOTO"}

\* What a handler that drives a train does to the track, one call at a time: a handler that
\* sets several turnouts and a speed does to the track what several in a row do.
PositionCalls ==
  {<<SetSpeed(t, v)>> : t \in Trains, v \in Speeds}
    \cup {<<Throw(s, d)>> : s \in Turnouts, d \in Directions}

NeedsChange(s, d) == switchState[s] # d      \* route_switch_needs_change

\* Whoever applies the switches of a route reads the stored direction and then calls.
Throwing(t) ==
  /\ At(t, "THROW")
  /\ LET e == Head(todo[t]) IN
     Then(t, IF NeedsChange(e.sw, e.dir)
             THEN <<SetSwitch(e.sw, e.dir), UpdateSwitch(e.sw, e.dir)>> ELSE <<>>)
  /\ UNCHANGED <<client, mail, track, deadlock, rv, box, used, ui>>

\* A hit on the other branch than the predicted one turns the stored direction of the
\* turnout over, and no frame is sent.  Which hits do so is left open.
Corrections ==
  {<<Correction(s, IF switchState[s] = "S" THEN "C" ELSE "S")>> : s \in Turnouts}

\* The calls of a handler of the position server.  The replanning tick writes a line when it
\* lets the neutral train of a game yield (game_note_neutral_deadlock_yield).
DriveSteps(op) ==
  IF op \notin Drives THEN {<<>>}
  ELSE {fix \o drive : fix \in {<<>>} \cup (IF op = "SENSOR" THEN Corrections ELSE {}),
                        drive \in {<<>>} \cup PositionCalls}
         \cup (IF op = "REPLAN_TICK" THEN {q \o LogLine : q \in PositionCalls} ELSE {})

Begin(s, c, steps) ==
  /\ client' = [client EXCEPT ![s] = c]
  /\ todo' = [todo EXCEPT ![s] = steps]
  /\ UNCHANGED <<mail, track, rv, box, ui>>

\* The notice of a deadlock is written by the replanning tick.
Notice(op) == IF op = "REPLAN_TICK" THEN BOOLEAN
              ELSE IF op = "RESET_ALL" THEN {FALSE} ELSE {unresolved}

PositionServe(c) ==
  /\ Idle("position") /\ Asks(c, "position")
  /\ LET op == Request(c).op IN
     /\ \E steps \in DriveSteps(op) :
          /\ unresolved' \in Notice(op)
          /\ Spend(op # "SENSOR" /\ (steps # <<>> \/ (unresolved' /\ ~unresolved)))
          /\ Begin("position", c, steps)
     /\ CASE op = "ALLOW_SWITCH_OVERRIDE" -> overrides' = overrides \cup {Request(c).sw}
          [] op \in {"CLEAR_SWITCH_OVERRIDES", "RESET_ALL"} -> overrides' = {}
          [] OTHER -> UNCHANGED overrides
     /\ UNCHANGED prompt

StopTrain(t) == <<Ask("position", "SPEED_CHANGE"), SetSpeed(t, 0)>>
\* demo_force_stop: every train that has been driven has a record and is stopped.
StopAll ==
  LET order == SetToSeq(Trains)
  IN  [i \in 1..2 * Len(order) |-> StopTrain(order[(i + 1) \div 2])[2 - (i % 2)]]

\* game_force_stop_now, also at the end of a stopping game: of the two roles, those with a train.
GameStop(t) == StopTrain(t) \o <<Ask("position", "RELEASE_TRAIN")>>
GameStops ==
  {LogLine} \cup {GameStop(t) \o LogLine : t \in Trains}
    \cup {GameStop(t) \o (GameStop(u) \o LogLine) : t, u \in Trains}

\* The demo's tick also gives trains without a blocker a target itself; GOTO stands for
\* START_FIND_POS too.
ManagerCalls(s, op) ==
  IF op = "FORCE_STOP" /\ s = "demo"
  THEN {StopAll \o <<Ask("position", "RESET_ALL"), Ask("track", "RESET_STARTUP")>>}
  ELSE IF op = "FORCE_STOP" THEN GameStops
  ELSE {<<>>, LogLine} \cup {StopTrain(t) : t \in Trains}
         \cup {<<Ask("position", "GOTO")>>} \cup (IF s = "game" THEN GameStops ELSE {})
         \cup (IF s = "demo" /\ op = "TICK" THEN PositionCalls ELSE {})

\* manager_server_task_loop; a manager may also settle the deadlock itself.
ManagerServe(s, c) ==
  /\ Idle(s) /\ Asks(c, s)
  /\ \E steps \in ManagerCalls(s, Request(c).op) :
       /\ IF Request(c).op = "FORCE_STOP" THEN UNCHANGED used
          ELSE Spend(steps \notin {<<>>, LogLine})
       /\ Begin(s, c, steps)
  /\ unresolved' \in {unresolved, FALSE}
  /\ UNCHANGED <<prompt, overrides>>

-----------------------------------------------------------------------------
(* The runtime *)

\* Switch tokens lift the lock of the switch, reserved ones are released, and the position
\* server plans again.
ReplanSteps ==
  {<<Override(s)>> \o release \o <<Ask("position", "REPLAN_TICK"), Do("RETRY")>> :
     s \in Turnouts, release \in {<<>>, <<Ask("position", "RELEASE_NODE")>>}}

\* runtime_handle_deadlock_prompt_command
PromptSteps(c) ==
  IF c.type \in {"DEMO", "GAME"} /\ c.force THEN {<<Ask(c.server, "FORCE_STOP")>>}
  ELSE IF c.type = "QUIT" THEN {<<>>}
  ELSE {LogLine} \cup ReplanSteps

\* runtime_handle_command; any command may be refused with a line of text.
CommandSteps(c) ==
  IF prompt THEN PromptSteps(c)
  ELSE {LogLine} \cup
    CASE c.type = "TR" -> {<<Ask("position", "SPEED_CHANGE"), SetSpeed(c.train, c.speed)>>}
      [] c.type = "SW" -> {<<SetSwitch(c.sw, c.dir)>>}
      [] c.type = "RV" -> {<<StartReverse(c.train), Started(c.train)>>}
      [] c.type = "GOTO" -> IF rvPending > 0 THEN {} ELSE {<<Ask("position", "GOTO")>>}
      [] c.type \in {"DEMO", "GAME"} ->
           {<<Ask(c.server, IF c.force THEN "FORCE_STOP" ELSE "COMMAND")>>}
      [] OTHER -> {}

RuntimeCommand ==
  /\ Idle("runtime") /\ Asks("control", "runtime")
  /\ \E steps \in CommandSteps(Request("control").cmd) :
       Begin("runtime", "control", steps \o <<Do("REFRESH")>>)
  /\ UNCHANGED <<deadlock, used>>

\* The sender is answered first, so that the track server can serve the calls to come.
EventSteps(m) ==
  CASE m.op = "SENSOR_HIT" -> <<Ask("position", "SENSOR")>>
    [] m.op = "SWITCH_ACK" -> <<Ask("position", "MARK_ROUTES_DIRTY")>>
    [] m.op = "FAST" -> <<Ask("position", "FAST_TICK")>>
    [] m.op = "SETTLE" -> <<Ask("position", "SETTLE_TICK")>>
    [] m.op = "REPLAN" -> <<Ask("position", "REPLAN_TICK"), Do("REFRESH")>>
    [] m.op = "DEMO" -> <<Ask("demo", "TICK")>>
    [] m.op = "GAME" -> <<Ask("game", "TICK")>>
    [] m.op = "RV_COMPLETE" ->
         <<CompleteReverse(m.train), Ask("position", "REVERSE"), Do("RV_DONE")>>

RuntimeEvent ==
  /\ Idle("runtime")
  /\ \E m \in BagToSet(mail) :
       /\ m.op # "RV_REQUEST"
       /\ mail' = mail (-) SetToBag({m})
       /\ todo' = [todo EXCEPT !["runtime"] = EventSteps(m)]
  /\ UNCHANGED <<client, track, deadlock, rv, box, used, ui>>

\* RUNTIME_EVENT_RV_REQUEST: the delay task is given the train at the head of rv_queue.
RuntimeRvRequest ==
  /\ Idle("runtime") /\ BagIn(Ask("runtime", "RV_REQUEST"), mail)
  /\ mail' = mail (-) SetToBag({Ask("runtime", "RV_REQUEST")})
  /\ rvQueue' = Tail(rvQueue)
  /\ delaying' = delaying (+) SetToBag({Head(rvQueue)})
  /\ UNCHANGED <<kernel, track, deadlock, reversed, rvPending, box, used, ui>>

\* after track_start_reverse
RuntimeReversing ==
  /\ At("runtime", "START_REVERSE_REPLY")
  /\ Then("runtime", IF reversed = 2 THEN <<Ask("position", "REVERSE")>> ELSE <<>>)
  /\ IF reversed = 1
     THEN /\ Len(rvQueue) < RV_QUEUE_MAX
          /\ rvQueue' = Append(rvQueue, Head(todo["runtime"]).train)
          /\ rvPending' = rvPending + 1
          /\ mail' = mail (+) SetToBag({Ask("runtime", "RV_REQUEST")})
     ELSE UNCHANGED <<rvQueue, rvPending, mail>>
  /\ reversed' = 0
  /\ UNCHANGED <<client, track, deadlock, delaying, box, used, ui>>

RuntimeReversed ==
  /\ At("runtime", "RV_DONE")
  /\ Then("runtime", <<>>)
  /\ rvPending' = IF rvPending > 0 THEN rvPending - 1 ELSE 0
  /\ UNCHANGED <<client, mail, track, deadlock, reversed, rvQueue, delaying, box, used, ui>>

\* demo_try_resolve_unresolved_deadlock_ready_target, after the tokens of a prompt line: the
\* runtime gives a train of the deadlock another target itself.
RuntimeRetry ==
  /\ At("runtime", "RETRY")
  /\ \E steps \in IF unresolved THEN {<<>>} \cup PositionCalls ELSE {<<>>} :
       Then("runtime", steps \o <<Do("RETRIED")>>)
  /\ UNCHANGED <<client, mail, track, deadlock, rv, box, used, ui>>

\* Its end, and the line if the deadlock is still unresolved.
RuntimeRetried ==
  /\ At("runtime", "RETRIED")
  /\ unresolved' \in {unresolved, FALSE}
  /\ Then("runtime", IF unresolved' THEN LogLine ELSE <<>>)
  /\ UNCHANGED <<client, mail, track, prompt, overrides, rv, box, used, ui>>

\* Mutant: the prompt is left with the locks of switches still lifted.
RuntimeRefreshOnly ==
  /\ At("runtime", "REFRESH")
  /\ Then("runtime", IF unresolved /\ ~prompt THEN LogLine ELSE <<>>)
  /\ prompt' = unresolved
  /\ UNCHANGED <<client, mail, track, overrides, unresolved, rv, box, used, ui>>

\* runtime_deadlock_prompt_refresh
RuntimeRefresh ==
  /\ At("runtime", "REFRESH")
  /\ Then("runtime",
          IF unresolved /\ ~prompt THEN LogLine
          ELSE IF ~unresolved /\ prompt
               THEN <<Ask("position", "CLEAR_SWITCH_OVERRIDES"), Do("DEACTIVATE")>> ELSE <<>>)
  /\ prompt' = (prompt \/ unresolved)
  /\ UNCHANGED <<client, mail, track, overrides, unresolved, rv, box, used, ui>>

RuntimeDeactivate ==
  /\ At("runtime", "DEACTIVATE")
  /\ Then("runtime", <<>>)
  /\ prompt' = FALSE
  /\ UNCHANGED <<client, mail, track, overrides, unresolved, rv, box, used, ui>>

-----------------------------------------------------------------------------
(* The tasks that only send *)

\* Mutant: a tick task calls the position server without the runtime.
TickPosition(k) ==
  /\ Idle("position")
  /\ todo' = [todo EXCEPT !["position"] = LogLine]
  /\ UNCHANGED <<client, mail, track, deadlock, rv, box, used, ui>>

\* runtime_tick_loop: the task is blocked from the end of its delay until the runtime takes
\* the tick; that nobody else sees, so the two are one step.
Tick(k) ==
  /\ Idle("runtime")
  /\ todo' = [todo EXCEPT !["runtime"] = EventSteps(Ask("runtime", k))]
  /\ UNCHANGED <<client, mail, track, deadlock, rv, box, used, ui>>

\* rv_delay_task: the end of the delay
DelayEnds(t) ==
  /\ BagIn(t, delaying)
  /\ delaying' = delaying (-) SetToBag({t})
  /\ mail' = mail (+) SetToBag({[to |-> "runtime", op |-> "RV_COMPLETE", train |-> t]})
  /\ UNCHANGED <<kernel, track, deadlock, reversed, rvQueue, rvPending, box, used, ui>>

\* command_input_task: a line is typed.  The prompt drawn after the reply is drawn here
\* with the echo of the next line.
InputLine(c) ==
  /\ Idle("input") /\ used.commands < MaxCommands
  /\ used' = [used EXCEPT !.commands = @ + 1]
  /\ todo' = [todo EXCEPT !["input"] =
                 LogLine \o <<[to |-> "control", op |-> "COMMAND", cmd |-> c]>>]
  /\ UNCHANGED <<client, mail, track, deadlock, rv, box, ui>>

\* train_control_task hands the command on.  Status 0 ends the program: the control task
\* takes no step after it, and neither would any other.
ControlCommand ==
  /\ Idle("control") /\ Asks("input", "control")
  /\ LET c == Request("input").cmd IN
     Begin("control", "input",
           <<[to |-> "runtime", op |-> "COMMAND", cmd |-> c]>>
             \o IF c.type = "QUIT" THEN <<Do("SHUTDOWN")>> ELSE <<>>)
  /\ UNCHANGED <<deadlock, used>>

\* ui_tick_task
UITick ==
  /\ Idle("ui_tick")
  /\ todo' = [todo EXCEPT !["ui_tick"] = Redraw]
  /\ UNCHANGED <<client, mail, track, deadlock, rv, box, used, ui>>

Track(c) ==
  \/ TrackSetSpeed(c) \/ TrackSetSwitch(c) \/ TrackUpdateSwitch(c)
  \/ TrackStartReverse(c) \/ TrackCompleteReverse(c) \/ TrackReset(c)

Runtime ==
  \/ RuntimeCommand \/ RuntimeEvent \/ RuntimeRvRequest \/ RuntimeReversing
  \/ RuntimeReversed \/ RuntimeRetry \/ RuntimeRetried \/ RuntimeRefresh \/ RuntimeDeactivate

Next ==
  \/ \E t \in Tasks : Answer(t) \/ Drawing(t) \/ Throwing(t)
  \/ \E c \in Servers : Track(c) \/ PositionServe(c)
  \/ \E s \in Managers : ManagerServe(s, "runtime")
  \/ Runtime \/ TrackFrame \/ BoxFrame \/ SensorHit
  \/ \E k \in TickTasks : Tick(k)
  \/ \E t \in Trains : DelayEnds(t)
  \/ \E c \in Commands : InputLine(c)
  \/ ControlCommand \/ UITick

Spec == Init /\ [][Next]_vars

-----------------------------------------------------------------------------
WaitsFor(t) == IF Waiting(t) THEN ui.owner
               ELSE IF Blocked(t) THEN Request(t).to ELSE Nobody

\* No tasks wait for each other in a ring, through blocking Sends or the drawing lock
\* (Send never times out: such a ring would stop the trains' control for good while they
\* move).  It holds because the track server tells the runtime of frames by courier, the
\* runtime answers an event before it acts on it, and nobody calls while it draws.
NoCircularWait ==
  LET waits == [t \in Tasks |-> WaitsFor(t)]
  IN  \A W \in (SUBSET {t \in Tasks : waits[t] # Nobody}) \ {{}} : \E t \in W : waits[t] \notin W

Works(t) == ~Idle(t) /\ ~Blocked(t)

\* The position and traffic state has no lock, and the runtime and the managers read and
\* write it by direct calls (pos_get, pos_reset_dead_train, traffic_can_set_switch) beside
\* the position server: at any moment at most one of them is in a handler and not blocked.
OnePositionWriter ==
  Cardinality({t \in {"runtime", "position"} \cup Managers : Works(t)}) <= 1

\* Once every frame has been executed and acknowledged, the direction stored for a plain
\* turnout is the one it has, whatever the user, the routes and a forced stop have asked for
\* in the meantime, and although routes, of the position server, the demo or the runtime,
\* store theirs before the box has it.  Not so for a turnout a hit has "corrected" since its
\* last acknowledgement: with a command of the user under way when the hit was predicted,
\* that turns a right direction over.
SwitchesAgree ==
  bus = <<>> /\ rx = <<>> =>
    \A s \in Turnouts \ corrected : Partner[s] = s => switchState[s] = layout.sw[s]

\* With no reverse under way each train has the speed that was last asked for it: a
\* reverse gives back the old speed, or the one set while it waited, and a train stopped
\* by force in that time stays stopped when the delay ends.
SpeedRestored ==
  bus = <<>> /\ Idle("runtime") /\ rvPending = 0 =>
    \A t \in Trains : layout.speed[t] = asked[t]

\* A switch whose reservation lock the user has lifted to break a deadlock is locked again
\* by the time the prompt goes, however the deadlock ends.
OverridesOnlyInPrompt == overrides # {} => prompt
===============================================================================
