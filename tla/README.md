# Verification of the train control OS

The repository is a small real-time kernel for the Raspberry Pi 4 (message
passing in the style of QNX, strict priorities, interrupts turned into events),
a set of server tasks (clock, terminal, CAN bus, UI, name server) and a train
control program on top of them (track server, position server, route search,
reservations, deadlock handling, demo and game managers). This directory holds
TLA+ models of it, the TLC configurations that check them and TLAPS proofs.

Paths below are relative to the root of the repository.

## The system

| component | state it keeps | operations | what makes it correct |
|---|---|---|---|
| kernel (`src/kernel/task_manager.c`, `task_scheduler.c`, `task_list.c`) | task descriptors, ready lists, send queues, event slots and counters, free list | Create, Exit, Yield, MyTid, MyParentTid, Send, Receive, Reply, AwaitEvent, interrupts | a descriptor is in one list; nobody waits for a dead task; the most urgent task runs; no event is lost; a task is always runnable |
| clock server (`server/clock_server.c`, `min_heap.c`) | tick count, heap of sleepers | Time, Delay, DelayUntil, tick notification | every interrupt counted once; nobody asleep past its tick or woken early |
| terminal server (`server/terminal_server.c`) | output buffer, blocked writers, input buffer, blocked readers, a withheld reply | Getc, Putc, Puts, RX and TX notification | output complete and in order, no caller or notifier stranded |
| CAN server (`server/can_server.c`, `mcp2515.c`) | receive and transmit queue, one blocked reader, the awaited reply | CANSend, CANReceive, notification, enabling | no stored frame lost, one command outstanding, queued commands sent |
| name server (`server/nameserver.c`) | table of names | RegisterAs, WhoIs | a lookup finds the last registration |
| track server (`server/track_server.c`, `track.c`) | switch states, train speeds, directions, reversing, sensor log | commands to trains and switches, CAN frames in | the local switch state follows the acknowledgements; reversing restores the speed |
| runtime (`train_runtime.c`) | reverse requests, deadlock prompt | event loop over sensor hits, acknowledgements, ticks, commands | every event handled once, servers never wait for each other in a circle |
| position server and position code (`train_tracking/position/`) | per train: position, route state, motion state, plan, cursors | sensor hit, tick, goto, replan, switch settling | a train moves only on track it owns; a waiting train goes on when track is free |
| traffic (`train_tracking/traffic/`) | owner of each node, windows of reserved track, candidates of sensor hits | reserve, release, window slide, attribution | exclusive ownership, both directions and conflict zones together |
| route search (`train_tracking/route/`) | open list, cache | search, follow | shortest legal route |
| deadlock handling (`pos_deadlock*.c`, `pos_route_yield.c`, `pos_game_deadlock.c`) | cycles found, notices | detect, choose a train to yield, reroute | every cycle resolved or reported |
| demo and game managers (`demo_manager.c`, `game_manager*.c`) | targets, rounds, scores | ticks, commands, target reached | the rules in the repository's README |
| UI (`server/ui_server.c`, `ui*.c`) | drawing lock, dirty flags | batches of drawing, redraw | drawings never interleave; every change is drawn |
| command line (`train_control.c`, `command.c`) | keyboard buffer, line being edited | commands | input in order |

Everything happens in tasks that share memory only inside the train control
program; otherwise they talk by Send, Receive and Reply, and hardware talks to
them through events: a *notifier* task of high priority waits for the event and
sends a message to its server. The behaviours that are hard here:

- interrupts against notifiers: an edge that comes between a test of the device
  and AwaitEvent, a source that is masked when the next edge comes;
- replies withheld on purpose (blocked readers and writers, the TX notifier): each
  must be sent in the end by some other request;
- queues at their limit: delay queue, buffers, waiter arrays, CAN queues;
- exits and the reuse of task ids while others wait;
- strict priorities, which exclude some interleavings and starve others;
- in the train code: stale state between an acknowledgement and the plan that relied
  on it, partial reservations, cycles of waiting trains.

`PROJECT.json` lists the hazards line by line and the properties that cover each.

## Modules

### TaskManager, MCTaskManager - the kernel

`TaskManager.tla` has one action for each system call (`Create`, `Exit`, `Yield`,
`Query` for the calls that only read, `Send`, `Receive`, `Reply`, `AwaitEvent`) and
one for each kind of interrupt (`TimerInterrupt`, `DeviceInterrupt`). The kernel
runs with interrupts masked, so a call with all it does (queue, wake, schedule) is
one step. Task lists are sequences of tids; `ready`, `send_queue`,
`event_wait_queue`, `free_list` are the code's lists that share the `next` pointer
of a descriptor. `machine` is "panicked" where the code calls `panic`. What is not
in it: message contents, stacks and canaries, addresses.

| run | instance | shows |
|---|---|---|
| `kernel_ipc` | 3 descriptors, so that tids are reused after exits, 2 levels, the two UART events, which one interrupt may signal together, and the CAN event, which shares an id with one of them; event counters saturate at 1 | the lists agree with the task states and with one another (`TaskLists`), waiting tasks wait for live tasks, and are released only by their peer (`SendersReleased`); strict priority, round robin, no panic once an idle task exists |
| `kernel_liveness` | 2 urgent tasks next to an idle one, the timer | a ready task of the top level runs, with weak fairness of the timer interrupt only: nothing is assumed of the tasks, which may loop without a call |

That two device sources may share an event in `kernel_ipc` only adds interleavings:
the kernel treats an event by its number. Only timer events must differ from the
device events (`EventsAssumption`), since these alone are masked.

### MinHeap, ClockServer - the clock

`MinHeap.tla` is `min_heap.c` as functions on a sequence; a sift loop, like the loop of the
server that wakes sleepers, is the sequence of its rounds (`Up`, `Down`). `ClockServer.tla` composes it with the server's loop, the
notifier and the clients. Priorities appear as guards: the server runs while its
notifier is blocked, clients while both are. The timer comes at any time, also when
nobody waits for it. Checked with 5 clients, a queue of 4 (so that one client finds it
full) and 3 ticks (`clock`). The behaviour ends when the bound on the timer
is reached, so deadlock is not checked there. `DelayHonoured` compares a call with
the timer and not with the server's own count, which may lag behind it. Fairness:
the timer re-arms itself; notifier and server are more urgent than any client.

### TerminalServer - the console

The server, both notifiers, writers, readers, and the UART's two FIFOs with their
interrupts. A turn of the server's loop that feeds the UART is several steps
(`StartPuts`, `FlushOne`, `FinishPuts`), since the UART drains meanwhile; so is a
notifier's round (`TxPoll`, `TxEnable`, `TxAwait`, `TxSend`). The TX interrupt is an
edge: its raw status rises when the FIFO drains to its level and is cleared by the
handler. Characters are numbered per writer, so order and loss are visible. Checked
(`terminal`) with buffers, FIFOs and waiter arrays of one, two writers
of two characters, one reader and two typed characters: every full and empty
case occurs, and both the refused and the partly accepted Puts.

### CanServer - the CAN bus

The server, its notifier, its two callers (the track server sends, its ingress task
reads), the MCP2515 with two receive buffers and one transmit buffer, its interrupt
line, and the box that answers each command once. The controller may move between any
two of the server's accesses; tasks take no step while an unmasked interrupt is
pending. `can` checks the safety of the handshake and that the reader is served, with
queues of one and with frames lost on the bus. `can_stolen`
ends in a violation: CAN_MSG_RECV with an empty queue takes a frame from the controller and
passes it on without asking whether it is the awaited reply. If it is,
`g_can_tx_waiting_reply` is never cleared and what is queued is never sent, although
nothing was lost. The window is a reply that arrives between the reader's Send and
the server's access to the controller.

The bus may lose frames, and nothing times out the reply to a lost one: the
transmit queue then stays as it is. The code has no retry, so no property claims
that what is queued is sent when frames are lost. The assertion at
`can_server.c:87`, that the receive queue has room, can fail when the reader is slower than
the bus: the drain loop does not look at the queue.

### TrafficReservation, RouteAuthority, MCRouteAuthority - trains under rolling authority

`TrafficReservation.tla` has the functions of `traffic_reservation.c` and
`traffic_reservation_window.c` as operators from one reservation table to the next,
on a track that is a parameter: nodes with reverse twins, branches with two legs,
merges, the crossing. `RouteAuthority.tla` holds the table (`owner`), the stored turnout
positions (`sw`) and the slot of each train (`pos`), and has one action for each
request of the position server that moves a train along its route:

| action | code |
|---|---|
| `Goto` | `pos_goto` for a parked train: plan, commit, launch or wait |
| `Resume` | `pos_try_resume_wait_resource`, from the replan tick |
| `Settle` | `pos_complete_switch_settle` |
| `Hit`, `HitOffRoute` | `pos_on_sensor_trigger`: correction of a turnout, then `pos_handle_sensor_hit` on the path or off it |
| `TopUp` | `pos_route_authority_try_top_up` |
| `Brake`, `BrakeTold` | `tick_check_brake_point`, and the brake that was commanded before the first hit after a launch |
| `DeadTrack`, `Retry` | `enter_terminal_dead_track`, `resume_onroute_after_dead_track` |
| `Stop` | `handle_normal_stop`, with a goto queued meanwhile or without |
| `RecoveryReplan` | `do_recovery_replan` |

A path is a sequence of nodes; `at` and `rend` are `route_path_cursor` and
`route_reserved_end_cursor` (counted from 1), `target` the sensor at `rend`, `frozen` the
`stopping_target_sensor`, `sent` says that `stopping_since_us` is set, `fresh` that no
sensor was hit since the launch, `recross` that the train turned round and has its last
sensor before it. The search appears as what it returns: a shortest path without
a repeated node around what others hold, and if there is none, through it; any of
equally short ones. Times are open: brake points, retries, deadlines and settling may
come at any moment the guards allow.

What is assumed of the railway: turnouts move as told; each sensor that a train meets
is reported and attributed to it; a train stops no later than at the sensor it brakes for
(so it never outruns its window); the tick that turns a pending brake into
STOPPING comes before the next sensor; a train without authority does not roll over
another sensor. Left out: manual driving and the search for a position, mid-route
reversals, forced and short launches, exceptions of the game, skipped
predictions, lost sensor hits, and deadlock resolution, which is in `Deadlock`; two trains that block each
other wait for ever here, so no liveness is claimed of this module.

The instance of `route` is a loop with a passing siding in both directions (18 nodes, 2 turnouts,
2 merge zones) and two trains: one is sent to `D` again and again, may stall on dead
track; the other to `A`. Each edge has length 1, a window at least 1, the brake
point lies up to 2 before the end of a window. The siding is what makes it enough: trains
meet head on, follow each other, wait at the merge and at the branch, pass, are planned
around each other and through each other, start in reverse, stop
between a sensor and a turnout, and hit a sensor off their route. `MaxHops` is 8, once
round the loop.

| property | says |
|---|---|
| `PairOwned` | a place is held in both directions or neither |
| `PositionOwned` | the sensor a train is known by is its own, though stops, waits and off-route hits give track back |
| `WindowOwned` | a train under way owns its whole remaining window with every zone the window touches |
| `RouteLined` | the turnouts of that window stand for the path |
| `NoSteal` | a node passes from one train to another only by being given back, although three functions take the node under a train without looking |
| `NoThrowUnderTrain` | no turnout moves between a train and its next sensor |
| `NoFalseAlarm` | without a fault no hit makes the server believe that a turnout stands otherwise than thrown, or that a train has left its route when it has not turned round |
| `NoPanic` | no assertion fails, and no launch replans the same blocked path for ever |

`NoFalseAlarm` is about the turnouts that routes throw: no `sw` is typed in this model, and with one on its way a hit can
raise a false alarm (see TrainRuntime). All but `NoThrowUnderTrain` and `NoFalseAlarm` are proved for every track (see Proofs).

`route_goal` ends in a violation: a brake may be commanded before the first hit
after a launch; until that hit the window can still be topped up. The train then
stops at the old target. `handle_normal_stop` compares its position with the frozen
target but asks the grown window whether this is the goal, so the train counts as stopped
on its target, and its goal is forgotten, one sensor before it gets there.

One behaviour seen on the way is allowed by the properties: a train that stands between a sensor and
a merge may plan its start in reverse from the twin of its next sensor. Its path then does not contain
the sensor it stands past, and the first hit after the start counts as off route: it
stops and plans again (`HitOffRoute` without any fault).

### Deadlock, MCDeadlock - trains that wait for each other

`Deadlock.tla` is what the position server does about trains that cannot go on: the
retry of waiting trains, the search for cycles, the choice of a train to send aside and
of where to, its return, the notice and the cache of deadlocks without solution, in a
game and outside it. To have several trains meet often in a small state, the railway is a graph of
places, one train in each, and a window is one place; `RouteAuthority` has the
track under a single route in detail. `World` is what one request reads and
writes as a whole; the code's functions are operators from one such world to
the next, and the actions are the requests:

| action | code |
|---|---|
| `Goto` | `pos_goto`: at once for a train that stands, else after its next stop |
| `Tick` | `pos_replan_on_tick`: notice, top-ups (`Movers`), then the waiters in order, each after `pos_deadlock_maybe_reroute_waiter` (`Service`) |
| `Roll`, `Stop` | a sensor inside the window; `handle_normal_stop` at its end |
| `ResumeAfterYield` | `pos_deadlock_maybe_resume_after_yield` |
| `NoticeExpires`, `RetryAgain` | the times of the notice and of the cache |

`Solution` is the core: two or more waiters that wait for each other
(`deadlock_apply_wait_cycle_reroute`), a waiter and a train that stands in its way
(`deadlock_apply_stopped_blocker_reroute`), and in a game the search that weighs whom
each move frees (`pos_game_deadlock.c`).

The run `deadlock` has two trains on a loop of four places with a siding. Each is sent twice,
to places the other holds or has to cross, in a game (one of the two is its neutral
train) and without one. The trains meet head on, chase each other, stand on each
other's targets, yield to the siding, are sent elsewhere while they yield, and yield
again before they are back.

| property | says |
|---|---|
| `EveryTargetReached` | under the fairness below, each train gets to where the user sent it last |
| `TargetKept` | that target is always in the train's goal, its resume target or its queue, through any sequence of yields and new commands |
| `SkipsOnlyHopeless` | when the cache makes the server skip a deadlock, examining it would still find no solution |

Fairness: the user sends every train; a train under way gets on (the trains move); a
train that may resume after its yield does (its delay passes); ticks come as long as they would
change something; notice and cache run out. No fairness of the user beyond that.

What the run does not show, since it does not hold, or was not reached:

- The guarantee is one of this instance. On a line with a dead end, or with three trains of which one is wedged
  between two that want its place, the code can leave trains waiting for ever:
  no place that a single train reaches at once frees another. Nothing in the
  repository says that these are resolved.
- A resume starts after a fixed delay, without a look at whether the other has already passed:
  only that it is under way. On a dead end the two can repeat this.
- Of more than `DEADLOCK_MAX_TRAINS` waiting and standing trains only the first in the order of trains
  are looked at (`MaxParticipants`); two trains never exceed it.
- The fallback of `pos_pick_deadlock_yield_target` for a move that frees nobody takes the *last* candidate, the
  farthest (`pos_route_yield.c:188`), where the comment at `position_priv.h:119` speaks of the nearest.

In a game the neutral train may be sent away for good; its own target is
therefore left out of the first two properties.

### GameManager, MCGameManager - the game

`GameManager.tla` has the set-up (`StartSetup`, `EnterTrain`, `SetupTick`), the round
(`Pick`, `RoundTick`), the stops (`StopGame`, `StopForce`, `StoppingTick`), and of the position
server what the game sees: hits, stops, waits, yields and returns of the trains, and the
ring of game events (`Publish`, `ConsumeEvents`). The ring is not empty when a game starts: a plain goto or an
earlier game has left its hits and stops in it (`OldEvents`), the ticks of the set-up read nothing, and the
launch starts reading at 0 again (`game_reset_all`). A command or a tick of the game is one
step, because the runtime waits for it and serves nobody meanwhile; that this is so is checked by `OnePositionWriter` below.
Where the game draws a target at random or by a score, the model takes any target of the best class that
is not empty (`FirstTier`).

The run `game` has a loop of four places, one with both directions as targets, three
trains of which one must first find its position, one may stall on dead track, and one
may still be parked from an earlier yield; two rounds. The ring holds four events, three of which may be
old ones of a train that takes part, and the position server publishes at most two between two ticks: the real
ring holds 64, and is read once a second.
What the game should have counted is kept in history variables that no action reads: `earned`, the nodes
players' trains have hit while a round ran; `led`, those where the other player's train had not been;
`arrived`, the roles whose train has stopped on its target since the pick; and `early`, the rounds whose pick came
before a tick had read the ring empty.

| property | says |
|---|---|
| `HitsScored` | each sensor node a player's train hit while a round ran is claimed by the end of the round; without an early pick nothing else is |
| `FirstGetsMore` | of the two players, the one whose train was first at a sensor node has 3 half points for it, the other 2, each once in the match, however the hits are spread over ticks and rounds |
| `DoneIsThere` | in a round without an early pick, a role counts as done only if its train has stopped at the round's target since the pick, never for a stop of the set-up, an earlier round, game or goto |

Two things that the properties leave out on purpose, because the code does not do them:

- *Scoring by node.* The repository's `README.md:172-177` says that a physical sensor awards points at most twice
  in a match and that "scoring is tracked by physical sensor, not by directional node". `claim_mask` is
  indexed by the node (`game_manager_round.c:1014-1023`), of which a physical sensor has two. A train that runs over `a1`
  and, reversed, over `a2` scores both. `FirstGetsMore` speaks of nodes, as the code does; said of physical sensors
  (`Place(s)`) it is violated by the model: a player's train hits one of `a1`, `a2` in
  the first round and the other in the second.
- *Early picks.* The repository's `README.md:149-151` lets a round end when both scoring trains "have completed their round targets". Nothing
  empties the ring when a round begins, and `game_consume_events` takes every stop at the place of a target for
  an arrival. A pick in the second between the launch, or the end of a round, and the next tick therefore counts what the ring still holds:
  `t2` has been sent to `c` and on to `b` before the game; the game is launched, `AI` draws `c`, the human picks
  at once, and the next tick reads the old stop of `t2` at `c`: `AI` is done before its train has moved, and an old hit
  of it is scored. Without the two references to `early`, `DoneIsThere` and `HitsScored` are violated by exactly these traces. With a tick
  in between (`IdleTick`), which reads and forgets, no old event counts; that is what the properties say and the
  theorems prove.

`game_abort` ends in a violation: `game stop force` resets all trains of the game by
`pos_reset_dead_train`, which asserts that the train has met a sensor (`pos_state.c:250`);
while the set-up still looks for a train's position this fails and the kernel panics,
where `README.md:111` of the repository offers this command to abort immediately.
Another state without a return is reached there: when the launch is refused
after the third number (a train entered first has been driven off meanwhile), the set-up stays at step 3
and the next number is written past the end of `setup_trains` (`OVERRUN`).

### UIServer, TrainRuntime, MCTrainRuntime - the servers together

`UIServer.tla` is the drawing lock: owner, mode, depth and waiters. `TrainRuntime.tla`
composes it with the tasks of the train program: input, control, runtime, track
server, position server, demo and game server, the display's tick, couriers, tick tasks and the delay tasks of reverses.
A server's handler is the sequence `todo` of the calls and effects still to come, so
that calls of different tasks interleave wherever the code blocks. In full it has
the state of speeds, turnouts and reversing in the track server, the box
behind the bus, the runtime's events, its queue of reverses and the deadlock prompt. The position, demo and game
servers appear with the calls that their handlers may make:

- a handler that drives a train sets a speed or throws a turnout of a route (`PositionCalls`). `Throwing` reads the
  stored direction and, if it is another, makes the two calls of `pos_route.c:380-400`, the command and the
  store. Besides the position server the demo's tick does so (`demo_manager.c:377,426-427`, in `ManagerCalls`), and the runtime
  after the tokens of a prompt line (`train_runtime.c:330`, `RuntimeRetry`): both call the planner themselves;
- a hit may first turn the stored direction of a turnout over, without a frame (`pos_event.c:25-32`, `Corrections`);
- the replanning tick may write a line after it has let a train yield;
- a stop of the demo by force stops every train and empties the tables (`StopAll`), the end of a game stops and
  releases the train of each role that has one (`GameStops`).

Which of these a handler makes is left open. Ticks come at any time; a tick is sent and taken in one step (`Tick`).

| property | says |
|---|---|
| `NoCircularWait` | no set of tasks waits for each other through Send or the drawing lock; a Send has no timeout |
| `OnePositionWriter` | of the tasks that read and write the unlocked position state only one is running a handler at a time |
| `SwitchesAgree` | when all frames are done, the stored direction of a turnout is the one it has, unless a hit has turned the stored one over since the last acknowledgement of the turnout |
| `SpeedRestored` | with no reverse under way each train has the speed last asked for it, whatever came during the reverse |
| `OverridesOnlyInPrompt` | locks of switches lifted in the deadlock prompt are back when the prompt goes |

The run `runtime` has one train, one turnout, two typed commands of six kinds, the ticks of replanning and of the
demo, one sensor hit, spontaneous call or deadlock of the servers, and one courier at a time: 1.6 million states. These
are enough for a command, a tick, a hit and an acknowledgement to meet in each order, for a
second `rv`, a speed or a stop by force to come between the two halves of a reverse, and for
a command of the prompt while another deadlock ends. The behaviour is never stuck, and deadlock is
checked. Not told apart: direction frames, lights and the sensor log; a command that
is refused is one line of text. The bus loses nothing here (`CanServer` has the losses).
`q` is translated and not typed in the run, for nothing happens after it.

Seen while modelling, with no document to compare it with:

- The correction of a turnout by a hit can make a right direction wrong. The user's `sw` is on its way when a hit is
  predicted with the old stored direction; the acknowledgement stores the new one; the train takes the new branch, the
  next hit matches the alternate prediction, and `pos_event.c:25-32` turns the stored direction over, back to the
  old one. Stored and actual direction then differ with nothing on the bus, until the next acknowledgement. `TrainRuntime` leaves
  open which hits correct, so this one is among its behaviours: without `\ corrected`
  the run violates `SwitchesAgree`. `corrected` is history that no action reads. When a correction is right is
  `NoFalseAlarm`'s question (`RouteAuthority`), answered there for the turnouts of routes only.
- Crossing pairs (153/154, 155/156): setting one to C marks the other S, but the start-up and a late
  acknowledgement can leave both as C in the table (`track.c:206`). The branch is
  translated; the instance has a plain turnout, `SwitchesAgree` says nothing of pairs.
- `track_local_start_reverse` asserts a free train slot (`track.c:284`): `rv` of a valid train
  without one, when `MAX_ACTIVE_TRAINS` others have been driven, panics.
- `demo stop force` during a reverse resets the positions; the end of the delay still turns
  the position's direction (`train_runtime.c:678`) although the train was not reversed again.
- `goto` is refused while a reverse is pending; a demo or a game sends trains all the same.
- The prompt label saved by the deadlock prompt is put back when it goes, also if a
  game's set-up has changed it meanwhile.
- The display clears a dirty flag after it has drawn: a change made while it draws is shown with the next change.

## Proofs

Each safety invariant and action property of the kernel, the clock, terminal and CAN servers, the game and the
runtime is proved, of the authority six of eight. The theorems hold
for every value of the constants that satisfies the assumptions of the module (named below);
the runs show the same properties on one instance, where TLC also checks that the assumptions can be met.

`QueueLemmas.tla` has what the proofs share: facts on sequences without repetition (append, tail,
concatenation), and two tools for loops. `LeastNumber` and `Stepwise` are induction up to a
*given* number (from the least counterexample in a finite interval), and `Rounds` is a loop of
a given number of rounds as a recursive function on `0..N`; `RoundsDo` says that it exists and
what each round yields. With them a loop is reasoned about by an invariant of its rounds, which covers the
sift loops of the heap, the wake-up loop of the clock, the drained writers of the terminal, the
events a game reads, and the edges a walk follows.

### Kernel

`TaskManagerProofs.tla`, for any number of descriptors, levels and events:

| theorem | property |
|---|---|
| `TypeCorrect` | `TypeOK` |
| `QueuesAgree` | `TaskLists`: ready lists, send queues, event waiters and the free list hold exactly the tasks of their state |
| `RepliesCanCome` | `ReplyWaits` |
| `PriorityScheduling` | `MostUrgentRuns` |
| `NoPanic` | `NeverPanics` |
| `SendersReleasedAsPromised` | `SendersReleased`, an action property |
| `EqualsServedInOrder` | `RoundRobin`, an action property |

These rest on `SizesAssumption` and `EventsAssumption` of `TaskManager` (sizes are
naturals, timer events are no device events). The inductive invariant is
`IInv`: the types, the agreement of each kind of list with the task states, and
`IdleStaysRunnable`. No part is inductive alone: that an exiting task leaves no sender
behind needs the send queues, that the woken tasks enter the right ready list without
repetition needs the states, and that the idle task exists to be scheduled needs
that it never blocks. There is one lemma for each action, and lemmas for what is
common: `Dispatch` keeps the ready lists in agreement with the states
(`DispatchAgrees`), waking a sequence of tasks does (`WakeAgrees`). The two action properties
follow the state of a sender, and the ready list of one level, through every call: a list only grows
at its end and loses only its head.

### Clock, terminal and CAN servers

| module | theorem | property | argument |
|---|---|---|---|
| `ClockServerProofs` | `NoTickLost` | `TicksConserved` | The server's queue holds at most one message of the notifier, and one only while the notifier is blocked in its Send; so a message served is a tick moved from the notifier to `current_tick`, and an interrupt is delivered or pending. |
| | `NobodyOverslept` | `DelayQueue` | Both sift loops restore the heap order: while an entry moves, only the pair at its place may be out of order (lemmas from `SwapDoes` to `DrainedDoes`). The root is then a least key, so the wake-up loop leaves only later ones; each entry belongs to one waiting client. |
| | `NobodyWokenEarly` | `DelayHonoured` | What a call waits for is never less in the queue than what it asked for when it was made, and the server's count never runs ahead of the timer. |
| `TerminalServerProofs` | `ReplyNotForgotten` | `NotifierNotStranded` | The notifier's one request is queued, being served, or taken with its reply withheld, never two of these, and then the notifier is blocked; each end of a request that leaves output behind releases it. |
| | `InputStaysInOrder` | `InputInOrder` | What is typed is split, in order, between the FIFO, the one message under way, the buffer and the readers. |
| | `OutputStaysInOrder` | `OutputInOrder` | For each writer: what has reached the line, the FIFO, the buffer and the rest of its Puts follow one another without gap or repetition, also half way through a drain of the waiting writers; each writer asks once. |
| `CanServerProofs` | `OneCommandAtATime` | `OneOutstanding` | A command under way is in the transmit buffer, at the box, or its answer is in one receive buffer, only while `waiting_reply` holds, and it carries the pending key; a lost frame or an answer read by the wrong caller only empties the place. |
| | `NoFrameLost` | `FramesKept` | The numbers of the stored frames are split between the two receive buffers, the queue and what the reader was given (`Kept`), each in one of them, until the assertion of `can_server.c:87` stops the system. |

They rest on `ClockAssumption`, `TerminalAssumption` and `CanAssumption`, the sizes of queues and buffers as the modules
state them, for any clients and bounds. None of the properties is inductive alone:
each lacks where the message on its way is.

### Game

| theorem | property | argument |
|---|---|---|
| `FirstAlwaysGetsMore` | `FirstGetsMore` | the points that reading the rest of the ring would lead to are those of the hits made; a hit adds one event at the end, and reading it adds the claim and its share |
| `NoHitForgotten` | `HitsScored` | the hits of a round that no score has are in the ring; the tick that ends the round reads it first |
| `RoundEndsByArrival` | `DoneIsThere` | a ring that was empty at the pick holds stops of this round only, and a train that was dispatched stands still again only by stopping |

`GameManagerProofs.tla` proves them with one invariant of the set-up, the cast, the round, the
ring and the points (`Formed`, `Cast`, `Playing`, `StopsOfRound`, `HitsOfRound`, `HitsTallied`) for any trains, sensors,
routes, old events and number of rounds, from `GameAssumption`. The invariant for the points looks ahead: it says what
`ConsumeEvents` would make of the ring as it is (`Consumed`), and holds between two ticks because one more event at the end of
the ring adds its own share to that (`ConsumedMore`). `NoHitForgotten` needs that the position
server publishes no more events between two ticks of the game than the ring holds (`MAX_UNREAD`).

### Runtime

| theorem | property | argument |
|---|---|---|
| `RuntimeNoCircularWait` | `NoCircularWait` | A task calls only tasks of lower `Rank` (track server, position server, managers, runtime, control, the rest), and whoever holds the drawing lock calls nobody before it gives it back; a ring would have to rise again. |
| `RuntimeOnePositionWriter` | `OnePositionWriter` | A server at work has a client blocked in the call: a manager's is the runtime, the position server's the runtime or a manager. So while one of them works, the others are idle or wait for it. |
| `RuntimeOverridesOnlyInPrompt` | `OverridesOnlyInPrompt` | The call that locks the switches again precedes the end of the prompt in the runtime's handler, and only a line of the prompt asks to lift one. |
| `RuntimeSwitchesAgree` | `SwitchesAgree` | The last frame of the box for a turnout says what the turnout is; what a route is about to store has been sent or is what the turnout is; without frames what is stored is right or about to be (`Agree`). The position server, the demo and the runtime throw turnouts, but of the servers only one at a time calls the track server (`OneCaller`), so no other comes between the two calls of one for a turnout. A turnout corrected by a hit is left out until its next acknowledgement, which is right again. |
| `RuntimeSpeedRestored` | `SpeedRestored` | The frames still to come, or the train itself, have the speed asked for, and of a train that waits to be reversed the entry keeps it (`Speeding`). Each waiting train has a reverse on its way and each reverse on its way is counted once (`Reversing`), so with none counted nobody waits. A stop by force empties the table of trains only after it has asked speed 0 of every train (`Halts`). |

`TrainRuntimeProofs.tla` proves them, for any trains, turnouts, commands and bounds, from
`RuntimeAssumption`, which gives the types of the constants, says that a crossing partner's partner is the
turnout itself, and that the trains the start-up stops fit into the table (five trains, five slots). The invariant (`Flow`) says what each handler has still to do: which calls it may contain
and in which order (the handlers of the servers, the clients of each, the mail to the
runtime, the drawing), `Locks` what a
prompt leaves to do, and `Stored` what frames and stored directions have to do with each other.

`SpeedRestored` is the hardest of the five: a reverse lives in the handler of the runtime, in `rv_queue` with a request in
the mail, in a delay task, in the mail again and in a second handler, and a speed, another `rv` or a stop by
force may come at each of these places. `rv_pending_count` is therefore proved to be the sum of the
queue, the delays, the messages and the handler that ends a reverse, with bags counted by the lemmas
`NumberMore` and `NumberLess`. The train is followed apart from it by its entry and the last frame
on the bus (`Coming`). The code empties the table of trains while reverses may be on their way
(`Reset`); the proof shows why that is safe: a forced stop of the demo has by then asked speed 0 of every
train, and nobody else has set a speed since, for the runtime waits for the manager.

### Reservation and authority

`RouteAuthorityProofs.tla`, on every track, for any trains, goals and bounds:

| theorem | property |
|---|---|
| `PlacesHeldWhole` | `PairOwned` |
| `NobodyPanics` | `NoPanic` |
| `TrainsOwnTheirPlace` | `PositionOwned`, if no hit is a false alarm |
| `TrainsOwnTheirWindow` | `WindowOwned`, under the same condition |
| `WindowsStayLined` | `RouteLined`, under the same condition |
| `NothingIsStolen` | `NoSteal`, under the same condition |

Assumed are `TrackAssumption` (the twin of the twin of a node is the node, the twin of a sensor is a
sensor, the two legs of a branch lead to different nodes, and what else gives the track its types; all true of
`track_data_new.c`), `RouteAssumption` (trains start on sensors and are sent to sensors)
and `StartApart` (they start on disjoint track).

`PairOwned` is inductive because every set a function adds or removes is paired: `Pair` makes it so, zones are
paired, adding zones or removing other owners' nodes from a paired set keeps it so (`PairPaired`,
`ZonesPaired`, `ExpandPaired`, `FreePaired`); then `Drop` and `Take` keep the table paired,
and with them each handler. A run for one track could not show
this of zones that overlap in other ways.

`Slots` is an invariant of each train's slot alone: its path follows the track and meets no node twice,
its window lies before it and ends at its target, a train that waits knows where on its path it goes on,
a train that brakes does so for a sensor of its window, and one that plans has a goal. It gives `NoPanic`.

`AllInOrder` adds ownership: each train owns the sensor it is known by, and under way its window,
lined. What makes it inductive is what a step may do on behalf of a train `t`. `Fair`: it changes the owner of
a node only to or from `t`, and to `t` only if nobody has it. `Spares`: it throws only turnouts that
are `t`'s or nobody's. A step that is fair and spares the others leaves everybody else in
order (`OthersInOrder`), so it is enough that each handler is fair, spares and leaves its own train in order: one
lemma per action (`GotoDoes` to `RecoveryReplanDoes`), which are composed, as the handlers are, of lemmas
about the functions they call. The two need each other: three functions take the node
under a train without looking, which is fair because the train is known to own it already.

`NoFalseAlarm` is a hypothesis of four theorems because the argument really stops there. A hit that the server
takes for one off the route puts the train on a sensor it never reserved, and a correction of a turnout throws
it without asking its owner. That this does not happen without a fault depends on which sensors the other leg of
a branch reaches, so on the shape of the track; on the loop with the siding TLC checks it, on every behaviour.
The one off-route hit that is expected, of a train that turned round and meets its last sensor again, is not excluded.

### Only model-checked

- Liveness (`UrgentTasksRun`, `EveryDelayEnds`, `EveryPutsShown`, `InputRead`, `ReaderServed`,
  `EveryTargetReached`): fairness and ENABLED are beyond the prover.
- `NoFalseAlarm` and `NoThrowUnderTrain`: they relate walks along one leg of a branch with walks along the
  other, and do not hold for every graph of nodes; which tracks they hold for is not stated
  anywhere in the repository.
- The safety of `Deadlock` (`TargetKept`, `SkipsOnlyHopeless`): its request is one fold over all waiters, with
  a search in each; the second compares the cache with that search.
- What a path search or a distance sum computes: the proofs use only that a path follows the
  track, that it meets no node twice and that it leaves held turnouts alone.

## Not modelled

- Register-level set-up (GIC, timers, MMU, boot, SPI), panic output, string and memory
  helpers, formatting of the screen, parsing of command lines, the generated track and
  speed tables: no protocol, or data.
- Sensor attribution (`traffic_attribution.c` and its helpers): it weighs times and
  distances against measured speeds; an abstraction that leaves these open would only say that any train may
  get a hit. The models assume that the train that made a hit gets it.
- The route search's own algorithm; `RouteAuthority` and `Deadlock` take what it returns, a shortest route
  around what is blocked.
- Mid-route reversals, forced and short launches, manual driving, the demo's random
  dispatch.
- The name server and the start-up: each is a straight line of code.
- The 32-bit wrap of ticks and of the event sequence.

## Plan

1. **Kernel**, **clock, terminal, CAN servers**: done, their safety is proved.
2. **Reservation and authority**: done for goto without mid-route reversal. To do: the
   second leg of a reversal.
3. **Deadlock handling**, **game**, **runtime and track server**, **UI server**: done.
4. **Proofs**: kernel, its servers, game, runtime: every safety property; authority: most. Next:
   `TargetKept` of the deadlock handling, by an invariant of the fold over the waiters; a condition on the
   track under which `NoFalseAlarm` can be proved.
5. **Route search** on small graphs against a reference shortest path, with `MinHeap` as its
   open list; **attribution**, if its choice can be stated without times.
