----------------------------- MODULE ClockServer -----------------------------
(***************************************************************************)
(* The clock server, its notifier and its clients                          *)
(* (src/user/server/clock_server.c), on the kernel's message passing.      *)
(*                                                                         *)
(* The server owns current_tick and the delay queue and shares no memory,  *)
(* so one turn of its loop is one step.  Priorities are the kernel's: the  *)
(* notifier runs before the server, the server before its clients; the     *)
(* timer interrupt comes at any time.                                      *)
(***************************************************************************)
EXTENDS Integers, Sequences, FiniteSets, Functions

CONSTANTS
  Clients,                  \* tasks that call Time, Delay and DelayUntil
  MAX_DELAY_TASKS,          \* capacity of the delay queue
  Ticks,                    \* the arguments the clients pass
  MAX_TICK                  \* bound: timer interrupts in a behaviour

ASSUME ClockAssumption ==
  /\ MAX_DELAY_TASKS \in Nat /\ MAX_TICK \in Nat
  /\ Ticks \subseteq Nat
  /\ 0 \notin Clients

INSTANCE MinHeap WITH Items <- Clients

Notifier == 0               \* the sender of CLOCK_MSG_NOTIFY in the server's queue

VARIABLES
  timer,         \* C1 interrupts since the server was created
  event_pending, \* those that found no waiter (EVENT_TIMER_C1)
  notifier,      \* "running", "awaiting" the event, "notified", "sent" to the server
  inbox,         \* the server's send queue: [from, type, ticks]
  current_tick,
  delay_queue,   \* the heap of [key, item]: wake tick and task
  client,        \* "running" or "waiting" in a call
  due,           \* the timer interrupt a waiting client has been promised to sleep until
  status         \* what its last call returned: a tick count ("ok") or -1

vars == <<timer, event_pending, notifier, inbox, current_tick, delay_queue, client,
          due, status>>

Requests == [type : {"TIME"}, ticks : {0}] \cup
            [type : {"DELAY", "DELAY_UNTIL"}, ticks : Ticks]

Init ==
  /\ timer = 0
  /\ event_pending = 0
  /\ notifier = "running"
  /\ inbox = <<>>
  /\ current_tick = 0
  /\ delay_queue = <<>>
  /\ client = [c \in Clients |-> "running"]
  /\ due = [c \in Clients |-> 0]
  /\ status = [c \in Clients |-> "ok"]

-----------------------------------------------------------------------------
(* The timer and the notifier *)

\* (mutant) an interrupt that finds no waiter is forgotten
TimerInterruptForgotten ==
  /\ timer < MAX_TICK
  /\ timer' = timer + 1
  /\ notifier' = IF notifier = "awaiting" THEN "notified" ELSE notifier
  /\ UNCHANGED <<event_pending, inbox, current_tick, delay_queue, client, due, status>>

\* handle_timer_interrupt(EVENT_TIMER_C1)
TimerInterrupt ==
  /\ timer < MAX_TICK
  /\ timer' = timer + 1
  /\ IF notifier = "awaiting"
     THEN notifier' = "notified" /\ UNCHANGED event_pending
     ELSE event_pending' = event_pending + 1 /\ UNCHANGED notifier
  /\ UNCHANGED <<inbox, current_tick, delay_queue, client, due, status>>

\* (mutant) an interrupt that found no waiter is not consumed by AwaitEvent
AwaitIgnoresPending ==
  /\ notifier = "running"
  /\ notifier' = "awaiting"
  /\ UNCHANGED <<timer, event_pending, inbox, current_tick, delay_queue, client, due, status>>

\* AwaitEvent(EVENT_TIMER_C1) in clock_notifier_task
NotifierAwait ==
  /\ notifier = "running"
  /\ IF event_pending > 0
     THEN notifier' = "notified" /\ event_pending' = event_pending - 1
     ELSE notifier' = "awaiting" /\ UNCHANGED event_pending
  /\ UNCHANGED <<timer, inbox, current_tick, delay_queue, client, due, status>>

\* Send(server_tid, CLOCK_MSG_NOTIFY) in clock_notifier_task
NotifierSend ==
  /\ notifier = "notified"
  /\ notifier' = "sent"
  /\ inbox' = Append(inbox, [from |-> Notifier, type |-> "NOTIFY", ticks |-> 0])
  /\ UNCHANGED <<timer, event_pending, current_tick, delay_queue, client, due, status>>

-----------------------------------------------------------------------------
(* The server *)

NotifierBlocked == notifier \in {"awaiting", "sent"}

Due(h, tick) == h # <<>> /\ Key(h, 1) <= tick

\* What is left of the queue after the loop that wakes the expired delays, at most one
\* in each of its rounds.
Drained(h, tick) ==
  LET wake[g \in Heaps] == IF Due(g, tick) THEN Pop(g) ELSE g
      round[k \in 0..Len(h)] == IF k = 0 THEN h ELSE wake[round[k - 1]]
  IN round[Len(h)]

Delayed(h) == {h[i].item : i \in 1..Len(h)}

\* Reply to the clients in C.
ReplyTo(C, st) ==
  /\ client' = [c \in Clients |-> IF c \in C THEN "running" ELSE client[c]]
  /\ due' = [c \in Clients |-> IF c \in C THEN 0 ELSE due[c]]
  /\ status' = [c \in Clients |-> IF c \in C THEN st ELSE status[c]]

Notify ==
  /\ current_tick' = current_tick + 1
  /\ notifier' = "running"
  /\ delay_queue' = Drained(delay_queue, current_tick + 1)
  /\ ReplyTo(Delayed(delay_queue) \ Delayed(delay_queue'), "ok")

Full(h) == Len(h) >= MAX_DELAY_TASKS

\* insert_delay_entry
InsertDelayEntry(c, wake_tick) ==
  IF Full(delay_queue)
  THEN ReplyTo({c}, "full") /\ UNCHANGED delay_queue
  ELSE delay_queue' = Insert(delay_queue, wake_tick, c) /\ UNCHANGED <<client, due, status>>

\* The tick a request asks to be woken at.
WakeTick(req) ==
  IF req.type = "DELAY" THEN current_tick + req.ticks ELSE req.ticks

\* The clients' requests in the loop of clock_server_task.
Serve(req) ==
  /\ \/ /\ req.type = "TIME" \/ WakeTick(req) <= current_tick
        /\ ReplyTo({req.from}, "ok")
        /\ UNCHANGED delay_queue
     \/ /\ req.type # "TIME" /\ WakeTick(req) > current_tick
        /\ InsertDelayEntry(req.from, WakeTick(req))
  /\ UNCHANGED <<current_tick, notifier>>

ServerStep ==
  /\ NotifierBlocked
  /\ inbox # <<>>
  /\ inbox' = Tail(inbox)
  /\ IF Head(inbox).from = Notifier THEN Notify ELSE Serve(Head(inbox))
  /\ UNCHANGED <<timer, event_pending>>

-----------------------------------------------------------------------------
(* The clients *)

\* (mutant) a client runs although the server has work to do
ServerBusyOrIdle == TRUE

\* A client only runs while the notifier and the server, which are more urgent,
\* are blocked.
ServerIdle == notifier = "awaiting" /\ inbox = <<>>

\* Time, Delay or DelayUntil with an argument that is not negative.
Request(c, req) ==
  /\ ServerIdle
  /\ client[c] = "running"
  /\ client' = [client EXCEPT ![c] = "waiting"]
  /\ due' = [due EXCEPT ![c] = IF req.type = "DELAY" THEN timer + req.ticks ELSE req.ticks]
  /\ status' = [status EXCEPT ![c] = "ok"]
  /\ inbox' = Append(inbox, [from |-> c, type |-> req.type, ticks |-> req.ticks])
  /\ UNCHANGED <<timer, event_pending, notifier, current_tick, delay_queue>>

\* After the bound on the timer nothing is left to happen but the clients' calls.
Next ==
  \/ TimerInterrupt
  \/ NotifierAwait
  \/ NotifierSend
  \/ ServerStep
  \/ \E c \in Clients, req \in Requests : Request(c, req)

Spec == Init /\ [][Next]_vars

\* The timer re-arms itself; the notifier and the server are more urgent than
\* every client, so each runs when it can.
FairSpec == Spec /\ WF_vars(TimerInterrupt) /\ WF_vars(NotifierAwait)
                 /\ WF_vars(NotifierSend) /\ WF_vars(ServerStep)

-----------------------------------------------------------------------------
(* Properties *)

\* A client that waits is in exactly one place, the server's send queue or the
\* delay queue, and once; the delay queue is a heap within its capacity (insert,
\* pop and the two sift loops of min_heap.c); and nobody sleeps past his wake tick:
\* after every turn of the server's loop it holds only later ticks.
Requesters == {i \in 1..Len(inbox) : inbox[i].from # Notifier}
DelayQueue ==
  /\ IsHeap(delay_queue) /\ Len(delay_queue) <= MAX_DELAY_TASKS
  /\ \A c \in Clients :
       Cardinality({i \in Requesters : inbox[i].from = c})
         + Cardinality({i \in 1..Len(delay_queue) : delay_queue[i].item = c})
       = IF client[c] = "waiting" THEN 1 ELSE 0
  /\ \A i \in 1..Len(delay_queue) : Key(delay_queue, i) > current_tick

\* No timer interrupt is lost or counted twice: each is counted by the server,
\* pending in the kernel, or in the hands of the notifier.
TicksConserved ==
  timer = current_tick + event_pending
          + (IF notifier \in {"notified", "sent"} THEN 1 ELSE 0)

\* clock_server.h: "Delays the calling task by the given number of ticks" and
\* "until the given tick".  A call that succeeds returns only when that many timer
\* interrupts have come since the call was made, although the server's count lags
\* behind the timer.
DelayHonoured ==
  [][\A c \in Clients :
       client[c] = "waiting" /\ client'[c] = "running" /\ status'[c] = "ok"
         => timer >= due[c]]_vars

\* Every call returns, once the timer has reached the tick it asks for.
EveryDelayEnds ==
  \A c \in Clients :
    (client[c] = "waiting" /\ due[c] <= MAX_TICK) ~> client[c] = "running"
=============================================================================
