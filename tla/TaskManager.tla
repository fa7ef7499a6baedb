----------------------------- MODULE TaskManager -----------------------------
(***************************************************************************)
(* The kernel: task descriptors, the priority ready lists, the Send /      *)
(* Receive / Reply message passing, event waiting and the interrupt        *)
(* dispatcher (src/kernel/task_manager.c, task_scheduler.c, task_list.c).  *)
(*                                                                         *)
(* The kernel runs with interrupts masked, so one syscall or one interrupt *)
(* is one atomic step; what interleaves is which syscall the running task  *)
(* makes next and which interrupt arrives first.  The task at              *)
(* IDLE_TASK_PRIORITY only executes wfi (src/kernel/idle_task.c) and makes *)
(* no syscall.  The contents of messages are not modelled; a task list is  *)
(* the sequence of the tids linked through TaskDescriptor_t.next.          *)
(***************************************************************************)
EXTENDS Integers, Sequences, FiniteSets, Functions

CONSTANTS
  MAX_TASKS_COUNT,          \* descriptors in the static array tasks[]
  PRIORITY_LEVELS,          \* ready lists; 0 is the most urgent
  FIRST_USER_TASK_PRIORITY, \* priority of the task kmain activates
  EVENT_COUNT,              \* events a task can await
  TimerEvents,              \* EVENT_TIMER_C1, EVENT_TIMER_C3
  UartEvents,               \* EVENT_UART_RX, EVENT_UART_TX
  CanEvents,                \* EVENT_CAN_RX
  UINT32_MAX                \* saturation point of the pending-event counters

Tids == 0..(MAX_TASKS_COUNT - 1)
Priorities == 0..(PRIORITY_LEVELS - 1)
EventIds == 0..(EVENT_COUNT - 1)
IDLE_TASK_PRIORITY == PRIORITY_LEVELS - 1

ASSUME SizesAssumption ==
  /\ MAX_TASKS_COUNT \in Nat \ {0}
  /\ PRIORITY_LEVELS \in Nat \ {0}
  /\ EVENT_COUNT \in Nat
  /\ UINT32_MAX \in Nat
  /\ FIRST_USER_TASK_PRIORITY \in Priorities

ASSUME EventsAssumption ==
  /\ TimerEvents \cup UartEvents \cup CanEvents \subseteq EventIds
  /\ (UartEvents \cup CanEvents) \cap TimerEvents = {}

\* The interrupt sources whose handler masks them at the device; the user task
\* that drains the device unmasks them again.
MaskableEvents == UartEvents \cup CanEvents

NoTask == -1                \* a NULL TaskDescriptor_t pointer, or tid -1

LiveStates == {"READY", "RUNNING", "SEND_BLOCKED", "RECEIVE_BLOCKED",
               "REPLY_BLOCKED", "EVENT_BLOCKED"}
States == LiveStates \cup {"FREE"}   \* EXITED never outlives kern_Exit

VARIABLES
  state,            \* TaskDescriptor_t.state
  priority,         \* TaskDescriptor_t.priority
  parent_tid,       \* TaskDescriptor_t.parent_tid
  reply_wait_tid,   \* whose reply a REPLY_BLOCKED task waits for, or -1
  send_queue,       \* send_queue_head/tail: SEND_BLOCKED senders, in order
  x0,               \* tf.x[0]: the error a syscall returns (-1, -2), 0 for all else
  ready,            \* GlobalTaskScheduler.task_lists
  free_list,        \* GlobalTaskManager.free_list, head first
  current_task_id,  \* descriptors handed out so far
  current,          \* TPIDR_EL1: the running task
  event_wait_queue, \* the task waiting for each event, or NoTask
  event_pending,    \* events that found no waiter
  masked,           \* interrupt sources disabled at the device
  machine           \* "up", "panicked" (no runnable task), or "stopped" by a user
                    \* task (a user KASSERT, Shutdown)

tasks == <<priority, parent_tid, free_list, current_task_id>>
ipc == <<reply_wait_tid, send_queue>>
events == <<event_wait_queue, event_pending, masked>>
sched == <<state, ready, current, machine>>
vars == <<tasks, ipc, x0, events, sched>>

TypeOK ==
  /\ state \in [Tids -> States]
  /\ priority \in [Tids -> Priorities]
  /\ parent_tid \in [Tids -> Tids \cup {NoTask}]
  /\ reply_wait_tid \in [Tids -> Tids \cup {NoTask}]
  /\ send_queue \in [Tids -> Seq(Tids)]
  /\ x0 \in [Tids -> {-2, -1, 0}]
  /\ ready \in [Priorities -> Seq(Tids)]
  /\ free_list \in Seq(Tids)
  /\ current_task_id \in 0..MAX_TASKS_COUNT
  /\ current \in Tids
  /\ event_wait_queue \in [EventIds -> Tids \cup {NoTask}]
  /\ event_pending \in [EventIds -> 0..UINT32_MAX]
  /\ masked \subseteq MaskableEvents
  /\ machine \in {"up", "panicked", "stopped"}

\* kmain: static storage is zeroed, task 0 is created (no current task, so its
\* parent is -1) and activated.
Init ==
  /\ state = [t \in Tids |-> IF t = 0 THEN "RUNNING" ELSE "FREE"]
  /\ priority = [t \in Tids |-> IF t = 0 THEN FIRST_USER_TASK_PRIORITY ELSE 0]
  /\ parent_tid = [t \in Tids |-> IF t = 0 THEN NoTask ELSE 0]
  /\ reply_wait_tid = [t \in Tids |-> IF t = 0 THEN NoTask ELSE 0]
  /\ send_queue = [t \in Tids |-> <<>>]
  /\ x0 = [t \in Tids |-> 0]
  /\ ready = [p \in Priorities |-> <<>>]
  /\ free_list = <<>>
  /\ current_task_id = 1
  /\ current = 0
  /\ event_wait_queue = [e \in EventIds |-> NoTask]
  /\ event_pending = [e \in EventIds |-> 0]
  /\ masked = {}
  /\ machine = "up"

-----------------------------------------------------------------------------
(* The scheduler *)

\* (mutant) a task enters at the head of its list
EnqueueAtHead(rdy, p, t) == [rdy EXCEPT ![p] = <<t>> \o @]

\* task_list_append to the list of priority p
Enqueue(rdy, p, t) == [rdy EXCEPT ![p] = Append(@, t)]

\* global_task_scheduler_add_task
AddTask(rdy, t) == Enqueue(rdy, priority[t], t)

\* (mutant) the least urgent list is served first
RunnableReversed(rdy, p) == rdy[p] # <<>> /\ \A q \in Priorities : q > p => rdy[q] = <<>>

\* The first non-empty list, as schedule() scans them.
Runnable(rdy, p) == rdy[p] # <<>> /\ \A q \in Priorities : q < p => rdy[q] = <<>>

\* schedule() then switch_to_task(), from the task states st and the ready lists
\* rdy the caller has prepared: the head of the first non-empty list runs, and
\* the kernel panics when there is none.
Dispatch(st, rdy) ==
  \/ /\ \A p \in Priorities : rdy[p] = <<>>
     /\ state' = st
     /\ ready' = rdy
     /\ machine' = "panicked"
     /\ UNCHANGED current
  \/ \E p \in Priorities :
       /\ Runnable(rdy, p)
       /\ current' = Head(rdy[p])
       /\ state' = [st EXCEPT ![Head(rdy[p])] = "RUNNING"]
       /\ ready' = [rdy EXCEPT ![p] = Tail(@)]
       /\ UNCHANGED machine

\* The tail of syscall_dispatch for a call that does not block: the result goes to
\* x0 and the caller to the tail of its ready list, after whatever it woke.
Return(r, xs, st, rdy) ==
  /\ x0' = [xs EXCEPT ![current] = r]
  /\ Dispatch([st EXCEPT ![current] = "READY"], AddTask(rdy, current))

\* Several tasks woken by one handler enter their ready lists in the order of rank.
Of(W, p) == {t \in W : priority[t] = p}
InOrder(W, rank) ==
  {s \in [1..Cardinality(W) -> W] :
     /\ Range(s) = W
     /\ \A i, j \in 1..Cardinality(W) : i < j => rank[s[i]] < rank[s[j]]}
WakeLists(W, rank) ==
  {wk \in [Priorities -> UNION {InOrder(Of(W, p), rank) : p \in Priorities}] :
     \A p \in Priorities : wk[p] \in InOrder(Of(W, p), rank)}
Wake(st, W) == [t \in Tids |-> IF t \in W THEN "READY" ELSE st[t]]
AddAll(rdy, wk) == [p \in Priorities |-> rdy[p] \o wk[p]]

\* (mutant) the idle task makes syscalls too
InAnyTask == machine = "up"

\* A user task is about to make a syscall.  svc_entry and irq_entry save the
\* caller's registers, so x0 of the current task is overwritten on every entry.
InUserTask == machine = "up" /\ priority[current] # IDLE_TASK_PRIORITY

-----------------------------------------------------------------------------
(* Task management *)

\* get_task_by_tid: does this tid name a live task?
Live(t) == t \in 0..(current_task_id - 1) /\ state[t] # "FREE"

\* alloc_task_descriptor: unused descriptors first, then the free list.
Alloc(t) ==
  \/ /\ current_task_id < MAX_TASKS_COUNT
     /\ t = current_task_id
     /\ current_task_id' = current_task_id + 1
     /\ UNCHANGED free_list
  \/ /\ current_task_id >= MAX_TASKS_COUNT
     /\ free_list # <<>>
     /\ t = Head(free_list)
     /\ free_list' = Tail(free_list)
     /\ UNCHANGED current_task_id

NoDescriptor == current_task_id >= MAX_TASKS_COUNT /\ free_list = <<>>

\* kern_Create with a valid priority; memset clears the new trapframe.
CreateTask(p, t) ==
  /\ Alloc(t)
  /\ priority' = [priority EXCEPT ![t] = p]
  /\ parent_tid' = [parent_tid EXCEPT ![t] = current]
  /\ reply_wait_tid' = [reply_wait_tid EXCEPT ![t] = NoTask]
  /\ send_queue' = [send_queue EXCEPT ![t] = <<>>]
  /\ x0' = [x0 EXCEPT ![t] = 0, ![current] = 0]
  /\ Dispatch([state EXCEPT ![t] = "READY", ![current] = "READY"],
              AddTask(Enqueue(ready, p, t), current))
  /\ UNCHANGED events

Create ==
  /\ InUserTask
  /\ \/ \E p \in Priorities, t \in Tids : CreateTask(p, t)
     \/ NoDescriptor /\ Return(-2, x0, state, ready) /\ UNCHANGED <<tasks, ipc, events>>

\* kern_MyParentTid: -1 for the first task, -2 for a parent that is gone.
ParentResult(t) ==
  IF parent_tid[t] = NoTask THEN -1
  ELSE IF state[parent_tid[t]] = "FREE" THEN -2 ELSE 0

\* Calls that change nothing but the caller's place in its list: MyTid, Yield
\* (which leaves x0 alone), MyParentTid, and a call refused with -1 (a bad
\* syscall number, a bad priority for Create, a bad event id for AwaitEvent).
Yield ==
  /\ InUserTask
  /\ Dispatch([state EXCEPT ![current] = "READY"], AddTask(ready, current))
  /\ x0' = [x0 EXCEPT ![current] = 0]
  /\ UNCHANGED <<tasks, ipc, events>>

Query ==
  /\ InUserTask
  /\ \E r \in {0, -1, ParentResult(current)} : Return(r, x0, state, ready)
  /\ UNCHANGED <<tasks, ipc, events>>

\* (mutants) kern_Exit forgets the queued senders, or those it has received from
NoSenders(t) == {}
NoReplyWaiters(t) == {}

\* kern_Exit: queued senders fail first, in order, then every task waiting for the
\* caller's reply in ascending tid; all get -2.  The descriptor joins the free list.
Senders(t) == Range(send_queue[t])
ReplyWaiters(t) ==
  {u \in Tids : u < current_task_id /\ state[u] = "REPLY_BLOCKED" /\ reply_wait_tid[u] = t}
ExitRank(t) ==
  [u \in Tids |-> IF u \in Senders(t)
                  THEN CHOOSE i \in 1..Len(send_queue[t]) : send_queue[t][i] = u
                  ELSE Len(send_queue[t]) + 1 + u]

Exit ==
  /\ InUserTask
  /\ \E wk \in WakeLists(Senders(current) \cup ReplyWaiters(current), ExitRank(current)) :
       LET W == Senders(current) \cup ReplyWaiters(current) IN
       /\ x0' = [t \in Tids |-> IF t \in W THEN -2 ELSE IF t = current THEN 0 ELSE x0[t]]
       /\ reply_wait_tid' = [t \in Tids |-> IF t \in W THEN NoTask ELSE reply_wait_tid[t]]
       /\ Dispatch([Wake(state, W) EXCEPT ![current] = "FREE"], AddAll(ready, wk))
  /\ send_queue' = [send_queue EXCEPT ![current] = <<>>]
  /\ free_list' = <<current>> \o free_list
  /\ UNCHANGED <<priority, parent_tid, current_task_id, events>>

-----------------------------------------------------------------------------
(* Message passing *)

\* kern_Send
Send(t) ==
  /\ InUserTask
  /\ \/ /\ ~Live(t)
        /\ Return(-1, x0, state, ready)
        /\ UNCHANGED ipc
     \/ /\ Live(t) /\ state[t] = "RECEIVE_BLOCKED"
        /\ x0' = [x0 EXCEPT ![t] = 0, ![current] = 0]
        /\ reply_wait_tid' = [reply_wait_tid EXCEPT ![current] = t]
        /\ Dispatch([state EXCEPT ![current] = "REPLY_BLOCKED", ![t] = "READY"],
                    AddTask(ready, t))
        /\ UNCHANGED send_queue
     \/ /\ Live(t) /\ state[t] # "RECEIVE_BLOCKED"
        /\ send_queue' = [send_queue EXCEPT ![t] = Append(@, current)]
        /\ Dispatch([state EXCEPT ![current] = "SEND_BLOCKED"], ready)
        /\ x0' = [x0 EXCEPT ![current] = 0]
        /\ UNCHANGED reply_wait_tid
  /\ UNCHANGED <<tasks, events>>

\* kern_Receive
Receive ==
  /\ InUserTask
  /\ \/ /\ send_queue[current] # <<>>
        /\ LET sender == Head(send_queue[current]) IN
             /\ send_queue' = [send_queue EXCEPT ![current] = Tail(@)]
             /\ reply_wait_tid' = [reply_wait_tid EXCEPT ![sender] = current]
             /\ Return(0, x0, [state EXCEPT ![sender] = "REPLY_BLOCKED"], ready)
     \/ /\ send_queue[current] = <<>>
        /\ Dispatch([state EXCEPT ![current] = "RECEIVE_BLOCKED"], ready)
        /\ x0' = [x0 EXCEPT ![current] = 0]
        /\ UNCHANGED ipc
  /\ UNCHANGED <<tasks, events>>

\* (mutant) a reply from any task
CanReplyForOthers(t) == state[t] = "REPLY_BLOCKED"

\* kern_Reply
CanReply(t) == state[t] = "REPLY_BLOCKED" /\ reply_wait_tid[t] = current

Reply(t) ==
  /\ InUserTask
  /\ \/ ~Live(t) /\ Return(-1, x0, state, ready) /\ UNCHANGED ipc
     \/ Live(t) /\ ~CanReply(t) /\ Return(-2, x0, state, ready) /\ UNCHANGED ipc
     \/ /\ Live(t) /\ CanReply(t)
        /\ reply_wait_tid' = [reply_wait_tid EXCEPT ![t] = NoTask]
        /\ Return(0, [x0 EXCEPT ![t] = 0], [state EXCEPT ![t] = "READY"], AddTask(ready, t))
        /\ UNCHANGED send_queue
  /\ UNCHANGED <<tasks, events>>

-----------------------------------------------------------------------------
(* Events and interrupts *)

\* kern_AwaitEvent of a valid event
AwaitEvent(e) ==
  /\ InUserTask
  /\ \/ /\ event_wait_queue[e] # NoTask
        /\ Return(-2, x0, state, ready)
        /\ UNCHANGED events
     \/ /\ event_wait_queue[e] = NoTask
        /\ event_pending[e] > 0
        /\ event_pending' = [event_pending EXCEPT ![e] = @ - 1]
        /\ Return(0, x0, state, ready)
        /\ UNCHANGED <<event_wait_queue, masked>>
     \/ /\ event_wait_queue[e] = NoTask
        /\ event_pending[e] = 0
        /\ event_wait_queue' = [event_wait_queue EXCEPT ![e] = current]
        /\ Dispatch([state EXCEPT ![current] = "EVENT_BLOCKED"], ready)
        /\ x0' = [x0 EXCEPT ![current] = 0]
        /\ UNCHANGED <<event_pending, masked>>
  /\ UNCHANGED <<tasks, ipc>>

\* irq_dispatch: the events E the interrupt signals wake their waiters, in event
\* order, or count as pending; the interrupted task goes back to its list last.
Waiters(E) == {event_wait_queue[e] : e \in E} \ {NoTask}
EventRank(E) ==
  [t \in Tids |-> IF t \in Waiters(E) THEN CHOOSE e \in E : event_wait_queue[e] = t
                  ELSE EVENT_COUNT]
\* (mutant) the pending counter is not saturated
MissedUnbounded(e) == event_pending[e] + 1
Missed(e) == IF event_pending[e] < UINT32_MAX THEN event_pending[e] + 1 ELSE event_pending[e]

IrqDispatch(E) ==
  /\ machine = "up"
  /\ event_wait_queue' = [e \in EventIds |-> IF e \in E THEN NoTask ELSE event_wait_queue[e]]
  /\ event_pending' = [e \in EventIds |-> IF e \in E /\ event_wait_queue[e] = NoTask
                                          THEN Missed(e) ELSE event_pending[e]]
  /\ x0' = [t \in Tids |-> IF t \in Waiters(E) \cup {current} THEN 0 ELSE x0[t]]
  /\ \E wk \in WakeLists(Waiters(E) \cup {current}, EventRank(E)) :
       Dispatch(Wake(state, Waiters(E) \cup {current}), AddAll(ready, wk))
  /\ UNCHANGED <<tasks, ipc>>

\* The handler clears and re-arms the timer, which therefore never stops.
TimerInterrupt(e) == IrqDispatch({e}) /\ UNCHANGED masked

\* UART and CAN handlers mask the sources they find active.  E = {} stands for a
\* UART error or status interrupt, a GPIO interrupt of another pin, and the
\* spurious interrupt 1023.
DeviceInterrupt(E) ==
  /\ E \cap masked = {}
  /\ IrqDispatch(E)
  /\ masked' = masked \cup E

\* uart_enable_rx_interrupt, uart_enable_tx_interrupt, gpio_enable_can_interrupt:
\* register writes the user tasks make without a syscall.
Unmask(e) ==
  /\ InUserTask
  /\ masked' = masked \ {e}
  /\ UNCHANGED <<tasks, ipc, x0, event_wait_queue, event_pending, sched>>

\* SYSCALL_KASSERT_FAIL and SYSCALL_SHUTDOWN stop the machine: panic loops with
\* interrupts masked, _reboot sets the watchdog and execution never resumes.
Stop ==
  /\ InUserTask
  /\ machine' = "stopped"
  /\ UNCHANGED <<tasks, ipc, x0, events, state, ready, current>>

Halted == machine # "up" /\ UNCHANGED vars

-----------------------------------------------------------------------------
Syscall ==
  \/ Create
  \/ Yield
  \/ Query
  \/ Exit
  \/ \E t \in Tids \cup {NoTask} : Send(t)
  \/ Receive
  \/ \E t \in Tids \cup {NoTask} : Reply(t)
  \/ \E e \in EventIds : AwaitEvent(e)
  \/ \E e \in MaskableEvents : Unmask(e)
  \/ Stop

Interrupt ==
  \/ \E e \in TimerEvents : TimerInterrupt(e)
  \/ \E E \in SUBSET UartEvents : DeviceInterrupt(E)
  \/ \E e \in CanEvents : DeviceInterrupt({e})

Next == Syscall \/ Interrupt \/ Halted

Spec == Init /\ [][Next]_vars

\* The timer handler re-arms its own comparator (timer_set_c1, timer_set_c3), so a
\* running machine always takes another timer interrupt.
FairSpec == Spec /\ WF_vars(\E e \in TimerEvents : TimerInterrupt(e))

-----------------------------------------------------------------------------
(* Properties *)

\* The ready lists hold exactly the READY tasks, each once and in the list of its
\* own priority (global_task_scheduler_add_task, schedule): no task is forgotten,
\* none runs twice.
ReadyLists ==
  \A p \in Priorities :
    /\ IsInjective(ready[p])
    /\ \A t \in Tids : t \in Range(ready[p]) <=> state[t] = "READY" /\ priority[t] = p

\* The send queues hold exactly the SEND_BLOCKED tasks, each in one queue and once,
\* and the task they wait for is alive and not itself waiting to receive
\* (enqueue_sender, dequeue_sender, fail_all_senders): no sender is left behind by
\* a receiver that exits or that goes to sleep.
SendQueues ==
  /\ \A r \in Tids : IsInjective(send_queue[r])
  /\ \A r1, r2, t \in Tids :
       t \in Range(send_queue[r1]) /\ t \in Range(send_queue[r2]) => r1 = r2
  /\ \A t \in Tids : state[t] = "SEND_BLOCKED" <=> \E r \in Tids : t \in Range(send_queue[r])
  /\ \A r \in Tids : send_queue[r] # <<>> => state[r] \notin {"FREE", "RECEIVE_BLOCKED"}

\* A REPLY_BLOCKED task waits for a task that is alive (kern_Exit releases the
\* others), so its reply can still come, and no other live task has a reply_wait_tid
\* that a later task reusing the tid could match.
ReplyWaits ==
  \A t \in Tids : state[t] # "FREE" =>
    /\ state[t] = "REPLY_BLOCKED" <=> reply_wait_tid[t] # NoTask
    /\ state[t] = "REPLY_BLOCKED" => state[reply_wait_tid[t]] # "FREE"

\* The event slots hold exactly the EVENT_BLOCKED tasks, one event each, and no
\* task waits for an event that is already pending (kern_AwaitEvent,
\* handle_timer_interrupt, handle_event_interrupt).
EventWaiters ==
  /\ \A t \in Tids : state[t] = "EVENT_BLOCKED" <=> \E e \in EventIds : event_wait_queue[e] = t
  /\ \A e1, e2 \in EventIds :
       event_wait_queue[e1] = event_wait_queue[e2] /\ e1 # e2 => event_wait_queue[e1] = NoTask
  /\ \A e \in EventIds : event_wait_queue[e] # NoTask => event_pending[e] = 0

\* The free list holds exactly the descriptors that were handed out and given back,
\* each once (alloc_task_descriptor, free_task_descriptor).
FreeList ==
  /\ IsInjective(free_list)
  /\ \A t \in Tids : t \in Range(free_list) <=> state[t] = "FREE" /\ t < current_task_id
  /\ \A t \in Tids : t >= current_task_id => state[t] = "FREE"

\* A task is in exactly the list its state says, and once: the one next pointer of
\* TaskDescriptor_t is never claimed by two lists.
TaskLists == ReadyLists /\ SendQueues /\ EventWaiters /\ FreeList

\* While the machine is up one task runs, the current one, and no task that is
\* ready is more urgent than it (schedule is called after every change).
MostUrgentRuns ==
  machine = "up" =>
    \A t \in Tids : /\ state[t] = "RUNNING" <=> t = current
                    /\ state[t] = "READY" => priority[current] <= priority[t]

\* Once a task of IDLE_TASK_PRIORITY exists, the kernel always finds a task to run:
\* none of the panics "No runnable tasks" is reachable.
NeverPanics ==
  (\E t \in Tids : state[t] # "FREE" /\ priority[t] = IDLE_TASK_PRIORITY)
    => machine # "panicked"

\* The inductive part of NeverPanics: a task of IDLE_TASK_PRIORITY never blocks
\* (idle_task makes no syscall), and a panicked kernel has nothing left to run.
IdleStaysRunnable ==
  /\ \A t \in Tids : priority[t] = IDLE_TASK_PRIORITY /\ state[t] # "FREE"
                       => state[t] \in {"READY", "RUNNING"}
  /\ machine = "panicked" => \A t \in Tids : state[t] \notin {"READY", "RUNNING"}

IInv == TypeOK /\ TaskLists /\ ReplyWaits /\ MostUrgentRuns /\ IdleStaysRunnable

\* A step releases a sender only as Send promises: a queued sender is received by
\* the running task, at the head of its queue; a received one gets its reply from
\* the task that received it; both get -2 when, and only when, that task exits.
ReleasedByPeer(t) ==
  LET peer == CHOOSE r \in Tids : \/ state[t] = "REPLY_BLOCKED" /\ reply_wait_tid[t] = r
                                  \/ t \in Range(send_queue[r]) IN
  /\ peer = current
  /\ \/ /\ state[t] = "SEND_BLOCKED" /\ state'[t] = "REPLY_BLOCKED"
        /\ t = Head(send_queue[peer])
     \/ /\ state[t] = "REPLY_BLOCKED" /\ state'[t] \in {"READY", "RUNNING"}
        /\ x0'[t] = 0 /\ state'[peer] # "FREE"
     \/ state'[t] \in {"READY", "RUNNING"} /\ x0'[t] = -2 /\ state'[peer] = "FREE"
SendersReleased ==
  [][\A t \in Tids :
       state[t] \in {"SEND_BLOCKED", "REPLY_BLOCKED"} /\ state'[t] # state[t]
         => ReleasedByPeer(t)]_vars

\* Round robin: tasks of one priority are served in the order they became ready.  A
\* step, interrupts and exits that wake several tasks included, puts tasks only
\* behind those already in a ready list, and takes away only its head, to run it.
StartsWith(s, pre) == Len(pre) <= Len(s) /\ SubSeq(s, 1, Len(pre)) = pre
RoundRobin ==
  [][\A p \in Priorities :
       \/ StartsWith(ready'[p], ready[p])
       \/ /\ ready[p] # <<>>
          /\ current' = Head(ready[p])
          /\ StartsWith(ready'[p], Tail(ready[p]))]_vars

\* A ready task of the most urgent priority gets the processor, whatever the other
\* tasks do, as long as the machine stays up: the timer preempts a task that never
\* makes a syscall and the ready list is a queue.
UrgentTasksRun ==
  \A t \in Tids : (state[t] = "READY" /\ priority[t] = 0)
                    ~> (state[t] = "RUNNING" \/ machine # "up")
=============================================================================
