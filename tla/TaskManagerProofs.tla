-------------------------- MODULE TaskManagerProofs --------------------------
(***************************************************************************)
(* The safety of the kernel for every number of tasks, priorities and      *)
(* events: type correctness, the agreement of every queue with the task    *)
(* states, the absence of the "No runnable tasks" panic, who releases a    *)
(* sender, and the order in which tasks of one priority are served.        *)
(***************************************************************************)
EXTENDS TaskManager, QueueLemmas, FiniteSetTheorems

-----------------------------------------------------------------------------
(* The ready lists rdy agree with the task states st and priorities pr. *)

Agree(rdy, st, pr) ==
  /\ rdy \in [Priorities -> Seq(Tids)]
  /\ \A p \in Priorities :
       /\ IsInjective(rdy[p])
       /\ \A t \in Tids : t \in Range(rdy[p]) <=> st[t] = "READY" /\ pr[t] = p

\* The dispatch of one of the READY tasks of st leaves the states st2.
Dispatched(st, st2) ==
  /\ st2 \in [Tids -> States]
  /\ \A t \in Tids : st[t] # "READY" => st2[t] = st[t]
  /\ \A t \in Tids : st[t] = "READY" => st2[t] \in {"READY", "RUNNING"}

\* A task that was not READY enters its ready list.
LEMMA EnqueueAgrees ==
  ASSUME NEW rdy, NEW st \in [Tids -> States], NEW pr \in [Tids -> Priorities],
         Agree(rdy, st, pr), NEW t \in Tids, st[t] # "READY"
  PROVE  Agree(Enqueue(rdy, pr[t], t), [st EXCEPT ![t] = "READY"], pr)
<1> DEFINE r2 == Enqueue(rdy, pr[t], t)
           st2 == [st EXCEPT ![t] = "READY"]
<1>1. pr[t] \in Priorities /\ rdy \in [Priorities -> Seq(Tids)]
  BY DEF Agree
<1>2. r2 \in [Priorities -> Seq(Tids)]
  BY <1>1, AppendRange DEF Enqueue
<1>3. ASSUME NEW p \in Priorities
      PROVE  /\ IsInjective(r2[p])
             /\ \A u \in Tids : u \in Range(r2[p]) <=> st2[u] = "READY" /\ pr[u] = p
  <2>1. CASE p = pr[t]
    <3>1. r2[p] = Append(rdy[p], t) BY <2>1, <1>1 DEF Enqueue
    <3>2. t \notin Range(rdy[p]) BY DEF Agree
    <3>3. IsInjective(r2[p]) /\ Range(r2[p]) = Range(rdy[p]) \cup {t}
      BY <3>1, <3>2, <1>1, AppendRange DEF Agree
    <3> QED BY <3>3, <2>1 DEF Agree
  <2>2. CASE p # pr[t]
    <3>1. r2[p] = rdy[p] BY <2>2, <1>1 DEF Enqueue
    <3> QED BY <3>1, <2>2 DEF Agree
  <2> QED BY <2>1, <2>2
<1> QED BY <1>2, <1>3 DEF Agree

\* States that are not READY, before and after, do not matter to the ready lists.
LEMMA OtherStatesAgree ==
  ASSUME NEW rdy, NEW st, NEW pr, Agree(rdy, st, pr), NEW st2,
         \A t \in Tids : st2[t] = "READY" <=> st[t] = "READY"
  PROVE  Agree(rdy, st2, pr)
BY DEF Agree

\* Dispatch removes the head of the most urgent list and runs it; it panics only
\* when no task is READY.
LEMMA DispatchAgrees ==
  ASSUME SizesAssumption, NEW st \in [Tids -> States], NEW rdy,
         NEW pr \in [Tids -> Priorities], Agree(rdy, st, pr),
         \A t \in Tids : st[t] # "RUNNING",
         current \in Tids, machine = "up", Dispatch(st, rdy)
  PROVE  /\ Agree(ready', state', pr)
         /\ Dispatched(st, state')
         /\ current' \in Tids
         /\ machine' \in {"up", "panicked"}
         /\ machine' = "up" =>
              \A t \in Tids : /\ state'[t] = "RUNNING" <=> t = current'
                              /\ state'[t] = "READY" => pr[current'] <= pr[t]
         /\ machine' = "panicked" => \A t \in Tids : st[t] # "READY"
<1>1. CASE /\ \A p \in Priorities : rdy[p] = <<>>
           /\ state' = st /\ ready' = rdy /\ machine' = "panicked" /\ current' = current
  <2>1. \A p \in Priorities : Range(rdy[p]) = {}
    BY <1>1 DEF Range
  <2>2. \A t \in Tids : st[t] # "READY"
    BY <2>1 DEF Agree
  <2> QED BY <1>1, <2>2 DEF Dispatched
<1>2. ASSUME NEW p \in Priorities,
             Runnable(rdy, p), current' = Head(rdy[p]),
             state' = [st EXCEPT ![Head(rdy[p])] = "RUNNING"],
             ready' = [rdy EXCEPT ![p] = Tail(@)], machine' = machine
      PROVE  /\ Agree(ready', state', pr)
             /\ Dispatched(st, state')
             /\ current' \in Tids
             /\ machine' = "up"
             /\ \A t \in Tids : /\ state'[t] = "RUNNING" <=> t = current'
                                /\ state'[t] = "READY" => pr[current'] <= pr[t]
  <2> DEFINE h == Head(rdy[p])
  <2>1. /\ rdy[p] # <<>> /\ rdy[p] \in Seq(Tids) /\ IsInjective(rdy[p])
        /\ \A q \in Priorities : q < p => rdy[q] = <<>>
    BY <1>2 DEF Runnable, Agree
  <2>2. /\ h \in Tids /\ h \in Range(rdy[p]) /\ Tail(rdy[p]) \in Seq(Tids)
        /\ IsInjective(Tail(rdy[p])) /\ h \notin Range(Tail(rdy[p]))
        /\ Range(rdy[p]) = Range(Tail(rdy[p])) \cup {h}
    BY <2>1, TailRange
  <2> HIDE DEF h
  <2>3. st[h] = "READY" /\ pr[h] = p
    BY <2>2 DEF Agree
  <2>4. ready' \in [Priorities -> Seq(Tids)] /\ ready'[p] = Tail(rdy[p])
        /\ \A q \in Priorities \ {p} : ready'[q] = rdy[q]
    BY <1>2, <2>2 DEF Agree
  <2>5. state' \in [Tids -> States] /\ state'[h] = "RUNNING"
        /\ \A t \in Tids \ {h} : state'[t] = st[t]
    BY <1>2, <2>2 DEF h, States, LiveStates
  <2>6. Agree(ready', state', pr)
    <3> SUFFICES ASSUME NEW q \in Priorities
                 PROVE  /\ IsInjective(ready'[q])
                        /\ \A t \in Tids : t \in Range(ready'[q])
                                             <=> state'[t] = "READY" /\ pr[t] = q
      BY <2>4 DEF Agree
    <3>1. CASE q = p
      <4>1. IsInjective(ready'[q])
        BY <3>1, <2>2, <2>4
      <4>2. ASSUME NEW t \in Tids
            PROVE  t \in Range(ready'[q]) <=> t \in Range(rdy[q]) /\ t # h
        BY <3>1, <2>2, <2>4
      <4>3. \A t \in Tids : t \in Range(rdy[q]) <=> st[t] = "READY" /\ pr[t] = q
        BY DEF Agree
      <4> QED BY <4>1, <4>2, <4>3, <2>5
    <3>2. CASE q # p
      BY <3>2, <2>3, <2>4, <2>5 DEF Agree
    <3> QED BY <3>1, <3>2
  <2>7. Dispatched(st, state')
    BY <2>3, <2>5 DEF Dispatched
  <2>8. ASSUME NEW t \in Tids, state'[t] = "READY" PROVE p <= pr[t]
    <3>1. st[t] = "READY" /\ t \in Range(rdy[pr[t]]) BY <2>8, <2>5 DEF Agree
    <3>2. rdy[pr[t]] # <<>> BY <3>1 DEF Range
    <3> QED BY <3>2, <2>1, SizesAssumption DEF Priorities
  <2>9. current' = h BY <1>2 DEF h
  <2> QED BY <1>2, <2>2, <2>3, <2>5, <2>6, <2>7, <2>8, <2>9
<1> QED BY <1>1, <1>2 DEF Dispatch

\* The tasks W a handler wakes enter their ready lists together.
LEMMA WakeAgrees ==
  ASSUME SizesAssumption, NEW rdy, NEW st \in [Tids -> States],
         priority \in [Tids -> Priorities], Agree(rdy, st, priority),
         NEW W \in SUBSET Tids, \A t \in W : st[t] # "READY",
         NEW rank \in [Tids -> Int], NEW wk \in WakeLists(W, rank)
  PROVE  Agree(AddAll(rdy, wk), Wake(st, W), priority)
<1>1. ASSUME NEW p \in Priorities
      PROVE  wk[p] \in Seq(Tids) /\ Range(wk[p]) = Of(W, p) /\ IsInjective(wk[p])
  <2>1. wk[p] \in InOrder(Of(W, p), rank)
    BY DEF WakeLists
  <2>2. IsFiniteSet(Of(W, p)) /\ Of(W, p) \subseteq Tids
    <3>1. IsFiniteSet(Tids) BY FS_Interval, SizesAssumption DEF Tids
    <3> QED BY <3>1, FS_Subset DEF Of
  <2> DEFINE n == Cardinality(Of(W, p))
             s == wk[p]
  <2>3. n \in Nat BY <2>2, FS_CardinalityType
  <2>4. /\ s \in [1..n -> Of(W, p)] /\ Range(s) = Of(W, p)
        /\ \A i, j \in 1..n : i < j => rank[s[i]] < rank[s[j]]
    BY <2>1 DEF InOrder
  <2> HIDE DEF n, s
  <2>5. s \in Seq(Tids)
    <3>1. s \in [1..n -> Tids] BY <2>2, <2>4
    <3> QED BY <3>1, <2>3, SeqDef
  <2>6. IsInjective(s)
    <3> SUFFICES ASSUME NEW i \in 1..n, NEW j \in 1..n, s[i] = s[j], i # j
                 PROVE  FALSE
      BY <2>4 DEF IsInjective
    <3>1. rank[s[i]] \in Int BY <2>2, <2>4
    <3>2. i < j \/ j < i BY <2>3
    <3> QED BY <3>1, <3>2, <2>4
  <2> QED BY <2>4, <2>5, <2>6 DEF s
<1>2. ASSUME NEW p \in Priorities
      PROVE  /\ AddAll(rdy, wk)[p] \in Seq(Tids)
             /\ IsInjective(AddAll(rdy, wk)[p])
             /\ Range(AddAll(rdy, wk)[p]) = Range(rdy[p]) \cup Of(W, p)
  <2>1. rdy[p] \in Seq(Tids) /\ IsInjective(rdy[p]) BY DEF Agree
  <2>2. Range(rdy[p]) \cap Of(W, p) = {} BY DEF Agree, Of
  <2>3. AddAll(rdy, wk)[p] = rdy[p] \o wk[p] BY DEF AddAll
  <2> QED BY <2>1, <2>2, <2>3, <1>1, ConcatRange
<1>3. AddAll(rdy, wk) \in [Priorities -> Seq(Tids)]
  BY <1>2 DEF AddAll
<1>4. ASSUME NEW p \in Priorities, NEW t \in Tids
      PROVE  t \in Range(AddAll(rdy, wk)[p])
               <=> Wake(st, W)[t] = "READY" /\ priority[t] = p
  BY <1>2 DEF Agree, Wake, Of
<1> QED BY <1>2, <1>3, <1>4 DEF Agree

-----------------------------------------------------------------------------
(* The inductive invariant *)

LEMMA InitInvariant == Init => IInv
<1> SUFFICES ASSUME Init PROVE IInv
  OBVIOUS
<1>1. 0 \in Tids /\ current_task_id \in 0..MAX_TASKS_COUNT
  BY SizesAssumption DEF Tids, Init
<1>2. <<>> \in Seq(Tids) /\ Range(<<>>) = {} /\ IsInjective(<<>>)
  BY DEF Range, IsInjective
<1>3. TypeOK
  BY <1>1, <1>2, SizesAssumption DEF Init, TypeOK, States, LiveStates, NoTask, Priorities
<1>4. ReadyLists
  BY <1>2 DEF Init, ReadyLists
<1>5. SendQueues
  BY <1>2 DEF Init, SendQueues
<1>6. ReplyWaits
  BY DEF Init, ReplyWaits
<1>7. EventWaiters
  BY DEF Init, EventWaiters, NoTask, Tids
<1>8. FreeList
  BY <1>2 DEF Init, FreeList, Tids
<1>9. MostUrgentRuns
  BY <1>1 DEF Init, MostUrgentRuns
<1>10. IdleStaysRunnable
  BY DEF Init, IdleStaysRunnable
<1> QED BY <1>3, <1>4, <1>5, <1>6, <1>7, <1>8, <1>9, <1>10 DEF IInv, TaskLists

\* The scheduler's share of the invariant, for every action that ends in Dispatch.
LEMMA SchedulingInvariants ==
  ASSUME SizesAssumption, IInv, machine = "up", priority' \in [Tids -> Priorities],
         NEW st \in [Tids -> States], NEW rdy,
         Agree(rdy, st, priority'), Dispatch(st, rdy),
         \A t \in Tids : st[t] # "RUNNING",
         \A t \in Tids : priority'[t] = IDLE_TASK_PRIORITY /\ st[t] # "FREE"
                           => st[t] = "READY"
  PROVE  /\ ReadyLists' /\ MostUrgentRuns' /\ IdleStaysRunnable'
         /\ Dispatched(st, state')
         /\ ready' \in [Priorities -> Seq(Tids)]
         /\ current' \in Tids
         /\ machine' \in {"up", "panicked"}
<1>1. /\ Agree(ready', state', priority')
      /\ Dispatched(st, state')
      /\ current' \in Tids
      /\ machine' \in {"up", "panicked"}
      /\ machine' = "up" =>
           \A t \in Tids : /\ state'[t] = "RUNNING" <=> t = current'
                           /\ state'[t] = "READY" => priority'[current'] <= priority'[t]
      /\ machine' = "panicked" => \A t \in Tids : st[t] # "READY"
  BY DispatchAgrees DEF IInv, TaskLists, TypeOK
<1>2. ReadyLists' /\ ready' \in [Priorities -> Seq(Tids)]
  BY <1>1 DEF Agree, ReadyLists
<1>3. MostUrgentRuns'
  BY <1>1 DEF MostUrgentRuns
<1>4. IdleStaysRunnable'
  BY <1>1 DEF Dispatched, IdleStaysRunnable
<1> QED BY <1>1, <1>2, <1>3, <1>4

\* What an action that leaves the queues alone needs of the task states: it may
\* only turn RUNNING or READY tasks into one another.
LEMMA QueuesUndisturbed ==
  ASSUME IInv, UNCHANGED <<ipc, events, free_list, current_task_id>>,
         state' \in [Tids -> States],
         \A t \in Tids : \/ state'[t] = state[t]
                         \/ {state[t], state'[t]} \subseteq {"READY", "RUNNING"}
  PROVE  SendQueues' /\ ReplyWaits' /\ EventWaiters' /\ FreeList'
<1>1. \A t \in Tids, s \in {"FREE", "SEND_BLOCKED", "RECEIVE_BLOCKED", "REPLY_BLOCKED",
                            "EVENT_BLOCKED"} : state'[t] = s <=> state[t] = s
  OBVIOUS
<1>2. SendQueues' BY <1>1 DEF IInv, TaskLists, SendQueues, ipc
<1>3. ReplyWaits'
  BY <1>1 DEF IInv, TaskLists, ReplyWaits, ipc, TypeOK
<1>4. EventWaiters' BY <1>1 DEF IInv, TaskLists, EventWaiters, events
<1>5. FreeList' BY <1>1 DEF IInv, TaskLists, FreeList
<1> QED BY <1>2, <1>3, <1>4, <1>5

-----------------------------------------------------------------------------
(* One lemma per action *)

\* The state in which a user task makes a syscall.
LEMMA UserTask ==
  ASSUME IInv, InUserTask
  PROVE  /\ machine = "up" /\ current \in Tids
         /\ state[current] = "RUNNING"
         /\ priority[current] # IDLE_TASK_PRIORITY
         /\ Live(current)
         /\ \A t \in Tids : t # current => state[t] # "RUNNING"
         /\ Agree(ready, state, priority)
         /\ send_queue[current] \in Seq(Tids)
         /\ \A t \in Tids : priority[t] = IDLE_TASK_PRIORITY
                              => state[t] \in {"FREE", "READY"}
<1>1. machine = "up" /\ current \in Tids /\ priority[current] # IDLE_TASK_PRIORITY
  BY DEF IInv, TaskLists, TypeOK, InUserTask
<1>2. state[current] = "RUNNING" /\ \A t \in Tids : t # current => state[t] # "RUNNING"
  BY <1>1 DEF IInv, TaskLists, MostUrgentRuns
<1>3. Live(current)
  BY <1>1, <1>2, SizesAssumption DEF IInv, TaskLists, TypeOK, FreeList, Live, Tids
<1>4. Agree(ready, state, priority)
  BY DEF IInv, TaskLists, TypeOK, ReadyLists, Agree
<1>5. \A t \in Tids : priority[t] = IDLE_TASK_PRIORITY => state[t] \in {"FREE", "READY"}
  BY <1>1, <1>2 DEF IInv, TaskLists, TypeOK, IdleStaysRunnable
<1> QED BY <1>1, <1>2, <1>3, <1>4, <1>5 DEF IInv, TaskLists, TypeOK

\* The caller of a syscall that does not block, back in its ready list.
LEMMA RequeueAgrees ==
  ASSUME IInv, InUserTask, NEW st \in [Tids -> States], NEW rdy, Agree(rdy, st, priority),
         st[current] # "READY"
  PROVE  /\ Agree(AddTask(rdy, current), [st EXCEPT ![current] = "READY"], priority)
         /\ [st EXCEPT ![current] = "READY"] \in [Tids -> States]
<1>1. current \in Tids /\ priority \in [Tids -> Priorities]
  BY DEF IInv, TaskLists, TypeOK
<1> QED BY <1>1, EnqueueAgrees DEF AddTask, States, LiveStates

\* Calls that only move the caller to the tail of its list.
LEMMA RequeueOnly ==
  ASSUME SizesAssumption, IInv, InUserTask,
         Dispatch([state EXCEPT ![current] = "READY"], AddTask(ready, current)),
         x0' \in [Tids -> {-2, -1, 0}], UNCHANGED <<tasks, ipc, events>>
  PROVE  IInv'
<1> DEFINE st == [state EXCEPT ![current] = "READY"]
<1>1. /\ machine = "up" /\ current \in Tids /\ state[current] = "RUNNING"
      /\ Agree(AddTask(ready, current), st, priority) /\ st \in [Tids -> States]
      /\ \A t \in Tids : st[t] # "RUNNING"
      /\ \A t \in Tids : priority[t] = IDLE_TASK_PRIORITY /\ st[t] # "FREE" => st[t] = "READY"
  <2>1. state \in [Tids -> States] BY DEF IInv, TaskLists, TypeOK
  <2> QED BY <2>1, UserTask, RequeueAgrees
<1>2. priority' = priority /\ priority' \in [Tids -> Priorities]
  BY DEF tasks, IInv, TaskLists, TypeOK
<1>3. /\ ReadyLists' /\ MostUrgentRuns' /\ IdleStaysRunnable'
      /\ Dispatched(st, state') /\ ready' \in [Priorities -> Seq(Tids)]
      /\ current' \in Tids /\ machine' \in {"up", "panicked"}
  BY <1>1, <1>2, SchedulingInvariants
<1>4. \A t \in Tids : \/ state'[t] = state[t]
                      \/ {state[t], state'[t]} \subseteq {"READY", "RUNNING"}
  <2>1. state \in [Tids -> States] BY DEF IInv, TaskLists, TypeOK
  <2>2. \A t \in Tids : st[t] = state[t] \/ (t = current /\ st[t] = "READY") BY <2>1
  <2> QED BY <2>2, <1>1, <1>3 DEF Dispatched
<1>5. SendQueues' /\ ReplyWaits' /\ EventWaiters' /\ FreeList'
  BY <1>3, <1>4, QueuesUndisturbed DEF tasks, Dispatched
<1>6. TypeOK'
  BY <1>3 DEF IInv, TaskLists, TypeOK, tasks, ipc, events, Dispatched
<1> QED BY <1>3, <1>5, <1>6 DEF IInv, TaskLists

LEMMA YieldInvariant == ASSUME IInv, Yield PROVE IInv'
<1>1. x0' \in [Tids -> {-2, -1, 0}]
  BY DEF IInv, TaskLists, TypeOK, Yield
<1> QED BY <1>1, RequeueOnly, SizesAssumption DEF Yield

LEMMA QueryInvariant == ASSUME IInv, Query PROVE IInv'
<1>1. PICK r \in {0, -1, ParentResult(current)} : Return(r, x0, state, ready)
  BY DEF Query
<1>2. x0' \in [Tids -> {-2, -1, 0}]
  BY <1>1 DEF IInv, TaskLists, TypeOK, Return, ParentResult
<1> QED BY <1>1, <1>2, RequeueOnly, SizesAssumption DEF Query, Return

\* The caller of a syscall blocks in a state other than READY: the ready lists
\* still agree, and the idle tasks are untouched.
LEMMA BlockAgrees ==
  ASSUME IInv, InUserTask,
         NEW s \in {"SEND_BLOCKED", "RECEIVE_BLOCKED", "EVENT_BLOCKED"},
         priority' = priority, Dispatch([state EXCEPT ![current] = s], ready)
  PROVE  /\ ReadyLists' /\ MostUrgentRuns' /\ IdleStaysRunnable'
         /\ state' \in [Tids -> States]
         /\ ready' \in [Priorities -> Seq(Tids)]
         /\ current' \in Tids /\ machine' \in {"up", "panicked"}
         /\ current \in Tids /\ state[current] = "RUNNING" /\ state'[current] = s
         /\ \A u \in Tids \ {current} :
              state'[u] = state[u] \/ {state[u], state'[u]} \subseteq {"READY", "RUNNING"}
<1> DEFINE st == [state EXCEPT ![current] = s]
<1>1. st \in [Tids -> States] /\ state \in [Tids -> States] /\ priority' \in [Tids -> Priorities]
  BY DEF IInv, TaskLists, TypeOK, States, LiveStates
<1>2. Agree(ready, st, priority')
  <2>1. \A u \in Tids : st[u] = "READY" <=> state[u] = "READY" BY <1>1, UserTask
  <2>2. Agree(ready, state, priority') BY UserTask
  <2> QED BY <2>1, <2>2, OtherStatesAgree
<1>3. /\ \A u \in Tids : st[u] # "RUNNING"
      /\ \A u \in Tids : priority'[u] = IDLE_TASK_PRIORITY /\ st[u] # "FREE"
                           => st[u] = "READY"
  BY <1>1, UserTask
<1>4. /\ ReadyLists' /\ MostUrgentRuns' /\ IdleStaysRunnable'
      /\ Dispatched(st, state') /\ ready' \in [Priorities -> Seq(Tids)]
      /\ current' \in Tids /\ machine' \in {"up", "panicked"}
  BY <1>1, <1>2, <1>3, UserTask, SchedulingInvariants, SizesAssumption
<1> QED BY <1>1, <1>4, UserTask DEF Dispatched

\* get_task_by_tid only returns tasks of the array.
LEMMA LiveIsTid ==
  ASSUME IInv, NEW t, Live(t)
  PROVE  t \in Tids /\ state[t] # "FREE"
<1>1. current_task_id \in 0..MAX_TASKS_COUNT BY DEF IInv, TaskLists, TypeOK
<1> QED BY <1>1, SizesAssumption DEF Live, Tids

LEMMA SendInvariant ==
  ASSUME IInv, NEW t \in Tids \cup {NoTask}, Send(t)
  PROVE  IInv'
<1>0. /\ InUserTask /\ UNCHANGED <<tasks, events>>
      /\ priority' = priority /\ priority' \in [Tids -> Priorities]
      /\ state \in [Tids -> States]
  BY DEF Send, tasks, IInv, TaskLists, TypeOK
<1>1. CASE ~Live(t) /\ Return(-1, x0, state, ready) /\ UNCHANGED ipc
  <2>1. x0' \in [Tids -> {-2, -1, 0}]
    BY <1>1 DEF IInv, TaskLists, TypeOK, Return
  <2> QED BY <1>0, <1>1, <2>1, RequeueOnly, SizesAssumption DEF Return
<1>2. ASSUME Live(t), state[t] = "RECEIVE_BLOCKED",
             x0' = [x0 EXCEPT ![t] = 0, ![current] = 0],
             reply_wait_tid' = [reply_wait_tid EXCEPT ![current] = t],
             Dispatch([state EXCEPT ![current] = "REPLY_BLOCKED", ![t] = "READY"],
                      AddTask(ready, t)),
             UNCHANGED send_queue
      PROVE  IInv'
  <2> DEFINE st == [state EXCEPT ![current] = "REPLY_BLOCKED", ![t] = "READY"]
  <2>1. t \in Tids /\ t # current
    <3>1. t \in Tids BY <1>2, LiveIsTid
    <3>2. state[current] = "RUNNING" BY <1>0, UserTask
    <3> QED BY <3>1, <3>2, <1>2
  <2>2. st \in [Tids -> States] BY <1>0 DEF States, LiveStates
  <2>3. Agree(AddTask(ready, t), st, priority)
    <3> DEFINE st1 == [state EXCEPT ![current] = "REPLY_BLOCKED"]
    <3>1. Agree(ready, st1, priority) /\ st1 \in [Tids -> States] /\ st1[t] # "READY"
      <4>1. \A u \in Tids : st1[u] = "READY" <=> state[u] = "READY"
        BY <1>0, UserTask
      <4>2. Agree(ready, state, priority) BY <1>0, UserTask
      <4>3. Agree(ready, st1, priority) BY <4>1, <4>2, OtherStatesAgree
      <4> QED BY <4>1, <4>3, <1>0, <1>2, <2>1 DEF States, LiveStates
    <3>2. [st1 EXCEPT ![t] = "READY"] = st BY <1>0
    <3> HIDE DEF st1
    <3> QED BY <3>1, <3>2, <1>0, <2>1, EnqueueAgrees DEF AddTask
  <2>4. /\ \A u \in Tids : st[u] # "RUNNING"
        /\ \A u \in Tids : priority'[u] = IDLE_TASK_PRIORITY /\ st[u] # "FREE"
                             => st[u] = "READY"
    BY <1>0, <2>1, UserTask
  <2>5. /\ ReadyLists' /\ MostUrgentRuns' /\ IdleStaysRunnable'
        /\ Dispatched(st, state') /\ ready' \in [Priorities -> Seq(Tids)]
        /\ current' \in Tids /\ machine' \in {"up", "panicked"}
    BY <1>0, <1>2, <2>2, <2>3, <2>4, UserTask, SchedulingInvariants, SizesAssumption
  <2>6. /\ state'[current] = "REPLY_BLOCKED" /\ state[current] = "RUNNING"
        /\ state'[t] \in {"READY", "RUNNING"} /\ state[t] = "RECEIVE_BLOCKED"
        /\ current \in Tids
        /\ \A u \in Tids \ {current, t} :
             state'[u] = state[u] \/ {state[u], state'[u]} \subseteq {"READY", "RUNNING"}
    BY <1>0, <1>2, <2>1, <2>5, UserTask DEF Dispatched
  <2>7. TypeOK'
    BY <1>0, <1>2, <2>1, <2>5, <2>6 DEF IInv, TaskLists, TypeOK, tasks, events, Dispatched
  <2>8. SendQueues'
    BY <1>2, <2>6 DEF IInv, TaskLists, SendQueues
  <2>9. ReplyWaits'
    <3>1. reply_wait_tid \in [Tids -> Tids \cup {NoTask}] /\ t # NoTask
      BY <2>1 DEF IInv, TaskLists, TypeOK, NoTask, Tids
    <3>2. reply_wait_tid'[current] = t /\ state'[t] # "FREE" /\ state'[t] # "REPLY_BLOCKED"
      BY <1>2, <2>6, <3>1
    <3>3. \A u \in Tids \ {current} : reply_wait_tid'[u] = reply_wait_tid[u]
      BY <1>2, <3>1
    <3>4. \A u \in Tids : state'[u] = "FREE" <=> state[u] = "FREE"
      BY <2>6
    <3>5. \A u \in Tids \ {current} : state'[u] = "REPLY_BLOCKED" <=> state[u] = "REPLY_BLOCKED"
      BY <2>6
    <3> QED BY <2>6, <3>1, <3>2, <3>3, <3>4, <3>5 DEF IInv, TaskLists, ReplyWaits
  <2>10. EventWaiters'
    BY <1>0, <2>1, <2>6 DEF IInv, TaskLists, EventWaiters, events
  <2>11. FreeList'
    BY <1>0, <2>1, <2>6 DEF IInv, TaskLists, FreeList, tasks
  <2> QED BY <2>5, <2>7, <2>8, <2>9, <2>10, <2>11 DEF IInv, TaskLists
<1>3. ASSUME Live(t), state[t] # "RECEIVE_BLOCKED",
             send_queue' = [send_queue EXCEPT ![t] = Append(@, current)],
             Dispatch([state EXCEPT ![current] = "SEND_BLOCKED"], ready),
             x0' = [x0 EXCEPT ![current] = 0], UNCHANGED reply_wait_tid
      PROVE  IInv'
  <2>1. t \in Tids /\ state[t] # "FREE"
    BY <1>3, LiveIsTid
  <2>5. /\ ReadyLists' /\ MostUrgentRuns' /\ IdleStaysRunnable'
        /\ state' \in [Tids -> States]
        /\ ready' \in [Priorities -> Seq(Tids)]
        /\ current' \in Tids /\ machine' \in {"up", "panicked"}
    BY <1>0, <1>3, BlockAgrees
  <2>6. /\ state'[current] = "SEND_BLOCKED" /\ state[current] = "RUNNING"
        /\ current \in Tids
        /\ \A u \in Tids \ {current} :
             state'[u] = state[u] \/ {state[u], state'[u]} \subseteq {"READY", "RUNNING"}
    BY <1>0, <1>3, BlockAgrees
  <2>7. current \notin Range(send_queue[t]) /\ send_queue[t] \in Seq(Tids)
    BY <2>1, <2>6 DEF IInv, TaskLists, SendQueues, TypeOK
  <2>8. /\ send_queue'[t] \in Seq(Tids) /\ send_queue'[t] # <<>>
        /\ Range(send_queue'[t]) = Range(send_queue[t]) \cup {current}
        /\ IsInjective(send_queue'[t])
        /\ \A r \in Tids \ {t} : send_queue'[r] = send_queue[r]
    <3>1. send_queue'[t] = Append(send_queue[t], current)
          /\ \A r \in Tids \ {t} : send_queue'[r] = send_queue[r]
      BY <1>3, <2>1 DEF IInv, TaskLists, TypeOK
    <3>2. IsInjective(send_queue[t])
      BY <2>1 DEF IInv, TaskLists, SendQueues
    <3> QED BY <3>1, <3>2, <2>6, <2>7, AppendRange
  <2>9. TypeOK'
    <3>1. send_queue' \in [Tids -> Seq(Tids)]
      BY <1>3, <2>8 DEF IInv, TaskLists, TypeOK
    <3> QED BY <1>0, <1>3, <2>5, <2>6, <3>1 DEF IInv, TaskLists, TypeOK, tasks, events, Dispatched
  <2>10. SendQueues'
    <3>1. \A r \in Tids : IsInjective(send_queue'[r])
      BY <2>8 DEF IInv, TaskLists, SendQueues
    <3>2. \A r, u \in Tids : u \in Range(send_queue'[r])
                               <=> u \in Range(send_queue[r]) \/ (r = t /\ u = current)
      BY <2>8
    <3>3. \A r \in Tids : current \notin Range(send_queue[r])
      BY <2>6 DEF IInv, TaskLists, SendQueues
    <3>4. \A r \in Tids : send_queue'[r] # <<>> => state'[r] \notin {"FREE", "RECEIVE_BLOCKED"}
      BY <1>3, <2>1, <2>6, <2>8 DEF IInv, TaskLists, SendQueues
    <3>5. \A r1, r2, u \in Tids :
            u \in Range(send_queue'[r1]) /\ u \in Range(send_queue'[r2]) => r1 = r2
      BY <3>2, <3>3 DEF IInv, TaskLists, SendQueues
    <3>6. \A u \in Tids : state'[u] = "SEND_BLOCKED"
                            <=> \E r \in Tids : u \in Range(send_queue'[r])
      BY <2>1, <2>6, <3>2 DEF IInv, TaskLists, SendQueues
    <3> QED BY <3>1, <3>4, <3>5, <3>6 DEF SendQueues
  <2>11. ReplyWaits'
    BY <1>3, <2>6 DEF IInv, TaskLists, ReplyWaits, TypeOK
  <2>12. EventWaiters'
    BY <1>0, <2>6 DEF IInv, TaskLists, EventWaiters, events
  <2>13. FreeList'
    BY <1>0, <2>6 DEF IInv, TaskLists, FreeList, tasks
  <2> QED BY <2>5, <2>9, <2>10, <2>11, <2>12, <2>13 DEF IInv, TaskLists
<1> QED BY <1>1, <1>2, <1>3 DEF Send

LEMMA ReceiveInvariant == ASSUME IInv, Receive PROVE IInv'
<1>0. /\ InUserTask /\ UNCHANGED <<tasks, events>>
      /\ priority' = priority /\ priority' \in [Tids -> Priorities]
      /\ state \in [Tids -> States]
  BY DEF Receive, tasks, IInv, TaskLists, TypeOK
<1>1. ASSUME send_queue[current] # <<>>,
             send_queue' = [send_queue EXCEPT ![current] = Tail(@)],
             reply_wait_tid' = [reply_wait_tid EXCEPT ![Head(send_queue[current])] = current],
             Return(0, x0, [state EXCEPT ![Head(send_queue[current])] = "REPLY_BLOCKED"], ready)
      PROVE  IInv'
  <2> DEFINE h == Head(send_queue[current])
             st1 == [state EXCEPT ![h] = "REPLY_BLOCKED"]
             st == [st1 EXCEPT ![current] = "READY"]
  <2>1. /\ current \in Tids /\ state[current] = "RUNNING"
        /\ send_queue[current] \in Seq(Tids) /\ IsInjective(send_queue[current])
    BY <1>0, UserTask DEF IInv, TaskLists, SendQueues
  <2>2. /\ h \in Tids /\ h \in Range(send_queue[current])
        /\ Tail(send_queue[current]) \in Seq(Tids)
        /\ IsInjective(Tail(send_queue[current]))
        /\ h \notin Range(Tail(send_queue[current]))
        /\ Range(send_queue[current]) = Range(Tail(send_queue[current])) \cup {h}
    BY <1>1, <2>1, TailRange
  <2> HIDE DEF h
  <2>3. state[h] = "SEND_BLOCKED" /\ h # current
    BY <2>1, <2>2 DEF IInv, TaskLists, SendQueues
  <2>4. st1 \in [Tids -> States] BY <1>0, <2>2 DEF States, LiveStates
  <2>5. Agree(ready, st1, priority)
    <3>1. \A u \in Tids : st1[u] = "READY" <=> state[u] = "READY" BY <1>0, <2>3
    <3>2. Agree(ready, state, priority) BY <1>0, UserTask
    <3> QED BY <3>1, <3>2, OtherStatesAgree
  <2>6. Agree(AddTask(ready, current), st, priority') /\ st \in [Tids -> States]
    <3>1. st1[current] # "READY" BY <2>1, <2>3, <1>0
    <3> HIDE DEF st1
    <3> QED BY <1>0, <2>4, <2>5, <3>1, RequeueAgrees
  <2>7. /\ \A u \in Tids : st[u] # "RUNNING"
        /\ \A u \in Tids : priority'[u] = IDLE_TASK_PRIORITY /\ st[u] # "FREE"
                             => st[u] = "READY"
    BY <1>0, <2>1, <2>2, <2>3, UserTask
  <2>8. Dispatch(st, AddTask(ready, current)) /\ x0' = [x0 EXCEPT ![current] = 0]
    BY <1>1 DEF Return, h
  <2>9. /\ ReadyLists' /\ MostUrgentRuns' /\ IdleStaysRunnable'
        /\ Dispatched(st, state') /\ ready' \in [Priorities -> Seq(Tids)]
        /\ current' \in Tids /\ machine' \in {"up", "panicked"}
    <3> HIDE DEF st
    <3> QED BY <1>0, <2>6, <2>7, <2>8, UserTask, SchedulingInvariants, SizesAssumption
  <2>10. /\ state' \in [Tids -> States] /\ state'[h] = "REPLY_BLOCKED"
         /\ \A u \in Tids \ {h} :
              state'[u] = state[u] \/ {state[u], state'[u]} \subseteq {"READY", "RUNNING"}
    BY <1>0, <2>1, <2>2, <2>3, <2>9 DEF Dispatched
  <2>11. /\ send_queue'[current] = Tail(send_queue[current])
         /\ \A r \in Tids \ {current} : send_queue'[r] = send_queue[r]
         /\ send_queue' \in [Tids -> Seq(Tids)]
         /\ reply_wait_tid' = [reply_wait_tid EXCEPT ![h] = current]
    BY <1>1, <2>1, <2>2 DEF IInv, TaskLists, TypeOK, h
  <2>12. TypeOK'
    BY <1>0, <2>1, <2>8, <2>9, <2>10, <2>11 DEF IInv, TaskLists, TypeOK, tasks, events
  <2>13. SendQueues'
    <3>1. \A r \in Tids : IsInjective(send_queue'[r])
      BY <2>2, <2>11 DEF IInv, TaskLists, SendQueues
    <3>2. \A r, u \in Tids : u \in Range(send_queue'[r])
                               <=> u \in Range(send_queue[r]) /\ u # h
      BY <2>2, <2>11, <2>1 DEF IInv, TaskLists, SendQueues
    <3>3. \A r \in Tids : send_queue'[r] # <<>> => state'[r] \notin {"FREE", "RECEIVE_BLOCKED"}
      BY <2>1, <2>3, <2>10, <2>11 DEF IInv, TaskLists, SendQueues
    <3>4. \A r1, r2, u \in Tids :
            u \in Range(send_queue'[r1]) /\ u \in Range(send_queue'[r2]) => r1 = r2
      BY <3>2 DEF IInv, TaskLists, SendQueues
    <3>5. \A u \in Tids : state'[u] = "SEND_BLOCKED"
                            <=> \E r \in Tids : u \in Range(send_queue'[r])
      BY <2>3, <2>10, <3>2 DEF IInv, TaskLists, SendQueues
    <3> QED BY <3>1, <3>3, <3>4, <3>5 DEF SendQueues
  <2>14. ReplyWaits'
    <3>1. current # NoTask BY <2>1 DEF Tids, NoTask
    <3>2. reply_wait_tid'[h] = current /\ state'[current] # "FREE"
      BY <2>1, <2>2, <2>3, <2>10, <2>11 DEF IInv, TaskLists, TypeOK
    <3>3. \A u \in Tids \ {h} : reply_wait_tid'[u] = reply_wait_tid[u]
      BY <2>11 DEF IInv, TaskLists, TypeOK
    <3>4. \A u \in Tids : state'[u] = "FREE" <=> state[u] = "FREE"
      BY <2>3, <2>10
    <3>5. \A u \in Tids \ {h} : state'[u] = "REPLY_BLOCKED" <=> state[u] = "REPLY_BLOCKED"
      BY <2>10
    <3>6. reply_wait_tid \in [Tids -> Tids \cup {NoTask}] BY DEF IInv, TaskLists, TypeOK
    <3> QED BY <2>10, <3>1, <3>2, <3>3, <3>4, <3>5, <3>6 DEF IInv, TaskLists, ReplyWaits
  <2>15. EventWaiters'
    BY <1>0, <2>3, <2>10 DEF IInv, TaskLists, EventWaiters, events
  <2>16. FreeList'
    BY <1>0, <2>3, <2>10 DEF IInv, TaskLists, FreeList, tasks
  <2> QED BY <2>9, <2>12, <2>13, <2>14, <2>15, <2>16 DEF IInv, TaskLists
<1>2. ASSUME send_queue[current] = <<>>,
             Dispatch([state EXCEPT ![current] = "RECEIVE_BLOCKED"], ready),
             x0' = [x0 EXCEPT ![current] = 0], UNCHANGED ipc
      PROVE  IInv'
  <2>1. /\ ReadyLists' /\ MostUrgentRuns' /\ IdleStaysRunnable'
        /\ state' \in [Tids -> States]
        /\ ready' \in [Priorities -> Seq(Tids)]
        /\ current' \in Tids /\ machine' \in {"up", "panicked"}
        /\ current \in Tids /\ state[current] = "RUNNING"
        /\ state'[current] = "RECEIVE_BLOCKED"
        /\ \A u \in Tids \ {current} :
             state'[u] = state[u] \/ {state[u], state'[u]} \subseteq {"READY", "RUNNING"}
    BY <1>0, <1>2, BlockAgrees
  <2>2. TypeOK'
    BY <1>0, <1>2, <2>1 DEF IInv, TaskLists, TypeOK, tasks, ipc, events
  <2>3. SendQueues'
    BY <1>2, <2>1 DEF IInv, TaskLists, SendQueues, ipc
  <2>4. ReplyWaits'
    <3>1. reply_wait_tid' = reply_wait_tid /\ ReplyWaits
      BY <1>2 DEF IInv, TaskLists, ipc
    <3>2. reply_wait_tid \in [Tids -> Tids \cup {NoTask}]
      BY DEF IInv, TaskLists, TypeOK
    <3> QED BY <2>1, <3>1, <3>2 DEF ReplyWaits
  <2>5. EventWaiters'
    <3>1. event_wait_queue' = event_wait_queue /\ event_pending' = event_pending /\ EventWaiters
      BY <1>0 DEF IInv, TaskLists, events
    <3> QED BY <2>1, <3>1 DEF EventWaiters
  <2>6. FreeList'
    BY <1>0, <2>1 DEF IInv, TaskLists, FreeList, tasks
  <2> QED BY <2>1, <2>2, <2>3, <2>4, <2>5, <2>6 DEF IInv, TaskLists
<1> QED BY <1>0, <1>1, <1>2 DEF Receive

LEMMA ReplyInvariant ==
  ASSUME IInv, NEW t \in Tids \cup {NoTask}, Reply(t)
  PROVE  IInv'
<1>0. /\ InUserTask /\ UNCHANGED <<tasks, events>>
      /\ priority' = priority /\ priority' \in [Tids -> Priorities]
      /\ state \in [Tids -> States]
  BY DEF Reply, tasks, IInv, TaskLists, TypeOK
<1>1. ASSUME NEW r \in {-1, -2}, Return(r, x0, state, ready), UNCHANGED ipc
      PROVE  IInv'
  <2>1. x0' \in [Tids -> {-2, -1, 0}]
    BY <1>1 DEF IInv, TaskLists, TypeOK, Return
  <2> QED BY <1>0, <1>1, <2>1, RequeueOnly, SizesAssumption DEF Return
<1>2. ASSUME Live(t), CanReply(t),
             reply_wait_tid' = [reply_wait_tid EXCEPT ![t] = NoTask],
             Return(0, [x0 EXCEPT ![t] = 0], [state EXCEPT ![t] = "READY"],
                    AddTask(ready, t)),
             UNCHANGED send_queue
      PROVE  IInv'
  <2> DEFINE st1 == [state EXCEPT ![t] = "READY"]
             r1 == AddTask(ready, t)
             st == [st1 EXCEPT ![current] = "READY"]
  <2>1. /\ t \in Tids /\ state[t] = "REPLY_BLOCKED" /\ t # current
        /\ current \in Tids /\ state[current] = "RUNNING"
    <3>1. t \in Tids /\ state[t] = "REPLY_BLOCKED" BY <1>2, LiveIsTid DEF CanReply
    <3> QED BY <3>1, <1>0, UserTask
  <2>2. Agree(r1, st1, priority) /\ st1 \in [Tids -> States]
    BY <1>0, <2>1, UserTask, EnqueueAgrees DEF AddTask, States, LiveStates
  <2>3. Agree(AddTask(r1, current), st, priority') /\ st \in [Tids -> States]
    <3>1. st1[current] # "READY" BY <1>0, <2>1
    <3> HIDE DEF st1, r1
    <3> QED BY <1>0, <2>2, <3>1, RequeueAgrees
  <2>4. /\ \A u \in Tids : st[u] # "RUNNING"
        /\ \A u \in Tids : priority'[u] = IDLE_TASK_PRIORITY /\ st[u] # "FREE"
                             => st[u] = "READY"
    BY <1>0, <2>1, UserTask
  <2>5. Dispatch(st, AddTask(r1, current)) /\ x0' = [[x0 EXCEPT ![t] = 0] EXCEPT ![current] = 0]
    BY <1>2 DEF Return
  <2>6. /\ ReadyLists' /\ MostUrgentRuns' /\ IdleStaysRunnable'
        /\ Dispatched(st, state') /\ ready' \in [Priorities -> Seq(Tids)]
        /\ current' \in Tids /\ machine' \in {"up", "panicked"}
    <3> HIDE DEF st, r1
    <3> QED BY <1>0, <2>3, <2>4, <2>5, UserTask, SchedulingInvariants, SizesAssumption
  <2>7. /\ state' \in [Tids -> States] /\ state'[t] \in {"READY", "RUNNING"}
        /\ \A u \in Tids \ {t} :
             state'[u] = state[u] \/ {state[u], state'[u]} \subseteq {"READY", "RUNNING"}
    BY <1>0, <2>1, <2>6 DEF Dispatched
  <2>8. TypeOK'
    BY <1>0, <1>2, <2>1, <2>5, <2>6, <2>7 DEF IInv, TaskLists, TypeOK, tasks, events
  <2>9. SendQueues'
    BY <1>2, <2>1, <2>7 DEF IInv, TaskLists, SendQueues
  <2>10. ReplyWaits'
    <3>1. reply_wait_tid'[t] = NoTask /\ \A u \in Tids \ {t} : reply_wait_tid'[u] = reply_wait_tid[u]
      BY <1>2, <2>1 DEF IInv, TaskLists, TypeOK
    <3>2. \A u \in Tids : state'[u] = "FREE" <=> state[u] = "FREE"
      BY <2>1, <2>7
    <3>3. \A u \in Tids \ {t} : state'[u] = "REPLY_BLOCKED" <=> state[u] = "REPLY_BLOCKED"
      BY <2>7
    <3>4. reply_wait_tid \in [Tids -> Tids \cup {NoTask}] BY DEF IInv, TaskLists, TypeOK
    <3> QED BY <2>7, <3>1, <3>2, <3>3, <3>4 DEF IInv, TaskLists, ReplyWaits
  <2>11. EventWaiters'
    BY <1>0, <2>1, <2>7 DEF IInv, TaskLists, EventWaiters, events
  <2>12. FreeList'
    BY <1>0, <2>1, <2>7 DEF IInv, TaskLists, FreeList, tasks
  <2> QED BY <2>6, <2>8, <2>9, <2>10, <2>11, <2>12 DEF IInv, TaskLists
<1> QED BY <1>1, <1>2 DEF Reply

LEMMA AwaitEventInvariant ==
  ASSUME IInv, NEW e \in EventIds, AwaitEvent(e)
  PROVE  IInv'
<1>0. /\ InUserTask /\ UNCHANGED <<tasks, ipc>>
      /\ priority' = priority /\ priority' \in [Tids -> Priorities]
      /\ state \in [Tids -> States]
  BY DEF AwaitEvent, tasks, IInv, TaskLists, TypeOK
<1>1. CASE Return(-2, x0, state, ready) /\ UNCHANGED events
  <2>1. x0' \in [Tids -> {-2, -1, 0}]
    BY <1>1 DEF IInv, TaskLists, TypeOK, Return
  <2> QED BY <1>0, <1>1, <2>1, RequeueOnly, SizesAssumption DEF Return
<1>2. ASSUME event_wait_queue[e] = NoTask, event_pending[e] > 0,
             event_pending' = [event_pending EXCEPT ![e] = @ - 1],
             Return(0, x0, state, ready), UNCHANGED <<event_wait_queue, masked>>
      PROVE  IInv'
  <2> DEFINE st == [state EXCEPT ![current] = "READY"]
  <2>1. /\ current \in Tids /\ state[current] = "RUNNING" /\ st \in [Tids -> States]
        /\ Agree(AddTask(ready, current), st, priority')
    BY <1>0, UserTask, RequeueAgrees
  <2>2. /\ \A u \in Tids : st[u] # "RUNNING"
        /\ \A u \in Tids : priority'[u] = IDLE_TASK_PRIORITY /\ st[u] # "FREE"
                             => st[u] = "READY"
    BY <1>0, <2>1, UserTask
  <2>3. Dispatch(st, AddTask(ready, current)) /\ x0' = [x0 EXCEPT ![current] = 0]
    BY <1>2 DEF Return
  <2>4. /\ ReadyLists' /\ MostUrgentRuns' /\ IdleStaysRunnable'
        /\ Dispatched(st, state') /\ ready' \in [Priorities -> Seq(Tids)]
        /\ current' \in Tids /\ machine' \in {"up", "panicked"}
    <3> HIDE DEF st
    <3> QED BY <1>0, <2>1, <2>2, <2>3, UserTask, SchedulingInvariants, SizesAssumption
  <2>5. /\ state' \in [Tids -> States]
        /\ \A u \in Tids :
             state'[u] = state[u] \/ {state[u], state'[u]} \subseteq {"READY", "RUNNING"}
    BY <1>0, <2>1, <2>4 DEF Dispatched
  <2>6. event_pending' \in [EventIds -> 0..UINT32_MAX]
    BY <1>2, SizesAssumption DEF IInv, TaskLists, TypeOK
  <2>7. TypeOK'
    BY <1>0, <1>2, <2>1, <2>3, <2>4, <2>5, <2>6 DEF IInv, TaskLists, TypeOK, tasks, ipc
  <2>8. SendQueues'
    BY <1>0, <2>5 DEF IInv, TaskLists, SendQueues, ipc
  <2>9. ReplyWaits'
    <3>1. reply_wait_tid' = reply_wait_tid /\ ReplyWaits
      BY <1>0 DEF IInv, TaskLists, ipc
    <3>2. reply_wait_tid \in [Tids -> Tids \cup {NoTask}]
      BY DEF IInv, TaskLists, TypeOK
    <3> QED BY <2>5, <3>1, <3>2 DEF ReplyWaits
  <2>10. EventWaiters'
    <3>1. \A f \in EventIds \ {e} : event_pending'[f] = event_pending[f]
      BY <1>2 DEF IInv, TaskLists, TypeOK
    <3>2. \A u \in Tids : state'[u] = "EVENT_BLOCKED" <=> state[u] = "EVENT_BLOCKED"
      BY <2>5
    <3> QED BY <1>2, <3>1, <3>2 DEF IInv, TaskLists, EventWaiters
  <2>11. FreeList'
    BY <1>0, <2>5 DEF IInv, TaskLists, FreeList, tasks
  <2> QED BY <2>4, <2>7, <2>8, <2>9, <2>10, <2>11 DEF IInv, TaskLists
<1>3. ASSUME event_wait_queue[e] = NoTask, event_pending[e] = 0,
             event_wait_queue' = [event_wait_queue EXCEPT ![e] = current],
             Dispatch([state EXCEPT ![current] = "EVENT_BLOCKED"], ready),
             x0' = [x0 EXCEPT ![current] = 0], UNCHANGED <<event_pending, masked>>
      PROVE  IInv'
  <2>1. /\ ReadyLists' /\ MostUrgentRuns' /\ IdleStaysRunnable'
        /\ state' \in [Tids -> States]
        /\ ready' \in [Priorities -> Seq(Tids)]
        /\ current' \in Tids /\ machine' \in {"up", "panicked"}
        /\ current \in Tids /\ state[current] = "RUNNING"
        /\ state'[current] = "EVENT_BLOCKED"
        /\ \A u \in Tids \ {current} :
             state'[u] = state[u] \/ {state[u], state'[u]} \subseteq {"READY", "RUNNING"}
    BY <1>0, <1>3, BlockAgrees
  <2>2. TypeOK'
    BY <1>0, <1>3, <2>1 DEF IInv, TaskLists, TypeOK, tasks, ipc
  <2>3. SendQueues'
    BY <1>0, <2>1 DEF IInv, TaskLists, SendQueues, ipc
  <2>4. ReplyWaits'
    <3>1. reply_wait_tid' = reply_wait_tid /\ ReplyWaits
      BY <1>0 DEF IInv, TaskLists, ipc
    <3>2. reply_wait_tid \in [Tids -> Tids \cup {NoTask}]
      BY DEF IInv, TaskLists, TypeOK
    <3> QED BY <2>1, <3>1, <3>2 DEF ReplyWaits
  <2>5. EventWaiters'
    <3>1. current # NoTask BY <2>1 DEF Tids, NoTask
    <3>2. /\ event_wait_queue'[e] = current
          /\ \A f \in EventIds \ {e} : event_wait_queue'[f] = event_wait_queue[f]
      BY <1>3 DEF IInv, TaskLists, TypeOK
    <3>3. \A u \in Tids \ {current} :
            state'[u] = "EVENT_BLOCKED" <=> state[u] = "EVENT_BLOCKED"
      BY <2>1
    <3>4. \A f \in EventIds : event_wait_queue[f] # current
      BY <2>1 DEF IInv, TaskLists, EventWaiters
    <3>5. \A u \in Tids : state'[u] = "EVENT_BLOCKED"
                            <=> \E f \in EventIds : event_wait_queue'[f] = u
      <4> SUFFICES ASSUME NEW u \in Tids
                   PROVE  state'[u] = "EVENT_BLOCKED"
                            <=> \E f \in EventIds : event_wait_queue'[f] = u
        OBVIOUS
      <4>1. state[u] = "EVENT_BLOCKED" <=> \E f \in EventIds : event_wait_queue[f] = u
        BY DEF IInv, TaskLists, EventWaiters
      <4>2. CASE u = current BY <4>2, <2>1, <3>2
      <4>3. CASE u # current
        <5>1. u # NoTask BY DEF Tids, NoTask
        <5>2. \A f \in EventIds : event_wait_queue'[f] = u <=> event_wait_queue[f] = u
          BY <4>3, <5>1, <3>2, <1>3
        <5> QED BY <4>1, <4>3, <5>2, <3>3
      <4> QED BY <4>2, <4>3
    <3>6. \A f, g \in EventIds :
            event_wait_queue'[f] = event_wait_queue'[g] /\ f # g => event_wait_queue'[f] = NoTask
      BY <3>2, <3>4 DEF IInv, TaskLists, EventWaiters
    <3>7. \A f \in EventIds : event_wait_queue'[f] # NoTask => event_pending'[f] = 0
      BY <1>3, <3>2 DEF IInv, TaskLists, EventWaiters
    <3> QED BY <3>5, <3>6, <3>7 DEF EventWaiters
  <2>6. FreeList'
    BY <1>0, <2>1 DEF IInv, TaskLists, FreeList, tasks
  <2> QED BY <2>1, <2>2, <2>3, <2>4, <2>5, <2>6 DEF IInv, TaskLists
<1> QED BY <1>1, <1>2, <1>3 DEF AwaitEvent

\* A new task and its creator enter the ready lists; the descriptor was FREE.
LEMMA CreateTaskInvariant ==
  ASSUME IInv, InUserTask, NEW p \in Priorities, NEW t \in Tids, CreateTask(p, t)
  PROVE  IInv'
<1> DEFINE st1 == [state EXCEPT ![t] = "READY"]
           r1 == Enqueue(ready, p, t)
           st == [state EXCEPT ![t] = "READY", ![current] = "READY"]
<1>1. /\ current \in Tids /\ state[current] = "RUNNING"
      /\ state \in [Tids -> States] /\ priority \in [Tids -> Priorities]
  BY UserTask DEF IInv, TaskLists, TypeOK
<1>2. /\ state[t] = "FREE" /\ t # current
      /\ free_list' \in Seq(Tids) /\ current_task_id' \in 0..MAX_TASKS_COUNT
      /\ IsInjective(free_list')
      /\ \A u \in Tids : u \in Range(free_list')
                           <=> state[u] = "FREE" /\ u < current_task_id' /\ u # t
      /\ \A u \in Tids : u >= current_task_id' => state[u] = "FREE"
      /\ t < current_task_id'
  <2>1. CASE /\ current_task_id < MAX_TASKS_COUNT /\ t = current_task_id
             /\ current_task_id' = current_task_id + 1 /\ UNCHANGED free_list
    <3>1. current_task_id \in 0..MAX_TASKS_COUNT /\ free_list \in Seq(Tids) BY DEF IInv, TaskLists, TypeOK
    <3>2. \A u \in Tids : u \in Int BY DEF Tids
    <3> QED BY <1>1, <2>1, <3>1, <3>2, SizesAssumption DEF IInv, TaskLists, FreeList
  <2>2. CASE /\ current_task_id >= MAX_TASKS_COUNT /\ free_list # <<>>
             /\ t = Head(free_list) /\ free_list' = Tail(free_list)
             /\ UNCHANGED current_task_id
    <3>1. /\ free_list \in Seq(Tids) /\ IsInjective(free_list)
          /\ current_task_id \in 0..MAX_TASKS_COUNT
      BY DEF IInv, TaskLists, TypeOK, FreeList
    <3>2. /\ t \in Range(free_list) /\ free_list' \in Seq(Tids) /\ IsInjective(free_list')
          /\ t \notin Range(free_list') /\ Range(free_list) = Range(free_list') \cup {t}
      BY <2>2, <3>1, TailRange
    <3> QED BY <1>1, <2>2, <3>1, <3>2 DEF IInv, TaskLists, FreeList
  <2> QED BY <2>1, <2>2 DEF CreateTask, Alloc
<1>3. priority' = [priority EXCEPT ![t] = p] /\ priority' \in [Tids -> Priorities]
  BY <1>1 DEF CreateTask
<1>4. Agree(r1, st1, priority') /\ st1 \in [Tids -> States]
  <2>1. Agree(ready, state, priority')
    <3>1. Agree(ready, state, priority) BY UserTask
    <3> QED BY <1>1, <1>2, <1>3, <3>1 DEF Agree
  <2>2. priority'[t] = p BY <1>1, <1>3
  <2> QED BY <1>1, <1>2, <1>3, <2>1, <2>2, EnqueueAgrees DEF States, LiveStates
<1>5. Agree(AddTask(r1, current), st, priority') /\ st \in [Tids -> States]
  <2>1. st = [st1 EXCEPT ![current] = "READY"] BY <1>1
  <2>2. AddTask(r1, current) = Enqueue(r1, priority'[current], current)
    BY <1>1, <1>2, <1>3 DEF AddTask
  <2>3. st1[current] # "READY" BY <1>1, <1>2
  <2>4. st \in [Tids -> States] BY <1>1 DEF States, LiveStates
  <2>5. Agree(Enqueue(r1, priority'[current], current), [st1 EXCEPT ![current] = "READY"], priority')
    <3> HIDE DEF st1, r1
    <3> QED BY <1>1, <1>3, <1>4, <2>3, EnqueueAgrees
  <2> QED BY <2>1, <2>2, <2>4, <2>5
<1>6. /\ \A u \in Tids : st[u] # "RUNNING"
      /\ \A u \in Tids : priority'[u] = IDLE_TASK_PRIORITY /\ st[u] # "FREE"
                           => st[u] = "READY"
  BY <1>1, <1>2, <1>3, UserTask
<1>7. /\ ReadyLists' /\ MostUrgentRuns' /\ IdleStaysRunnable'
      /\ Dispatched(st, state') /\ ready' \in [Priorities -> Seq(Tids)]
      /\ current' \in Tids /\ machine' \in {"up", "panicked"}
  <2>1. Dispatch(st, AddTask(r1, current)) BY DEF CreateTask
  <2> HIDE DEF st, r1
  <2> QED BY <1>3, <1>5, <1>6, <2>1, UserTask, SchedulingInvariants, SizesAssumption
<1>8. /\ state' \in [Tids -> States] /\ state'[t] \in {"READY", "RUNNING"}
      /\ \A u \in Tids \ {t} :
           state'[u] = state[u] \/ {state[u], state'[u]} \subseteq {"READY", "RUNNING"}
  BY <1>1, <1>2, <1>7 DEF Dispatched
<1>9. /\ send_queue' = send_queue /\ UNCHANGED events
      /\ reply_wait_tid' = [reply_wait_tid EXCEPT ![t] = NoTask]
      /\ parent_tid' = [parent_tid EXCEPT ![t] = current]
      /\ x0' = [x0 EXCEPT ![t] = 0, ![current] = 0]
  <2>1. send_queue[t] = <<>> BY <1>2 DEF IInv, TaskLists, SendQueues
  <2>2. [send_queue EXCEPT ![t] = <<>>] = send_queue BY <2>1 DEF IInv, TaskLists, TypeOK
  <2> QED BY <2>2 DEF CreateTask
<1>10. TypeOK'
  BY <1>1, <1>2, <1>3, <1>7, <1>8, <1>9 DEF IInv, TaskLists, TypeOK, events
<1>11. SendQueues'
  BY <1>2, <1>8, <1>9 DEF IInv, TaskLists, SendQueues
<1>12. ReplyWaits'
  <2>1. reply_wait_tid'[t] = NoTask /\ \A u \in Tids \ {t} : reply_wait_tid'[u] = reply_wait_tid[u]
    BY <1>9 DEF IInv, TaskLists, TypeOK
  <2>2. \A u \in Tids \ {t} : /\ state'[u] = "FREE" <=> state[u] = "FREE"
                              /\ state'[u] = "REPLY_BLOCKED" <=> state[u] = "REPLY_BLOCKED"
    BY <1>8
  <2>3. reply_wait_tid \in [Tids -> Tids \cup {NoTask}] BY DEF IInv, TaskLists, TypeOK
  <2> QED BY <1>2, <1>8, <2>1, <2>2, <2>3 DEF IInv, TaskLists, ReplyWaits
<1>13. EventWaiters'
  BY <1>2, <1>8, <1>9 DEF IInv, TaskLists, EventWaiters, events
<1>14. FreeList'
  <2>1. \A u \in Tids : state'[u] = "FREE" <=> state[u] = "FREE" /\ u # t
    BY <1>2, <1>8
  <2>2. \A u \in Tids : u \in Int BY DEF Tids
  <2> QED BY <1>2, <2>1, <2>2 DEF FreeList
<1> QED BY <1>7, <1>10, <1>11, <1>12, <1>13, <1>14 DEF IInv, TaskLists

LEMMA CreateInvariant == ASSUME IInv, Create PROVE IInv'
<1>1. CASE NoDescriptor /\ Return(-2, x0, state, ready) /\ UNCHANGED <<tasks, ipc, events>>
  <2>1. x0' \in [Tids -> {-2, -1, 0}]
    BY <1>1 DEF IInv, TaskLists, TypeOK, Return
  <2> QED BY <1>1, <2>1, RequeueOnly, SizesAssumption DEF Return, Create
<1> QED BY <1>1, CreateTaskInvariant DEF Create

\* kern_Exit: every task that waited for the caller is released, the caller's
\* descriptor joins the free list.
LEMMA ExitInvariant == ASSUME IInv, Exit PROVE IInv'
<1> DEFINE W == Senders(current) \cup ReplyWaiters(current)
           st == [Wake(state, W) EXCEPT ![current] = "FREE"]
<1>0. /\ InUserTask /\ priority' = priority /\ priority' \in [Tids -> Priorities]
      /\ state \in [Tids -> States] /\ send_queue \in [Tids -> Seq(Tids)]
      /\ reply_wait_tid \in [Tids -> Tids \cup {NoTask}]
      /\ UNCHANGED <<parent_tid, current_task_id, events>>
      /\ free_list' = <<current>> \o free_list
      /\ send_queue' = [send_queue EXCEPT ![current] = <<>>]
  BY DEF Exit, IInv, TaskLists, TypeOK
<1>1. PICK wk \in WakeLists(W, ExitRank(current)) :
        /\ x0' = [t \in Tids |-> IF t \in W THEN -2 ELSE IF t = current THEN 0 ELSE x0[t]]
        /\ reply_wait_tid' = [t \in Tids |-> IF t \in W THEN NoTask ELSE reply_wait_tid[t]]
        /\ Dispatch(st, AddAll(ready, wk))
  BY DEF Exit
<1>2. /\ current \in Tids /\ state[current] = "RUNNING"
      /\ priority[current] # IDLE_TASK_PRIORITY
  BY <1>0, UserTask
<1>3. /\ Range(send_queue[current]) \subseteq Tids
      /\ \A u \in Tids : u \in W <=> \/ u \in Range(send_queue[current])
                                     \/ state[u] = "REPLY_BLOCKED" /\ reply_wait_tid[u] = current
      /\ W \subseteq Tids
      /\ \A u \in W : state[u] \in {"SEND_BLOCKED", "REPLY_BLOCKED"}
  <2>1. Range(send_queue[current]) \subseteq Tids
    <3>1. send_queue[current] \in Seq(Tids) BY <1>0, <1>2
    <3> QED BY <3>1, LenProperties, ElementOfSeq DEF Range
  <2>2. \A u \in Range(send_queue[current]) : state[u] = "SEND_BLOCKED"
    BY <1>2, <2>1 DEF IInv, TaskLists, SendQueues
  <2>3. \A u \in Tids : state[u] = "REPLY_BLOCKED" => u < current_task_id
    <3>1. \A u \in Tids : u \in Int /\ current_task_id \in Int BY DEF Tids, IInv, TaskLists, TypeOK
    <3> QED BY <3>1 DEF IInv, TaskLists, FreeList
  <2> QED BY <2>1, <2>2, <2>3 DEF Senders, ReplyWaiters
<1> HIDE DEF W
<1>4. ExitRank(current) \in [Tids -> Int]
  <2>1. send_queue[current] \in Seq(Tids) /\ Len(send_queue[current]) \in Nat
    BY <1>0, <1>2, LenProperties
  <2>2. ASSUME NEW u \in Tids, u \in Senders(current)
        PROVE  (CHOOSE i \in 1..Len(send_queue[current]) : send_queue[current][i] = u) \in Int
    <3>1. \E i \in 1..Len(send_queue[current]) : send_queue[current][i] = u
      BY <2>1, <2>2, LenProperties DEF Senders, Range
    <3> QED BY <3>1, <2>1
  <2>3. \A u \in Tids : Len(send_queue[current]) + 1 + u \in Int BY <2>1 DEF Tids
  <2> QED BY <2>2, <2>3 DEF ExitRank
<1>5. Agree(AddAll(ready, wk), Wake(state, W), priority)
  <2>1. Agree(ready, state, priority) BY <1>0, UserTask
  <2> QED BY <1>0, <1>1, <1>3, <1>4, <2>1, WakeAgrees, SizesAssumption
<1>6. Agree(AddAll(ready, wk), st, priority') /\ st \in [Tids -> States]
  <2>1. Wake(state, W) \in [Tids -> States]
    BY <1>0 DEF Wake, States, LiveStates
  <2>2. Wake(state, W)[current] = "RUNNING"
    BY <1>2, <1>3 DEF Wake
  <2>3. \A u \in Tids : st[u] = "READY" <=> Wake(state, W)[u] = "READY"
    BY <1>2, <2>1, <2>2
  <2>4. st \in [Tids -> States] BY <2>1 DEF States
  <2> QED BY <1>0, <1>5, <2>3, <2>4, OtherStatesAgree
<1>7. /\ st[current] = "FREE"
      /\ \A u \in Tids \ {current} : st[u] = IF u \in W THEN "READY" ELSE state[u]
      /\ current \notin W
  BY <1>0, <1>2, <1>3 DEF Wake
<1>8. /\ \A u \in Tids : st[u] # "RUNNING"
      /\ \A u \in Tids : priority'[u] = IDLE_TASK_PRIORITY /\ st[u] # "FREE"
                           => st[u] = "READY"
  BY <1>0, <1>7, UserTask
<1>9. /\ ReadyLists' /\ MostUrgentRuns' /\ IdleStaysRunnable'
      /\ Dispatched(st, state') /\ ready' \in [Priorities -> Seq(Tids)]
      /\ current' \in Tids /\ machine' \in {"up", "panicked"}
  <2> HIDE DEF st
  <2> QED BY <1>0, <1>1, <1>6, <1>8, UserTask, SchedulingInvariants, SizesAssumption
<1>10. /\ state' \in [Tids -> States] /\ state'[current] = "FREE"
       /\ \A u \in W : state'[u] \in {"READY", "RUNNING"}
       /\ \A u \in Tids \ (W \cup {current}) :
            state'[u] = state[u] \/ {state[u], state'[u]} \subseteq {"READY", "RUNNING"}
  <2> HIDE DEF st
  <2>1. state' \in [Tids -> States] /\ state'[current] = "FREE"
    BY <1>2, <1>7, <1>9 DEF Dispatched
  <2>2. \A u \in W : state'[u] \in {"READY", "RUNNING"}
    BY <1>3, <1>7, <1>9 DEF Dispatched
  <2>3. \A u \in Tids \ (W \cup {current}) :
            state'[u] = state[u] \/ {state[u], state'[u]} \subseteq {"READY", "RUNNING"}
    BY <1>7, <1>9 DEF Dispatched
  <2> QED BY <2>1, <2>2, <2>3
<1>11. /\ free_list' \in Seq(Tids) /\ IsInjective(free_list')
       /\ Range(free_list') = {current} \cup Range(free_list)
  <2> DEFINE c == <<current>>
  <2>1. c \in Seq(Tids) /\ Range(c) = {current} /\ IsInjective(c)
    BY <1>2 DEF Range, IsInjective
  <2>2. free_list \in Seq(Tids) /\ IsInjective(free_list) /\ current \notin Range(free_list)
    BY <1>2 DEF IInv, TaskLists, TypeOK, FreeList
  <2>3. free_list' = c \o free_list BY <1>0
  <2> HIDE DEF c
  <2>4. /\ c \o free_list \in Seq(Tids)
        /\ Range(c \o free_list) = Range(c) \cup Range(free_list)
        /\ IsInjective(c \o free_list)
    BY <2>1, <2>2, ConcatRange
  <2> QED BY <2>1, <2>3, <2>4
<1>12. TypeOK'
  <2>1. send_queue' \in [Tids -> Seq(Tids)]
    <3>1. <<>> \in Seq(Tids) OBVIOUS
    <3> QED BY <1>0, <3>1
  <2>2. x0' \in [Tids -> {-2, -1, 0}] BY <1>1 DEF IInv, TaskLists, TypeOK
  <2>3. reply_wait_tid' \in [Tids -> Tids \cup {NoTask}] BY <1>0, <1>1
  <2> QED BY <1>0, <1>9, <1>10, <1>11, <2>1, <2>2, <2>3 DEF IInv, TaskLists, TypeOK, events
<1>13. SendQueues'
  <2>1. send_queue'[current] = <<>> /\ \A r \in Tids \ {current} : send_queue'[r] = send_queue[r]
    BY <1>0, <1>2
  <2>2. Range(<<>>) = {} /\ IsInjective(<<>>) BY DEF Range, IsInjective
  <2>3. \A r \in Tids : IsInjective(send_queue'[r])
    BY <2>1, <2>2 DEF IInv, TaskLists, SendQueues
  <2>4. \A r, u \in Tids : u \in Range(send_queue'[r])
                             <=> u \in Range(send_queue[r]) /\ r # current
    BY <2>1, <2>2
  <2>5. \A r1, r2, u \in Tids :
          u \in Range(send_queue'[r1]) /\ u \in Range(send_queue'[r2]) => r1 = r2
    BY <2>4 DEF IInv, TaskLists, SendQueues
  <2>6. \A r \in Tids : send_queue'[r] # <<>> => state'[r] \notin {"FREE", "RECEIVE_BLOCKED"}
    BY <2>1, <1>3, <1>10 DEF IInv, TaskLists, SendQueues
  <2>7. ASSUME NEW u \in Tids
        PROVE  state'[u] = "SEND_BLOCKED" <=> \E r \in Tids : u \in Range(send_queue'[r])
    <3>1. CASE u \in W
      <4>1. state'[u] # "SEND_BLOCKED" BY <3>1, <1>10
      <4>2. ASSUME NEW r \in Tids, u \in Range(send_queue[r]) PROVE r = current
        <5>1. state[u] = "SEND_BLOCKED" BY <4>2 DEF IInv, TaskLists, SendQueues
        <5>2. u \in Range(send_queue[current]) BY <5>1, <3>1, <1>3
        <5> QED BY <5>2, <4>2, <1>2 DEF IInv, TaskLists, SendQueues
      <4> QED BY <4>1, <4>2, <2>4
    <3>2. CASE u = current
      <4>1. \A r \in Tids : u \notin Range(send_queue[r])
        BY <3>2, <1>2 DEF IInv, TaskLists, SendQueues
      <4> QED BY <3>2, <4>1, <1>10, <2>4
    <3>3. CASE u \notin W /\ u # current
      <4>1. state'[u] = "SEND_BLOCKED" <=> state[u] = "SEND_BLOCKED" BY <3>3, <1>10
      <4>2. u \notin Range(send_queue[current]) BY <3>3, <1>3
      <4>3. state[u] = "SEND_BLOCKED" <=> \E r \in Tids : u \in Range(send_queue[r])
        BY DEF IInv, TaskLists, SendQueues
      <4> QED BY <4>1, <4>2, <4>3, <2>4
    <3> QED BY <3>1, <3>2, <3>3
  <2> QED BY <2>3, <2>5, <2>6, <2>7 DEF SendQueues
<1>14. ReplyWaits'
  <2> SUFFICES ASSUME NEW u \in Tids, state'[u] # "FREE"
               PROVE  /\ state'[u] = "REPLY_BLOCKED" <=> reply_wait_tid'[u] # NoTask
                      /\ state'[u] = "REPLY_BLOCKED" => state'[reply_wait_tid'[u]] # "FREE"
    BY DEF ReplyWaits
  <2>1. CASE u \in W
    BY <2>1, <1>1, <1>10
  <2>2. CASE u \notin W
    <3>1. u # current /\ reply_wait_tid'[u] = reply_wait_tid[u]
      BY <2>2, <1>1, <1>10
    <3>2. /\ state'[u] = "REPLY_BLOCKED" <=> state[u] = "REPLY_BLOCKED"
          /\ state[u] # "FREE"
      BY <3>1, <2>2, <1>10
    <3>3. state[u] = "REPLY_BLOCKED" <=> reply_wait_tid[u] # NoTask
      BY <3>2 DEF IInv, TaskLists, ReplyWaits
    <3>4. ASSUME state[u] = "REPLY_BLOCKED" PROVE state'[reply_wait_tid[u]] # "FREE"
      <4> DEFINE v == reply_wait_tid[u]
      <4>1. v \in Tids /\ state[v] # "FREE" BY <3>2, <3>3, <3>4, <1>0 DEF IInv, TaskLists, ReplyWaits
      <4>2. v # current BY <2>2, <3>4, <1>3
      <4> QED BY <4>1, <4>2, <1>10
    <3> QED BY <3>1, <3>2, <3>3, <3>4
  <2> QED BY <2>1, <2>2
<1>15. EventWaiters'
  <2>1. \A u \in Tids : state'[u] = "EVENT_BLOCKED" <=> state[u] = "EVENT_BLOCKED"
    BY <1>2, <1>3, <1>10
  <2> QED BY <1>0, <2>1 DEF IInv, TaskLists, EventWaiters, events
<1>16. FreeList'
  <2>1. \A u \in Tids : state'[u] = "FREE" <=> state[u] = "FREE" \/ u = current
    BY <1>2, <1>3, <1>10
  <2>2. current < current_task_id
    BY <1>0, UserTask DEF Live, IInv, TaskLists, TypeOK
  <2> QED BY <1>0, <1>11, <2>1, <2>2 DEF IInv, TaskLists, FreeList
<1> QED BY <1>9, <1>12, <1>13, <1>14, <1>15, <1>16 DEF IInv, TaskLists

\* irq_dispatch: the waiters of the signalled events and the interrupted task are
\* the tasks woken; waiters and events stay matched.
LEMMA IrqInvariant ==
  ASSUME IInv, NEW E \in SUBSET EventIds, IrqDispatch(E), masked' \subseteq MaskableEvents
  PROVE  IInv'
<1> DEFINE W == Waiters(E) \cup {current}
           st == Wake(state, W)
<1>0. /\ machine = "up" /\ priority' = priority /\ priority' \in [Tids -> Priorities]
      /\ state \in [Tids -> States] /\ UNCHANGED <<tasks, ipc>>
      /\ event_wait_queue \in [EventIds -> Tids \cup {NoTask}]
      /\ event_pending \in [EventIds -> 0..UINT32_MAX]
  BY DEF IrqDispatch, tasks, IInv, TaskLists, TypeOK
<1>1. PICK wk \in WakeLists(W, EventRank(E)) : Dispatch(st, AddAll(ready, wk))
  BY DEF IrqDispatch
<1>2. /\ current \in Tids /\ state[current] = "RUNNING"
      /\ \A u \in Tids : u # current => state[u] # "RUNNING"
  BY <1>0 DEF IInv, TaskLists, TypeOK, MostUrgentRuns
<1>3. /\ W \subseteq Tids
      /\ \A u \in Waiters(E) : state[u] = "EVENT_BLOCKED"
  BY <1>0, <1>2 DEF Waiters, IInv, TaskLists, EventWaiters
<1>4. EventRank(E) \in [Tids -> Int]
  <2>1. ASSUME NEW u \in Tids, u \in Waiters(E)
        PROVE  (CHOOSE e \in E : event_wait_queue[e] = u) \in Int
    <3>1. \E e \in E : event_wait_queue[e] = u BY <2>1 DEF Waiters
    <3>2. E \subseteq Int BY DEF EventIds
    <3> QED BY <3>1, <3>2
  <2> QED BY <2>1, SizesAssumption DEF EventRank
<1>5. Agree(AddAll(ready, wk), st, priority')
  <2>1. Agree(ready, state, priority) BY DEF IInv, TaskLists, TypeOK, ReadyLists, Agree
  <2>2. \A u \in W : state[u] # "READY" BY <1>2, <1>3
  <2> HIDE DEF W
  <2> QED BY <1>0, <1>1, <1>3, <1>4, <2>1, <2>2, WakeAgrees, SizesAssumption
<1>6. /\ st \in [Tids -> States]
      /\ \A u \in Tids : st[u] = IF u \in W THEN "READY" ELSE state[u]
  BY <1>0 DEF Wake, States, LiveStates
<1>7. /\ \A u \in Tids : st[u] # "RUNNING"
      /\ \A u \in Tids : priority'[u] = IDLE_TASK_PRIORITY /\ st[u] # "FREE"
                           => st[u] = "READY"
  <2>1. \A u \in Tids : priority[u] = IDLE_TASK_PRIORITY /\ state[u] # "FREE"
                          => state[u] \in {"READY", "RUNNING"}
    BY DEF IInv, TaskLists, IdleStaysRunnable
  <2> QED BY <1>0, <1>2, <1>6, <2>1
<1>8. /\ ReadyLists' /\ MostUrgentRuns' /\ IdleStaysRunnable'
      /\ Dispatched(st, state') /\ ready' \in [Priorities -> Seq(Tids)]
      /\ current' \in Tids /\ machine' \in {"up", "panicked"}
  <2> HIDE DEF st
  <2> QED BY <1>0, <1>1, <1>5, <1>6, <1>7, SchedulingInvariants, SizesAssumption
<1>9. /\ state' \in [Tids -> States]
      /\ \A u \in Waiters(E) : state'[u] \in {"READY", "RUNNING"}
      /\ \A u \in Tids \ Waiters(E) :
           state'[u] = state[u] \/ {state[u], state'[u]} \subseteq {"READY", "RUNNING"}
  <2> HIDE DEF st
  <2> QED BY <1>2, <1>3, <1>6, <1>8 DEF Dispatched
<1>10. TypeOK'
  <2>1. x0' \in [Tids -> {-2, -1, 0}] BY DEF IInv, TaskLists, TypeOK, IrqDispatch
  <2>2. event_wait_queue' \in [EventIds -> Tids \cup {NoTask}]
    BY <1>0 DEF IrqDispatch
  <2>3. event_pending' \in [EventIds -> 0..UINT32_MAX]
    BY <1>0, SizesAssumption DEF IrqDispatch, Missed
  <2> QED BY <1>0, <1>8, <1>9, <2>1, <2>2, <2>3 DEF IInv, TaskLists, TypeOK, tasks, ipc
<1>11. SendQueues'
  BY <1>0, <1>3, <1>9 DEF IInv, TaskLists, SendQueues, ipc
<1>12. ReplyWaits'
  <2>1. \A u \in Tids : /\ state'[u] = "FREE" <=> state[u] = "FREE"
                        /\ state'[u] = "REPLY_BLOCKED" <=> state[u] = "REPLY_BLOCKED"
    BY <1>3, <1>9
  <2>2. reply_wait_tid \in [Tids -> Tids \cup {NoTask}] BY DEF IInv, TaskLists, TypeOK
  <2> QED BY <1>0, <2>1, <2>2 DEF IInv, TaskLists, ReplyWaits, ipc
<1>13. EventWaiters'
  <2>1. \A e \in EventIds : event_wait_queue'[e]
                              = IF e \in E THEN NoTask ELSE event_wait_queue[e]
    BY DEF IrqDispatch
  <2>2. \A e \in EventIds : event_wait_queue'[e] # NoTask => event_pending'[e] = 0
    BY <2>1 DEF IInv, TaskLists, EventWaiters, IrqDispatch
  <2>3. ASSUME NEW u \in Tids
        PROVE  state'[u] = "EVENT_BLOCKED" <=> \E e \in EventIds : event_wait_queue'[e] = u
    <3>0. u # NoTask BY DEF Tids, NoTask
    <3>1. CASE u \in Waiters(E)
      <4>1. PICK e \in E : event_wait_queue[e] = u BY <3>1 DEF Waiters
      <4>2. \A f \in EventIds : event_wait_queue[f] = u => f = e
        BY <4>1, <3>0 DEF IInv, TaskLists, EventWaiters
      <4>3. \A f \in EventIds : event_wait_queue'[f] # u
        BY <4>1, <4>2, <2>1, <3>0
      <4> QED BY <3>1, <1>9, <4>3
    <3>2. CASE u \notin Waiters(E)
      <4>1. \A e \in EventIds : event_wait_queue'[e] = u <=> event_wait_queue[e] = u
        BY <3>2, <2>1, <3>0 DEF Waiters
      <4>2. state'[u] = "EVENT_BLOCKED" <=> state[u] = "EVENT_BLOCKED" BY <3>2, <1>9
      <4> QED BY <4>1, <4>2 DEF IInv, TaskLists, EventWaiters
    <3> QED BY <3>1, <3>2
  <2>4. \A e, f \in EventIds :
          event_wait_queue'[e] = event_wait_queue'[f] /\ e # f => event_wait_queue'[e] = NoTask
    BY <2>1 DEF IInv, TaskLists, EventWaiters
  <2> QED BY <2>2, <2>3, <2>4 DEF EventWaiters
<1>14. FreeList'
  <2>1. \A u \in Tids : state'[u] = "FREE" <=> state[u] = "FREE" BY <1>3, <1>9
  <2> QED BY <1>0, <2>1 DEF IInv, TaskLists, FreeList, tasks
<1> QED BY <1>8, <1>10, <1>11, <1>12, <1>13, <1>14 DEF IInv, TaskLists

LEMMA StepInvariant == IInv /\ [Next]_vars => IInv'
<1> SUFFICES ASSUME IInv, [Next]_vars PROVE IInv'
  OBVIOUS
<1>1. CASE Create BY <1>1, CreateInvariant
<1>2. CASE Yield BY <1>2, YieldInvariant
<1>3. CASE Query BY <1>3, QueryInvariant
<1>4. CASE Exit BY <1>4, ExitInvariant
<1>5. CASE \E t \in Tids \cup {NoTask} : Send(t) BY <1>5, SendInvariant
<1>6. CASE Receive BY <1>6, ReceiveInvariant
<1>7. CASE \E t \in Tids \cup {NoTask} : Reply(t) BY <1>7, ReplyInvariant
<1>8. CASE \E e \in EventIds : AwaitEvent(e) BY <1>8, AwaitEventInvariant
<1>9. CASE \E e \in MaskableEvents : Unmask(e)
  <2>1. PICK e \in MaskableEvents : Unmask(e) BY <1>9
  <2> USE <2>1 DEF Unmask, tasks, ipc, sched, IInv, TaskLists
  <2>2. TypeOK' BY DEF TypeOK
  <2>3. ReadyLists' /\ SendQueues' BY DEF ReadyLists, SendQueues
  <2>4. ReplyWaits' /\ EventWaiters' BY DEF ReplyWaits, EventWaiters
  <2>5. FreeList' /\ MostUrgentRuns' BY DEF FreeList, MostUrgentRuns
  <2>6. IdleStaysRunnable' BY DEF IdleStaysRunnable
  <2> QED BY <2>2, <2>3, <2>4, <2>5, <2>6
<1>10. CASE Stop
  <2> USE <1>10 DEF Stop, tasks, ipc, events, IInv, TaskLists
  <2>1. TypeOK' BY DEF TypeOK
  <2>2. ReadyLists' /\ SendQueues' BY DEF ReadyLists, SendQueues
  <2>3. ReplyWaits' /\ EventWaiters' BY DEF ReplyWaits, EventWaiters
  <2>4. FreeList' /\ MostUrgentRuns' BY DEF FreeList, MostUrgentRuns
  <2>5. IdleStaysRunnable' BY DEF IdleStaysRunnable
  <2> QED BY <2>1, <2>2, <2>3, <2>4, <2>5
<1>11. ASSUME NEW e \in TimerEvents, TimerInterrupt(e) PROVE IInv'
  <2>1. {e} \in SUBSET EventIds BY EventsAssumption
  <2>2. masked' \subseteq MaskableEvents BY <1>11 DEF TimerInterrupt, IInv, TaskLists, TypeOK
  <2> QED BY <1>11, <2>1, <2>2, IrqInvariant DEF TimerInterrupt
<1>12. ASSUME NEW E \in SUBSET MaskableEvents, DeviceInterrupt(E) PROVE IInv'
  <2>1. E \in SUBSET EventIds BY EventsAssumption DEF MaskableEvents
  <2>2. masked' \subseteq MaskableEvents BY <1>12 DEF DeviceInterrupt, IInv, TaskLists, TypeOK
  <2> QED BY <1>12, <2>1, <2>2, IrqInvariant DEF DeviceInterrupt
<1>13. CASE Interrupt
  <2>1. CASE \E E \in SUBSET UartEvents : DeviceInterrupt(E)
    BY <2>1, <1>12 DEF MaskableEvents
  <2>2. CASE \E e \in CanEvents : DeviceInterrupt({e})
    BY <2>2, <1>12 DEF MaskableEvents
  <2> QED BY <1>13, <1>11, <2>1, <2>2 DEF Interrupt
<1>14. CASE Halted \/ UNCHANGED vars
  <2> USE <1>14 DEF Halted, vars, tasks, ipc, events, sched, IInv, TaskLists
  <2>1. TypeOK' BY DEF TypeOK
  <2>2. ReadyLists' /\ SendQueues' BY DEF ReadyLists, SendQueues
  <2>3. ReplyWaits' /\ EventWaiters' BY DEF ReplyWaits, EventWaiters
  <2>4. FreeList' /\ MostUrgentRuns' BY DEF FreeList, MostUrgentRuns
  <2>5. IdleStaysRunnable' BY DEF IdleStaysRunnable
  <2> QED BY <2>1, <2>2, <2>3, <2>4, <2>5
<1> QED BY <1>1, <1>2, <1>3, <1>4, <1>5, <1>6, <1>7, <1>8, <1>9, <1>10, <1>13, <1>14
        DEF Next, Syscall

LEMMA Invariance == Spec => []IInv
BY InitInvariant, StepInvariant, PTL DEF Spec

-----------------------------------------------------------------------------
(* The theorems *)

\* Every field of the kernel keeps its type (the TaskManager_t, TaskScheduler_t and
\* TaskDescriptor_t declarations).
THEOREM TypeCorrect == Spec => []TypeOK
BY Invariance, PTL DEF IInv, TaskLists

\* The ready lists, the send queues, the event slots and the free list always
\* agree with the task states.
THEOREM QueuesAgree == Spec => []TaskLists
BY Invariance, PTL DEF IInv, TaskLists

\* A task blocked on a reply always waits for a live task.
THEOREM RepliesCanCome == Spec => []ReplyWaits
BY Invariance, PTL DEF IInv, TaskLists

\* While the machine is up the running task is the only one and the most urgent.
THEOREM PriorityScheduling == Spec => []MostUrgentRuns
BY Invariance, PTL DEF IInv, TaskLists

\* The kernel never runs out of tasks once an idle task exists.
THEOREM NoPanic == Spec => []NeverPanics
<1>1. IInv => NeverPanics
  BY DEF IInv, TaskLists, IdleStaysRunnable, NeverPanics
<1> QED BY <1>1, Invariance, PTL

-----------------------------------------------------------------------------
(* What a step does to the tasks that wait in a Send *)

\* Two lists name the task a sender waits for, and they never disagree.
LEMMA PeerOfSender ==
  ASSUME IInv, NEW t \in Tids, NEW p \in Tids,
         \/ state[t] = "REPLY_BLOCKED" /\ reply_wait_tid[t] = p
         \/ t \in Range(send_queue[p])
  PROVE  p = CHOOSE r \in Tids : \/ state[t] = "REPLY_BLOCKED" /\ reply_wait_tid[t] = r
                                 \/ t \in Range(send_queue[r])
<1>1. \A r \in Tids : t \in Range(send_queue[r]) => state[t] = "SEND_BLOCKED"
  BY DEF IInv, TaskLists, SendQueues
<1>2. \A r, q \in Tids : t \in Range(send_queue[r]) /\ t \in Range(send_queue[q]) => r = q
  BY DEF IInv, TaskLists, SendQueues
<1> QED BY <1>1, <1>2

\* Dispatch changes the state the caller prepared for at most one task, to RUNNING.
LEMMA DispatchRuns ==
  ASSUME NEW st \in [Tids -> States], NEW rdy, Dispatch(st, rdy), NEW t \in Tids
  PROVE  state'[t] \in {st[t], "RUNNING"}
BY DEF Dispatch

\* The caller of a syscall and the types the lemmas below use.
LEMMA Caller ==
  ASSUME IInv, InUserTask
  PROVE  /\ current \in Tids /\ state[current] = "RUNNING" /\ NoTask \notin Tids
         /\ state \in [Tids -> States] /\ x0 \in [Tids -> {-2, -1, 0}]
         /\ send_queue \in [Tids -> Seq(Tids)]
         /\ reply_wait_tid \in [Tids -> Tids \cup {NoTask}]
<1>1. NoTask \notin Tids BY DEF NoTask, Tids
<1> QED BY <1>1, UserTask DEF IInv, TypeOK

\* A sender still queued, or still owed a reply, is still blocked.
LEMMA StillBlocked ==
  ASSUME IInv', NEW t \in Tids
  PROVE  /\ \A r \in Tids : t \in Range(send_queue'[r]) => state'[t] = "SEND_BLOCKED"
         /\ reply_wait_tid'[t] # NoTask /\ state'[t] # "FREE" => state'[t] = "REPLY_BLOCKED"
BY DEF IInv, TaskLists, SendQueues, ReplyWaits

\* Where a blocked sender is linked.
LEMMA BlockedSender ==
  ASSUME IInv, NEW t \in Tids, state[t] \in {"SEND_BLOCKED", "REPLY_BLOCKED"}
  PROVE  /\ state[t] = "SEND_BLOCKED" => \E r \in Tids : t \in Range(send_queue[r])
         /\ state[t] = "REPLY_BLOCKED" => reply_wait_tid[t] \in Tids
<1>1. reply_wait_tid[t] \in Tids \cup {NoTask}
  BY DEF IInv, TypeOK
<1> QED BY <1>1 DEF IInv, TaskLists, SendQueues, ReplyWaits

\* A step that leaves the queues and the reply waits alone releases nobody.
LEMMA IpcAlone ==
  ASSUME IInv, IInv', ipc' = ipc, NEW t \in Tids,
         state[t] \in {"SEND_BLOCKED", "REPLY_BLOCKED"}, state'[t] # "FREE"
  PROVE  state'[t] = state[t]
<1>1. NoTask \notin Tids BY DEF NoTask, Tids
<1> QED BY <1>1, BlockedSender, StillBlocked DEF ipc

\* (the body of SendersReleased)
SenderStep ==
  \A t \in Tids :
    state[t] \in {"SEND_BLOCKED", "REPLY_BLOCKED"} /\ state'[t] # state[t] => ReleasedByPeer(t)

LEMMA CreateReleases == ASSUME IInv, IInv', Create PROVE SenderStep
<1> SUFFICES ASSUME NEW u \in Tids, state[u] \in {"SEND_BLOCKED", "REPLY_BLOCKED"}
             PROVE  state'[u] = state[u]
  BY DEF SenderStep
<1>0. /\ state \in [Tids -> States] /\ current \in Tids /\ state[current] = "RUNNING"
      /\ InUserTask /\ NoTask \notin Tids
  BY Caller DEF Create
<1>1. ASSUME NEW p \in Priorities, NEW t \in Tids, CreateTask(p, t) PROVE state'[u] = state[u]
  <2>1. state[t] = "FREE"
    <3>1. CASE t = current_task_id
      BY <3>1 DEF IInv, TaskLists, FreeList, Tids
    <3>2. CASE free_list # <<>> /\ t = Head(free_list)
      <4>1. t \in Range(free_list) BY <3>2, TailRange DEF IInv, TypeOK
      <4> QED BY <4>1 DEF IInv, TaskLists, FreeList
    <3> QED BY <3>1, <3>2, <1>1 DEF CreateTask, Alloc
  <2>2. send_queue[t] = <<>> BY <2>1 DEF IInv, TaskLists, SendQueues
  <2>3. u # t /\ u # current BY <2>1, <1>0
  <2>4. /\ reply_wait_tid'[u] = reply_wait_tid[u]
        /\ \A r \in Tids : u \in Range(send_queue[r]) => send_queue'[r] = send_queue[r]
    <3>1. Range(<<>>) = {} BY DEF Range
    <3> QED BY <1>1, <2>2, <2>3, <3>1 DEF CreateTask, IInv, TypeOK
  <2> DEFINE st == [state EXCEPT ![t] = "READY", ![current] = "READY"]
  <2>5. st \in [Tids -> States] /\ st[u] = state[u]
    BY <1>0, <2>3 DEF States, LiveStates
  <2>6. Dispatch(st, AddTask(Enqueue(ready, p, t), current))
    BY <1>1 DEF CreateTask
  <2> HIDE DEF st
  <2>7. state'[u] # "FREE" BY <2>5, <2>6, DispatchRuns
  <2> QED BY <1>0, <2>4, <2>7, BlockedSender, StillBlocked
<1>2. CASE Return(-2, x0, state, ready) /\ UNCHANGED ipc
  <2> DEFINE st == [state EXCEPT ![current] = "READY"]
  <2>1. st \in [Tids -> States] /\ st[u] # "FREE"
    BY <1>0 DEF States, LiveStates
  <2>2. Dispatch(st, AddTask(ready, current)) BY <1>2 DEF Return
  <2> HIDE DEF st
  <2>3. state'[u] # "FREE" BY <2>1, <2>2, DispatchRuns
  <2> QED BY <2>3, <1>2, IpcAlone
<1> QED BY <1>1, <1>2 DEF Create

\* A caller that keeps running, the queues untouched.
LEMMA ReturnReleases ==
  ASSUME IInv, IInv', InUserTask, ipc' = ipc,
         Dispatch([state EXCEPT ![current] = "READY"], AddTask(ready, current))
  PROVE  SenderStep
<1> SUFFICES ASSUME NEW u \in Tids, state[u] \in {"SEND_BLOCKED", "REPLY_BLOCKED"}
             PROVE  state'[u] = state[u]
  BY DEF SenderStep
<1> DEFINE st == [state EXCEPT ![current] = "READY"]
<1>1. st \in [Tids -> States] /\ st[u] # "FREE"
  BY UserTask DEF States, LiveStates, IInv, TypeOK
<1> HIDE DEF st
<1>2. Dispatch(st, AddTask(ready, current)) BY DEF st
<1>3. state'[u] # "FREE" BY <1>1, <1>2, DispatchRuns
<1> QED BY <1>3, IpcAlone

LEMMA ExitReleases == ASSUME IInv, IInv', Exit PROVE SenderStep
<1> SUFFICES ASSUME NEW u \in Tids, state[u] \in {"SEND_BLOCKED", "REPLY_BLOCKED"}
             PROVE  state'[u] = state[u] \/ ReleasedByPeer(u)
  BY DEF SenderStep
<1> DEFINE W == Senders(current) \cup ReplyWaiters(current)
           st == [Wake(state, W) EXCEPT ![current] = "FREE"]
<1>0. /\ state \in [Tids -> States] /\ current \in Tids /\ state[current] = "RUNNING"
      /\ NoTask \notin Tids /\ u # current
  BY Caller DEF Exit
<1>1. \E rdy : Dispatch(st, rdy)
  BY DEF Exit
<1>2. st \in [Tids -> States] /\ st[u] = IF u \in W THEN "READY" ELSE state[u]
  BY <1>0 DEF Wake, States, LiveStates
<1>3. state'[u] \in {st[u], "RUNNING"}
  <2> HIDE DEF st
  <2> QED BY <1>1, <1>2, DispatchRuns
<1>4. CASE u \in W
  <2>1. x0'[u] = -2 /\ state'[u] \in {"READY", "RUNNING"}
    BY <1>2, <1>3, <1>4 DEF Exit
  <2>2. state'[current] = "FREE"
    <3>1. current \in Range(free_list')
      <4>1. free_list' = <<current>> \o free_list /\ free_list \in Seq(Tids)
        BY DEF Exit, IInv, TypeOK
      <4>2. <<current>> \in Seq(Tids) /\ current \in Range(<<current>>)
        BY <1>0 DEF Range
      <4>3. Range(<<current>> \o free_list) = Range(<<current>>) \cup Range(free_list)
        <5>1. PICK c, fl : c = <<current>> /\ fl = free_list
          OBVIOUS
        <5>2. c \in Seq(Tids) /\ fl \in Seq(Tids)
          BY <4>1, <4>2, <5>1
        <5>3. Range(c \o fl) = Range(c) \cup Range(fl)
          BY <5>2, ConcatRange
        <5> QED BY <5>1, <5>3
      <4> QED BY <4>1, <4>2, <4>3
    <3> QED BY <3>1, <1>0 DEF IInv, TaskLists, FreeList
  <2>3. \/ state[u] = "REPLY_BLOCKED" /\ reply_wait_tid[u] = current
        \/ u \in Range(send_queue[current])
    BY <1>4 DEF Senders, ReplyWaiters
  <2> QED BY <2>1, <2>2, <2>3, <1>0, PeerOfSender DEF ReleasedByPeer
<1>5. CASE u \notin W
  <2>1. reply_wait_tid'[u] = reply_wait_tid[u]
    BY <1>5 DEF Exit, IInv, TypeOK
  <2>2. \A r \in Tids : u \in Range(send_queue[r]) => send_queue'[r] = send_queue[r]
    BY <1>5 DEF Exit, IInv, TypeOK, Senders
  <2>3. state'[u] # "FREE" BY <1>2, <1>3, <1>5
  <2> QED BY <1>0, <2>1, <2>2, <2>3, BlockedSender, StillBlocked
<1> QED BY <1>4, <1>5

LEMMA SendReleases == ASSUME IInv, IInv', NEW t \in Tids \cup {NoTask}, Send(t) PROVE SenderStep
<1> USE DEF Send
<1>0. /\ state \in [Tids -> States] /\ current \in Tids /\ state[current] = "RUNNING"
      /\ InUserTask /\ NoTask \notin Tids
  BY Caller
<1>1. CASE ~Live(t)
  BY <1>0, <1>1, ReturnReleases DEF Return
<1>2. CASE Live(t)
  <2> SUFFICES ASSUME NEW u \in Tids, state[u] \in {"SEND_BLOCKED", "REPLY_BLOCKED"}
               PROVE  state'[u] = state[u]
    BY DEF SenderStep
  <2>0. t \in Tids /\ u # current
    BY <1>0, <1>2 DEF Live, NoTask
  <2>1. PICK st, rdy : st \in [Tids -> States] /\ Dispatch(st, rdy) /\ st[u] # "FREE"
    <3>1. CASE state[t] = "RECEIVE_BLOCKED"
      <4> DEFINE s2 == [state EXCEPT ![current] = "REPLY_BLOCKED", ![t] = "READY"]
      <4>1. s2 \in [Tids -> States] /\ s2[u] # "FREE" BY <1>0 DEF States, LiveStates
      <4>2. Dispatch(s2, AddTask(ready, t)) BY <1>2, <3>1
      <4> QED BY <4>1, <4>2
    <3>2. CASE state[t] # "RECEIVE_BLOCKED"
      <4> DEFINE s2 == [state EXCEPT ![current] = "SEND_BLOCKED"]
      <4>1. s2 \in [Tids -> States] /\ s2[u] # "FREE" BY <1>0 DEF States, LiveStates
      <4>2. Dispatch(s2, ready) BY <1>2, <3>2
      <4> QED BY <4>1, <4>2
    <3> QED BY <3>1, <3>2
  <2>2. state'[u] # "FREE" BY <2>1, DispatchRuns
  <2>3. reply_wait_tid'[u] = reply_wait_tid[u]
    BY <1>2, <2>0 DEF IInv, TypeOK
  <2>4. \A r \in Tids : u \in Range(send_queue[r]) => u \in Range(send_queue'[r])
    <3> SUFFICES ASSUME NEW r \in Tids, u \in Range(send_queue[r]) PROVE u \in Range(send_queue'[r])
      OBVIOUS
    <3>1. send_queue \in [Tids -> Seq(Tids)] BY DEF IInv, TypeOK
    <3>2. send_queue'[r] \in {send_queue[r], Append(send_queue[r], current)}
      BY <3>1, <1>2
    <3>3. Range(Append(send_queue[r], current)) = Range(send_queue[r]) \cup {current}
      BY <3>1, <1>0, AppendRange
    <3> QED BY <3>2, <3>3
  <2> QED BY <1>0, <2>2, <2>3, <2>4, BlockedSender, StillBlocked
<1> QED BY <1>1, <1>2

LEMMA ReceiveReleases == ASSUME IInv, IInv', Receive PROVE SenderStep
<1> SUFFICES ASSUME NEW u \in Tids, state[u] \in {"SEND_BLOCKED", "REPLY_BLOCKED"}
             PROVE  state'[u] = state[u] \/ ReleasedByPeer(u)
  BY DEF SenderStep
<1>0. /\ state \in [Tids -> States] /\ current \in Tids /\ state[current] = "RUNNING"
      /\ NoTask \notin Tids /\ u # current
      /\ send_queue \in [Tids -> Seq(Tids)] /\ reply_wait_tid \in [Tids -> Tids \cup {NoTask}]
  BY Caller DEF Receive
<1>1. CASE send_queue[current] # <<>>
  <2> DEFINE h == Head(send_queue[current])
             st == [state EXCEPT ![h] = "REPLY_BLOCKED"]
             s2 == [st EXCEPT ![current] = "READY"]
  <2>1. /\ h \in Tids /\ h \in Range(send_queue[current])
        /\ Range(send_queue[current]) = Range(Tail(send_queue[current])) \cup {h}
    BY <1>0, <1>1, TailRange
  <2>2. /\ reply_wait_tid' = [reply_wait_tid EXCEPT ![h] = current]
        /\ send_queue' = [send_queue EXCEPT ![current] = Tail(@)]
        /\ Dispatch(s2, AddTask(ready, current))
    BY <1>1 DEF Receive, Return
  <2>3. s2 \in [Tids -> States] /\ s2[u] = IF u = h THEN "REPLY_BLOCKED" ELSE state[u]
    BY <1>0, <2>1 DEF States, LiveStates
  <2>3a. h = Head(send_queue[current]) OBVIOUS
  <2> HIDE DEF s2, st, h
  <2>4. state'[u] # "FREE" BY <2>2, <2>3, DispatchRuns
  <2>5. CASE u = h
    <3>1. state[u] = "SEND_BLOCKED" BY <2>1, <2>5, <1>0 DEF IInv, TaskLists, SendQueues
    <3>2. reply_wait_tid'[u] # NoTask BY <2>2, <2>5, <2>1, <1>0
    <3>3. state'[u] = "REPLY_BLOCKED" BY <3>2, <2>4, StillBlocked
    <3>4. current = CHOOSE r \in Tids : \/ state[u] = "REPLY_BLOCKED" /\ reply_wait_tid[u] = r
                                        \/ u \in Range(send_queue[r])
      BY <2>1, <2>5, <1>0, PeerOfSender
    <3> QED BY <3>1, <3>3, <3>4, <2>5, <2>3a DEF ReleasedByPeer
  <2>6. CASE u # h
    <3>1. reply_wait_tid'[u] = reply_wait_tid[u] BY <2>2, <2>6, <2>1, <1>0
    <3>2. \A r \in Tids : u \in Range(send_queue[r]) => u \in Range(send_queue'[r])
      BY <2>1, <2>2, <2>6, <1>0
    <3> QED BY <1>0, <2>4, <3>1, <3>2, BlockedSender, StillBlocked
  <2> QED BY <2>5, <2>6
<1>2. CASE send_queue[current] = <<>>
  <2> DEFINE st == [state EXCEPT ![current] = "RECEIVE_BLOCKED"]
  <2>1. st \in [Tids -> States] /\ st[u] # "FREE" BY <1>0 DEF States, LiveStates
  <2>2. Dispatch(st, ready) /\ ipc' = ipc BY <1>2 DEF Receive
  <2> HIDE DEF st
  <2>3. state'[u] # "FREE" BY <2>1, <2>2, DispatchRuns
  <2> QED BY <2>2, <2>3, IpcAlone
<1> QED BY <1>1, <1>2

LEMMA ReplyReleases == ASSUME IInv, IInv', NEW t \in Tids \cup {NoTask}, Reply(t) PROVE SenderStep
<1>0. /\ state \in [Tids -> States] /\ current \in Tids /\ state[current] = "RUNNING"
      /\ InUserTask /\ NoTask \notin Tids /\ x0 \in [Tids -> {-2, -1, 0}]
      /\ reply_wait_tid \in [Tids -> Tids \cup {NoTask}]
  BY Caller DEF Reply
<1>1. CASE ipc' = ipc /\ Dispatch([state EXCEPT ![current] = "READY"], AddTask(ready, current))
  BY <1>0, <1>1, ReturnReleases
<1>2. CASE /\ Live(t) /\ CanReply(t)
           /\ reply_wait_tid' = [reply_wait_tid EXCEPT ![t] = NoTask]
           /\ Return(0, [x0 EXCEPT ![t] = 0], [state EXCEPT ![t] = "READY"], AddTask(ready, t))
           /\ UNCHANGED send_queue
  <2> SUFFICES ASSUME NEW u \in Tids, state[u] \in {"SEND_BLOCKED", "REPLY_BLOCKED"}
               PROVE  state'[u] = state[u] \/ ReleasedByPeer(u)
    BY DEF SenderStep
  <2>1. /\ t \in Tids /\ t # current /\ u # current
        /\ state[t] = "REPLY_BLOCKED" /\ reply_wait_tid[t] = current
    BY <1>0, <1>2 DEF Live, CanReply, NoTask
  <2> DEFINE s1 == [state EXCEPT ![t] = "READY"]
             s2 == [s1 EXCEPT ![current] = "READY"]
  <2>2. Dispatch(s2, AddTask(AddTask(ready, t), current)) BY <1>2 DEF Return
  <2>3. /\ s2 \in [Tids -> States] /\ s2[u] = IF u = t THEN "READY" ELSE state[u]
        /\ s2[current] = "READY"
    BY <1>0, <2>1 DEF States, LiveStates
  <2> HIDE DEF s1, s2
  <2>4. state'[u] \in {s2[u], "RUNNING"} /\ state'[current] \in {"READY", "RUNNING"}
    BY <2>2, <2>3, <1>0, DispatchRuns
  <2>5. CASE u = t
    <3>1. x0'[u] = 0 BY <1>2, <2>5, <1>0, <2>1 DEF Return
    <3>2. current = CHOOSE r \in Tids : \/ state[u] = "REPLY_BLOCKED" /\ reply_wait_tid[u] = r
                                        \/ u \in Range(send_queue[r])
      BY <2>1, <2>5, <1>0, PeerOfSender
    <3> QED BY <3>1, <3>2, <2>1, <2>3, <2>4, <2>5 DEF ReleasedByPeer
  <2>6. CASE u # t
    <3>1. reply_wait_tid'[u] = reply_wait_tid[u] /\ send_queue' = send_queue
      BY <1>0, <1>2, <2>6
    <3> QED BY <1>0, <3>1, <2>3, <2>4, <2>6, BlockedSender, StillBlocked
  <2> QED BY <2>5, <2>6
<1> QED BY <1>1, <1>2 DEF Reply, Return

\* An interrupt wakes the waiters of events and the interrupted task, no sender.
LEMMA IrqReleases == ASSUME IInv, IInv', NEW E \in SUBSET EventIds, IrqDispatch(E) PROVE SenderStep
<1> SUFFICES ASSUME NEW u \in Tids, state[u] \in {"SEND_BLOCKED", "REPLY_BLOCKED"}
             PROVE  state'[u] = state[u]
  BY DEF SenderStep
<1> DEFINE st == Wake(state, Waiters(E) \cup {current})
<1>1. \E rdy : Dispatch(st, rdy) BY DEF IrqDispatch
<1>2. st \in [Tids -> States] /\ st[u] # "FREE"
  BY DEF Wake, States, LiveStates, IInv, TypeOK
<1> HIDE DEF st
<1>3. state'[u] # "FREE" BY <1>1, <1>2, DispatchRuns
<1> QED BY <1>3, IpcAlone DEF IrqDispatch

\* A sender is released only as Send promises (kern_Send, kern_Receive, kern_Reply,
\* kern_Exit): its queue or its server decides when, and an exit is told to it.
THEOREM SendersReleasedAsPromised == Spec => SendersReleased
<1>1. ASSUME IInv, IInv', [Next]_vars
      PROVE  [SenderStep]_vars
  <2>1. CASE Create BY <1>1, <2>1, CreateReleases
  <2>2. CASE Yield \/ Query BY <1>1, <2>2, ReturnReleases DEF Yield, Query, Return
  <2>3. CASE Exit BY <1>1, <2>3, ExitReleases
  <2>4. CASE \E t \in Tids \cup {NoTask} : Send(t) BY <1>1, <2>4, SendReleases
  <2>5. CASE Receive BY <1>1, <2>5, ReceiveReleases
  <2>6. CASE \E t \in Tids \cup {NoTask} : Reply(t) BY <1>1, <2>6, ReplyReleases
  <2>7. CASE \E e \in EventIds : AwaitEvent(e)
    <3>1. PICK e \in EventIds : AwaitEvent(e) BY <2>7
    <3>2. CASE event_wait_queue[e] # NoTask \/ event_pending[e] > 0
      BY <1>1, <3>1, <3>2, ReturnReleases DEF AwaitEvent, Return
    <3>3. CASE Dispatch([state EXCEPT ![current] = "EVENT_BLOCKED"], ready)
      <4> SUFFICES ASSUME NEW u \in Tids, state[u] \in {"SEND_BLOCKED", "REPLY_BLOCKED"}
                   PROVE  state'[u] = state[u]
        BY DEF SenderStep
      <4> DEFINE st == [state EXCEPT ![current] = "EVENT_BLOCKED"]
      <4>1. st \in [Tids -> States] /\ st[u] # "FREE"
        BY <1>1 DEF States, LiveStates, IInv, TypeOK
      <4>2. Dispatch(st, ready) BY <3>3
      <4> HIDE DEF st
      <4>3. state'[u] # "FREE" BY <4>1, <4>2, DispatchRuns
      <4> QED BY <1>1, <4>3, <3>1, IpcAlone DEF AwaitEvent
    <3> QED BY <3>1, <3>2, <3>3 DEF AwaitEvent
  <2>8. CASE (\E e \in MaskableEvents : Unmask(e)) \/ Stop
    BY <2>8 DEF Unmask, Stop, sched, SenderStep
  <2>9. CASE \E e \in TimerEvents : TimerInterrupt(e)
    <3>1. \A e \in TimerEvents : {e} \in SUBSET EventIds BY EventsAssumption
    <3> QED BY <1>1, <2>9, <3>1, IrqReleases DEF TimerInterrupt
  <2>10. CASE \/ \E E \in SUBSET UartEvents : DeviceInterrupt(E)
              \/ \E e \in CanEvents : DeviceInterrupt({e})
    <3>1. PICK E \in SUBSET EventIds : DeviceInterrupt(E) BY <2>10, EventsAssumption
    <3> QED BY <1>1, <3>1, IrqReleases DEF DeviceInterrupt
  <2>11. CASE Halted \/ UNCHANGED vars BY <2>11 DEF Halted
  <2> QED BY <1>1, <2>1, <2>2, <2>3, <2>4, <2>5, <2>6, <2>7, <2>8, <2>9, <2>10, <2>11
          DEF Next, Syscall, Interrupt
<1>2. [SenderStep]_vars
        => [\A t \in Tids :
              state[t] \in {"SEND_BLOCKED", "REPLY_BLOCKED"} /\ state'[t] # state[t]
                => ReleasedByPeer(t)]_vars
  BY DEF SenderStep
<1> QED BY <1>1, <1>2, Invariance, PTL DEF Spec, SendersReleased

-----------------------------------------------------------------------------
(* The order inside a ready list *)

\* (the sequence s begins with pre, element by element)
Longer(s, pre) ==
  Len(pre) <= Len(s) /\ \A i \in 1..Len(pre) : s[i] = pre[i]

LEMMA LongerStartsWith ==
  ASSUME NEW S, NEW s \in Seq(S), NEW pre \in Seq(S), Longer(s, pre)
  PROVE  StartsWith(s, pre)
<1> DEFINE sub == SubSeq(s, 1, Len(pre))
<1>1. Len(pre) \in Nat /\ Len(s) \in Nat /\ Len(pre) <= Len(s)
  BY LenProperties DEF Longer
<1>2. \A i \in 1..Len(pre) : s[i] \in S
  BY <1>1, ElementOfSeq
<1>3. /\ sub \in Seq(S) /\ Len(sub) = IF 1 <= Len(pre) THEN Len(pre) - 1 + 1 ELSE 0
      /\ \A i \in 1..(Len(pre) - 1 + 1) : sub[i] = s[1 + i - 1]
  BY <1>1, <1>2, SubSeqProperties
<1> HIDE DEF sub
<1>4. Len(sub) = Len(pre) /\ \A i \in 1..Len(pre) : sub[i] = s[i]
  BY <1>1, <1>3
<1>5. sub = pre
  BY <1>3, <1>4, SeqEqual DEF Longer
<1> QED BY <1>1, <1>5 DEF StartsWith, sub

LEMMA ConcatLonger ==
  ASSUME NEW S, NEW s \in Seq(S), NEW x \in Seq(S)
  PROVE  s \o x \in Seq(S) /\ Longer(s \o x, s)
<1> DEFINE c == s \o x
           n == Len(s)
           m == Len(x)
<1>1. /\ n \in Nat /\ m \in Nat /\ c \in Seq(S) /\ Len(c) = n + m
      /\ \A i \in 1..(n + m) : c[i] = IF i <= n THEN s[i] ELSE x[i - n]
  BY LenProperties, ConcatProperties
<1> HIDE DEF c, n, m
<1>2. n <= n + m /\ \A i \in 1..n : i \in 1..(n + m) /\ i <= n
  <2>1. n \in Nat /\ m \in Nat BY <1>1
  <2> QED BY <2>1
<1>3. \A i \in 1..n : c[i] = s[i]
  BY <1>1, <1>2
<1>4. n <= Len(c)
  BY <1>1, <1>2
<1> QED BY <1>1, <1>3, <1>4 DEF Longer, c, n

\* The ready lists rdy are the current ones with tasks added behind.
Grown(rdy) ==
  /\ rdy \in [Priorities -> Seq(Tids)]
  /\ \A p \in Priorities : Longer(rdy[p], ready[p])

LEMMA GrownHere == ASSUME IInv PROVE Grown(ready)
<1>1. ready \in [Priorities -> Seq(Tids)] BY DEF IInv, TypeOK
<1>2. \A p \in Priorities : Len(ready[p]) \in Nat BY <1>1, LenProperties
<1> QED BY <1>1, <1>2 DEF Grown, Longer

LEMMA EnqueueGrows ==
  ASSUME IInv, NEW rdy, Grown(rdy), NEW p \in Priorities, NEW t \in Tids
  PROVE  Grown(Enqueue(rdy, p, t))
<1>1. rdy \in [Priorities -> Seq(Tids)] /\ ready \in [Priorities -> Seq(Tids)]
  BY DEF Grown, IInv, TypeOK
<1>2. ASSUME NEW q \in Priorities
      PROVE  /\ Append(rdy[q], t) \in Seq(Tids)
             /\ Longer(Append(rdy[q], t), ready[q])
  <2>1. Len(rdy[q]) \in Nat /\ Len(ready[q]) \in Nat
    BY <1>1, LenProperties
  <2>2. /\ Append(rdy[q], t) \in Seq(Tids) /\ Len(Append(rdy[q], t)) = Len(rdy[q]) + 1
        /\ \A i \in 1..Len(rdy[q]) : Append(rdy[q], t)[i] = rdy[q][i]
    BY <1>1, AppendProperties
  <2>3. Len(ready[q]) <= Len(rdy[q]) /\ \A i \in 1..Len(ready[q]) : rdy[q][i] = ready[q][i]
    BY DEF Grown, Longer
  <2> QED BY <2>1, <2>2, <2>3 DEF Longer
<1> QED BY <1>1, <1>2 DEF Grown, Enqueue

LEMMA WakeListsType ==
  ASSUME NEW W \in SUBSET Tids, NEW rank, NEW wk \in WakeLists(W, rank), NEW p \in Priorities
  PROVE  wk[p] \in Seq(Tids)
<1>1. wk[p] \in [1..Cardinality(Of(W, p)) -> Of(W, p)]
  BY DEF WakeLists, InOrder
<1>2. IsFiniteSet(Of(W, p)) /\ Of(W, p) \subseteq Tids
  <2>1. IsFiniteSet(Tids) BY FS_Interval, SizesAssumption DEF Tids
  <2> QED BY <2>1, FS_Subset DEF Of
<1>3. Cardinality(Of(W, p)) \in Nat BY <1>2, FS_CardinalityType
<1>4. wk[p] \in [1..Cardinality(Of(W, p)) -> Tids] BY <1>1, <1>2
<1> QED BY <1>3, <1>4, SeqDef

LEMMA WakeGrows ==
  ASSUME IInv, NEW W \in SUBSET Tids, NEW rank, NEW wk \in WakeLists(W, rank)
  PROVE  Grown(AddAll(ready, wk))
<1>1. ready \in [Priorities -> Seq(Tids)] BY DEF IInv, TypeOK
<1>2. ASSUME NEW q \in Priorities
      PROVE  /\ ready[q] \o wk[q] \in Seq(Tids)
             /\ Longer(ready[q] \o wk[q], ready[q])
  <2>1. wk[q] \in Seq(Tids) BY WakeListsType
  <2> QED BY <1>1, <2>1, ConcatLonger
<1> QED BY <1>1, <1>2 DEF Grown, AddAll

\* (the body of RoundRobin)
InTurn ==
  \A p \in Priorities :
    \/ StartsWith(ready'[p], ready[p])
    \/ /\ ready[p] # <<>>
       /\ current' = Head(ready[p])
       /\ StartsWith(ready'[p], Tail(ready[p]))

LEMMA DispatchInTurn ==
  ASSUME IInv, NEW st, NEW rdy, Grown(rdy), Dispatch(st, rdy)
  PROVE  InTurn
<1> SUFFICES ASSUME NEW p \in Priorities
             PROVE  \/ StartsWith(ready'[p], ready[p])
                    \/ /\ ready[p] # <<>>
                       /\ current' = Head(ready[p])
                       /\ StartsWith(ready'[p], Tail(ready[p]))
  BY DEF InTurn
<1>1. rdy[p] \in Seq(Tids) /\ ready[p] \in Seq(Tids) /\ Longer(rdy[p], ready[p])
  BY DEF Grown, IInv, TypeOK
<1>2. CASE ready'[p] = rdy[p]
  BY <1>1, <1>2, LongerStartsWith
<1>3. CASE rdy[p] # <<>> /\ current' = Head(rdy[p]) /\ ready'[p] = Tail(rdy[p])
  <2>1. /\ Tail(rdy[p]) \in Seq(Tids) /\ Len(Tail(rdy[p])) = Len(rdy[p]) - 1
        /\ \A i \in 1..Len(Tail(rdy[p])) : Tail(rdy[p])[i] = rdy[p][i + 1]
        /\ Len(rdy[p]) \in Nat \ {0} /\ Len(ready[p]) \in Nat
    BY <1>1, <1>3, HeadTailProperties, EmptySeq, LenProperties
  <2>2. CASE ready[p] = <<>>
    <3>1. Longer(ready'[p], ready[p]) BY <1>3, <2>1, <2>2 DEF Longer
    <3> QED BY <1>1, <1>3, <2>1, <3>1, LongerStartsWith
  <2>3. CASE ready[p] # <<>>
    <3>1. /\ Tail(ready[p]) \in Seq(Tids) /\ Len(Tail(ready[p])) = Len(ready[p]) - 1
          /\ \A i \in 1..Len(Tail(ready[p])) : Tail(ready[p])[i] = ready[p][i + 1]
          /\ Len(ready[p]) \in Nat \ {0}
      BY <1>1, <2>3, HeadTailProperties, EmptySeq, LenProperties
    <3>2. Len(ready[p]) <= Len(rdy[p]) /\ \A i \in 1..Len(ready[p]) : rdy[p][i] = ready[p][i]
      BY <1>1 DEF Longer
    <3>3. Head(rdy[p]) = Head(ready[p])
      <4>1. 1 \in 1..Len(ready[p]) BY <3>1
      <4>2. rdy[p][1] = ready[p][1] BY <3>2, <4>1
      <4> QED BY <4>2, <1>1, <1>3, <2>3
    <3>4. Longer(Tail(rdy[p]), Tail(ready[p]))
      <4>1. Len(Tail(ready[p])) <= Len(Tail(rdy[p])) BY <2>1, <3>1, <3>2
      <4>2. ASSUME NEW i \in 1..Len(Tail(ready[p])) PROVE Tail(rdy[p])[i] = Tail(ready[p])[i]
        <5>1. i + 1 \in 1..Len(ready[p]) /\ i \in 1..Len(Tail(rdy[p])) BY <2>1, <3>1, <3>2
        <5> QED BY <5>1, <2>1, <3>1, <3>2
      <4> QED BY <4>1, <4>2 DEF Longer
    <3> QED BY <1>3, <2>1, <2>3, <3>1, <3>3, <3>4, LongerStartsWith
  <2> QED BY <2>2, <2>3
<1>4. rdy \in [Priorities -> Seq(Tids)] BY DEF Grown
<1> QED BY <1>2, <1>3, <1>4 DEF Dispatch, Runnable

LEMMA ReturnInTurn ==
  ASSUME IInv, NEW st, Dispatch(st, AddTask(ready, current))
  PROVE  InTurn
<1>1. current \in Tids /\ priority[current] \in Priorities
  BY DEF IInv, TypeOK
<1>2. Grown(AddTask(ready, current))
  BY <1>1, GrownHere, EnqueueGrows DEF AddTask
<1> QED BY <1>2, DispatchInTurn

LEMMA ReadyUnchangedInTurn == ASSUME IInv, ready' = ready PROVE InTurn
<1>1. ASSUME NEW p \in Priorities PROVE StartsWith(ready'[p], ready[p])
  <2>1. ready[p] \in Seq(Tids) /\ Longer(ready[p], ready[p])
    BY GrownHere DEF Grown
  <2> QED BY <2>1, LongerStartsWith
<1> QED BY <1>1 DEF InTurn

LEMMA IrqInTurn == ASSUME IInv, NEW E \in SUBSET EventIds, IrqDispatch(E) PROVE InTurn
<1>1. Waiters(E) \cup {current} \in SUBSET Tids
  BY DEF Waiters, IInv, TypeOK
<1> QED BY <1>1, WakeGrows, DispatchInTurn DEF IrqDispatch

\* Tasks of one priority are served in the order they became ready, whichever syscall
\* or interrupt made them so (task_list_append, task_list_pop_left, schedule).
THEOREM EqualsServedInOrder == Spec => RoundRobin
<1>1. ASSUME IInv, [Next]_vars PROVE [InTurn]_vars
  <2>0. /\ current \in Tids /\ priority \in [Tids -> Priorities]
        /\ \A t \in Tids : Grown(AddTask(ready, t))
    <3>1. current \in Tids /\ priority \in [Tids -> Priorities] BY <1>1 DEF IInv, TypeOK
    <3> QED BY <1>1, <3>1, GrownHere, EnqueueGrows DEF AddTask
  <2>1. CASE Create
    <3>1. ASSUME NEW p \in Priorities, NEW t \in Tids, CreateTask(p, t) PROVE InTurn
      <4>1. Grown(Enqueue(ready, p, t)) BY <1>1, GrownHere, EnqueueGrows
      <4>2. Grown(AddTask(Enqueue(ready, p, t), current))
        BY <1>1, <2>0, <4>1, EnqueueGrows DEF AddTask
      <4> QED BY <1>1, <3>1, <4>2, DispatchInTurn DEF CreateTask
    <3> QED BY <1>1, <2>1, <3>1, ReturnInTurn DEF Create, Return
  <2>2. CASE Yield \/ Query BY <1>1, <2>2, ReturnInTurn DEF Yield, Query, Return
  <2>3. CASE Exit
    <3>1. Senders(current) \cup ReplyWaiters(current) \in SUBSET Tids
      <4>1. send_queue[current] \in Seq(Tids) BY <1>1 DEF IInv, TypeOK
      <4> QED BY <4>1, RangeOfSeq DEF Senders, ReplyWaiters
    <3> QED BY <1>1, <2>3, <3>1, WakeGrows, DispatchInTurn DEF Exit
  <2>4. CASE \E t \in Tids \cup {NoTask} : Send(t)
    <3>1. PICK t \in Tids \cup {NoTask} : Send(t) BY <2>4
    <3>2. Live(t) => t \in Tids BY DEF Live, NoTask, Tids
    <3>3. Grown(ready) BY <1>1, GrownHere
    <3> QED BY <1>1, <2>0, <3>1, <3>2, <3>3, ReturnInTurn, DispatchInTurn DEF Send, Return
  <2>5. CASE Receive
    <3>1. Grown(ready) BY <1>1, GrownHere
    <3> QED BY <1>1, <2>5, <3>1, ReturnInTurn, DispatchInTurn DEF Receive, Return
  <2>6. CASE \E t \in Tids \cup {NoTask} : Reply(t)
    <3>1. PICK t \in Tids \cup {NoTask} : Reply(t) BY <2>6
    <3>2. CASE Live(t) /\ CanReply(t) /\ Dispatch([[state EXCEPT ![t] = "READY"] EXCEPT ![current] = "READY"],
                                                  AddTask(AddTask(ready, t), current))
      <4>1. t \in Tids BY <3>2 DEF Live, NoTask, Tids
      <4>2. Grown(AddTask(AddTask(ready, t), current))
        BY <1>1, <2>0, <4>1, EnqueueGrows DEF AddTask
      <4> QED BY <1>1, <3>2, <4>2, DispatchInTurn
    <3> QED BY <1>1, <3>1, <3>2, ReturnInTurn DEF Reply, Return
  <2>7. CASE \E e \in EventIds : AwaitEvent(e)
    <3>1. PICK e \in EventIds : AwaitEvent(e) BY <2>7
    <3>2. Grown(ready) BY <1>1, GrownHere
    <3> QED BY <1>1, <3>1, <3>2, ReturnInTurn, DispatchInTurn DEF AwaitEvent, Return
  <2>8. CASE (\E e \in MaskableEvents : Unmask(e)) \/ Stop
    BY <1>1, <2>8, ReadyUnchangedInTurn DEF Unmask, Stop, sched
  <2>9. CASE \E e \in TimerEvents : TimerInterrupt(e)
    <3>1. \A e \in TimerEvents : {e} \in SUBSET EventIds BY EventsAssumption
    <3> QED BY <1>1, <2>9, <3>1, IrqInTurn DEF TimerInterrupt
  <2>10. CASE \/ \E E \in SUBSET UartEvents : DeviceInterrupt(E)
              \/ \E e \in CanEvents : DeviceInterrupt({e})
    <3>1. PICK E \in SUBSET EventIds : DeviceInterrupt(E) BY <2>10, EventsAssumption
    <3> QED BY <1>1, <3>1, IrqInTurn DEF DeviceInterrupt
  <2>11. CASE Halted \/ UNCHANGED vars BY <2>11 DEF Halted
  <2> QED BY <1>1, <2>1, <2>2, <2>3, <2>4, <2>5, <2>6, <2>7, <2>8, <2>9, <2>10, <2>11
          DEF Next, Syscall, Interrupt
<1>2. [InTurn]_vars
        => [\A p \in Priorities :
              \/ StartsWith(ready'[p], ready[p])
              \/ /\ ready[p] # <<>>
                 /\ current' = Head(ready[p])
                 /\ StartsWith(ready'[p], Tail(ready[p]))]_vars
  BY DEF InTurn
<1> QED BY <1>1, <1>2, Invariance, PTL DEF Spec, RoundRobin
=============================================================================
