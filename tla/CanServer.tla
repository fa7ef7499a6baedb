------------------------------ MODULE CanServer ------------------------------
(***************************************************************************)
(* The CAN server and its notifier (src/user/server/can_server.c), the     *)
(* MCP2515 controller behind the SPI bus (src/kernel/mcp2515.c), its       *)
(* interrupt line on GPIO 17, and the box on the track that answers every  *)
(* command with one frame that repeats the command and its key.            *)
(*                                                                         *)
(* The notifier is more urgent than the server and the server than its     *)
(* callers.  The controller works on its own: it stores frames, transmits  *)
(* and moves its interrupt line between any two accesses of the server, so *)
(* the handling of one notification is several steps.  Tasks run with      *)
(* interrupts on: none takes a step while the line asks for one.           *)
(***************************************************************************)
EXTENDS Integers, Sequences, FiniteSets

CONSTANTS
  Keys,                           \* what a reply repeats of its command
  RX_QUEUE_SIZE, TX_QUEUE_SIZE,   \* capacities of the two queues
  OVERRUN,                        \* the bus may outrun the two receive buffers
  MAX_COMMANDS,                   \* bound: commands the track server sends
  MAX_SENSORS                     \* bound: unsolicited frames on the bus

ASSUME CanAssumption ==
  OVERRUN \in BOOLEAN /\ {RX_QUEUE_SIZE, TX_QUEUE_SIZE, MAX_COMMANDS, MAX_SENSORS} \subseteq Nat

VARIABLES
  inbox,           \* the server's send queue
  stage,           \* of the notification being handled: "idle", "drain", "sent", "finish"
  flags,           \* the snapshot of CANINTF it works with: subset of {"RX", "TX0"}
  rx_queue,        \* g_can_rx_queue
  tx_queue,        \* g_can_tx_queue
  recv_waiter,     \* g_can_recv_waiters: the one reader waits
  waiting_reply,   \* g_can_tx_waiting_reply
  pending_reply,   \* the key in g_can_pending_reply
  panicked,        \* a KASSERT has failed
  notifier,        \* "none", "await", "awaiting", "send", "sent"
  event_pending,   \* event_pending[EVENT_CAN_RX]
  gpio_enabled,    \* low detection on GPIO 17
  inte,            \* CANINTE: subset of {"RX", "TX0"}
  tx0if,           \* CANINTF.TX0IF
  rxb,             \* the two receive buffers; a full one has its interrupt flag set
  txb,             \* the transmit buffer, non-empty while TXREQ is set
  box,             \* commands the box has still to answer
  reader,          \* "running" or "waiting"
  sender,          \* "enabling" at the start, then "running" or "waiting"
  commands,        \* commands accepted from the track server
  sensors,         \* unsolicited frames the controller has stored so far
  received         \* those the reader has got, or ENABLE_INT has cleared at the start

hardware == <<gpio_enabled, inte, tx0if, rxb, txb, box>>
tx == <<tx_queue, waiting_reply, pending_reply>>
vars == <<inbox, stage, flags, rx_queue, recv_waiter, tx, panicked, notifier, event_pending,
          hardware, reader, sender, commands, sensors, received>>

Empty == [kind |-> "none"]
Sensor(n) == [kind |-> "sensor", no |-> n]
Command(n, k) == [kind |-> "command", no |-> n, key |-> k]
ReplyFrame(c) == [kind |-> "reply", no |-> c.no, key |-> c.key]

Init ==
  /\ inbox = <<>> /\ stage = "idle" /\ flags = {}
  /\ rx_queue = <<>> /\ tx_queue = <<>> /\ recv_waiter = FALSE
  /\ waiting_reply = FALSE /\ pending_reply \in Keys /\ panicked = FALSE
  /\ notifier = "none" /\ event_pending = 0
  /\ gpio_enabled = TRUE /\ inte = {"RX"} /\ tx0if = FALSE
  /\ rxb = <<Empty, Empty>> /\ txb = Empty /\ box = <<>>
  /\ reader = "running" /\ sender = "enabling"
  /\ commands = 0 /\ sensors = 0 /\ received = {}

-----------------------------------------------------------------------------
(* The controller, the bus and the interrupt line *)

Intf == (IF \E i \in 1..2 : rxb[i] # Empty THEN {"RX"} ELSE {})
        \cup (IF tx0if THEN {"TX0"} ELSE {})

\* RXB0 rolls over into RXB1; the controller drops a frame that finds both full.
Store(frame) ==
  rxb' = IF rxb[1] = Empty THEN [rxb EXCEPT ![1] = frame]
         ELSE IF rxb[2] = Empty THEN [rxb EXCEPT ![2] = frame] ELSE rxb

SensorFrame ==
  /\ sensors < MAX_SENSORS
  /\ \E i \in 1..2 : rxb[i] = Empty
  /\ Store(Sensor(sensors + 1))
  /\ sensors' = sensors + 1
  /\ UNCHANGED <<inbox, stage, flags, rx_queue, recv_waiter, tx, panicked, notifier,
                 event_pending, gpio_enabled, inte, tx0if, txb, box, reader, sender, commands,
                 received>>

Transmit ==
  /\ txb # Empty
  /\ txb' = Empty /\ tx0if' = TRUE
  /\ box' = Append(box, txb)
  /\ UNCHANGED <<inbox, stage, flags, rx_queue, recv_waiter, tx, panicked, notifier,
                 event_pending, gpio_enabled, inte, rxb, reader, sender, commands, sensors,
                 received>>

\* The box answers; the frame is lost if it outruns the controller.
Answer ==
  /\ box # <<>>
  /\ OVERRUN \/ \E i \in 1..2 : rxb[i] = Empty
  /\ Store(ReplyFrame(Head(box)))
  /\ box' = Tail(box)
  /\ UNCHANGED <<inbox, stage, flags, rx_queue, recv_waiter, tx, panicked, notifier,
                 event_pending, gpio_enabled, inte, tx0if, txb, reader, sender, commands,
                 sensors, received>>

\* The line is low and its detection enabled.
InterruptPending == gpio_enabled /\ Intf \cap inte # {}

\* irq_dispatch for GPIO bank 0.
GpioInterrupt ==
  /\ InterruptPending
  /\ gpio_enabled' = FALSE
  /\ IF notifier = "awaiting"
     THEN notifier' = "send" /\ UNCHANGED event_pending
     ELSE event_pending' = event_pending + 1 /\ UNCHANGED notifier
  /\ UNCHANGED <<inbox, stage, flags, rx_queue, recv_waiter, tx, panicked, inte, tx0if, rxb,
                 txb, box, reader, sender, commands, sensors, received>>

-----------------------------------------------------------------------------
(* can_rx_notifier_task *)

NotifierAwait ==
  /\ notifier = "await"
  /\ IF event_pending > 0
     THEN notifier' = "send" /\ event_pending' = event_pending - 1
     ELSE notifier' = "awaiting" /\ UNCHANGED event_pending
  /\ UNCHANGED <<inbox, stage, flags, rx_queue, recv_waiter, tx, panicked, hardware, reader,
                 sender, commands, sensors, received>>

NotifierSend ==
  /\ notifier = "send"
  /\ notifier' = "sent"
  /\ inbox' = Append(inbox, [type |-> "RX_NOTIFY"])
  /\ UNCHANGED <<stage, flags, rx_queue, recv_waiter, tx, panicked, event_pending, hardware,
                 reader, sender, commands, sensors, received>>

-----------------------------------------------------------------------------
(* Helpers of the server *)

\* (mutant) reading a frame clears both flags
ReadBufferClearsBoth(i) == rxb' = <<Empty, Empty>>

\* can_try_recv: RXB0 is read before RXB1, and only its flag is cleared.
ReadBuffer(i) == rxb' = [rxb EXCEPT ![i] = Empty]
FirstFull == IF rxb[1] # Empty THEN 1 ELSE 2

\* (mutant) the next command is sent as soon as the transmit buffer is free
MaySendAlways(waiting) == TRUE

\* try_send_next_queued gives up while a command is unanswered.
MaySend(waiting) == ~waiting

\* try_send_next_queued on the queue q.
TrySendNextQueued(q, waiting) ==
  IF MaySend(waiting) /\ q # <<>> /\ txb = Empty
  THEN /\ txb' = Head(q) /\ tx_queue' = Tail(q)
       /\ waiting_reply' = TRUE /\ pending_reply' = Head(q).key
  ELSE /\ tx_queue' = q /\ waiting_reply' = waiting
       /\ UNCHANGED <<txb, pending_reply>>

IsPendingReplyMatch(frame) ==
  waiting_reply /\ frame.kind = "reply" /\ frame.key = pending_reply

\* A frame given to the reader.
Got(frame) == IF frame.kind = "sensor" THEN received \cup {frame.no} ELSE received

\* dispatch_rx_frame: the waiting reader gets the frame, or it is queued; a full
\* queue is a failed assertion.
DispatchRxFrame(frame) ==
  \/ /\ recv_waiter
     /\ recv_waiter' = FALSE /\ reader' = "running" /\ received' = Got(frame)
     /\ UNCHANGED <<rx_queue, panicked>>
  \/ /\ ~recv_waiter
     /\ IF Len(rx_queue) < RX_QUEUE_SIZE
        THEN rx_queue' = Append(rx_queue, frame) /\ UNCHANGED panicked
        ELSE panicked' = TRUE /\ UNCHANGED rx_queue
     /\ UNCHANGED <<recv_waiter, reader, received>>

-----------------------------------------------------------------------------
(* can_server_task *)

\* CAN_MSG_RX_NOTIFY begins: the flags are read once.
RxNotifyStart ==
  /\ stage = "idle" /\ inbox # <<>> /\ Head(inbox).type = "RX_NOTIFY"
  /\ inbox' = Tail(inbox)
  /\ flags' = Intf
  /\ stage' = IF "RX" \in Intf THEN "drain" ELSE "sent"
  /\ UNCHANGED <<rx_queue, recv_waiter, tx, panicked, notifier, event_pending, hardware,
                 reader, sender, commands, sensors, received>>

\* One frame of the drain loop: the awaited reply releases the next command and is
\* used up, any other frame is for the reader.
DrainOne ==
  LET frame == rxb[FirstFull] IN
  /\ stage = "drain" /\ "RX" \in Intf
  /\ ReadBuffer(FirstFull)
  /\ \/ /\ IsPendingReplyMatch(frame)
        /\ TrySendNextQueued(tx_queue, FALSE)
        /\ UNCHANGED <<rx_queue, recv_waiter, panicked, reader, received>>
     \/ /\ ~IsPendingReplyMatch(frame)
        /\ DispatchRxFrame(frame)
        /\ UNCHANGED <<tx, txb>>
  /\ UNCHANGED <<inbox, stage, flags, notifier, event_pending, gpio_enabled, inte, tx0if, box,
                 sender, commands, sensors>>

DrainEnd ==
  /\ stage = "drain" /\ "RX" \notin Intf
  /\ stage' = "sent"
  /\ UNCHANGED <<inbox, flags, rx_queue, recv_waiter, tx, panicked, notifier, event_pending,
                 hardware, reader, sender, commands, sensors, received>>

\* The TX0IF part.
FrameSent ==
  /\ stage = "sent"
  /\ stage' = "finish"
  /\ IF "TX0" \in flags
     THEN tx0if' = FALSE /\ TrySendNextQueued(tx_queue, waiting_reply)
     ELSE UNCHANGED <<tx0if, tx, txb>>
  /\ UNCHANGED <<inbox, flags, rx_queue, recv_waiter, panicked, notifier, event_pending,
                 gpio_enabled, inte, rxb, box, reader, sender, commands, sensors, received>>

\* (mutant) the interrupt line stays masked
RxNotifyEndForgetsGpio ==
  /\ stage = "finish"
  /\ stage' = "idle"
  /\ inte' = IF recv_waiter \/ Len(rx_queue) < RX_QUEUE_SIZE
             THEN inte \cup {"RX"} ELSE inte \ {"RX"}
  /\ notifier' = "await"
  /\ flags' = {}
  /\ UNCHANGED <<inbox, rx_queue, recv_waiter, tx, panicked, event_pending,
                 gpio_enabled, tx0if, rxb, txb, box, reader, sender, commands, sensors, received>>

\* CAN_MSG_RX_NOTIFY ends: RX interrupts stay on unless the queue is full and nobody
\* waits; the line is enabled again and the notifier answered.
RxNotifyEnd ==
  /\ stage = "finish"
  /\ stage' = "idle"
  /\ inte' = IF recv_waiter \/ Len(rx_queue) < RX_QUEUE_SIZE
             THEN inte \cup {"RX"} ELSE inte \ {"RX"}
  /\ gpio_enabled' = TRUE
  /\ notifier' = "await"
  /\ flags' = {}
  /\ UNCHANGED <<inbox, rx_queue, recv_waiter, tx, panicked, event_pending, tx0if, rxb,
                 txb, box, reader, sender, commands, sensors, received>>

ServeSend ==
  LET c == Head(inbox).frame IN
  /\ stage = "idle" /\ inbox # <<>> /\ Head(inbox).type = "SEND"
  /\ IF Len(tx_queue) < TX_QUEUE_SIZE
     THEN /\ TrySendNextQueued(Append(tx_queue, c), waiting_reply)
          /\ inte' = inte \cup {"TX0"} /\ gpio_enabled' = TRUE
          /\ commands' = commands + 1
     ELSE UNCHANGED <<tx, txb, inte, gpio_enabled, commands>>
  /\ inbox' = Tail(inbox) /\ sender' = "running"
  /\ UNCHANGED <<stage, flags, rx_queue, recv_waiter, panicked, notifier, event_pending, tx0if,
                 rxb, box, reader, sensors, received>>

\* CAN_MSG_RECV: from the queue, or straight from the controller, or wait.
ServeRecv ==
  /\ stage = "idle" /\ inbox # <<>> /\ Head(inbox).type = "RECV"
  /\ \/ /\ rx_queue # <<>>
        /\ rx_queue' = Tail(rx_queue)
        /\ received' = Got(Head(rx_queue)) /\ reader' = "running"
        /\ IF notifier # "none"
           THEN inte' = inte \cup {"RX"} /\ gpio_enabled' = TRUE
           ELSE UNCHANGED <<inte, gpio_enabled>>
        /\ UNCHANGED <<recv_waiter, rxb>>
     \/ /\ rx_queue = <<>> /\ "RX" \in Intf
        /\ ReadBuffer(FirstFull)
        /\ received' = Got(rxb[FirstFull]) /\ reader' = "running"
        /\ UNCHANGED <<rx_queue, recv_waiter, inte, gpio_enabled>>
     \/ /\ rx_queue = <<>> /\ "RX" \notin Intf
        /\ inte' = inte \cup {"RX"} /\ gpio_enabled' = TRUE
        /\ recv_waiter' = TRUE
        /\ UNCHANGED <<rx_queue, rxb, reader, received>>
  /\ inbox' = Tail(inbox)
  /\ UNCHANGED <<stage, flags, tx, panicked, notifier, event_pending, tx0if, txb, box, sender,
                 commands, sensors>>

\* CAN_MSG_ENABLE_INT: the notifier is created and every flag cleared, which empties
\* the receive buffers.
ServeEnableInt ==
  /\ stage = "idle" /\ inbox # <<>> /\ Head(inbox).type = "ENABLE_INT"
  /\ notifier' = IF notifier = "none" THEN "await" ELSE notifier
  /\ rxb' = <<Empty, Empty>> /\ tx0if' = FALSE
  /\ received' = received \cup {rxb[i].no : i \in {j \in 1..2 : rxb[j].kind = "sensor"}}
  /\ inte' = {"RX", "TX0"} /\ gpio_enabled' = TRUE
  /\ inbox' = Tail(inbox) /\ sender' = "running"
  /\ UNCHANGED <<stage, flags, rx_queue, recv_waiter, tx, panicked, event_pending, txb, box,
                 reader, commands, sensors>>

-----------------------------------------------------------------------------
(* The callers: the track server sends, its ingress task reads. *)

NotifierBlocked == notifier \in {"none", "awaiting", "sent"}
ServerIdle == ~InterruptPending /\ NotifierBlocked /\ stage = "idle" /\ inbox = <<>>

\* TRACK_REQ_INIT enables the interrupts before anything else.
CallEnableInterrupts ==
  /\ ServerIdle /\ sender = "enabling"
  /\ sender' = "waiting"
  /\ inbox' = Append(inbox, [type |-> "ENABLE_INT"])
  /\ UNCHANGED <<stage, flags, rx_queue, recv_waiter, tx, panicked, notifier, event_pending,
                 hardware, reader, commands, sensors, received>>

CallSend(k) ==
  /\ ServerIdle /\ sender = "running" /\ commands < MAX_COMMANDS
  /\ sender' = "waiting"
  /\ inbox' = Append(inbox, [type |-> "SEND", frame |-> Command(commands + 1, k)])
  /\ UNCHANGED <<stage, flags, rx_queue, recv_waiter, tx, panicked, notifier, event_pending,
                 hardware, reader, commands, sensors, received>>

CallReceive ==
  /\ ServerIdle /\ reader = "running" /\ notifier # "none"
  /\ reader' = "waiting"
  /\ inbox' = Append(inbox, [type |-> "RECV"])
  /\ UNCHANGED <<stage, flags, rx_queue, recv_waiter, tx, panicked, notifier, event_pending,
                 hardware, sender, commands, sensors, received>>

ServerStep ==
  /\ ~InterruptPending /\ NotifierBlocked /\ ~panicked
  /\ \/ RxNotifyStart \/ DrainOne \/ DrainEnd \/ FrameSent \/ RxNotifyEnd
     \/ ServeSend \/ ServeRecv \/ ServeEnableInt

NotifierStep == ~InterruptPending /\ ~panicked /\ (NotifierAwait \/ NotifierSend)

Next ==
  \/ SensorFrame \/ Transmit \/ Answer \/ GpioInterrupt
  \/ NotifierStep \/ ServerStep
  \/ CallEnableInterrupts \/ CallReceive
  \/ \E k \in Keys : CallSend(k)

Spec == Init /\ [][Next]_vars

\* The controller transmits and raises its line, the box answers, and the notifier
\* and the server are more urgent than every client.
FairSpec ==
  Spec /\ WF_vars(Transmit) /\ WF_vars(Answer) /\ WF_vars(GpioInterrupt)
       /\ WF_vars(NotifierStep) /\ WF_vars(ServerStep)

\* FairSpec with a reader that always comes back for the next frame.
ReadingSpec == FairSpec /\ WF_vars(CallReceive)

-----------------------------------------------------------------------------
(* Properties *)

FramesIn(seq) == {seq[i] : i \in 1..Len(seq)}
OnTheWay == (FramesIn(box) \cup {txb}) \ {Empty}
AnswersStored == {i \in 1..2 : rxb[i].kind = "reply"}
Sensors(seq) == {f.no : f \in {g \in FramesIn(seq) : g.kind = "sensor"}}

\* One command is between the queue and its answer, and the server knows which: while
\* it waits for no reply, no command is in the controller or at the box and no answer
\* is unread (g_can_tx_waiting_reply).
OneOutstanding ==
  /\ Cardinality(OnTheWay) + Cardinality(AnswersStored) <= 1
  /\ ~waiting_reply => OnTheWay = {} /\ AnswersStored = {}
  /\ \A c \in OnTheWay : c.key = pending_reply

\* A frame the controller stored is kept until the reader has it: in a receive
\* buffer, in the queue or with the reader, and in one of them only.
FramesKept ==
  LET places == {received, Sensors(<<rxb[1]>>), Sensors(<<rxb[2]>>), Sensors(rx_queue)} \ {{}} IN
  ~panicked => /\ UNION places = 1..sensors
               /\ \A p, q \in places : p # q => p \cap q = {}

\* A reader that waits while the controller or the queue holds a frame gets one: no
\* order of masking, interrupt and notification leaves it waiting
\* (gpio_enable_can_interrupt, mcp2515_enable_rx_interrupts).
ReaderServed ==
  (reader = "waiting" /\ Sensors(rxb \o rx_queue) # {})
    ~> (reader = "running" \/ panicked)

\* "Send CAN frame (queued)" (can_server.h): what is queued is sent.
QueuedIsSent == tx_queue # <<>> ~> (tx_queue = <<>> \/ panicked)
=============================================================================
