--------------------------- MODULE CanServerProofs ---------------------------
(***************************************************************************)
(* The CAN server has one command under way at a time, for any number of   *)
(* commands, keys and sensor frames, any queues, and a bus that may lose   *)
(* frames, and loses none of the frames its controller has stored.         *)
(***************************************************************************)
EXTENDS CanServer, FiniteSetTheorems, TLAPS

Commands == {Command(n, k) : n \in Nat, k \in Keys}
Frames == {Empty} \cup {Sensor(n) : n \in Nat} \cup {ReplyFrame(c) : c \in Commands}
Messages == [type : {"RX_NOTIFY", "RECV", "ENABLE_INT"}]
              \cup [type : {"SEND"}, frame : Commands]

Types ==
  /\ inbox \in Seq(Messages) /\ tx_queue \in Seq(Commands) /\ box \in Seq(Commands)
  /\ rxb \in [1..2 -> Frames] /\ txb \in {Empty} \cup Commands
  /\ commands \in Nat /\ sensors \in Nat
  /\ waiting_reply \in BOOLEAN

IsReply(i) == rxb[i].kind = "reply"

\* Where the one command can be: in the transmit buffer, at the box, or, as its answer, in
\* a receive buffer.
Exclusive ==
  /\ Len(box) <= 1
  /\ txb # Empty => box = <<>>
  /\ \A i \in 1..2 : IsReply(i) => txb = Empty /\ box = <<>>
  /\ ~(IsReply(1) /\ IsReply(2))

Awaited ==
  /\ txb # Empty \/ box # <<>> \/ IsReply(1) \/ IsReply(2) => waiting_reply
  /\ txb # Empty => txb.key = pending_reply
  /\ box # <<>> => box[1].key = pending_reply
  /\ \A i \in 1..2 : IsReply(i) => rxb[i].key = pending_reply

IInv == Types /\ Exclusive /\ Awaited

-----------------------------------------------------------------------------
(* Frames and queues *)

\* What is told apart by its kind.
LEMMA Kinds ==
  /\ Empty.kind = "none" /\ Empty \in Frames
  /\ \A c \in Commands : /\ c.kind = "command" /\ c # Empty
                         /\ ReplyFrame(c) \in Frames /\ ReplyFrame(c).kind = "reply"
                         /\ ReplyFrame(c).key = c.key
  /\ \A n \in Nat : Sensor(n) \in Frames /\ Sensor(n).kind = "sensor"
<1>1. Empty.kind = "none" /\ Empty \in Frames
  BY DEF Empty, Frames
<1>2. ASSUME NEW c \in Commands
      PROVE  /\ c.kind = "command" /\ c # Empty
             /\ ReplyFrame(c) \in Frames /\ ReplyFrame(c).kind = "reply"
             /\ ReplyFrame(c).key = c.key
  <2>1. PICK n \in Nat, k \in Keys : c = [kind |-> "command", no |-> n, key |-> k]
    BY DEF Commands, Command
  <2>2. c.kind = "command" /\ c.kind # Empty.kind
    BY <2>1, <1>1
  <2>3. ReplyFrame(c) \in Frames
    BY DEF Frames
  <2>. QED  BY <2>2, <2>3 DEF ReplyFrame
<1>3. ASSUME NEW n \in Nat PROVE Sensor(n) \in Frames /\ Sensor(n).kind = "sensor"
  BY DEF Frames, Sensor
<1>. QED  BY <1>1, <1>2, <1>3

\* The next command leaves the queue only when none is under way.
LEMMA SendNext ==
  ASSUME NEW q \in Seq(Commands), NEW w \in BOOLEAN, TrySendNextQueued(q, w)
  PROVE  /\ tx_queue' \in Seq(Commands) /\ waiting_reply' \in BOOLEAN
         /\ \/ waiting_reply' = w /\ UNCHANGED <<txb, pending_reply>>
            \/ /\ ~w /\ txb = Empty /\ waiting_reply'
               /\ txb' \in Commands /\ pending_reply' = txb'.key
<1>1. CASE MaySend(w) /\ q # <<>> /\ txb = Empty
  <2>1. Head(q) \in Commands /\ Tail(q) \in Seq(Commands)
    BY <1>1
  <2>. QED  BY <1>1, <2>1 DEF TrySendNextQueued, MaySend
<1>2. CASE ~(MaySend(w) /\ q # <<>> /\ txb = Empty)
  BY <1>2 DEF TrySendNextQueued
<1>. QED  BY <1>1, <1>2

-----------------------------------------------------------------------------
(* The invariant *)

\* At the start no command has been sent.
LEMMA InitIInv == Init => IInv
<1>. SUFFICES ASSUME Init PROVE IInv
  OBVIOUS
<1>1. rxb \in [1..2 -> Frames] /\ \A i \in 1..2 : rxb[i] = Empty
  BY Kinds DEF Init
<1>2. Types
  <2>1. inbox = <<>> /\ tx_queue = <<>> /\ box = <<>>
    BY DEF Init
  <2>2. inbox \in Seq(Messages) /\ tx_queue \in Seq(Commands) /\ box \in Seq(Commands)
    BY <2>1
  <2>3. txb \in {Empty} \cup Commands /\ commands \in Nat /\ sensors \in Nat
        /\ waiting_reply \in BOOLEAN
    BY DEF Init
  <2>. QED  BY <1>1, <2>2, <2>3 DEF Types
<1>3. \A i \in 1..2 : ~IsReply(i)
  BY <1>1, Kinds DEF IsReply
<1>. QED  BY <1>2, <1>3 DEF Init, IInv, Exclusive, Awaited

Under == <<tx, txb, box, rxb>>

\* A step that leaves the command, the queue and the buffers alone needs only the types.
LEMMA Elsewhere ==
  ASSUME IInv, UNCHANGED Under,
         inbox' \in Seq(Messages), commands' \in Nat, sensors' \in Nat
  PROVE  IInv'
BY DEF IInv, Types, Exclusive, Awaited, IsReply, Under, tx

\* The controller and the bus.
LEMMA ControllerStep ==
  ASSUME IInv, SensorFrame \/ Transmit \/ Answer \/ GpioInterrupt
  PROVE  IInv'
<1>. USE DEF IInv
<1>1. CASE SensorFrame
  <2>1. PICK i \in 1..2 : rxb[i] = Empty /\ rxb' = [rxb EXCEPT ![i] = Sensor(sensors + 1)]
    BY <1>1 DEF SensorFrame, Store
  <2>2. sensors + 1 \in Nat  BY DEF Types
  <2>3. Types'  BY <1>1, <2>1, <2>2, Kinds DEF SensorFrame, Types, tx
  <2>4. \A j \in 1..2 : IsReply(j)' => IsReply(j) /\ rxb'[j] = rxb[j]
    BY <2>1, <2>2, Kinds DEF IsReply, Types
  <2>. QED  BY <1>1, <2>3, <2>4 DEF SensorFrame, Exclusive, Awaited, IsReply, tx
<1>2. CASE Transmit
  <2>. USE <1>2 DEF Transmit
  <2>1. txb \in Commands /\ box = <<>> /\ box' = <<txb>>
    BY DEF Types, Exclusive
  <2>2. Types'  BY <2>1 DEF Types, tx
  <2>3. \A j \in 1..2 : ~IsReply(j) /\ ~IsReply(j)'
    BY DEF Exclusive, IsReply
  <2>. QED  BY <2>1, <2>2, <2>3 DEF Exclusive, Awaited, IsReply, tx
<1>3. CASE Answer
  <2>. USE <1>3 DEF Answer
  <2>0. box \in Seq(Commands) /\ box # <<>> /\ Len(box) <= 1
    BY DEF Types, Exclusive
  <2>1. box[1] \in Commands /\ Head(box) = box[1] /\ box' = <<>>
    BY <2>0
  <2>2. txb = Empty /\ \A j \in 1..2 : ~IsReply(j)
    BY DEF Exclusive
  <2>3. \/ rxb' = rxb
        \/ \E i \in 1..2 : rxb' = [rxb EXCEPT ![i] = ReplyFrame(box[1])]
    BY <2>1 DEF Store
  <2>4. CASE rxb' = rxb
    <3>1. Types'  BY <2>1, <2>4 DEF Types, tx
    <3>2. \A j \in 1..2 : ~IsReply(j)'  BY <2>2, <2>4 DEF IsReply
    <3>. QED  BY <2>1, <2>2, <3>1, <3>2 DEF Exclusive, Awaited, IsReply, tx
  <2>5. ASSUME NEW i \in 1..2, rxb' = [rxb EXCEPT ![i] = ReplyFrame(box[1])]
        PROVE  IInv'
    <3>1. Types'  BY <2>1, <2>5, Kinds DEF Types, tx
    <3>2. \A j \in 1..2 : IsReply(j)' => j = i /\ rxb'[j] = ReplyFrame(box[1])
      BY <2>2, <2>5 DEF IsReply, Types
    <3>3. waiting_reply /\ box[1].key = pending_reply
      BY <2>1 DEF Awaited
    <3>4. \A j \in 1..2 : IsReply(j)' => rxb'[j].key = pending_reply
      BY <2>1, <3>2, <3>3, Kinds
    <3>. QED  BY <2>1, <2>2, <3>1, <3>2, <3>3, <3>4 DEF Exclusive, Awaited, IsReply, tx
  <2>. QED  BY <2>3, <2>4, <2>5
<1>4. CASE GpioInterrupt
  BY <1>4, Elsewhere DEF GpioInterrupt, Types, Under, tx
<1>. QED  BY <1>1, <1>2, <1>3, <1>4

\* The notifier and the callers only add a message.
LEMMA CallerStep ==
  ASSUME IInv, NotifierStep \/ CallEnableInterrupts \/ CallReceive \/ \E k \in Keys : CallSend(k)
  PROVE  IInv'
<1>0. inbox \in Seq(Messages) /\ commands \in Nat /\ sensors \in Nat
  BY DEF IInv, Types
<1>1. UNCHANGED <<Under, commands, sensors>>
  BY DEF NotifierStep, NotifierAwait, NotifierSend, CallEnableInterrupts, CallReceive, CallSend,
         Under, hardware
<1>2. inbox' \in Seq(Messages)
  <2>1. CASE NotifierStep
    <3>1. [type |-> "RX_NOTIFY"] \in Messages  BY DEF Messages
    <3>. QED  BY <2>1, <1>0, <3>1 DEF NotifierStep, NotifierAwait, NotifierSend
  <2>2. CASE CallEnableInterrupts
    <3>1. [type |-> "ENABLE_INT"] \in Messages  BY DEF Messages
    <3>. QED  BY <2>2, <1>0, <3>1 DEF CallEnableInterrupts
  <2>3. CASE CallReceive
    <3>1. [type |-> "RECV"] \in Messages  BY DEF Messages
    <3>. QED  BY <2>3, <1>0, <3>1 DEF CallReceive
  <2>4. ASSUME NEW k \in Keys, CallSend(k) PROVE inbox' \in Seq(Messages)
    <3>0. commands + 1 \in Nat /\ \A n \in Nat : Command(n, k) \in Commands
      BY <1>0 DEF Commands
    <3>1. Command(commands + 1, k) \in Commands  BY <3>0
    <3>2. [type |-> "SEND", frame |-> Command(commands + 1, k)] \in Messages
      BY <3>1 DEF Messages
    <3>. QED  BY <2>4, <1>0, <3>2 DEF CallSend
  <2>. QED  BY <2>1, <2>2, <2>3, <2>4
<1>. QED  BY <1>0, <1>1, <1>2, Elsewhere

\* A frame is read: the buffer is empty after it, the other as before.
LEMMA Read ==
  ASSUME Types, NEW i \in 1..2, ReadBuffer(i)
  PROVE  /\ rxb' \in [1..2 -> Frames]
         /\ \A j \in 1..2 : IsReply(j)' => j # i /\ IsReply(j) /\ rxb'[j] = rxb[j]
<1>1. rxb' = [rxb EXCEPT ![i] = Empty]
  BY DEF ReadBuffer
<1>. QED  BY <1>1, Kinds DEF Types, IsReply

\* TrySendNextQueued after a step in which nothing entered the controller: the command it
\* sends is the only one under way.
LEMMA SendKeeps ==
  ASSUME IInv, NEW q \in Seq(Commands), NEW w \in BOOLEAN, TrySendNextQueued(q, w),
         rxb' \in [1..2 -> Frames], inbox' \in Seq(Messages), commands' \in Nat,
         UNCHANGED <<box, sensors>>,
         \A j \in 1..2 : IsReply(j)' => IsReply(j) /\ rxb'[j] = rxb[j],
         ~w => txb = Empty /\ box = <<>> /\ ~IsReply(1)' /\ ~IsReply(2)',
         waiting_reply => w \/ (txb = Empty /\ box = <<>>)
  PROVE  IInv'
<1>. USE SendNext DEF IInv
<1>1. Types'
  BY DEF Types
<1>2. CASE waiting_reply' = w /\ UNCHANGED <<txb, pending_reply>>
  BY <1>1, <1>2 DEF Exclusive, Awaited, IsReply
<1>3. CASE ~w /\ txb = Empty /\ waiting_reply' /\ txb' \in Commands /\ pending_reply' = txb'.key
  BY <1>1, <1>3 DEF Exclusive, Awaited, IsReply
<1>. QED  BY <1>2, <1>3

\* A step that may only take answers out of the receive buffers.
LEMMA Fewer ==
  ASSUME IInv, UNCHANGED <<tx, txb, box>>,
         inbox' \in Seq(Messages), commands' \in Nat, sensors' \in Nat,
         rxb' \in [1..2 -> Frames],
         \A j \in 1..2 : IsReply(j)' => IsReply(j) /\ rxb'[j] = rxb[j]
  PROVE  IInv'
BY DEF IInv, Types, Exclusive, Awaited, IsReply, tx

\* The first message of the server's queue.
LEMMA Received ==
  ASSUME Types, inbox # <<>>
  PROVE  /\ Head(inbox) \in Messages /\ Tail(inbox) \in Seq(Messages)
         /\ Head(inbox).type = "SEND" => Head(inbox).frame \in Commands
<1>1. Head(inbox) \in Messages /\ Tail(inbox) \in Seq(Messages)
  BY DEF Types
<1>2. \A m \in Messages : m.type = "SEND" => m.frame \in Commands
  BY DEF Messages
<1>. QED  BY <1>1, <1>2

\* One step of the server.
LEMMA ServerKeeps ==
  ASSUME IInv, ServerStep
  PROVE  IInv'
<1>0. /\ Types /\ inbox \in Seq(Messages) /\ commands \in Nat /\ sensors \in Nat
      /\ rxb \in [1..2 -> Frames] /\ tx_queue \in Seq(Commands) /\ waiting_reply \in BOOLEAN
      /\ FirstFull \in 1..2
  BY DEF IInv, Types, FirstFull
<1>1. CASE RxNotifyStart
  <2>1. inbox' \in Seq(Messages)  BY <1>0, <1>1, Received DEF RxNotifyStart
  <2>. QED  BY <1>0, <1>1, <2>1, Elsewhere DEF RxNotifyStart, Under, hardware
<1>2. CASE DrainOne
  <2>1. /\ rxb' \in [1..2 -> Frames]
        /\ \A j \in 1..2 : IsReply(j)' => j # FirstFull /\ IsReply(j) /\ rxb'[j] = rxb[j]
    BY <1>0, <1>2, Read DEF DrainOne
  <2>2. UNCHANGED <<inbox, box, commands, sensors>>
    BY <1>2 DEF DrainOne
  <2>3. CASE IsPendingReplyMatch(rxb[FirstFull])
    <3>1. TrySendNextQueued(tx_queue, FALSE)
      BY <1>2, <2>3 DEF DrainOne
    <3>2. IsReply(FirstFull)
      BY <2>3 DEF IsPendingReplyMatch, IsReply
    <3>3. txb = Empty /\ box = <<>> /\ ~IsReply(1)' /\ ~IsReply(2)'
      BY <1>0, <2>1, <3>2 DEF IInv, Exclusive
    <3>. QED  BY <1>0, <2>1, <2>2, <3>1, <3>3, SendKeeps
  <2>4. CASE ~IsPendingReplyMatch(rxb[FirstFull])
    <3>1. UNCHANGED <<tx, txb>>
      BY <1>2, <2>4 DEF DrainOne
    <3>. QED  BY <1>0, <2>1, <2>2, <3>1, Fewer
  <2>. QED  BY <2>3, <2>4
<1>3. CASE DrainEnd
  BY <1>0, <1>3, Elsewhere DEF DrainEnd, Under, hardware
<1>4. CASE FrameSent
  <2>1. UNCHANGED <<inbox, rxb, box, commands, sensors>>
    BY <1>4 DEF FrameSent
  <2>2. \A j \in 1..2 : IsReply(j)' <=> IsReply(j)
    BY <2>1 DEF IsReply
  <2>3. CASE "TX0" \in flags
    <3>1. TrySendNextQueued(tx_queue, waiting_reply)
      BY <1>4, <2>3 DEF FrameSent
    <3>2. ~waiting_reply => txb = Empty /\ box = <<>> /\ ~IsReply(1)' /\ ~IsReply(2)'
      BY <2>2 DEF IInv, Awaited
    <3>. QED  BY <1>0, <2>1, <2>2, <3>1, <3>2, SendKeeps
  <2>4. CASE "TX0" \notin flags
    BY <1>0, <1>4, <2>1, <2>4, Elsewhere DEF FrameSent, Under
  <2>. QED  BY <2>3, <2>4
<1>5. CASE RxNotifyEnd
  BY <1>0, <1>5, Elsewhere DEF RxNotifyEnd, Under
<1>6. CASE ServeSend
  <2>. DEFINE c == Head(inbox).frame
  <2>1. inbox' \in Seq(Messages) /\ c \in Commands
    BY <1>0, <1>6, Received DEF ServeSend
  <2>2. UNCHANGED <<rxb, box, sensors>>
    BY <1>6 DEF ServeSend
  <2>3. commands' \in Nat
    BY <1>0, <1>6 DEF ServeSend
  <2>4. \A j \in 1..2 : IsReply(j)' <=> IsReply(j)
    BY <2>2 DEF IsReply
  <2>5. CASE Len(tx_queue) < TX_QUEUE_SIZE
    <3>1. TrySendNextQueued(Append(tx_queue, c), waiting_reply)
      BY <1>6, <2>5 DEF ServeSend
    <3>2. Append(tx_queue, c) \in Seq(Commands)
      BY <1>0, <2>1
    <3>3. ~waiting_reply => txb = Empty /\ box = <<>> /\ ~IsReply(1)' /\ ~IsReply(2)'
      BY <2>4 DEF IInv, Awaited
    <3>. HIDE DEF c
    <3>. QED  BY <1>0, <2>1, <2>2, <2>3, <2>4, <3>1, <3>2, <3>3, SendKeeps
  <2>6. CASE ~(Len(tx_queue) < TX_QUEUE_SIZE)
    BY <1>0, <1>6, <2>1, <2>2, <2>3, <2>6, Elsewhere DEF ServeSend, Under
  <2>. QED  BY <2>5, <2>6
<1>7. CASE ServeRecv
  <2>1. inbox' \in Seq(Messages)
    BY <1>0, <1>7, Received DEF ServeRecv
  <2>2. UNCHANGED <<tx, txb, box, commands, sensors>>
    BY <1>7 DEF ServeRecv
  <2>3. rxb' = rxb \/ ReadBuffer(FirstFull)
    BY <1>7 DEF ServeRecv
  <2>4. CASE rxb' = rxb
    BY <1>0, <2>1, <2>2, <2>4, Elsewhere DEF Under
  <2>5. CASE ReadBuffer(FirstFull)
    BY <1>0, <2>1, <2>2, <2>5, Read, Fewer
  <2>. QED  BY <2>3, <2>4, <2>5
<1>8. CASE ServeEnableInt
  <2>1. inbox' \in Seq(Messages)
    BY <1>0, <1>8, Received DEF ServeEnableInt
  <2>2. rxb' = <<Empty, Empty>> /\ UNCHANGED <<tx, txb, box, commands, sensors>>
    BY <1>8 DEF ServeEnableInt
  <2>3. rxb' \in [1..2 -> Frames] /\ \A j \in 1..2 : rxb'[j] = Empty
    BY <2>2, Kinds
  <2>4. \A j \in 1..2 : ~IsReply(j)'
    BY <2>3, Kinds DEF IsReply
  <2>. QED  BY <1>0, <2>1, <2>2, <2>3, <2>4, Fewer
<1>. QED  BY <1>1, <1>2, <1>3, <1>4, <1>5, <1>6, <1>7, <1>8 DEF ServerStep

LEMMA StepInvariant == IInv /\ [Next]_vars => IInv'
<1>. SUFFICES ASSUME IInv, [Next]_vars PROVE IInv'
  OBVIOUS
<1>1. CASE UNCHANGED vars
  <2>1. UNCHANGED <<Under, inbox, commands, sensors>>
    BY <1>1 DEF vars, Under, hardware
  <2>. QED  BY <2>1, Elsewhere DEF IInv, Types
<1>. QED  BY <1>1, ControllerStep, CallerStep, ServerKeeps DEF Next

LEMMA Invariance == Spec => []IInv
BY StepInvariant, InitIInv, PTL DEF Spec

\* The three clauses, by the place where the command is.
LEMMA Implied == IInv => OneOutstanding
<1>. SUFFICES ASSUME IInv PROVE OneOutstanding
  OBVIOUS
<1>. USE DEF IInv
<1>0. box \in Seq(Commands) /\ Len(box) <= 1
  BY DEF Types, Exclusive
<1>1. AnswersStored \in {{}, {1}, {2}}
  BY DEF AnswersStored, Exclusive, IsReply
<1>2. Cardinality({}) = 0 /\ \A x : Cardinality({x}) = 1
  BY FS_EmptySet, FS_Singleton
<1>3. CASE txb # Empty
  <2>1. box = <<>> /\ AnswersStored = {} /\ waiting_reply /\ txb.key = pending_reply
    BY <1>3 DEF Exclusive, Awaited, AnswersStored, IsReply
  <2>2. OnTheWay = {txb}
    BY <1>3, <2>1 DEF OnTheWay, FramesIn
  <2>3. Cardinality(OnTheWay) = 1 /\ Cardinality(AnswersStored) = 0
    BY <1>2, <2>1, <2>2
  <2>. QED  BY <2>1, <2>2, <2>3 DEF OneOutstanding
<1>4. CASE txb = Empty /\ box # <<>>
  <2>1. AnswersStored = {} /\ waiting_reply /\ box[1].key = pending_reply
    BY <1>4 DEF Exclusive, Awaited, AnswersStored, IsReply
  <2>2. Len(box) = 1 /\ box[1] \in Commands /\ box[1] # Empty
    <3>1. box \in Seq(Commands) /\ box # <<>> /\ Len(box) <= 1
      BY <1>0, <1>4
    <3>2. Len(box) \in Nat /\ Len(box) # 0
      BY <3>1
    <3>3. Len(box) = 1
      <4>1. \A n \in Nat : n <= 1 /\ n # 0 => n = 1
        OBVIOUS
      <4>. QED  BY <3>1, <3>2, <4>1, Zenon
    <3>4. box[1] \in Commands
      BY <3>1, <3>3
    <3>. QED  BY <3>3, <3>4, Kinds
  <2>3. OnTheWay = {box[1]}
    BY <1>4, <2>2 DEF OnTheWay, FramesIn
  <2>4. Cardinality(OnTheWay) = 1 /\ Cardinality(AnswersStored) = 0
    BY <1>2, <2>1, <2>3
  <2>. QED  BY <2>1, <2>3, <2>4 DEF OneOutstanding
<1>5. CASE txb = Empty /\ box = <<>>
  <2>1. OnTheWay = {}
    BY <1>5 DEF OnTheWay, FramesIn
  <2>2. ~waiting_reply => AnswersStored = {}
    BY DEF Awaited, AnswersStored, IsReply
  <2>3. Cardinality(AnswersStored) \in {0, 1}
    BY <1>1, <1>2
  <2>. QED  BY <1>2, <2>1, <2>2, <2>3 DEF OneOutstanding
<1>. QED  BY <1>3, <1>4, <1>5

\* OneOutstanding: at most one command is between the transmit queue and its answer, and
\* the server knows which, also when frames are lost or an answer is read by the wrong
\* caller (g_can_tx_waiting_reply, g_can_pending_reply).
THEOREM OneCommandAtATime == Spec => []OneOutstanding
BY Invariance, Implied, PTL

-----------------------------------------------------------------------------
(* Where the unsolicited frames are *)

\* The number a frame carries if it is a sensor frame.
Number(frame) == IF frame.kind = "sensor" THEN {frame.no} ELSE {}

\* No sensor frame is queued twice.
NoneTwice(q) ==
  \A i, j \in 1..Len(q) :
    q[i].kind = "sensor" /\ q[j].kind = "sensor" /\ q[i].no = q[j].no => i = j

\* The sets a, b, c and d split the numbers 1..n between them.
Split(a, b, c, d, n) ==
  /\ a \cup b \cup c \cup d = 1..n
  /\ a \cap b = {} /\ a \cap c = {} /\ a \cap d = {}
  /\ b \cap c = {} /\ b \cap d = {} /\ c \cap d = {}

Kept ==
  /\ rx_queue \in Seq(Frames) /\ NoneTwice(rx_queue)
  /\ Split(received, Number(rxb[1]), Number(rxb[2]), Sensors(rx_queue), sensors)

KInv == IInv /\ (~panicked => Kept)

LEMMA SensorsDef ==
  ASSUME NEW q, NEW n
  PROVE  n \in Sensors(q) <=> \E i \in 1..Len(q) : q[i].kind = "sensor" /\ q[i].no = n
BY DEF Sensors, FramesIn

\* A frame appended to the queue.
LEMMA AppendSensors ==
  ASSUME NEW q \in Seq(Frames), NEW f \in Frames, NoneTwice(q), Number(f) \cap Sensors(q) = {}
  PROVE  /\ Append(q, f) \in Seq(Frames) /\ NoneTwice(Append(q, f))
         /\ Sensors(Append(q, f)) = Sensors(q) \cup Number(f)
<1>. DEFINE a == Append(q, f)
            m == Len(q)
<1>1. /\ a \in Seq(Frames) /\ Len(a) = m + 1 /\ m \in Nat
      /\ a[m + 1] = f /\ \A i \in 1..m : a[i] = q[i]
  OBVIOUS
<1>. HIDE DEF a, m
<1>2. \A i \in 1..(m + 1) : i = m + 1 \/ i \in 1..m
  BY <1>1
<1>3. \A i \in 1..m : i \in 1..(m + 1)
  BY <1>1
<1>4. m + 1 \in 1..(m + 1)
  BY <1>1
<1>5. Sensors(a) = Sensors(q) \cup Number(f)
  <2>1. ASSUME NEW n \in Sensors(a) PROVE n \in Sensors(q) \cup Number(f)
    <3>1. PICK i \in 1..(m + 1) : a[i].kind = "sensor" /\ a[i].no = n
      BY <1>1, SensorsDef
    <3>. QED  BY <1>1, <1>2, <3>1, SensorsDef DEF Number, m
  <2>2. ASSUME NEW n \in Sensors(q) PROVE n \in Sensors(a)
    <3>1. PICK i \in 1..m : q[i].kind = "sensor" /\ q[i].no = n
      BY SensorsDef DEF m
    <3>. QED  BY <1>1, <1>3, <3>1, SensorsDef
  <2>3. ASSUME NEW n \in Number(f) PROVE n \in Sensors(a)
    BY <1>1, <1>4, <2>3, SensorsDef DEF Number
  <2>. QED  BY <2>1, <2>2, <2>3
<1>6. NoneTwice(a)
  <2>1. ASSUME NEW i \in 1..m, q[i].kind = "sensor", f.kind = "sensor" PROVE q[i].no # f.no
    BY <2>1, SensorsDef DEF Number, m
  <2>2. ASSUME NEW i \in 1..(m + 1), NEW j \in 1..(m + 1),
               a[i].kind = "sensor", a[j].kind = "sensor", a[i].no = a[j].no
        PROVE  i = j
    BY <1>1, <1>2, <2>1, <2>2 DEF NoneTwice, m
  <2>. QED  BY <1>1, <2>2 DEF NoneTwice
<1>. QED  BY <1>1, <1>5, <1>6 DEF a

\* The frame at the head of the queue taken out.
LEMMA TailSensors ==
  ASSUME NEW q \in Seq(Frames), q # <<>>, NoneTwice(q)
  PROVE  /\ Head(q) \in Frames /\ Tail(q) \in Seq(Frames) /\ NoneTwice(Tail(q))
         /\ Sensors(q) = Sensors(Tail(q)) \cup Number(Head(q))
         /\ Sensors(Tail(q)) \cap Number(Head(q)) = {}
<1>. DEFINE t == Tail(q)
            h == Head(q)
            m == Len(t)
<1>1. /\ t \in Seq(Frames) /\ h \in Frames /\ m \in Nat /\ Len(q) = m + 1
      /\ h = q[1] /\ \A i \in 1..m : t[i] = q[i + 1]
  OBVIOUS
<1>. HIDE DEF t, h, m
<1>2. \A i \in 1..(m + 1) : i = 1 \/ (i - 1 \in 1..m /\ t[i - 1] = q[i])
  BY <1>1
<1>3. \A i \in 1..m : i + 1 \in 1..(m + 1) /\ i + 1 # 1
  BY <1>1
<1>4. 1 \in 1..(m + 1)
  BY <1>1
<1>5. Sensors(q) = Sensors(t) \cup Number(h)
  <2>1. ASSUME NEW n \in Sensors(q) PROVE n \in Sensors(t) \cup Number(h)
    <3>1. PICK i \in 1..(m + 1) : q[i].kind = "sensor" /\ q[i].no = n
      BY <1>1, SensorsDef
    <3>. QED  BY <1>1, <1>2, <3>1, SensorsDef DEF Number, m
  <2>2. ASSUME NEW n \in Sensors(t) PROVE n \in Sensors(q)
    <3>1. PICK i \in 1..m : t[i].kind = "sensor" /\ t[i].no = n
      BY SensorsDef DEF m
    <3>2. i + 1 \in 1..Len(q) /\ q[i + 1].kind = "sensor" /\ q[i + 1].no = n
      BY <1>1, <1>3, <3>1
    <3>. QED  BY <3>2, SensorsDef
  <2>3. ASSUME NEW n \in Number(h) PROVE n \in Sensors(q)
    BY <1>1, <1>4, <2>3, SensorsDef DEF Number
  <2>. QED  BY <2>1, <2>2, <2>3
<1>6. NoneTwice(t)
  <2>1. ASSUME NEW i \in 1..m, NEW j \in 1..m,
               t[i].kind = "sensor", t[j].kind = "sensor", t[i].no = t[j].no
        PROVE  i = j
    <3>1. i + 1 = j + 1  BY <1>1, <1>3, <2>1 DEF NoneTwice
    <3>. QED  BY <3>1
  <2>. QED  BY <2>1 DEF NoneTwice, m
<1>7. ASSUME NEW n \in Sensors(t), n \in Number(h) PROVE FALSE
  <2>1. PICK i \in 1..m : t[i].kind = "sensor" /\ t[i].no = n
    BY SensorsDef DEF m
  <2>2. q[1].kind = "sensor" /\ q[1].no = n
    BY <1>1, <1>7 DEF Number
  <2>3. i + 1 = 1
    BY <1>1, <1>3, <1>4, <2>1, <2>2 DEF NoneTwice
  <2>. QED  BY <1>3, <2>3
<1>. QED  BY <1>1, <1>5, <1>6, <1>7 DEF t, h

\* A step that moves no frame.
LEMMA NothingMoves ==
  ASSUME KInv, UNCHANGED <<rx_queue, rxb, sensors, received>>, panicked' => panicked
  PROVE  ~panicked => Kept'
BY DEF KInv, Kept

LEMMA KinvInit == Init => KInv
<1>. SUFFICES ASSUME Init PROVE KInv
  OBVIOUS
<1>1. IInv  BY InitIInv
<1>2. rx_queue = <<>> /\ rx_queue \in Seq(Frames) /\ NoneTwice(rx_queue)
  BY DEF Init, NoneTwice
<1>3. Sensors(rx_queue) = {}
  BY <1>2 DEF Sensors, FramesIn
<1>4. Number(rxb[1]) = {} /\ Number(rxb[2]) = {}
  BY Kinds DEF Init, Number
<1>. QED  BY <1>1, <1>2, <1>3, <1>4 DEF Init, KInv, Kept, Split

\* The controller stores a frame in an empty buffer, or drops it.
LEMMA StoreKeeps ==
  ASSUME KInv, ~panicked, SensorFrame \/ Answer
  PROVE  Kept'
<1>1. /\ Types /\ Kept /\ rxb \in [1..2 -> Frames] /\ sensors \in Nat /\ UNCHANGED rx_queue
      /\ UNCHANGED received
  BY DEF KInv, IInv, Types, SensorFrame, Answer
<1>2. Number(Empty) = {}
  BY Kinds DEF Number
<1>3. CASE SensorFrame
  <2>1. PICK i \in 1..2 : rxb[i] = Empty /\ rxb' = [rxb EXCEPT ![i] = Sensor(sensors + 1)]
    BY <1>3 DEF SensorFrame, Store
  <2>2. Number(Sensor(sensors + 1)) = {sensors + 1}
    BY DEF Number, Sensor
  <2>3. sensors' = sensors + 1
    BY <1>3 DEF SensorFrame
  <2>4. 1..(sensors + 1) = (1..sensors) \cup {sensors + 1} /\ sensors + 1 \notin 1..sensors
    BY <1>1
  <2>5. Number(rxb'[i]) = {sensors + 1} /\ Number(rxb[i]) = {}
        /\ \A j \in 1..2 : j # i => rxb'[j] = rxb[j]
    BY <1>1, <1>2, <2>1, <2>2
  <2>6. Split(received, Number(rxb'[1]), Number(rxb'[2]), Sensors(rx_queue), sensors + 1)
    <3>1. CASE i = 1  BY <1>1, <2>4, <2>5, <3>1 DEF Kept, Split
    <3>2. CASE i = 2  BY <1>1, <2>4, <2>5, <3>2 DEF Kept, Split
    <3>. QED  BY <3>1, <3>2
  <2>. QED  BY <1>1, <2>3, <2>6 DEF Kept
<1>4. CASE Answer
  <2>1. Head(box) \in Commands
    BY <1>1, <1>4 DEF Answer, Types
  <2>2. Number(ReplyFrame(Head(box))) = {}
    BY <2>1, Kinds DEF Number
  <2>3. \A j \in 1..2 : Number(rxb'[j]) = Number(rxb[j])
    <3>1. \/ rxb' = rxb
          \/ \E i \in 1..2 : rxb[i] = Empty /\ rxb' = [rxb EXCEPT ![i] = ReplyFrame(Head(box))]
      BY <1>4 DEF Answer, Store
    <3>. QED  BY <1>1, <1>2, <2>2, <3>1
  <2>. QED  BY <1>1, <1>4, <2>3 DEF Answer, Kept
<1>. QED  BY <1>3, <1>4

\* A frame read from a buffer leaves its number to whoever takes it.
LEMMA ReadNumber ==
  ASSUME Types, NEW i \in 1..2, ReadBuffer(i)
  PROVE  Number(rxb'[i]) = {} /\ \A j \in 1..2 : j # i => rxb'[j] = rxb[j]
<1>1. Number(Empty) = {}
  BY Kinds DEF Number
<1>. QED  BY <1>1 DEF Types, ReadBuffer

\* The frame in buffer i goes to the reader, to the queue, or was an answer.
LEMMA MoveKeeps ==
  ASSUME Types, Kept, NEW i \in 1..2, ReadBuffer(i), UNCHANGED sensors,
         \/ received' = received \cup Number(rxb[i]) /\ UNCHANGED rx_queue
         \/ rx_queue' = Append(rx_queue, rxb[i]) /\ UNCHANGED received
         \/ Number(rxb[i]) = {} /\ UNCHANGED <<received, rx_queue>>
  PROVE  Kept'
<1>. DEFINE r == received'
            s == Sensors(rx_queue)'
<1>1. /\ Number(rxb'[i]) = {} /\ \A j \in 1..2 : j # i => rxb'[j] = rxb[j]
  BY ReadNumber
<1>2. /\ rx_queue' \in Seq(Frames) /\ NoneTwice(rx_queue)'
      /\ \/ r = received \cup Number(rxb[i]) /\ s = Sensors(rx_queue)
         \/ r = received /\ s = Sensors(rx_queue) \cup Number(rxb[i])
  <2>1. CASE rx_queue' = rx_queue
    BY <2>1 DEF Kept
  <2>2. CASE rx_queue' = Append(rx_queue, rxb[i]) /\ UNCHANGED received
    <3>1. rxb[i] \in Frames /\ rx_queue \in Seq(Frames) /\ NoneTwice(rx_queue)
      BY DEF Types, Kept
    <3>2. Number(rxb[i]) \cap Sensors(rx_queue) = {}
      <4>1. CASE i = 1  BY <4>1 DEF Kept, Split
      <4>2. CASE i = 2  BY <4>2 DEF Kept, Split
      <4>. QED  BY <4>1, <4>2
    <3>3. /\ Append(rx_queue, rxb[i]) \in Seq(Frames) /\ NoneTwice(Append(rx_queue, rxb[i]))
          /\ Sensors(Append(rx_queue, rxb[i])) = Sensors(rx_queue) \cup Number(rxb[i])
      BY <3>1, <3>2, AppendSensors
    <3>. QED  BY <2>2, <3>3
  <2>. QED  BY <2>1, <2>2
<1>3. Split(r, Number(rxb'[1]), Number(rxb'[2]), s, sensors)
  <2>0. Split(received, Number(rxb[1]), Number(rxb[2]), Sensors(rx_queue), sensors)
    BY DEF Kept
  <2>. HIDE DEF r, s
  <2>1. CASE i = 1  BY <1>1, <1>2, <2>0, <2>1 DEF Split
  <2>2. CASE i = 2  BY <1>1, <1>2, <2>0, <2>2 DEF Split
  <2>. QED  BY <2>1, <2>2
<1>. QED  BY <1>2, <1>3 DEF Kept

LEMMA DrainKeeps ==
  ASSUME KInv, ~panicked, DrainOne, ~panicked'
  PROVE  Kept'
<1>1. Types /\ Kept /\ FirstFull \in 1..2 /\ ReadBuffer(FirstFull) /\ UNCHANGED sensors
  BY DEF KInv, IInv, FirstFull, DrainOne
<1>2. CASE IsPendingReplyMatch(rxb[FirstFull])
  <2>1. Number(rxb[FirstFull]) = {}
    BY <1>2 DEF IsPendingReplyMatch, Number
  <2>2. UNCHANGED <<received, rx_queue>>
    BY <1>2 DEF DrainOne
  <2>. QED  BY <1>1, <2>1, <2>2, MoveKeeps
<1>3. CASE ~IsPendingReplyMatch(rxb[FirstFull])
  <2>1. DispatchRxFrame(rxb[FirstFull])
    BY <1>3 DEF DrainOne
  <2>2. Got(rxb[FirstFull]) = received \cup Number(rxb[FirstFull])
    BY DEF Got, Number
  <2>. QED  BY <1>1, <2>1, <2>2, MoveKeeps DEF DispatchRxFrame
<1>. QED  BY <1>2, <1>3

LEMMA RecvKeeps ==
  ASSUME KInv, ~panicked, ServeRecv
  PROVE  Kept'
<1>1. Types /\ Kept /\ FirstFull \in 1..2 /\ UNCHANGED sensors
  BY DEF KInv, IInv, FirstFull, ServeRecv
<1>2. CASE rx_queue # <<>>
  <2>1. rx_queue' = Tail(rx_queue) /\ UNCHANGED rxb
        /\ received' = received \cup Number(Head(rx_queue))
    BY <1>2 DEF ServeRecv, Got, Number
  <2>2. /\ Tail(rx_queue) \in Seq(Frames) /\ NoneTwice(Tail(rx_queue))
        /\ Sensors(rx_queue) = Sensors(Tail(rx_queue)) \cup Number(Head(rx_queue))
        /\ Sensors(Tail(rx_queue)) \cap Number(Head(rx_queue)) = {}
    BY <1>1, <1>2, TailSensors DEF Kept
  <2>3. Split(received \cup Number(Head(rx_queue)), Number(rxb[1]), Number(rxb[2]),
              Sensors(Tail(rx_queue)), sensors)
    BY <1>1, <2>2 DEF Kept, Split
  <2>. QED  BY <1>1, <2>1, <2>2, <2>3 DEF Kept
<1>3. CASE rx_queue = <<>> /\ "RX" \in Intf
  <2>1. Got(rxb[FirstFull]) = received \cup Number(rxb[FirstFull])
    BY DEF Got, Number
  <2>. QED  BY <1>1, <1>3, <2>1, MoveKeeps DEF ServeRecv
<1>4. CASE rx_queue = <<>> /\ "RX" \notin Intf
  BY <1>1, <1>4 DEF ServeRecv, Kept
<1>. QED  BY <1>2, <1>3, <1>4

\* ENABLE_INT empties the buffers; the model counts what they held as received.
LEMMA EnableKeeps ==
  ASSUME KInv, ~panicked, ServeEnableInt
  PROVE  Kept'
<1>1. Types /\ Kept /\ UNCHANGED <<sensors, rx_queue>> /\ rxb' = <<Empty, Empty>>
  BY DEF KInv, IInv, ServeEnableInt
<1>2. Number(rxb'[1]) = {} /\ Number(rxb'[2]) = {}
  BY <1>1, Kinds DEF Number
<1>3. received' = received \cup Number(rxb[1]) \cup Number(rxb[2])
  <2>1. {rxb[i].no : i \in {j \in 1..2 : rxb[j].kind = "sensor"}}
          = Number(rxb[1]) \cup Number(rxb[2])
    BY DEF Number
  <2>. QED  BY <2>1 DEF ServeEnableInt
<1>. QED  BY <1>1, <1>2, <1>3 DEF Kept, Split

LEMMA KeptInvariance == Spec => []KInv
<1>1. KInv /\ [Next]_vars => KInv'
  <2>. SUFFICES ASSUME KInv, [Next]_vars, ~panicked' PROVE Kept'
    BY StepInvariant DEF KInv
  <2>1. CASE SensorFrame \/ Answer
    BY <2>1, StoreKeeps DEF SensorFrame, Answer
  <2>2. CASE Transmit \/ GpioInterrupt
    BY <2>2, NothingMoves DEF Transmit, GpioInterrupt
  <2>3. CASE NotifierStep
    BY <2>3, NothingMoves DEF NotifierStep, NotifierAwait, NotifierSend, hardware
  <2>4. CASE CallEnableInterrupts \/ CallReceive \/ \E k \in Keys : CallSend(k)
    <3>1. UNCHANGED <<rx_queue, rxb, sensors, received, panicked>>
      BY <2>4 DEF CallEnableInterrupts, CallReceive, CallSend, hardware
    <3>. QED  BY <3>1, NothingMoves
  <2>5. CASE ServerStep /\ (RxNotifyStart \/ DrainEnd \/ FrameSent \/ RxNotifyEnd \/ ServeSend)
    BY <2>5, NothingMoves DEF RxNotifyStart, DrainEnd, FrameSent, RxNotifyEnd, ServeSend, hardware
  <2>6. CASE ServerStep /\ (DrainOne \/ ServeRecv \/ ServeEnableInt)
    BY <2>6, DrainKeeps, RecvKeeps, EnableKeeps DEF ServerStep
  <2>7. CASE UNCHANGED vars
    BY <2>7, NothingMoves DEF vars, hardware
  <2>. QED  BY <2>1, <2>2, <2>3, <2>4, <2>5, <2>6, <2>7 DEF Next, ServerStep
<1>. QED  BY <1>1, KinvInit, PTL DEF Spec

\* FramesKept: no frame the controller stored is lost or given twice on its way through
\* the two receive buffers, the queue and the waiting reader, whatever the order of
\* interrupts, notifications and calls (can_try_recv, dispatch_rx_frame).
THEOREM NoFrameLost == Spec => []FramesKept
<1>1. KInv => FramesKept
  <2>. SUFFICES ASSUME KInv, ~panicked
                PROVE  LET places == {received, Sensors(<<rxb[1]>>), Sensors(<<rxb[2]>>),
                                      Sensors(rx_queue)} \ {{}} IN
                       /\ UNION places = 1..sensors
                       /\ \A p, q \in places : p # q => p \cap q = {}
    BY DEF FramesKept
  <2>1. \A i \in 1..2 : Sensors(<<rxb[i]>>) = Number(rxb[i])
    BY DEF Sensors, FramesIn, Number
  <2>2. Split(received, Number(rxb[1]), Number(rxb[2]), Sensors(rx_queue), sensors)
    BY DEF KInv, Kept
  <2>. QED  BY <2>1, <2>2 DEF Split
<1>. QED  BY <1>1, KeptInvariance, PTL
===============================================================================
