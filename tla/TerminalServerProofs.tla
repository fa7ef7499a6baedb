------------------------- MODULE TerminalServerProofs -------------------------
(***************************************************************************)
(* The terminal server, for any number of writers and readers and any      *)
(* sizes of the buffers: the reply withheld from the TX notifier is         *)
(* neither forgotten nor sent twice, what is typed is read in order, and   *)
(* every character handed over leaves the UART once and in order.          *)
(***************************************************************************)
EXTENDS TerminalServer, QueueLemmas

Messages ==
  [type : {"TX_NOTIFY"}] \cup [type : {"PUTS"}, from : Writers, len : Nat]
    \cup [type : {"RX_NOTIFY"}, ch : Nat] \cup [type : {"GETC"}, from : Readers]

Types ==
  /\ inbox \in Seq(Messages) /\ serving \in Messages \cup {Idle}
  /\ rx_fifo \in Seq(Nat) /\ typed \in Nat

TxNotifyQueued(i) == i \in 1..Len(inbox) /\ inbox[i].type = "TX_NOTIFY"
TxNotifyServed == serving.type = "TX_NOTIFY"

\* The notifier's one request is in the queue, being served, or answered later; then
\* the notifier is blocked in its Send.
OneRequest ==
  /\ \A i : TxNotifyQueued(i) => tx_notifier = "sent" /\ ~TxNotifyServed
  /\ \A i, j : TxNotifyQueued(i) /\ TxNotifyQueued(j) => i = j
  /\ TxNotifyServed => tx_notifier = "sent" /\ ~notifier_blocked

IInv == Types /\ OneRequest /\ NotifierNotStranded

\* At the start nothing has been sent.
LEMMA InitIInv == Init => IInv
<1>. SUFFICES ASSUME Init PROVE IInv
  OBVIOUS
<1>1. Types
  BY DEF Init, Types
<1>2. OneRequest
  BY DEF Init, OneRequest, TxNotifyQueued, TxNotifyServed, Idle
<1>3. NotifierNotStranded
  BY DEF Init, NotifierNotStranded
<1>. QED  BY <1>1, <1>2, <1>3 DEF IInv

\* A step that only may queue a message of another task.
LEMMA AppendOther ==
  ASSUME IInv, NEW m \in Messages, m.type # "TX_NOTIFY",
         inbox' = Append(inbox, m), rx_fifo' \in Seq(Nat), typed' \in Nat,
         UNCHANGED <<serving, tx_notifier, notifier_blocked, tx_buf, putc_waiters>>
  PROVE  IInv'
<1>1. Types'
  BY DEF IInv, Types
<1>2. \A i : TxNotifyQueued(i)' => TxNotifyQueued(i)
  BY DEF IInv, Types, TxNotifyQueued
<1>3. OneRequest'
  BY <1>2 DEF IInv, OneRequest, TxNotifyServed
<1>4. NotifierNotStranded'
  BY <1>2 DEF IInv, NotifierNotStranded, TxNotifyQueued
<1>. QED  BY <1>1, <1>3, <1>4 DEF IInv

\* What is left in the queue when its first message is taken.
LEMMA Taken ==
  ASSUME IInv, inbox # <<>>, inbox' = Tail(inbox)
  PROVE  /\ inbox' \in Seq(Messages) /\ Head(inbox) \in Messages
         /\ \A i : TxNotifyQueued(i)' => TxNotifyQueued(i + 1) /\ i \in Nat \ {0}
         /\ Head(inbox).type = "TX_NOTIFY" => TxNotifyQueued(1)
<1>1. inbox \in Seq(Messages)
  BY DEF IInv, Types
<1>2. /\ inbox' \in Seq(Messages) /\ Len(inbox') = Len(inbox) - 1
      /\ Len(inbox) \in Nat \ {0} /\ Head(inbox) = inbox[1]
  BY <1>1
<1>3. \A i \in 1..Len(inbox') : inbox'[i] = inbox[i + 1]
  BY <1>1, <1>2
<1>4. Head(inbox) \in Messages
  BY <1>1, <1>2
<1>5. ASSUME NEW i, TxNotifyQueued(i)'
      PROVE  TxNotifyQueued(i + 1) /\ i \in Nat \ {0}
  BY <1>2, <1>3, <1>5 DEF TxNotifyQueued
<1>6. Head(inbox).type = "TX_NOTIFY" => TxNotifyQueued(1)
  BY <1>2 DEF TxNotifyQueued
<1>. QED  BY <1>2, <1>4, <1>5, <1>6

\* A request of another task is served in one step.
LEMMA TakeOther ==
  ASSUME IInv, inbox # <<>>, inbox' = Tail(inbox), Head(inbox).type # "TX_NOTIFY",
         UNCHANGED <<serving, tx_notifier, notifier_blocked, tx_buf, putc_waiters, rx_fifo, typed>>
  PROVE  IInv'
<1>0. /\ inbox' \in Seq(Messages)
      /\ \A i : TxNotifyQueued(i)' => TxNotifyQueued(i + 1) /\ i \in Nat \ {0}
  BY Taken
<1>1. Types'
  BY <1>0 DEF IInv, Types
<1>2. OneRequest'
  BY <1>0 DEF IInv, OneRequest, TxNotifyServed
<1>3. NotifierNotStranded'
  BY <1>0 DEF IInv, NotifierNotStranded, TxNotifyQueued
<1>. QED  BY <1>1, <1>2, <1>3 DEF IInv

\* A step of the notifier before it sends: it is not blocked.
LEMMA NotifierMoves ==
  ASSUME IInv, tx_notifier # "sent", UNCHANGED <<inbox, serving, notifier_blocked, rx_fifo, typed>>
  PROVE  IInv'
<1>1. Types'
  BY DEF IInv, Types
<1>2. OneRequest'
  BY DEF IInv, OneRequest, TxNotifyQueued, TxNotifyServed
<1>3. NotifierNotStranded'
  BY DEF IInv, NotifierNotStranded
<1>. QED  BY <1>1, <1>2, <1>3 DEF IInv

\* Every step keeps the invariant.
LEMMA NextIInv == IInv /\ [Next]_vars => IInv'
<1>. SUFFICES ASSUME IInv, [Next]_vars PROVE IInv'
  OBVIOUS
<1>1. CASE TxNotifierStep
  <2>1. CASE TxPoll
    BY <2>1, NotifierMoves DEF TxPoll, rxVars
  <2>2. CASE TxEnable
    BY <2>2, NotifierMoves DEF TxEnable, rxVars
  <2>3. CASE TxAwait
    BY <2>3, NotifierMoves DEF TxAwait, rxVars
  <2>4. CASE TxSend
    <3>. DEFINE m == [type |-> "TX_NOTIFY"]
    <3>1. /\ inbox \in Seq(Messages) /\ m \in Messages /\ inbox' = Append(inbox, m)
          /\ tx_notifier # "sent" /\ tx_notifier' = "sent"
          /\ UNCHANGED <<serving, notifier_blocked, rx_fifo, typed>>
      BY <2>4 DEF TxSend, rxVars, IInv, Types, Messages
    <3>2. Types'
      <4>1. inbox' \in Seq(Messages)  BY <3>1
      <4>. QED  BY <3>1, <4>1 DEF IInv, Types
    <3>3. \A i : TxNotifyQueued(i)' => i = Len(inbox) + 1
      <4>1. Len(inbox') = Len(inbox) + 1 /\ Len(inbox) \in Nat
        BY <3>1
      <4>2. \A i \in 1..Len(inbox) : inbox'[i] = inbox[i] /\ inbox[i].type # "TX_NOTIFY"
        BY <3>1 DEF IInv, OneRequest, TxNotifyQueued
      <4>. QED  BY <4>1, <4>2 DEF TxNotifyQueued
    <3>4. ~TxNotifyServed /\ ~notifier_blocked
      BY <3>1 DEF IInv, OneRequest, NotifierNotStranded
    <3>5. OneRequest'
      BY <3>1, <3>3, <3>4 DEF OneRequest, TxNotifyServed
    <3>6. NotifierNotStranded'
      BY <3>1, <3>4 DEF NotifierNotStranded
    <3>. QED  BY <3>2, <3>5, <3>6 DEF IInv
  <2>. QED  BY <1>1, <2>1, <2>2, <2>3, <2>4 DEF TxNotifierStep
<1>2. CASE RxNotifierStep
  <2>1. CASE RxPoll
    <3>1. CASE rx_fifo # <<>>
      <4>0. rx_fifo \in Seq(Nat) /\ rx_fifo' = Tail(rx_fifo)
        BY <2>1, <3>1 DEF RxPoll, IInv, Types
      <4>1. rx_fifo' \in Seq(Nat) /\ Head(rx_fifo) \in Nat
        BY <3>1, <4>0
      <4>2. [type |-> "RX_NOTIFY", ch |-> Head(rx_fifo)] \in Messages
        BY <4>1 DEF Messages
      <4>3. /\ inbox' = Append(inbox, [type |-> "RX_NOTIFY", ch |-> Head(rx_fifo)])
            /\ UNCHANGED <<serving, tx_notifier, notifier_blocked, tx_buf, putc_waiters, typed>>
        BY <2>1, <3>1 DEF RxPoll, txVars
      <4>. QED  BY <4>1, <4>2, <4>3, AppendOther DEF IInv, Types
    <3>2. CASE rx_fifo = <<>>
      BY <2>1, <3>2 DEF RxPoll, txVars, IInv, Types, OneRequest, NotifierNotStranded,
           TxNotifyQueued, TxNotifyServed
    <3>. QED  BY <3>1, <3>2
  <2>2. CASE RxAwait
    BY <2>2 DEF RxAwait, txVars, IInv, Types, OneRequest, NotifierNotStranded,
         TxNotifyQueued, TxNotifyServed
  <2>. QED  BY <1>2, <2>1, <2>2 DEF RxNotifierStep
<1>3. CASE StartPuts
  <2>1. /\ inbox # <<>> /\ inbox' = Tail(inbox) /\ serving' = Head(inbox)
        /\ Head(inbox).type = "PUTS"
        /\ UNCHANGED <<tx_notifier, notifier_blocked, rx_fifo, typed>>
    BY <1>3 DEF StartPuts, rxVars
  <2>2. /\ inbox' \in Seq(Messages) /\ Head(inbox) \in Messages
        /\ \A i : TxNotifyQueued(i)' => TxNotifyQueued(i + 1) /\ i \in Nat \ {0}
    BY <2>1, Taken
  <2>3. Types'
    BY <2>1, <2>2 DEF IInv, Types
  <2>4. OneRequest'
    BY <2>1, <2>2 DEF IInv, OneRequest, TxNotifyServed
  <2>5. NotifierNotStranded'
    BY <2>1, <2>2 DEF IInv, NotifierNotStranded, TxNotifyQueued, Idle
  <2>. QED  BY <2>3, <2>4, <2>5 DEF IInv
<1>4. CASE StartTxNotify
  <2>1. /\ inbox # <<>> /\ inbox' = Tail(inbox) /\ serving' = Head(inbox)
        /\ Head(inbox).type = "TX_NOTIFY"
        /\ UNCHANGED <<tx_notifier, notifier_blocked, rx_fifo, typed>>
    BY <1>4 DEF StartTxNotify, txVars, rxVars
  <2>2. /\ inbox' \in Seq(Messages) /\ Head(inbox) \in Messages
        /\ \A i : TxNotifyQueued(i)' => TxNotifyQueued(i + 1) /\ i \in Nat \ {0}
        /\ TxNotifyQueued(1)
    BY <2>1, Taken
  <2>3. Types'
    BY <2>1, <2>2 DEF IInv, Types
  <2>4. \A i : ~TxNotifyQueued(i)'
    <3>1. SUFFICES ASSUME NEW i, TxNotifyQueued(i)' PROVE FALSE
      OBVIOUS
    <3>2. i \in Nat \ {0} /\ i + 1 = 1
      BY <2>2, <3>1 DEF IInv, OneRequest
    <3>. QED  BY <3>2
  <2>5. tx_notifier = "sent" /\ ~notifier_blocked
    BY <2>2 DEF IInv, OneRequest, NotifierNotStranded, TxNotifyQueued
  <2>6. OneRequest'
    BY <2>1, <2>4, <2>5 DEF OneRequest, TxNotifyServed
  <2>7. NotifierNotStranded'
    BY <2>1, <2>5 DEF NotifierNotStranded
  <2>. QED  BY <2>3, <2>6, <2>7 DEF IInv
<1>5. CASE FlushOne
  BY <1>5 DEF FlushOne, rxVars, IInv, Types, OneRequest, NotifierNotStranded,
       TxNotifyQueued, TxNotifyServed
<1>6. CASE FinishTxNotify
  <2>1. /\ serving' = Idle /\ UNCHANGED <<inbox, rx_fifo, typed>> /\ TxNotifyServed
        /\ \/ notifier_blocked' /\ tx_notifier' = tx_notifier
                /\ tx_buf' = <<>> /\ putc_waiters' = <<>>
           \/ ~notifier_blocked'
    BY <1>6 DEF FinishTxNotify, rxVars, TxNotifyServed
  <2>2. \A i : ~TxNotifyQueued(i) /\ ~TxNotifyQueued(i)'
    BY <2>1 DEF IInv, OneRequest, TxNotifyQueued
  <2>3. Types'
    BY <2>1 DEF IInv, Types
  <2>4. ~TxNotifyServed'
    BY <2>1 DEF TxNotifyServed, Idle
  <2>5. OneRequest'
    BY <2>2, <2>4 DEF OneRequest
  <2>6. NotifierNotStranded'
    BY <2>1, <2>2, <2>4 DEF IInv, OneRequest, NotifierNotStranded, TxNotifyQueued, TxNotifyServed
  <2>. QED  BY <2>3, <2>5, <2>6 DEF IInv
<1>7. CASE FinishPuts
  <2>1. /\ serving' = Idle /\ UNCHANGED <<inbox, rx_fifo, typed, tx_buf, putc_waiters>>
        /\ IF notifier_blocked /\ OutputLeft
           THEN ~notifier_blocked'
           ELSE UNCHANGED <<notifier_blocked, tx_notifier>>
        /\ ~TxNotifyServed
    BY <1>7 DEF FinishPuts, rxVars, TxNotifyServed
  <2>2. Types'
    BY <2>1 DEF IInv, Types
  <2>3. ~TxNotifyServed'
    BY <2>1 DEF TxNotifyServed, Idle
  <2>4. CASE notifier_blocked /\ OutputLeft
    <3>1. \A i : ~TxNotifyQueued(i)'
      BY <2>1, <2>4 DEF IInv, NotifierNotStranded, TxNotifyQueued
    <3>. QED  BY <2>1, <2>2, <2>3, <2>4, <3>1 DEF IInv, OneRequest, NotifierNotStranded
  <2>5. CASE ~(notifier_blocked /\ OutputLeft)
    <3>1. OneRequest'
      BY <2>1, <2>3, <2>5 DEF IInv, OneRequest, TxNotifyQueued, TxNotifyServed
    <3>2. NotifierNotStranded'
      BY <2>1, <2>3, <2>5 DEF IInv, NotifierNotStranded, TxNotifyServed, OutputLeft
    <3>. QED  BY <2>2, <3>1, <3>2 DEF IInv
  <2>. QED  BY <2>4, <2>5
<1>8. CASE ServeRxNotify
  BY <1>8, TakeOther DEF ServeRxNotify, txVars
<1>9. CASE ServeGetc
  BY <1>9, TakeOther DEF ServeGetc, txVars
<1>10. CASE Transmit
  BY <1>10 DEF Transmit, rxVars, IInv, Types, OneRequest, NotifierNotStranded,
       TxNotifyQueued, TxNotifyServed
<1>11. CASE TxInterrupt
  <2>1. CASE tx_notifier = "awaiting"
    BY <1>11, <2>1, NotifierMoves DEF TxInterrupt, rxVars
  <2>2. CASE tx_notifier # "awaiting"
    BY <1>11, <2>2 DEF TxInterrupt, rxVars, IInv, Types, OneRequest, NotifierNotStranded,
         TxNotifyQueued, TxNotifyServed
  <2>. QED  BY <2>1, <2>2
<1>12. CASE RxInterrupt
  BY <1>12 DEF RxInterrupt, txVars, IInv, Types, OneRequest, NotifierNotStranded,
       TxNotifyQueued, TxNotifyServed
<1>13. CASE Type
  <2>1. rx_fifo' \in Seq(Nat) /\ typed' \in Nat
    BY <1>13 DEF Type, IInv, Types
  <2>. QED
    BY <1>13, <2>1 DEF Type, txVars, IInv, Types, OneRequest, NotifierNotStranded,
         TxNotifyQueued, TxNotifyServed
<1>14. ASSUME NEW w \in Writers, NEW n \in 1..TERM_MAX_STR_LEN, CallPuts(w, n) PROVE IInv'
  <2>. DEFINE m == [type |-> "PUTS", from |-> w, len |-> n]
  <2>1. n \in Nat
    BY TerminalAssumption
  <2>2. m \in Messages /\ m.type # "TX_NOTIFY"
    BY <2>1 DEF Messages
  <2>3. /\ inbox' = Append(inbox, m) /\ rx_fifo' \in Seq(Nat) /\ typed' \in Nat
        /\ UNCHANGED <<serving, tx_notifier, notifier_blocked, tx_buf, putc_waiters>>
    BY <1>14 DEF CallPuts, rxVars, IInv, Types
  <2>. QED  BY <2>2, <2>3, AppendOther
<1>15. ASSUME NEW r \in Readers, CallGetc(r) PROVE IInv'
  <2>. DEFINE m == [type |-> "GETC", from |-> r]
  <2>1. m \in Messages /\ m.type # "TX_NOTIFY"
    BY DEF Messages
  <2>2. /\ inbox' = Append(inbox, m) /\ rx_fifo' \in Seq(Nat) /\ typed' \in Nat
        /\ UNCHANGED <<serving, tx_notifier, notifier_blocked, tx_buf, putc_waiters>>
    BY <1>15 DEF CallGetc, txVars, IInv, Types
  <2>. QED  BY <2>1, <2>2, AppendOther
<1>16. CASE UNCHANGED vars
  BY <1>16 DEF vars, txVars, rxVars, IInv, Types, OneRequest, NotifierNotStranded,
       TxNotifyQueued, TxNotifyServed
<1>. QED
  BY <1>1, <1>2, <1>3, <1>4, <1>5, <1>6, <1>7, <1>8, <1>9, <1>10, <1>11, <1>12, <1>13,
     <1>14, <1>15, <1>16 DEF Next, ServerStep

\* NotifierNotStranded: the reply that the server withholds from the TX notifier is
\* sent, once, by the end of the first request that leaves output behind
\* (tx_notifier_blocked_tid).
THEOREM ReplyNotForgotten == Spec => []NotifierNotStranded
<1>1. Spec => []IInv
  BY InitIInv, NextIInv, PTL DEF Spec
<1>2. IInv => NotifierNotStranded
  BY DEF IInv
<1>. QED  BY <1>1, <1>2, PTL

-----------------------------------------------------------------------------
(* Input *)

\* The characters the notifier has sent and the server has not yet taken.
Sent == {inbox[i].ch : i \in OnTheirWay}

InInv ==
  /\ rx_buffer \in Seq(Nat) /\ getc_waiters \in Seq(Readers) /\ got \in [Readers -> Nat]
  /\ InputInOrder
  /\ \A x \in ToSet(rx_buffer) \cup Sent \cup ToSet(rx_fifo) : x \in Nat /\ x <= typed
  /\ \A r \in Readers : got[r] <= typed

\* A character arrives behind all the others.
LEMMA Behind ==
  ASSUME NEW s \in Seq(Nat), NEW x \in Nat
  PROVE  /\ Append(s, x) \in Seq(Nat) /\ ToSet(Append(s, x)) = ToSet(s) \cup {x}
         /\ Increasing(s) /\ (\A y \in ToSet(s) : y < x) => Increasing(Append(s, x))
<1>. DEFINE a == Append(s, x)
<1>1. /\ a \in Seq(Nat) /\ Len(s) \in Nat /\ DOMAIN a = 1..(Len(s) + 1)
      /\ DOMAIN s = 1..Len(s) /\ a[Len(s) + 1] = x
      /\ \A i \in 1..Len(s) : a[i] = s[i]
  BY AppendProperties, LenProperties
<1>. HIDE DEF a
<1>2. ToSet(a) = ToSet(s) \cup {x}
  BY <1>1 DEF ToSet
<1>3. ASSUME Increasing(s), \A y \in ToSet(s) : y < x PROVE Increasing(a)
  <2>. SUFFICES ASSUME NEW i \in 1..(Len(s) + 1), NEW j \in 1..(Len(s) + 1), i < j
                PROVE  a[i] < a[j]
    BY <1>1 DEF Increasing
  <2>1. i \in 1..Len(s)
    BY <1>1
  <2>2. CASE j = Len(s) + 1
    BY <1>1, <1>3, <2>1, <2>2 DEF ToSet
  <2>3. CASE j # Len(s) + 1
    <3>1. j \in 1..Len(s)
      <4>1. Len(s) \in Nat
        BY <1>1
      <4>. HIDE DEF a
      <4>. QED  BY <2>3, <4>1
    <3>2. s[i] < s[j]
      BY <1>1, <1>3, <2>1, <3>1 DEF Increasing
    <3>. QED  BY <1>1, <2>1, <3>1, <3>2
  <2>. QED  BY <2>2, <2>3
<1>. QED  BY <1>1, <1>2, <1>3 DEF a

\* The oldest character leaves.
LEMMA Oldest ==
  ASSUME NEW s \in Seq(Nat), s # <<>>
  PROVE  /\ Tail(s) \in Seq(Nat) /\ Head(s) \in Nat
         /\ ToSet(s) = ToSet(Tail(s)) \cup {Head(s)}
         /\ Increasing(s) => Increasing(Tail(s)) /\ \A y \in ToSet(Tail(s)) : Head(s) < y
<1>. DEFINE t == Tail(s)
<1>1. /\ Head(s) \in Nat /\ t \in Seq(Nat) /\ Len(s) \in Nat \ {0} /\ Len(t) = Len(s) - 1
      /\ DOMAIN s = 1..Len(s) /\ DOMAIN t = 1..(Len(s) - 1)
      /\ \A i \in 1..(Len(s) - 1) : t[i] = s[i + 1]
      /\ Head(s) = s[1]
  BY HeadTailProperties, LenProperties, EmptySeq
<1>. HIDE DEF t
<1>2. ToSet(s) = ToSet(t) \cup {Head(s)}
  BY TailRange DEF ToSet, Range, t
<1>3. ASSUME Increasing(s) PROVE Increasing(t) /\ \A y \in ToSet(t) : Head(s) < y
  <2>1. \A i, j \in 1..Len(s) : i < j => s[i] < s[j]
    BY <1>1, <1>3 DEF Increasing
  <2>a. \A i \in 1..(Len(s) - 1) : i + 1 \in 1..Len(s) /\ 1 < i + 1 /\ t[i] = s[i + 1]
    BY <1>1
  <2>2. Increasing(t)
    <3>. SUFFICES ASSUME NEW i \in 1..(Len(s) - 1), NEW j \in 1..(Len(s) - 1), i < j
                  PROVE  t[i] < t[j]
      BY <1>1 DEF Increasing
    <3>1. i + 1 < j + 1
      BY <1>1
    <3>2. s[i + 1] < s[j + 1]
      BY <2>1, <2>a, <3>1
    <3>. QED  BY <2>a, <3>2
  <2>3. \A i \in 1..(Len(s) - 1) : s[1] < t[i]
    <3>1. 1 \in 1..Len(s)
      BY <1>1
    <3>. QED  BY <2>1, <2>a, <3>1
  <2>. QED  BY <1>1, <2>2, <2>3 DEF ToSet
<1>. QED  BY <1>1, <1>2, <1>3 DEF t

\* A message of another kind does not carry a character.
LEMMA OtherQueued ==
  ASSUME IInv, InInv, NEW m, m.type # "RX_NOTIFY", inbox' = Append(inbox, m),
         UNCHANGED <<rx_buffer, getc_waiters, got, rx_fifo, typed>>
  PROVE  InInv'
<1>1. /\ inbox \in Seq(Messages) /\ Len(inbox) \in Nat
      /\ Len(inbox') = Len(inbox) + 1 /\ inbox'[Len(inbox) + 1] = m
      /\ \A i \in 1..Len(inbox) : inbox'[i] = inbox[i]
  <2>1. inbox \in Seq(Messages)
    BY DEF IInv, Types
  <2>2. inbox \in Seq(Messages \cup {m})
    BY <2>1, SeqMonotonic
  <2>. QED  BY <2>1, <2>2, AppendProperties, LenProperties
<1>2. OnTheirWay' = OnTheirWay
  BY <1>1 DEF OnTheirWay
<1>3. \A i \in OnTheirWay : inbox'[i] = inbox[i]
  BY <1>1 DEF OnTheirWay
<1>4. Sent' = Sent
  BY <1>2, <1>3 DEF Sent
<1>5. \A i, j \in OnTheirWay' : i < j => inbox'[i].ch < inbox'[j].ch
  BY <1>2, <1>3 DEF InInv, InputInOrder
<1>6. InputInOrder'
  BY <1>4, <1>5 DEF InInv, InputInOrder, Sent
<1>. QED  BY <1>4, <1>6 DEF InInv

\* The first message is taken: what it carries is older than what the others carry.
LEMMA Unqueued ==
  ASSUME IInv, InInv, inbox # <<>>, inbox' = Tail(inbox)
  PROVE  /\ Sent' \subseteq Sent
         /\ \A i, j \in OnTheirWay' : i < j => inbox'[i].ch < inbox'[j].ch
         /\ Head(inbox).type = "RX_NOTIFY" => /\ Head(inbox).ch \in Sent
                                              /\ \A x \in Sent' : Head(inbox).ch < x
<1>1. /\ inbox \in Seq(Messages) /\ Len(inbox) \in Nat \ {0}
      /\ Head(inbox) = inbox[1] /\ Len(inbox') = Len(inbox) - 1
      /\ \A i \in 1..(Len(inbox) - 1) : inbox'[i] = inbox[i + 1]
  BY HeadTailProperties, LenProperties, EmptySeq DEF IInv, Types
<1>2. \A i \in OnTheirWay' : i \in Nat /\ i > 0 /\ i + 1 \in OnTheirWay /\ inbox'[i] = inbox[i + 1]
  BY <1>1 DEF OnTheirWay
<1>3. \A i, j \in OnTheirWay : i < j => inbox[i].ch < inbox[j].ch
  BY DEF InInv, InputInOrder
<1>4. Sent' \subseteq Sent
  BY <1>2 DEF Sent
<1>5. \A i, j \in OnTheirWay' : i < j => inbox'[i].ch < inbox'[j].ch
  <2>. SUFFICES ASSUME NEW i \in OnTheirWay', NEW j \in OnTheirWay', i < j
                PROVE  inbox'[i].ch < inbox'[j].ch
    OBVIOUS
  <2>1. i + 1 < j + 1 /\ i + 1 \in OnTheirWay /\ j + 1 \in OnTheirWay
    BY <1>2
  <2>2. inbox[i + 1].ch < inbox[j + 1].ch
    BY <1>3, <2>1
  <2>. QED  BY <1>2, <2>2
<1>6. ASSUME Head(inbox).type = "RX_NOTIFY"
      PROVE  Head(inbox).ch \in Sent /\ \A x \in Sent' : Head(inbox).ch < x
  <2>1. 1 \in OnTheirWay
    BY <1>1, <1>6 DEF OnTheirWay
  <2>2. \A i \in OnTheirWay' : inbox[1].ch < inbox[i + 1].ch
    BY <1>2, <1>3, <2>1
  <2>. QED  BY <1>1, <1>2, <2>1, <2>2 DEF Sent
<1>. QED  BY <1>4, <1>5, <1>6

\* A message of another kind is taken.
LEMMA OtherTaken ==
  ASSUME IInv, InInv, inbox # <<>>, inbox' = Tail(inbox),
         UNCHANGED <<rx_buffer, getc_waiters, got, rx_fifo, typed>>
  PROVE  InInv'
<1>1. /\ Sent' \subseteq Sent
      /\ \A i, j \in OnTheirWay' : i < j => inbox'[i].ch < inbox'[j].ch
  BY Unqueued
<1>2. InputInOrder'
  BY <1>1 DEF InInv, InputInOrder, Sent, Before
<1>. QED  BY <1>1, <1>2 DEF InInv

\* The steps that have to do with input.
LEMMA StepType ==
  ASSUME IInv, InInv, Type
  PROVE  InInv'
<1>1. /\ typed \in Nat /\ typed' = typed + 1 /\ rx_fifo \in Seq(Nat)
      /\ UNCHANGED <<inbox, rx_buffer, getc_waiters, got>>
  BY DEF Type, IInv, Types
<1>2. Sent' = Sent /\ OnTheirWay' = OnTheirWay
  BY <1>1 DEF Sent, OnTheirWay
<1>3. CASE rx_fifo' = rx_fifo
  <2>1. InputInOrder'
    BY <1>1, <1>2, <1>3 DEF InInv, InputInOrder
  <2>. QED  BY <1>1, <1>2, <1>3, <2>1 DEF InInv
<1>4. CASE rx_fifo' = Append(rx_fifo, typed + 1)
  <2>1. \A y \in ToSet(rx_fifo) : y < typed + 1
    BY <1>1 DEF InInv
  <2>2. /\ ToSet(rx_fifo') = ToSet(rx_fifo) \cup {typed + 1} /\ Increasing(rx_fifo')
    BY <1>1, <1>4, <2>1, Behind DEF InInv, InputInOrder
  <2>3. Before(ToSet(rx_buffer), Sent \cup ToSet(rx_fifo'))
    BY <1>1, <2>2 DEF InInv, InputInOrder, Before, Sent
  <2>4. Before(Sent, ToSet(rx_fifo'))
    <3>1. \A x \in Sent : x < typed + 1
      BY <1>1 DEF InInv
    <3>2. Before(Sent, ToSet(rx_fifo))
      BY DEF InInv, InputInOrder, Sent
    <3>. QED  BY <2>2, <3>1, <3>2 DEF Before
  <2>5. \A r \in Readers : Before({got[r]}, ToSet(rx_buffer) \cup Sent \cup ToSet(rx_fifo'))
    BY <1>1, <2>2 DEF InInv, InputInOrder, Before, Sent
  <2>6. InputInOrder'
    BY <1>1, <1>2, <2>2, <2>3, <2>4, <2>5 DEF InInv, InputInOrder, Sent
  <2>. QED  BY <1>1, <1>2, <2>2, <2>6 DEF InInv
<1>. QED  BY <1>3, <1>4 DEF Type

LEMMA StepRxPoll ==
  ASSUME IInv, InInv, RxPoll
  PROVE  InInv'
<1>1. UNCHANGED <<rx_buffer, getc_waiters, got, typed>> /\ rx_fifo \in Seq(Nat)
  BY DEF RxPoll, IInv, Types
<1>2. CASE rx_fifo = <<>>
  BY <1>1, <1>2 DEF RxPoll, InInv, InputInOrder, Sent, OnTheirWay
<1>3. CASE rx_fifo # <<>>
  <2>. DEFINE c == Head(rx_fifo)
              m == [type |-> "RX_NOTIFY", ch |-> c]
  <2>1. rx_fifo' = Tail(rx_fifo) /\ inbox' = Append(inbox, m)
    BY <1>3 DEF RxPoll
  <2>2. /\ ToSet(rx_fifo) = ToSet(rx_fifo') \cup {c} /\ c \in Nat
        /\ Increasing(rx_fifo') /\ \A y \in ToSet(rx_fifo') : c < y
    BY <1>1, <1>3, <2>1, Oldest DEF InInv, InputInOrder
  <2>3. /\ Len(inbox) \in Nat /\ Len(inbox') = Len(inbox) + 1
        /\ inbox'[Len(inbox) + 1] = m
        /\ \A i \in 1..Len(inbox) : inbox'[i] = inbox[i]
    <3>1. inbox \in Seq(Messages)
      BY DEF IInv, Types
    <3>2. inbox \in Seq(Messages \cup {m})
      BY <3>1, SeqMonotonic
    <3>. HIDE DEF m
    <3>. QED  BY <2>1, <3>1, <3>2, AppendProperties, LenProperties
  <2>4. m.type = "RX_NOTIFY" /\ m.ch = c
    OBVIOUS
  <2>. HIDE DEF m, c
  <2>5. OnTheirWay' = OnTheirWay \cup {Len(inbox) + 1}
    BY <2>3, <2>4 DEF OnTheirWay
  <2>6. \A i \in OnTheirWay : i \in Nat /\ i < Len(inbox) + 1 /\ inbox'[i] = inbox[i]
    BY <2>3 DEF OnTheirWay
  <2>7. Sent' = Sent \cup {c}
    BY <2>3, <2>4, <2>5, <2>6 DEF Sent
  <2>8. \A x \in Sent : x < c
    BY <2>2 DEF InInv, InputInOrder, Before, Sent
  <2>9. \A i, j \in OnTheirWay' : i < j => inbox'[i].ch < inbox'[j].ch
    <3>. SUFFICES ASSUME NEW i \in OnTheirWay', NEW j \in OnTheirWay', i < j
                  PROVE  inbox'[i].ch < inbox'[j].ch
      OBVIOUS
    <3>1. i \in OnTheirWay
      <4>1. CASE i = Len(inbox) + 1
        BY <2>3, <2>5, <2>6, <4>1
      <4>. QED  BY <2>5, <4>1
    <3>2. CASE j \in OnTheirWay
      BY <2>6, <3>1, <3>2 DEF InInv, InputInOrder
    <3>3. CASE j = Len(inbox) + 1
      <4>1. inbox[i].ch \in Sent
        BY <3>1 DEF Sent
      <4>. QED  BY <2>3, <2>4, <2>6, <2>8, <3>1, <3>3, <4>1
    <3>. QED  BY <2>5, <3>2, <3>3
  <2>10. Before(ToSet(rx_buffer), Sent' \cup ToSet(rx_fifo'))
    BY <2>2, <2>7 DEF InInv, InputInOrder, Before, Sent
  <2>11. Before(Sent', ToSet(rx_fifo'))
    BY <2>2, <2>7 DEF InInv, InputInOrder, Before, Sent
  <2>12. \A r \in Readers : Before({got[r]}, ToSet(rx_buffer) \cup Sent' \cup ToSet(rx_fifo'))
    BY <2>2, <2>7 DEF InInv, InputInOrder, Before, Sent
  <2>13. InputInOrder'
    BY <1>1, <2>2, <2>9, <2>10, <2>11, <2>12 DEF InInv, InputInOrder, Sent
  <2>. QED  BY <1>1, <2>2, <2>7, <2>13 DEF InInv
<1>. QED  BY <1>2, <1>3

LEMMA StepRxNotify ==
  ASSUME IInv, InInv, ServeRxNotify
  PROVE  InInv'
<1>. DEFINE c == Head(inbox).ch
<1>1. /\ inbox # <<>> /\ inbox' = Tail(inbox) /\ Head(inbox).type = "RX_NOTIFY"
      /\ rx_fifo' = rx_fifo /\ typed' = typed
      /\ IF getc_waiters # <<>>
         THEN /\ got' = [got EXCEPT ![Head(getc_waiters)] = c]
              /\ getc_waiters' = Tail(getc_waiters)
              /\ rx_buffer' = rx_buffer
         ELSE /\ rx_buffer' = IF Len(rx_buffer) < RING_BUFFER_SIZE
                              THEN Append(rx_buffer, c) ELSE rx_buffer
              /\ UNCHANGED <<getc_waiters, got>>
  BY DEF ServeRxNotify
<1>2. /\ Sent' \subseteq Sent /\ c \in Sent /\ \A x \in Sent' : c < x
      /\ \A i, j \in OnTheirWay' : i < j => inbox'[i].ch < inbox'[j].ch
  BY <1>1, Unqueued
<1>. HIDE DEF c
<1>3. c \in Nat /\ c <= typed /\ \A x \in ToSet(rx_fifo) : c < x
  BY <1>2 DEF InInv, InputInOrder, Before, Sent
<1>4. CASE getc_waiters # <<>>
  <2>1. rx_buffer = <<>> /\ ToSet(rx_buffer) = {}
    BY <1>4, EmptySeq DEF InInv, InputInOrder, ToSet
  <2>2. Head(getc_waiters) \in Readers /\ getc_waiters' \in Seq(Readers)
    BY <1>1, <1>4, HeadTailProperties DEF InInv
  <2>3. got' \in [Readers -> Nat] /\ \A r \in Readers : got'[r] = got[r] \/ got'[r] = c
    BY <1>1, <1>3, <1>4, <2>2 DEF InInv
  <2>4. \A r \in Readers : Before({got'[r]}, ToSet(rx_buffer) \cup Sent' \cup ToSet(rx_fifo))
    BY <1>2, <1>3, <2>1, <2>3 DEF InInv, InputInOrder, Before, Sent
  <2>5. Before(ToSet(rx_buffer), Sent' \cup ToSet(rx_fifo)) /\ Before(Sent', ToSet(rx_fifo))
    BY <1>2, <2>1 DEF InInv, InputInOrder, Before, Sent
  <2>6. InputInOrder'
    BY <1>1, <1>2, <1>4, <2>1, <2>4, <2>5 DEF InInv, InputInOrder, Sent
  <2>7. \A r \in Readers : got'[r] <= typed
    BY <1>3, <2>3 DEF InInv
  <2>. QED  BY <1>1, <1>2, <1>4, <2>2, <2>3, <2>6, <2>7 DEF InInv
<1>5. CASE getc_waiters = <<>>
  <2>1. CASE rx_buffer' = rx_buffer
    <3>1. InputInOrder'
      BY <1>1, <1>2, <1>5, <2>1 DEF InInv, InputInOrder, Sent, Before
    <3>. QED  BY <1>1, <1>2, <1>5, <2>1, <3>1 DEF InInv
  <2>2. CASE rx_buffer' = Append(rx_buffer, c)
    <3>1. \A y \in ToSet(rx_buffer) : y < c
      BY <1>2 DEF InInv, InputInOrder, Before, Sent
    <3>2. /\ rx_buffer' \in Seq(Nat) /\ ToSet(rx_buffer') = ToSet(rx_buffer) \cup {c}
          /\ Increasing(rx_buffer')
      BY <1>3, <2>2, <3>1, Behind DEF InInv, InputInOrder
    <3>3. /\ Before(ToSet(rx_buffer'), Sent' \cup ToSet(rx_fifo))
          /\ Before(Sent', ToSet(rx_fifo))
      BY <1>2, <1>3, <3>2 DEF InInv, InputInOrder, Before, Sent
    <3>4. \A r \in Readers : Before({got[r]}, ToSet(rx_buffer') \cup Sent' \cup ToSet(rx_fifo))
      BY <1>2, <1>3, <3>2 DEF InInv, InputInOrder, Before, Sent
    <3>5. InputInOrder'
      BY <1>1, <1>2, <1>5, <3>2, <3>3, <3>4 DEF InInv, InputInOrder, Sent
    <3>. QED  BY <1>1, <1>2, <1>3, <1>5, <3>2, <3>5 DEF InInv
  <2>. QED  BY <1>1, <1>5, <2>1, <2>2
<1>. QED  BY <1>4, <1>5

LEMMA StepGetc ==
  ASSUME IInv, InInv, ServeGetc
  PROVE  InInv'
<1>. DEFINE r == Head(inbox).from
<1>1. /\ inbox # <<>> /\ inbox' = Tail(inbox) /\ Head(inbox).type = "GETC"
      /\ rx_fifo' = rx_fifo /\ typed' = typed
      /\ \/ /\ rx_buffer # <<>> /\ rx_buffer' = Tail(rx_buffer)
            /\ got' = [got EXCEPT ![r] = Head(rx_buffer)] /\ getc_waiters' = getc_waiters
         \/ /\ rx_buffer = <<>> /\ getc_waiters' = Append(getc_waiters, r)
            /\ UNCHANGED <<rx_buffer, got>>
         \/ UNCHANGED <<rx_buffer, getc_waiters, got>>
  BY DEF ServeGetc
<1>2. /\ Sent' \subseteq Sent
      /\ \A i, j \in OnTheirWay' : i < j => inbox'[i].ch < inbox'[j].ch
  BY <1>1, Unqueued
<1>3. r \in Readers
  <2>1. Head(inbox) \in Messages
    BY <1>1, Taken
  <2>. QED  BY <1>1, <2>1 DEF Messages
<1>. HIDE DEF r
<1>4. CASE /\ rx_buffer # <<>> /\ rx_buffer' = Tail(rx_buffer)
           /\ got' = [got EXCEPT ![r] = Head(rx_buffer)] /\ getc_waiters' = getc_waiters
  <2>. DEFINE c == Head(rx_buffer)
  <2>1. /\ rx_buffer' \in Seq(Nat) /\ c \in Nat
        /\ ToSet(rx_buffer) = ToSet(rx_buffer') \cup {c}
        /\ Increasing(rx_buffer') /\ \A y \in ToSet(rx_buffer') : c < y
    BY <1>4, Oldest DEF InInv, InputInOrder
  <2>. HIDE DEF c
  <2>2. got' \in [Readers -> Nat] /\ \A q \in Readers : got'[q] = got[q] \/ got'[q] = c
    BY <1>3, <1>4, <2>1 DEF InInv, c
  <2>3. getc_waiters' = <<>>
    BY <1>4 DEF InInv, InputInOrder
  <2>4. \A x \in Sent \cup ToSet(rx_fifo) : c < x
    BY <2>1 DEF InInv, InputInOrder, Before, Sent
  <2>5. \A q \in Readers : Before({got'[q]}, ToSet(rx_buffer') \cup Sent' \cup ToSet(rx_fifo))
    BY <1>2, <2>1, <2>2, <2>4 DEF InInv, InputInOrder, Before, Sent
  <2>6. Before(ToSet(rx_buffer'), Sent' \cup ToSet(rx_fifo)) /\ Before(Sent', ToSet(rx_fifo))
    BY <1>2, <2>1 DEF InInv, InputInOrder, Before, Sent
  <2>7. InputInOrder'
    BY <1>1, <1>2, <2>1, <2>3, <2>5, <2>6 DEF InInv, InputInOrder, Sent
  <2>8. \A q \in Readers : got'[q] <= typed
    BY <2>1, <2>2 DEF InInv
  <2>. QED  BY <1>1, <1>2, <1>4, <2>1, <2>2, <2>7, <2>8 DEF InInv
<1>5. CASE /\ rx_buffer = <<>> /\ getc_waiters' = Append(getc_waiters, r)
           /\ UNCHANGED <<rx_buffer, got>>
  <2>1. getc_waiters' \in Seq(Readers)
    BY <1>3, <1>5, AppendProperties DEF InInv
  <2>2. InputInOrder'
    BY <1>1, <1>2, <1>5 DEF InInv, InputInOrder, Sent, Before
  <2>. QED  BY <1>1, <1>2, <1>5, <2>1, <2>2 DEF InInv
<1>6. CASE UNCHANGED <<rx_buffer, getc_waiters, got>>
  BY <1>1, <1>6, OtherTaken
<1>. QED  BY <1>1, <1>4, <1>5, <1>6

\* A step of the output that leaves the queue alone.
LEMMA InputKept ==
  ASSUME InInv, UNCHANGED <<inbox, rx_buffer, getc_waiters, got, rx_fifo, typed>>
  PROVE  InInv'
BY DEF InInv, InputInOrder, Sent, OnTheirWay

LEMMA NextInInv == IInv /\ InInv /\ [Next]_vars => InInv'
<1>. SUFFICES ASSUME IInv, InInv, [Next]_vars PROVE InInv'
  OBVIOUS
<1>1. CASE TxNotifierStep
  <2>1. CASE TxSend
    <3>1. inbox' = Append(inbox, [type |-> "TX_NOTIFY"])
      BY <2>1 DEF TxSend
    <3>2. UNCHANGED <<rx_buffer, getc_waiters, got, rx_fifo, typed>>
      BY <2>1 DEF TxSend, rxVars
    <3>. QED  BY <3>1, <3>2, OtherQueued
  <2>2. CASE TxPoll \/ TxEnable \/ TxAwait
    BY <2>2, InputKept DEF TxPoll, TxEnable, TxAwait, rxVars
  <2>. QED  BY <1>1, <2>1, <2>2 DEF TxNotifierStep
<1>2. CASE RxNotifierStep
  <2>1. CASE RxAwait
    BY <2>1, InputKept DEF RxAwait
  <2>. QED  BY <1>2, <2>1, StepRxPoll DEF RxNotifierStep
<1>3. CASE StartPuts \/ StartTxNotify
  BY <1>3, OtherTaken DEF StartPuts, StartTxNotify, rxVars
<1>4. CASE FlushOne \/ FinishTxNotify \/ FinishPuts \/ Transmit \/ TxInterrupt \/ RxInterrupt
  <2>1. UNCHANGED <<inbox, rx_buffer, getc_waiters, got, rx_fifo, typed>>
    BY <1>4 DEF FlushOne, FinishTxNotify, FinishPuts, Transmit, TxInterrupt, RxInterrupt, rxVars
  <2>. QED  BY <2>1, InputKept
<1>5. ASSUME NEW w \in Writers, NEW n \in 1..TERM_MAX_STR_LEN, CallPuts(w, n) PROVE InInv'
  <2>1. inbox' = Append(inbox, [type |-> "PUTS", from |-> w, len |-> n])
    BY <1>5 DEF CallPuts
  <2>2. UNCHANGED <<rx_buffer, getc_waiters, got, rx_fifo, typed>>
    BY <1>5 DEF CallPuts, rxVars
  <2>. QED  BY <2>1, <2>2, OtherQueued
<1>6. ASSUME NEW r \in Readers, CallGetc(r) PROVE InInv'
  <2>1. inbox' = Append(inbox, [type |-> "GETC", from |-> r])
    BY <1>6 DEF CallGetc
  <2>2. UNCHANGED <<rx_buffer, getc_waiters, got, rx_fifo, typed>>
    BY <1>6 DEF CallGetc
  <2>. QED  BY <2>1, <2>2, OtherQueued
<1>7. CASE UNCHANGED vars
  BY <1>7, InputKept DEF vars, rxVars
<1>. QED
  BY <1>1, <1>2, <1>3, <1>4, <1>5, <1>6, <1>7, StepType, StepRxNotify, StepGetc
     DEF Next, ServerStep

\* InputInOrder: no reader gets a character before an older one that is still in the UART,
\* on its way or in rx_buffer, and none waits while one is buffered (terminal_server_task).
THEOREM InputStaysInOrder == Spec => []InputInOrder
<1>1. Init => InInv
  <2>. SUFFICES ASSUME Init PROVE InInv
    OBVIOUS
  <2>1. /\ rx_buffer = <<>> /\ getc_waiters = <<>> /\ rx_fifo = <<>> /\ inbox = <<>>
        /\ got = [r \in Readers |-> 0] /\ typed = 0
    BY DEF Init
  <2>2. OnTheirWay = {} /\ Sent = {}
    BY <2>1 DEF OnTheirWay, Sent
  <2>3. ToSet(<<>>) = {} /\ Increasing(<<>>)
    BY DEF ToSet, Increasing
  <2>4. InputInOrder
    BY <2>1, <2>2, <2>3 DEF InputInOrder, Before, Sent
  <2>5. /\ rx_buffer \in Seq(Nat) /\ getc_waiters \in Seq(Readers) /\ got \in [Readers -> Nat]
    BY <2>1
  <2>6. /\ \A x \in ToSet(rx_buffer) \cup Sent \cup ToSet(rx_fifo) : x \in Nat /\ x <= typed
        /\ \A r \in Readers : got[r] <= typed
    BY <2>1, <2>2, <2>3
  <2>. QED  BY <2>4, <2>5, <2>6 DEF InInv
<1>2. InInv => InputInOrder
  BY DEF InInv
<1>. QED  BY InitIInv, NextIInv, NextInInv, <1>1, <1>2, PTL DEF Spec

-----------------------------------------------------------------------------
(* Sequences of characters *)

Character == [from : Writers, no : Nat]

\* The characters k + 1, k + 2, ... of w.
Run(s, w, k) == s \in Seq(Character) /\ \A j \in 1..Len(s) : s[j].from = w /\ s[j].no = k + j

\* What is behind s keeps its order.
LEMMA Joined ==
  ASSUME NEW s \in Seq(Character), NEW t \in Seq(Character)
  PROVE  /\ s \o t \in Seq(Character) /\ Len(s \o t) = Len(s) + Len(t)
         /\ \A w : Numbers(s \o t, w) = Numbers(s, w) \cup Numbers(t, w)
         /\ (\A w : Before(Numbers(s, w), Numbers(t, w))) /\ InOrder(s) /\ InOrder(t)
              => InOrder(s \o t)
<1>. DEFINE c == s \o t
            n == Len(s)
            m == Len(t)
<1>1. /\ c \in Seq(Character) /\ n \in Nat /\ m \in Nat /\ Len(c) = n + m
      /\ DOMAIN c = 1..(n + m) /\ DOMAIN s = 1..n /\ DOMAIN t = 1..m
      /\ \A i \in 1..(n + m) : c[i] = IF i <= n THEN s[i] ELSE t[i - n]
  BY ConcatProperties, LenProperties
<1>. HIDE DEF c, n, m
<1>2. ASSUME NEW i \in 1..(n + m)
      PROVE  \/ i \in 1..n /\ c[i] = s[i]
             \/ i > n /\ i - n \in 1..m /\ c[i] = t[i - n]
  BY <1>1
<1>3. \A i \in 1..n : i \in 1..(n + m) /\ c[i] = s[i]
  BY <1>1
<1>4. \A i \in 1..m : i + n \in 1..(n + m) /\ c[i + n] = t[i]
  BY <1>1
<1>5. ASSUME NEW w PROVE Numbers(c, w) = Numbers(s, w) \cup Numbers(t, w)
  <2>1. \A i \in 1..(n + m) : c[i].from = w => c[i].no \in Numbers(s, w) \cup Numbers(t, w)
    BY <1>1, <1>2 DEF Numbers
  <2>2. \A i \in 1..n : s[i].from = w => s[i].no \in Numbers(c, w)
    BY <1>1, <1>3 DEF Numbers
  <2>3. \A i \in 1..m : t[i].from = w => t[i].no \in Numbers(c, w)
    BY <1>1, <1>4 DEF Numbers
  <2>. QED  BY <1>1, <2>1, <2>2, <2>3 DEF Numbers
<1>6. ASSUME \A w : Before(Numbers(s, w), Numbers(t, w)), InOrder(s), InOrder(t)
      PROVE  InOrder(c)
  <2>. SUFFICES ASSUME NEW i \in 1..(n + m), NEW j \in 1..(n + m), i < j, c[i].from = c[j].from
                PROVE  c[i].no < c[j].no
    BY <1>1 DEF InOrder
  <2>1. CASE i \in 1..n /\ c[i] = s[i] /\ j \in 1..n /\ c[j] = s[j]
    BY <1>1, <1>6, <2>1 DEF InOrder
  <2>2. CASE i \in 1..n /\ c[i] = s[i] /\ j - n \in 1..m /\ c[j] = t[j - n]
    <3>. DEFINE w == c[j].from
    <3>1. c[i].no \in Numbers(s, w) /\ c[j].no \in Numbers(t, w)
      BY <1>1, <2>2 DEF Numbers
    <3>. QED  BY <1>6, <3>1 DEF Before
  <2>3. CASE i > n /\ i - n \in 1..m /\ c[i] = t[i - n] /\ j - n \in 1..m /\ c[j] = t[j - n]
    <3>1. i - n < j - n
      BY <1>1
    <3>. QED  BY <1>1, <1>6, <2>3, <3>1 DEF InOrder
  <2>4. i > n /\ j \in 1..n => FALSE
    BY <1>1
  <2>. QED  BY <1>2, <2>1, <2>2, <2>3, <2>4
<1>. QED  BY <1>1, <1>5, <1>6 DEF c, n, m

\* The first character of a sequence and the others.
LEMMA Parted ==
  ASSUME NEW s \in Seq(Character), s # <<>>, InOrder(s)
  PROVE  LET c == Head(s) IN
         /\ c \in Character /\ Tail(s) \in Seq(Character) /\ InOrder(Tail(s))
         /\ Len(Tail(s)) < Len(s)
         /\ Numbers(s, c.from) = Numbers(Tail(s), c.from) \cup {c.no}
         /\ \A x \in Numbers(Tail(s), c.from) : c.no < x
         /\ \A w : w # c.from => Numbers(Tail(s), w) = Numbers(s, w)
<1>. DEFINE t == Tail(s)
            n == Len(s)
            c == Head(s)
<1>1. /\ c \in Character /\ t \in Seq(Character) /\ n \in Nat \ {0} /\ Len(t) = n - 1
      /\ DOMAIN s = 1..n /\ DOMAIN t = 1..(n - 1)
      /\ \A i \in 1..(n - 1) : t[i] = s[i + 1]
      /\ c = s[1]
  BY HeadTailProperties, LenProperties, EmptySeq
<1>. HIDE DEF t, n, c
<1>2. \A i \in 1..(n - 1) : i + 1 \in 1..n /\ 1 < i + 1 /\ t[i] = s[i + 1]
  BY <1>1
<1>3. \A i \in 1..n : i = 1 \/ (i - 1 \in 1..(n - 1) /\ s[i] = t[i - 1])
  <2>. SUFFICES ASSUME NEW i \in 1..n, i # 1
                PROVE  i - 1 \in 1..(n - 1) /\ s[i] = t[i - 1]
    OBVIOUS
  <2>1. i - 1 \in 1..(n - 1) /\ (i - 1) + 1 = i
    BY <1>1
  <2>. QED  BY <1>2, <2>1
<1>4. 1 \in 1..n
  BY <1>1
<1>5. ASSUME NEW w
      PROVE  /\ Numbers(t, w) \subseteq Numbers(s, w)
             /\ \A x \in Numbers(s, w) : x \in Numbers(t, w) \/ (w = c.from /\ x = c.no)
  <2>1. \A i \in 1..(n - 1) : t[i].from = w => t[i].no \in Numbers(s, w)
    BY <1>1, <1>2 DEF Numbers
  <2>2. ASSUME NEW i \in 1..n, s[i].from = w
        PROVE  s[i].no \in Numbers(t, w) \/ (w = c.from /\ s[i].no = c.no)
    <3>1. i = 1 \/ (i - 1 \in DOMAIN t /\ s[i] = t[i - 1])
      BY <1>1, <1>3
    <3>. QED  BY <2>2, <3>1, <1>1 DEF Numbers
  <2>. QED  BY <1>1, <2>1, <2>2 DEF Numbers
<1>6. c.no \in Numbers(s, c.from)
  BY <1>1, <1>4 DEF Numbers
<1>7. \A x \in Numbers(t, c.from) : c.no < x
  <2>1. \A i \in 1..(n - 1) : t[i].from = c.from => c.no < t[i].no
    BY <1>1, <1>2, <1>4 DEF InOrder
  <2>. QED  BY <1>1, <2>1 DEF Numbers
<1>8. InOrder(t)
  <2>. SUFFICES ASSUME NEW i \in 1..(n - 1), NEW j \in 1..(n - 1), i < j, t[i].from = t[j].from
                PROVE  t[i].no < t[j].no
    BY <1>1 DEF InOrder
  <2>1. i + 1 < j + 1
    BY <1>1
  <2>2. s[i + 1].no < s[j + 1].no
    BY <1>1, <1>2, <2>1 DEF InOrder
  <2>. QED  BY <1>2, <2>2
<1>9. Numbers(s, c.from) = Numbers(t, c.from) \cup {c.no}
  BY <1>5, <1>6
<1>10. ASSUME NEW w, w # c.from PROVE Numbers(t, w) = Numbers(s, w)
  <2>1. Numbers(t, w) \subseteq Numbers(s, w)
    BY <1>5
  <2>2. \A x \in Numbers(s, w) : x \in Numbers(t, w)
    BY <1>5, <1>10
  <2>. QED  BY <2>1, <2>2
<1>11. Len(t) < n
  BY <1>1
<1>. QED  BY <1>1, <1>7, <1>8, <1>9, <1>10, <1>11 DEF t, n, c

LEMMA RunDoes ==
  ASSUME NEW s, NEW w \in Writers, NEW k \in Nat, Run(s, w, k)
  PROVE  /\ s \in Seq(Character) /\ Len(s) \in Nat /\ InOrder(s)
         /\ Numbers(s, w) = (k + 1)..(k + Len(s))
         /\ \A v : v # w => Numbers(s, v) = {}
<1>. DEFINE n == Len(s)
<1>1. s \in Seq(Character) /\ n \in Nat /\ DOMAIN s = 1..n
  BY LenProperties DEF Run
<1>2. \A j \in 1..n : s[j].from = w /\ s[j].no = k + j
  BY DEF Run
<1>. HIDE DEF n
<1>3. InOrder(s)
  BY <1>1, <1>2 DEF InOrder
<1>4. Numbers(s, w) = {k + j : j \in 1..n}
  BY <1>1, <1>2 DEF Numbers
<1>5. {k + j : j \in 1..n} = (k + 1)..(k + n)
  <2>1. \A j \in 1..n : k + j \in (k + 1)..(k + n)
    BY <1>1
  <2>2. \A x \in (k + 1)..(k + n) : x - k \in 1..n /\ k + (x - k) = x
    BY <1>1
  <2>3. \A x \in (k + 1)..(k + n) : \E j \in 1..n : k + j = x
    BY <2>2
  <2>. QED  BY <2>1, <2>3
<1>6. \A v : v # w => Numbers(s, v) = {}
  BY <1>1, <1>2 DEF Numbers
<1>. QED  BY <1>1, <1>3, <1>4, <1>5, <1>6 DEF n

LEMMA CharsAreRun ==
  ASSUME NEW w \in Writers, NEW k \in Nat, NEW n \in Nat
  PROVE  Run(Chars(w, k + 1, k + n), w, k) /\ Len(Chars(w, k + 1, k + n)) = n
<1>. DEFINE s == Chars(w, k + 1, k + n)
<1>1. (k + n) - (k + 1) + 1 = n /\ \A j \in 1..n : (k + 1) + j - 1 = k + j /\ k + j \in Nat
  OBVIOUS
<1>2. s = [j \in 1..n |-> [from |-> w, no |-> k + j]]
  <2>1. s = [j \in 1..n |-> [from |-> w, no |-> (k + 1) + j - 1]]
    BY <1>1 DEF Chars
  <2>. QED  BY <1>1, <2>1
<1>3. \A j \in 1..n : [from |-> w, no |-> k + j] \in Character
  BY <1>1 DEF Character
<1>. HIDE DEF s
<1>a. DOMAIN s = 1..n /\ \A j \in 1..n : s[j] = [from |-> w, no |-> k + j]
  BY <1>2
<1>b. s \in [1..n -> Character]
  BY <1>2, <1>3
<1>4. s \in Seq(Character) /\ Len(s) = n
  BY <1>b
<1>5. \A j \in 1..n : s[j].from = w /\ s[j].no = k + j
  BY <1>a
<1>. QED  BY <1>4, <1>5 DEF Run, s

\* The first m characters of a run, and the others.
LEMMA RunSplit ==
  ASSUME NEW s, NEW w \in Writers, NEW k \in Nat, Run(s, w, k), NEW m \in 0..Len(s)
  PROVE  /\ Run(SubSeq(s, 1, m), w, k) /\ Len(SubSeq(s, 1, m)) = m
         /\ Run(SubSeq(s, m + 1, Len(s)), w, k + m)
         /\ Len(SubSeq(s, m + 1, Len(s))) = Len(s) - m
<1>. DEFINE n == Len(s)
            a == SubSeq(s, 1, m)
            b == SubSeq(s, m + 1, n)
<1>1. s \in Seq(Character) /\ n \in Nat /\ \A j \in 1..n : s[j].from = w /\ s[j].no = k + j
  BY LenProperties DEF Run
<1>2. m \in Nat /\ m <= n
  BY <1>1
<1>3. /\ a \in Seq(Character) /\ Len(a) = m /\ \A j \in 1..m : a[j] = s[j]
  <2>1. \A i \in 1..m : i \in 1..n
    BY <1>1, <1>2
  <2>2. 1 \in 1..(n + 1) /\ m \in 0..n
    BY <1>1, <1>2
  <2>. QED  BY <1>1, <1>2, <2>1, <2>2, SubSeqProperties
<1>4. /\ b \in Seq(Character) /\ Len(b) = n - m
      /\ \A j \in 1..(n - m) : b[j] = s[m + j]
  <2>1. m + 1 \in 1..(n + 1) /\ n \in m..n
    BY <1>1, <1>2
  <2>. QED  BY <1>1, <1>2, <2>1, SubSeqProperties
<1>. HIDE DEF a, b, n
<1>5. Run(a, w, k)
  <2>1. \A j \in 1..m : j \in 1..n
    BY <1>1, <1>2
  <2>. QED  BY <1>1, <1>3, <2>1 DEF Run
<1>6. Run(b, w, k + m)
  <2>0. n \in Nat /\ m \in 0..n
    BY <1>1, <1>2
  <2>1. \A j \in 1..(n - m) : m + j \in 1..n /\ k + (m + j) = (k + m) + j
    BY <2>0
  <2>2. ASSUME NEW j \in 1..(n - m) PROVE b[j].from = w /\ b[j].no = (k + m) + j
    <3>1. b[j] = s[m + j] /\ m + j \in 1..n /\ k + (m + j) = (k + m) + j
      BY <1>4, <2>1
    <3>2. s[m + j].from = w /\ s[m + j].no = k + (m + j)
      BY <1>1, <3>1
    <3>. QED  BY <3>1, <3>2
  <2>. QED  BY <1>4, <2>2 DEF Run
<1>. QED  BY <1>3, <1>4, <1>5, <1>6 DEF a, b, n

-----------------------------------------------------------------------------
(* Output *)

\* Of w's characters, those up to m are shown, in the UART or in b.
Reached(b, w, m) ==
  \E l \in shown[w]..m :
     /\ Numbers(tx_fifo, w) = (shown[w] + 1)..l
     /\ Numbers(b, w) = (l + 1)..m

Asks == {i \in 1..Len(inbox) : inbox[i].type = "PUTS"}
Waits(w) == \E i \in 1..Len(putc_waiters) : putc_waiters[i].tid = w

\* A blocked caller keeps the last characters that were accepted from it.
Kept(i) ==
  LET v == putc_waiters[i].tid
      d == putc_waiters[i].data IN
  /\ v \in Writers /\ Len(d) \in 0..accepted[v]
  /\ Run(d, v, accepted[v] - Len(d))
  /\ Reached(tx_buf, v, accepted[v] - Len(d))

Buffers ==
  /\ accepted \in [Writers -> Nat] /\ shown \in [Writers -> Nat]
  /\ tx_fifo \in Seq(Character) /\ InOrder(tx_fifo)
  /\ tx_buf \in Seq(Character) /\ InOrder(tx_buf) /\ Len(tx_buf) <= TX_BUF_SIZE
  /\ \E S : putc_waiters \in Seq(S)
  /\ \A i \in 1..Len(putc_waiters) : Kept(i)
  /\ \A i, j \in 1..Len(putc_waiters) : putc_waiters[i].tid = putc_waiters[j].tid => i = j
  /\ \A w \in Writers : ~Waits(w) => Reached(tx_buf, w, accepted[w])

\* A writer asks once, and not while the server keeps characters of it.
AskedOnce ==
  /\ writer \in [Writers -> {"running", "waiting"}]
  /\ \A w \in Writers : Waits(w) => writer[w] = "waiting"
  /\ \A i \in Asks : writer[inbox[i].from] = "waiting" /\ ~Waits(inbox[i].from)
  /\ \A i, j \in Asks : inbox[i].from = inbox[j].from => i = j

OutInv == Buffers /\ AskedOnce

LEMMA FitDoes ==
  ASSUME NEW b, Len(b) \in Nat, Len(b) <= TX_BUF_SIZE, NEW n \in Nat
  PROVE  Fit(b, n) \in 0..n /\ Len(b) + Fit(b, n) <= TX_BUF_SIZE
<1>1. TX_BUF_SIZE \in Nat
  BY TerminalAssumption
<1>. QED  BY <1>1 DEF Fit, Smaller

\* The next characters of v enter the buffer.
LEMMA Entered ==
  ASSUME shown \in [Writers -> Nat], NEW b \in Seq(Character), InOrder(b),
         NEW v \in Writers, NEW m \in Nat, Reached(b, v, m), NEW t, Run(t, v, m)
  PROVE  /\ b \o t \in Seq(Character) /\ InOrder(b \o t) /\ Len(b \o t) = Len(b) + Len(t)
         /\ Reached(b \o t, v, m + Len(t))
         /\ \A w, k : w # v /\ Reached(b, w, k) => Reached(b \o t, w, k)
<1>1. /\ t \in Seq(Character) /\ Len(t) \in Nat /\ InOrder(t)
      /\ Numbers(t, v) = (m + 1)..(m + Len(t))
      /\ \A w : w # v => Numbers(t, w) = {}
  BY RunDoes
<1>2. PICK l \in shown[v]..m : /\ Numbers(tx_fifo, v) = (shown[v] + 1)..l
                               /\ Numbers(b, v) = (l + 1)..m
  BY DEF Reached
<1>3. l \in Nat /\ l <= m /\ shown[v] \in Nat
  BY <1>2
<1>4. ASSUME NEW w PROVE Before(Numbers(b, w), Numbers(t, w))
  <2>1. CASE w = v
    BY <1>1, <1>2, <1>3, <2>1 DEF Before
  <2>2. CASE w # v
    BY <1>1, <2>2 DEF Before
  <2>. QED  BY <2>1, <2>2
<1>5. /\ b \o t \in Seq(Character) /\ InOrder(b \o t) /\ Len(b \o t) = Len(b) + Len(t)
      /\ \A w : Numbers(b \o t, w) = Numbers(b, w) \cup Numbers(t, w)
  BY <1>1, <1>4, Joined
<1>6. Reached(b \o t, v, m + Len(t))
  <2>1. Numbers(b \o t, v) = ((l + 1)..m) \cup ((m + 1)..(m + Len(t)))
    BY <1>1, <1>2, <1>5
  <2>2. ((l + 1)..m) \cup ((m + 1)..(m + Len(t))) = (l + 1)..(m + Len(t))
    BY <1>1, <1>3
  <2>3. l \in shown[v]..(m + Len(t))
    BY <1>1, <1>2, <1>3
  <2>. QED  BY <1>2, <2>1, <2>2, <2>3 DEF Reached
<1>7. ASSUME NEW w, NEW k, w # v, Reached(b, w, k) PROVE Reached(b \o t, w, k)
  <2>1. Numbers(b \o t, w) = Numbers(b, w)
    BY <1>1, <1>5, <1>7
  <2>. QED  BY <1>7, <2>1 DEF Reached
<1>. QED  BY <1>5, <1>6, <1>7

\* The queue of requests, when no writer changes.
LEMMA AskedKept ==
  ASSUME IInv, AskedOnce, UNCHANGED <<putc_waiters, writer>>,
         \/ inbox' = inbox
         \/ inbox # <<>> /\ inbox' = Tail(inbox)
         \/ \E m : m.type # "PUTS" /\ inbox' = Append(inbox, m)
  PROVE  AskedOnce'
<1>0. inbox \in Seq(Messages)
  BY DEF IInv, Types
<1>1. CASE inbox' = inbox
  BY <1>1 DEF AskedOnce, Asks, Waits
<1>2. CASE inbox # <<>> /\ inbox' = Tail(inbox)
  <2>1. /\ Len(inbox) \in Nat \ {0} /\ Len(inbox') = Len(inbox) - 1
        /\ \A i \in 1..(Len(inbox) - 1) : inbox'[i] = inbox[i + 1]
    BY <1>0, <1>2, HeadTailProperties, LenProperties, EmptySeq
  <2>2. \A i \in Asks' : i \in Nat /\ i + 1 \in Asks /\ inbox'[i] = inbox[i + 1]
    BY <2>1 DEF Asks
  <2>3. \A i, j \in Asks' : inbox'[i].from = inbox'[j].from => i = j
    <3>. SUFFICES ASSUME NEW i \in Asks', NEW j \in Asks', inbox'[i].from = inbox'[j].from
                  PROVE  i = j
      OBVIOUS
    <3>1. i + 1 = j + 1
      BY <2>2 DEF AskedOnce
    <3>. QED  BY <2>2, <3>1
  <2>. QED  BY <2>2, <2>3 DEF AskedOnce, Waits
<1>3. CASE \E m : m.type # "PUTS" /\ inbox' = Append(inbox, m)
  <2>1. PICK m : m.type # "PUTS" /\ inbox' = Append(inbox, m)
    BY <1>3
  <2>2. inbox \in Seq(Messages \cup {m})
    BY <1>0, SeqMonotonic
  <2>3. /\ Len(inbox) \in Nat /\ Len(inbox') = Len(inbox) + 1
        /\ inbox'[Len(inbox) + 1] = m
        /\ \A i \in 1..Len(inbox) : inbox'[i] = inbox[i]
    BY <2>1, <2>2, AppendProperties, LenProperties
  <2>4. Asks' = Asks /\ \A i \in Asks : inbox'[i] = inbox[i]
    BY <2>1, <2>3 DEF Asks
  <2>. QED  BY <2>4 DEF AskedOnce, Waits
<1>. QED  BY <1>1, <1>2, <1>3

LEMMA OutputKept ==
  ASSUME IInv, OutInv, UNCHANGED <<tx_fifo, tx_buf, putc_waiters, writer, accepted, shown>>,
         \/ inbox' = inbox
         \/ inbox # <<>> /\ inbox' = Tail(inbox)
         \/ \E m : m.type # "PUTS" /\ inbox' = Append(inbox, m)
  PROVE  OutInv'
<1>1. AskedOnce'
  BY AskedKept DEF OutInv
<1>2. Buffers'
  BY DEF OutInv, Buffers, Kept, Reached, Waits
<1>. QED  BY <1>1, <1>2 DEF OutInv

LEMMA StepCallPuts ==
  ASSUME IInv, OutInv, NEW w \in Writers, NEW n, CallPuts(w, n)
  PROVE  OutInv'
<1>. DEFINE m == [type |-> "PUTS", from |-> w, len |-> n]
<1>1. /\ writer[w] = "running" /\ writer' = [writer EXCEPT ![w] = "waiting"]
      /\ inbox' = Append(inbox, m)
      /\ UNCHANGED <<tx_fifo, tx_buf, putc_waiters, accepted, shown>>
  BY DEF CallPuts
<1>2. m.type = "PUTS" /\ m.from = w
  OBVIOUS
<1>. HIDE DEF m
<1>3. /\ Len(inbox) \in Nat /\ Len(inbox') = Len(inbox) + 1
      /\ inbox'[Len(inbox) + 1] = m
      /\ \A i \in 1..Len(inbox) : inbox'[i] = inbox[i]
  <2>1. inbox \in Seq(Messages)
    BY DEF IInv, Types
  <2>2. inbox \in Seq(Messages \cup {m})
    BY <2>1, SeqMonotonic
  <2>. QED  BY <1>1, <2>2, AppendProperties, LenProperties
<1>4. /\ \A i \in Asks' : (i \in Asks /\ inbox'[i] = inbox[i]) \/ i = Len(inbox) + 1
      /\ \A i \in Asks : inbox[i].from # w
  BY <1>1, <1>3 DEF Asks, OutInv, AskedOnce
<1>5. ~Waits(w) /\ \A v : Waits(v)' <=> Waits(v)
  BY <1>1 DEF OutInv, AskedOnce, Waits
<1>6. /\ writer' \in [Writers -> {"running", "waiting"}]
      /\ writer'[w] = "waiting" /\ \A v \in Writers : v # w => writer'[v] = writer[v]
      /\ \A v : writer[v] = "waiting" /\ v \in Writers => writer'[v] = "waiting"
  BY <1>1 DEF OutInv, AskedOnce
<1>7. \A i \in Asks : inbox[i].from \in Writers
  BY DEF IInv, Types, Messages, Asks
<1>8. \A i \in Asks' : writer'[inbox'[i].from] = "waiting" /\ ~Waits(inbox'[i].from)
  BY <1>2, <1>3, <1>4, <1>5, <1>6, <1>7 DEF OutInv, AskedOnce
<1>9. \A i, j \in Asks' : inbox'[i].from = inbox'[j].from => i = j
  <2>1. \A i, j \in Asks : inbox[i].from = inbox[j].from => i = j
    BY DEF OutInv, AskedOnce
  <2>. QED  BY <1>2, <1>3, <1>4, <2>1
<1>10. AskedOnce'
  BY <1>5, <1>6, <1>8, <1>9 DEF OutInv, AskedOnce
<1>11. Buffers'
  <2>1. UNCHANGED <<tx_fifo, tx_buf, putc_waiters, accepted, shown>> /\ Buffers
    BY <1>1 DEF OutInv
  <2>. QED  BY <2>1 DEF Buffers, Kept, Reached, Waits
<1>. QED  BY <1>10, <1>11 DEF OutInv

\* A character leaves the UART.
LEMMA StepTransmit ==
  ASSUME IInv, OutInv, Transmit
  PROVE  OutInv'
<1>. DEFINE c == Head(tx_fifo)
<1>1. /\ tx_fifo # <<>> /\ tx_fifo' = Tail(tx_fifo)
      /\ shown' = [shown EXCEPT ![c.from] = @ + 1]
      /\ UNCHANGED <<inbox, tx_buf, putc_waiters, writer, accepted>>
  BY DEF Transmit
<1>2. /\ c \in Character /\ tx_fifo' \in Seq(Character) /\ InOrder(tx_fifo')
      /\ Numbers(tx_fifo, c.from) = Numbers(tx_fifo', c.from) \cup {c.no}
      /\ \A x \in Numbers(tx_fifo', c.from) : c.no < x
      /\ \A w : w # c.from => Numbers(tx_fifo', w) = Numbers(tx_fifo, w)
  BY <1>1, Parted DEF OutInv, Buffers
<1>. HIDE DEF c
<1>3. shown \in [Writers -> Nat] /\ c.from \in Writers /\ c.no \in Nat
  BY <1>2 DEF OutInv, Buffers, Character
<1>4. /\ shown' \in [Writers -> Nat] /\ shown'[c.from] = shown[c.from] + 1
      /\ \A w \in Writers : w # c.from => shown'[w] = shown[w]
  BY <1>1, <1>3
<1>5. ASSUME NEW w \in Writers, NEW m \in Nat, Reached(tx_buf, w, m)
      PROVE  Reached(tx_buf, w, m)'
  <2>1. PICK l \in shown[w]..m : /\ Numbers(tx_fifo, w) = (shown[w] + 1)..l
                                 /\ Numbers(tx_buf, w) = (l + 1)..m
    BY <1>5 DEF Reached
  <2>2. CASE w # c.from
    BY <1>1, <1>2, <1>4, <2>1, <2>2 DEF Reached
  <2>3. CASE w = c.from
    <3>. DEFINE s == shown[w]
    <3>1. s \in Nat /\ l \in Nat /\ shown'[w] = s + 1 /\ l <= m
      BY <1>3, <1>4, <2>1, <2>3
    <3>2. (s + 1)..l = Numbers(tx_fifo', w) \cup {c.no}
      BY <1>2, <2>1, <2>3
    <3>. HIDE DEF s
    <3>3. c.no \in (s + 1)..l /\ s + 1 \in (s + 1)..l
      BY <3>1, <3>2
    <3>4. ASSUME NEW x \in (s + 1)..l PROVE c.no <= x
      <4>1. x \in Numbers(tx_fifo', c.from) \/ x = c.no
        BY <2>3, <3>2
      <4>2. CASE x \in Numbers(tx_fifo', c.from)
        <5>1. c.no < x
          BY <1>2, <4>2
        <5>. QED  BY <1>3, <3>1, <5>1
      <4>. QED  BY <1>3, <4>1, <4>2
    <3>5. c.no = s + 1
      BY <1>3, <3>1, <3>3, <3>4
    <3>6. c.no \notin Numbers(tx_fifo', w)
      BY <1>2, <1>3, <2>3
    <3>7. Numbers(tx_fifo', w) = ((s + 1)..l) \ {s + 1}
      BY <3>2, <3>5, <3>6
    <3>8. ((s + 1)..l) \ {s + 1} = ((s + 1) + 1)..l
      BY <3>1
    <3>9. l \in (s + 1)..m
      BY <3>1, <3>3
    <3>. QED  BY <1>1, <2>1, <3>1, <3>7, <3>8, <3>9 DEF Reached
  <2>. QED  BY <2>2, <2>3
<1>6. \A i \in 1..Len(putc_waiters) : Kept(i)'
  <2>. SUFFICES ASSUME NEW i \in 1..Len(putc_waiters) PROVE Kept(i)'
    OBVIOUS
  <2>. DEFINE v == putc_waiters[i].tid
              d == putc_waiters[i].data
  <2>1. /\ v \in Writers /\ Len(d) \in 0..accepted[v] /\ Run(d, v, accepted[v] - Len(d))
        /\ Reached(tx_buf, v, accepted[v] - Len(d)) /\ accepted[v] \in Nat
    BY DEF OutInv, Buffers, Kept
  <2>2. accepted[v] - Len(d) \in Nat
    BY <2>1
  <2>3. Reached(tx_buf, v, accepted[v] - Len(d))'
    BY <1>1, <1>5, <2>1, <2>2
  <2>. QED  BY <1>1, <2>1, <2>3 DEF Kept
<1>7. \A w \in Writers : ~Waits(w) => Reached(tx_buf, w, accepted[w])'
  BY <1>1, <1>5 DEF OutInv, Buffers
<1>8. Buffers'
  BY <1>1, <1>2, <1>4, <1>6, <1>7 DEF OutInv, Buffers, Waits
<1>9. AskedOnce'
  BY <1>1, AskedKept DEF OutInv
<1>. QED  BY <1>8, <1>9 DEF OutInv

\* A character goes from the buffer to the UART.
LEMMA StepFlushOne ==
  ASSUME IInv, OutInv, FlushOne
  PROVE  OutInv'
<1>. DEFINE c == Head(tx_buf)
<1>1. /\ tx_buf # <<>> /\ tx_buf' = Tail(tx_buf) /\ tx_fifo' = Append(tx_fifo, c)
      /\ UNCHANGED <<inbox, putc_waiters, writer, accepted, shown>>
  BY DEF FlushOne
<1>2. /\ c \in Character /\ tx_buf' \in Seq(Character) /\ InOrder(tx_buf')
      /\ Len(tx_buf') < Len(tx_buf)
      /\ Numbers(tx_buf, c.from) = Numbers(tx_buf', c.from) \cup {c.no}
      /\ \A x \in Numbers(tx_buf', c.from) : c.no < x
      /\ \A w : w # c.from => Numbers(tx_buf', w) = Numbers(tx_buf, w)
  BY <1>1, Parted DEF OutInv, Buffers
<1>. HIDE DEF c
<1>3. /\ shown \in [Writers -> Nat] /\ accepted \in [Writers -> Nat]
      /\ c.from \in Writers /\ c.no \in Nat
  BY <1>2 DEF OutInv, Buffers, Character
<1>. DEFINE one == <<c>>
<1>4. /\ Run(one, c.from, c.no - 1) /\ one \in Seq(Character) /\ Len(one) = 1
      /\ tx_fifo' = tx_fifo \o one
  <2>1. one \in Seq(Character) /\ Len(one) = 1 /\ one[1] = c
    BY <1>2
  <2>2. tx_fifo' = tx_fifo \o one
    BY <1>1, <1>2 DEF OutInv, Buffers
  <2>3. \A j \in 1..Len(one) : one[j].from = c.from /\ one[j].no = (c.no - 1) + j
    BY <1>3, <2>1
  <2>. HIDE DEF one
  <2>. QED  BY <2>1, <2>2, <2>3 DEF Run
<1>5. InOrder(one) /\ Numbers(one, c.from) = {c.no} /\ \A w : w # c.from => Numbers(one, w) = {}
  <2>1. DOMAIN one = 1..1 /\ one[1] = c
    OBVIOUS
  <2>. HIDE DEF one
  <2>2. InOrder(one)
    BY <2>1 DEF InOrder
  <2>3. Numbers(one, c.from) = {c.no} /\ \A w : w # c.from => Numbers(one, w) = {}
    BY <2>1 DEF Numbers
  <2>. QED  BY <2>2, <2>3
<1>. HIDE DEF one
<1>6. ASSUME NEW w \in Writers, NEW m \in Nat, NEW l \in shown[w]..m, w = c.from,
             Numbers(tx_fifo, w) = (shown[w] + 1)..l, Numbers(tx_buf, w) = (l + 1)..m
      PROVE  c.no = l + 1 /\ l + 1 \in shown[w]..m /\ Numbers(tx_buf', w) = ((l + 1) + 1)..m
  <2>1. l \in Nat /\ l <= m /\ shown[w] \in Nat /\ shown[w] <= l
    BY <1>3, <1>6
  <2>2. (l + 1)..m = Numbers(tx_buf', w) \cup {c.no}
    BY <1>2, <1>6
  <2>3. c.no \in (l + 1)..m /\ l + 1 \in (l + 1)..m
    BY <2>1, <2>2
  <2>4. ASSUME NEW x \in (l + 1)..m PROVE c.no <= x
    <3>1. x \in Numbers(tx_buf', c.from) \/ x = c.no
      BY <1>6, <2>2
    <3>2. CASE x \in Numbers(tx_buf', c.from)
      <4>1. c.no < x
        BY <1>2, <3>2
      <4>. QED  BY <1>3, <2>1, <4>1
    <3>. QED  BY <1>3, <3>1, <3>2
  <2>5. c.no = l + 1
    BY <1>3, <2>1, <2>3, <2>4
  <2>6. c.no \notin Numbers(tx_buf', w)
    BY <1>2, <1>3, <1>6
  <2>7. Numbers(tx_buf', w) = ((l + 1)..m) \ {l + 1}
    BY <2>2, <2>5, <2>6
  <2>8. ((l + 1)..m) \ {l + 1} = ((l + 1) + 1)..m
    BY <2>1
  <2>9. l + 1 \in shown[w]..m
    BY <2>1, <2>3
  <2>. QED  BY <2>5, <2>7, <2>8, <2>9
\* how far the characters of each writer reach
<1>7. ASSUME NEW w \in Writers
      PROVE  \E m \in Nat : Reached(tx_buf, w, m)
  <2>1. CASE ~Waits(w)
    BY <1>3, <2>1 DEF OutInv, Buffers
  <2>2. CASE Waits(w)
    <3>1. PICK i \in 1..Len(putc_waiters) : putc_waiters[i].tid = w
      BY <2>2 DEF Waits
    <3>2. /\ Len(putc_waiters[i].data) \in 0..accepted[w] /\ accepted[w] \in Nat
          /\ Reached(tx_buf, w, accepted[w] - Len(putc_waiters[i].data))
      BY <1>3, <3>1 DEF OutInv, Buffers, Kept
    <3>3. accepted[w] - Len(putc_waiters[i].data) \in Nat
      BY <3>2
    <3>. QED  BY <3>2, <3>3
  <2>. QED  BY <2>1, <2>2
<1>8. ASSUME NEW w PROVE Before(Numbers(tx_fifo, w), Numbers(one, w))
  <2>1. CASE w = c.from
    <3>1. w \in Writers
      BY <1>3, <2>1
    <3>2. PICK m \in Nat : Reached(tx_buf, w, m)
      BY <1>7, <3>1
    <3>3. PICK l \in shown[w]..m : /\ Numbers(tx_fifo, w) = (shown[w] + 1)..l
                                   /\ Numbers(tx_buf, w) = (l + 1)..m
      BY <3>2 DEF Reached
    <3>4. c.no = l + 1 /\ l \in Int
      BY <1>6, <2>1, <3>1, <3>3
    <3>. QED  BY <1>5, <2>1, <3>3, <3>4 DEF Before
  <2>2. CASE w # c.from
    BY <1>5, <2>2 DEF Before
  <2>. QED  BY <2>1, <2>2
<1>9. /\ tx_fifo' \in Seq(Character) /\ InOrder(tx_fifo')
      /\ \A w : Numbers(tx_fifo', w) = Numbers(tx_fifo, w) \cup Numbers(one, w)
  BY <1>4, <1>5, <1>8, Joined DEF OutInv, Buffers
<1>10. ASSUME NEW w \in Writers, NEW m \in Nat, Reached(tx_buf, w, m)
       PROVE  Reached(tx_buf, w, m)'
  <2>1. PICK l \in shown[w]..m : /\ Numbers(tx_fifo, w) = (shown[w] + 1)..l
                                 /\ Numbers(tx_buf, w) = (l + 1)..m
    BY <1>10 DEF Reached
  <2>2. CASE w # c.from
    <3>1. Numbers(one, w) = {}
      BY <1>5, <2>2
    <3>2. Numbers(tx_fifo', w) = Numbers(tx_fifo, w) \cup Numbers(one, w)
      BY <1>9
    <3>3. Numbers(tx_fifo', w) = Numbers(tx_fifo, w)
      BY <3>1, <3>2
    <3>4. Numbers(tx_buf', w) = Numbers(tx_buf, w)
      BY <1>2, <2>2
    <3>. QED  BY <1>1, <2>1, <3>3, <3>4 DEF Reached
  <2>3. CASE w = c.from
    <3>1. c.no = l + 1 /\ l + 1 \in shown[w]..m /\ Numbers(tx_buf', w) = ((l + 1) + 1)..m
      BY <1>6, <2>1, <2>3
    <3>2. Numbers(tx_fifo', w) = ((shown[w] + 1)..l) \cup {l + 1}
      BY <1>5, <1>9, <2>1, <2>3, <3>1
    <3>3. l \in Nat /\ shown[w] \in Nat /\ shown[w] <= l
      BY <1>3, <2>1
    <3>4. ((shown[w] + 1)..l) \cup {l + 1} = (shown[w] + 1)..(l + 1)
      BY <3>3
    <3>. QED  BY <1>1, <3>1, <3>2, <3>4 DEF Reached
  <2>. QED  BY <2>2, <2>3
<1>11. \A i \in 1..Len(putc_waiters) : Kept(i)'
  <2>. SUFFICES ASSUME NEW i \in 1..Len(putc_waiters) PROVE Kept(i)'
    OBVIOUS
  <2>. DEFINE v == putc_waiters[i].tid
              d == putc_waiters[i].data
  <2>1. /\ v \in Writers /\ Len(d) \in 0..accepted[v] /\ Run(d, v, accepted[v] - Len(d))
        /\ Reached(tx_buf, v, accepted[v] - Len(d)) /\ accepted[v] \in Nat
    BY DEF OutInv, Buffers, Kept
  <2>2. accepted[v] - Len(d) \in Nat
    BY <2>1
  <2>3. Reached(tx_buf, v, accepted[v] - Len(d))'
    BY <1>1, <1>10, <2>1, <2>2
  <2>. QED  BY <1>1, <2>1, <2>3 DEF Kept
<1>12. \A w \in Writers : ~Waits(w) => Reached(tx_buf, w, accepted[w])'
  BY <1>1, <1>3, <1>10 DEF OutInv, Buffers
<1>13. Len(tx_buf') <= TX_BUF_SIZE
  <2>1. TX_BUF_SIZE \in Nat /\ Len(tx_buf) \in Nat /\ Len(tx_buf') \in Nat
    BY <1>2, TerminalAssumption, LenProperties DEF OutInv, Buffers
  <2>. QED  BY <1>2, <2>1 DEF OutInv, Buffers
<1>14. Buffers'
  BY <1>1, <1>2, <1>9, <1>11, <1>12, <1>13 DEF OutInv, Buffers, Waits
<1>15. AskedOnce'
  BY <1>1, AskedKept DEF OutInv
<1>. QED  BY <1>14, <1>15 DEF OutInv

\* Characters enter the buffer behind those that are there.
LEMMA StepStartPuts ==
  ASSUME IInv, OutInv, StartPuts
  PROVE  OutInv'
<1>0. PICK req, w, n, a, k :
        /\ req = Head(inbox) /\ w = req.from /\ n = req.len
        /\ a = accepted[w] /\ k = Fit(tx_buf, n)
  OBVIOUS
<1>. DEFINE t == Chars(w, a + 1, a + k)
<1>1. /\ inbox # <<>> /\ req.type = "PUTS" /\ inbox' = Tail(inbox)
      /\ tx_buf' = tx_buf \o t
      /\ \/ /\ k = n
            /\ writer' = [writer EXCEPT ![w] = "running"]
            /\ accepted' = [accepted EXCEPT ![w] = @ + k]
            /\ UNCHANGED putc_waiters
         \/ /\ k < n
            /\ putc_waiters' = Append(putc_waiters, [tid |-> w, data |-> LeftToWrite(req, k)])
            /\ accepted' = [accepted EXCEPT ![w] = @ + n]
            /\ UNCHANGED writer
         \/ /\ k < n
            /\ writer' = [writer EXCEPT ![w] = "running"]
            /\ accepted' = [accepted EXCEPT ![w] = @ + k]
            /\ UNCHANGED putc_waiters
      /\ UNCHANGED <<tx_fifo, shown>>
  BY <1>0 DEF StartPuts
<1>2. /\ inbox \in Seq(Messages) /\ Len(inbox) \in Nat \ {0} /\ Len(inbox') = Len(inbox) - 1
      /\ req \in Messages /\ req = inbox[1]
      /\ \A i \in 1..(Len(inbox) - 1) : inbox'[i] = inbox[i + 1]
  <2>1. inbox \in Seq(Messages)
    BY DEF IInv, Types
  <2>2. inbox # <<>> /\ req = Head(inbox) /\ inbox' = Tail(inbox)
    BY <1>0, <1>1
  <2>3. Len(inbox) \in Nat \ {0}
    BY <2>1, <2>2, LenProperties, EmptySeq
  <2>. QED  BY <2>1, <2>2, <2>3, HeadTailProperties
<1>3. w \in Writers /\ n \in Nat
  BY <1>0, <1>1, <1>2 DEF Messages
<1>4. 1 \in Asks /\ inbox[1].from = w
  <2>1. inbox[1].type = "PUTS" /\ inbox[1].from = w
    BY <1>0, <1>1, <1>2
  <2>2. 1 \in 1..Len(inbox)
    BY <1>2
  <2>. QED  BY <2>1, <2>2 DEF Asks
<1>5. writer[w] = "waiting" /\ ~Waits(w)
  BY <1>4 DEF OutInv, AskedOnce
<1>6. /\ shown \in [Writers -> Nat] /\ accepted \in [Writers -> Nat] /\ a \in Nat
      /\ tx_buf \in Seq(Character) /\ InOrder(tx_buf) /\ Len(tx_buf) <= TX_BUF_SIZE
      /\ Len(tx_buf) \in Nat /\ Reached(tx_buf, w, a)
  BY <1>0, <1>3, <1>5, LenProperties DEF OutInv, Buffers
<1>7. k \in 0..n /\ Len(tx_buf) + k <= TX_BUF_SIZE
  BY <1>0, <1>3, <1>6, FitDoes
<1>8. Run(t, w, a) /\ Len(t) = k
  <2>1. k \in Nat
    BY <1>3, <1>7
  <2>. QED  BY <1>3, <1>6, <2>1, CharsAreRun
<1>9. LeftToWrite(req, k) = Chars(w, (a + k) + 1, (a + k) + (n - k))
  <2>1. (a + k) + (n - k) = a + n
    BY <1>3, <1>6, <1>7
  <2>. QED  BY <1>0, <2>1 DEF LeftToWrite
<1>d. PICK d : d = LeftToWrite(req, k)
  OBVIOUS
<1>10. Run(d, w, a + k) /\ Len(d) = n - k
  <2>1. a + k \in Nat /\ n - k \in Nat
    BY <1>3, <1>6, <1>7
  <2>. QED  BY <1>3, <1>9, <1>d, <2>1, CharsAreRun
<1>. HIDE DEF t
<1>11. /\ tx_buf' \in Seq(Character) /\ InOrder(tx_buf') /\ Len(tx_buf') <= TX_BUF_SIZE
       /\ Reached(tx_buf', w, a + k)
       /\ \A v, x : v # w /\ Reached(tx_buf, v, x) => Reached(tx_buf', v, x)
  <2>1. /\ tx_buf \o t \in Seq(Character) /\ InOrder(tx_buf \o t)
        /\ Len(tx_buf \o t) = Len(tx_buf) + Len(t)
        /\ Reached(tx_buf \o t, w, a + Len(t))
        /\ \A v, x : v # w /\ Reached(tx_buf, v, x) => Reached(tx_buf \o t, v, x)
    BY <1>3, <1>6, <1>8, Entered
  <2>. QED  BY <1>1, <1>7, <1>8, <2>1
<1>12. \A v, x : Reached(tx_buf', v, x) <=> Reached(tx_buf, v, x)'
  BY <1>1 DEF Reached
<1>13. ASSUME NEW i \in 1..Len(putc_waiters), accepted'[putc_waiters[i].tid] = accepted[putc_waiters[i].tid],
              putc_waiters'[i] = putc_waiters[i], putc_waiters[i].tid # w
       PROVE  Kept(i)'
  <2>. DEFINE v == putc_waiters[i].tid
              e == putc_waiters[i].data
  <2>1. /\ v \in Writers /\ Len(e) \in 0..accepted[v] /\ Run(e, v, accepted[v] - Len(e))
        /\ Reached(tx_buf, v, accepted[v] - Len(e))
    BY DEF OutInv, Buffers, Kept
  <2>2. Reached(tx_buf, v, accepted[v] - Len(e))'
    BY <1>11, <1>12, <1>13, <2>1
  <2>. QED  BY <1>13, <2>1, <2>2 DEF Kept
<1>14. \A i \in 1..Len(putc_waiters) : putc_waiters[i].tid # w
  BY <1>5 DEF Waits
<1>15. /\ \A i \in Asks' : i \in Nat \ {0} /\ i + 1 \in Asks /\ inbox'[i] = inbox[i + 1]
       /\ \A i \in Asks' : inbox'[i].from # w
  <2>1. \A i \in Asks' : i \in Nat \ {0} /\ i + 1 \in Asks /\ inbox'[i] = inbox[i + 1]
    BY <1>2 DEF Asks
  <2>2. ASSUME NEW i \in Asks', inbox'[i].from = w PROVE FALSE
    <3>1. i + 1 = 1
      BY <1>4, <2>1, <2>2 DEF OutInv, AskedOnce
    <3>. QED  BY <2>1, <3>1
  <2>. QED  BY <2>1, <2>2
<1>16. \A i, j \in Asks' : inbox'[i].from = inbox'[j].from => i = j
  <2>. SUFFICES ASSUME NEW i \in Asks', NEW j \in Asks', inbox'[i].from = inbox'[j].from
                PROVE  i = j
    OBVIOUS
  <2>1. i + 1 = j + 1
    BY <1>15 DEF OutInv, AskedOnce
  <2>. QED  BY <1>15, <2>1
\* the writer is answered
<1>17. ASSUME writer' = [writer EXCEPT ![w] = "running"],
              accepted' = [accepted EXCEPT ![w] = @ + k], UNCHANGED putc_waiters
       PROVE  OutInv'
  <2>1. /\ accepted' \in [Writers -> Nat] /\ accepted'[w] = a + k
        /\ \A v \in Writers : v # w => accepted'[v] = accepted[v]
    BY <1>0, <1>3, <1>6, <1>7, <1>17
  <2>2. \A i \in 1..Len(putc_waiters) : Kept(i)'
    <3>. SUFFICES ASSUME NEW i \in 1..Len(putc_waiters) PROVE Kept(i)'
      OBVIOUS
    <3>1. putc_waiters[i].tid \in Writers
      BY DEF OutInv, Buffers, Kept
    <3>. QED  BY <1>13, <1>14, <1>17, <2>1, <3>1
  <2>3. ASSUME NEW v \in Writers, ~Waits(v)' PROVE Reached(tx_buf, v, accepted[v])'
    <3>1. CASE v = w
      BY <1>11, <1>12, <2>1, <3>1
    <3>2. CASE v # w
      <4>1. ~Waits(v)
        BY <1>17, <2>3 DEF Waits
      <4>2. Reached(tx_buf', v, accepted[v])
        BY <1>11, <3>2, <4>1 DEF OutInv, Buffers
      <4>. QED  BY <1>12, <2>1, <3>2, <4>2
    <3>. QED  BY <3>1, <3>2
  <2>4. Buffers'
    BY <1>1, <1>11, <1>17, <2>1, <2>2, <2>3 DEF OutInv, Buffers
  <2>5. /\ writer' \in [Writers -> {"running", "waiting"}]
        /\ \A v \in Writers : v # w => writer'[v] = writer[v]
    BY <1>3, <1>17 DEF OutInv, AskedOnce
  <2>6. \A v : Waits(v)' <=> Waits(v)
    BY <1>17 DEF Waits
  <2>7. \A v \in Writers : Waits(v)' => writer'[v] = "waiting"
    BY <1>5, <2>5, <2>6 DEF OutInv, AskedOnce
  <2>8. \A i \in Asks' : (writer[inbox[i].from] = "waiting" /\ ~Waits(inbox[i].from))'
    <3>. SUFFICES ASSUME NEW i \in Asks'
                  PROVE  (writer[inbox[i].from] = "waiting" /\ ~Waits(inbox[i].from))'
      OBVIOUS
    <3>1. i + 1 \in Asks /\ inbox'[i] = inbox[i + 1] /\ inbox'[i].from # w
      BY <1>15
    <3>2. inbox[i + 1].from \in Writers
      BY <3>1 DEF IInv, Types, Messages, Asks
    <3>. QED  BY <2>5, <2>6, <3>1, <3>2 DEF OutInv, AskedOnce
  <2>9. AskedOnce'
    BY <1>16, <2>5, <2>7, <2>8 DEF AskedOnce
  <2>. QED  BY <2>4, <2>9 DEF OutInv
\* the writer waits with the rest
<1>18. ASSUME putc_waiters' = Append(putc_waiters, [tid |-> w, data |-> d]),
              accepted' = [accepted EXCEPT ![w] = @ + n], UNCHANGED writer
       PROVE  OutInv'
  <2>. DEFINE x == [tid |-> w, data |-> d]
  <2>p. PICK p : p = Len(putc_waiters)
    OBVIOUS
  <2>1. /\ accepted' \in [Writers -> Nat] /\ accepted'[w] = a + n
        /\ \A v \in Writers : v # w => accepted'[v] = accepted[v]
    BY <1>0, <1>3, <1>6, <1>18
  <2>2. /\ p \in Nat /\ Len(putc_waiters') = p + 1 /\ putc_waiters'[p + 1] = x
        /\ \A i \in 1..p : putc_waiters'[i] = putc_waiters[i]
        /\ \E S : putc_waiters' \in Seq(S)
    <3>1. PICK S : putc_waiters \in Seq(S)
      BY DEF OutInv, Buffers
    <3>2. putc_waiters \in Seq(S \cup {x})
      BY <3>1, SeqMonotonic
    <3>3. putc_waiters' \in Seq(S \cup {x})
      BY <1>18, <3>2, AppendProperties
    <3>. QED  BY <1>18, <2>p, <3>2, <3>3, AppendProperties, LenProperties
  <2>3. x.tid = w /\ x.data = d
    OBVIOUS
  <2>. HIDE DEF x
  <2>4. Kept(p + 1)'
    <3>1. /\ putc_waiters'[p + 1].tid = w /\ putc_waiters'[p + 1].data = d
      BY <2>2, <2>3
    <3>2. (a + n) - Len(d) = a + k /\ Len(d) \in 0..(a + n)
      BY <1>3, <1>6, <1>7, <1>10
    <3>3. Reached(tx_buf, w, a + k)'
      BY <1>11, <1>12
    <3>. QED  BY <1>3, <1>10, <2>1, <3>1, <3>2, <3>3 DEF Kept
  <2>5. \A i \in 1..(p + 1) : i \in 1..p \/ i = p + 1
    BY <2>2
  <2>6. \A i \in 1..p : Kept(i)'
    <3>. SUFFICES ASSUME NEW i \in 1..p PROVE Kept(i)'
      OBVIOUS
    <3>1. putc_waiters[i].tid \in Writers /\ putc_waiters'[i] = putc_waiters[i]
          /\ putc_waiters[i].tid # w
      BY <1>14, <2>2, <2>p DEF OutInv, Buffers, Kept
    <3>. QED  BY <1>13, <2>1, <2>p, <3>1
  <2>7. \A i \in 1..Len(putc_waiters') : Kept(i)'
    BY <2>2, <2>4, <2>5, <2>6
  <2>8. \A i, j \in 1..Len(putc_waiters') : putc_waiters'[i].tid = putc_waiters'[j].tid => i = j
    <3>1. \A i \in 1..p : putc_waiters'[i].tid # w
      BY <1>14, <2>2, <2>p
    <3>. QED  BY <2>2, <2>3, <2>5, <2>p, <3>1 DEF OutInv, Buffers
  <2>9. \A v : Waits(v)' <=> Waits(v) \/ v = w
    <3>1. \A i \in 1..p : i \in 1..(p + 1)
      BY <2>2
    <3>2. p + 1 \in 1..(p + 1)
      BY <2>2
    <3>. QED  BY <2>2, <2>3, <2>5, <2>p, <3>1, <3>2 DEF Waits
  <2>10. ASSUME NEW v \in Writers, ~Waits(v)' PROVE Reached(tx_buf, v, accepted[v])'
    <3>1. v # w /\ ~Waits(v)
      BY <2>9, <2>10
    <3>2. Reached(tx_buf', v, accepted[v])
      BY <1>11, <3>1 DEF OutInv, Buffers
    <3>. QED  BY <1>12, <2>1, <3>1, <3>2
  <2>11. Buffers'
    BY <1>1, <1>11, <2>1, <2>2, <2>7, <2>8, <2>10 DEF OutInv, Buffers
  <2>12. \A v \in Writers : Waits(v)' => writer'[v] = "waiting"
    BY <1>5, <1>18, <2>9 DEF OutInv, AskedOnce
  <2>13. \A i \in Asks' : (writer[inbox[i].from] = "waiting" /\ ~Waits(inbox[i].from))'
    <3>. SUFFICES ASSUME NEW i \in Asks'
                  PROVE  (writer[inbox[i].from] = "waiting" /\ ~Waits(inbox[i].from))'
      OBVIOUS
    <3>1. i + 1 \in Asks /\ inbox'[i] = inbox[i + 1] /\ inbox'[i].from # w
      BY <1>15
    <3>. QED  BY <1>18, <2>9, <3>1 DEF OutInv, AskedOnce
  <2>14. AskedOnce'
    BY <1>16, <1>18, <2>12, <2>13 DEF OutInv, AskedOnce
  <2>. QED  BY <2>11, <2>14 DEF OutInv
<1>. QED  BY <1>1, <1>17, <1>18, <1>d

\* What the i-th blocked caller gets into a buffer b, and the buffer then.
Takes(b, i) == Fit(b, Len(putc_waiters[i].data))
Filled(b, i) == b \o SubSeq(putc_waiters[i].data, 1, Takes(b, i))

\* The loop over the blocked callers has a result.
LEMMA FilledExists ==
  ASSUME NEW N \in Nat
  PROVE  \E f : f = [i \in 0..N |-> IF i = 0 THEN tx_buf ELSE Filled(f[i - 1], i)]
<1>. DEFINE Upto(f, m) == f = [i \in 0..m |-> IF i = 0 THEN tx_buf ELSE Filled(f[i - 1], i)]
            T == {m \in 0..N : \E f : Upto(f, m)}
<1>1. 0 \in T
  <2>. DEFINE f == [i \in 0..0 |-> tx_buf]
  <2>1. Upto(f, 0)
    <3>1. \A i \in 0..0 : i = 0
      OBVIOUS
    <3>2. f = [i \in 0..0 |-> IF i = 0 THEN tx_buf ELSE Filled(f[i - 1], i)]
      BY <3>1
    <3>. QED  BY <3>2
  <2>. HIDE DEF Upto, f
  <2>2. 0 \in 0..N
    OBVIOUS
  <2>. QED  BY <2>1, <2>2
<1>2. ASSUME NEW m \in 0..(N - 1), m \in T PROVE m + 1 \in T
  <2>1. PICK f : Upto(f, m)
    BY <1>2
  <2>. DEFINE h == [i \in 0..(m + 1) |-> IF i = m + 1 THEN Filled(f[m], m + 1) ELSE f[i]]
  <2>2. ASSUME NEW i \in 0..(m + 1)
        PROVE  h[i] = IF i = 0 THEN tx_buf ELSE Filled(h[i - 1], i)
    <3>1. CASE i = m + 1
      <4>1. i # 0 /\ i - 1 = m /\ m \in 0..(m + 1) /\ m # m + 1
        BY <3>1
      <4>2. h[i] = Filled(f[m], m + 1) /\ h[m] = f[m]
        BY <3>1, <4>1
      <4>. QED  BY <3>1, <4>1, <4>2
    <3>2. CASE i # m + 1
      <4>1. i \in 0..m /\ h[i] = f[i]
        BY <3>2
      <4>2. f[i] = IF i = 0 THEN tx_buf ELSE Filled(f[i - 1], i)
        BY <2>1, <4>1
      <4>3. i # 0 => i - 1 \in 0..(m + 1) /\ i - 1 # m + 1 /\ h[i - 1] = f[i - 1]
        BY <4>1
      <4>. QED  BY <4>1, <4>2, <4>3
    <3>. QED  BY <3>1, <3>2
  <2>3. Upto(h, m + 1)
    <3>1. h = [i \in 0..(m + 1) |-> h[i]]
      OBVIOUS
    <3>. HIDE DEF h
    <3>2. h = [i \in 0..(m + 1) |-> IF i = 0 THEN tx_buf ELSE Filled(h[i - 1], i)]
      BY <2>2, <3>1
    <3>. QED  BY <3>2
  <2>4. m + 1 \in 0..N
    OBVIOUS
  <2>. QED  BY <2>3, <2>4
<1>3. N \in T
  <2>. HIDE DEF T
  <2>1. \A m \in 0..N : m \in T
    BY <1>1, <1>2, Stepwise
  <2>. QED  BY <2>1
<1>. QED  BY <1>3

\* How far the characters of the i-th blocked caller reach before the loop, and in the
\* buffer b after i rounds of it.
Mark(i) == accepted[putc_waiters[i].tid] - Len(putc_waiters[i].data)

Good(b, f, i) ==
  /\ b \in Seq(Character) /\ InOrder(b) /\ Len(b) <= TX_BUF_SIZE
  /\ \A j \in 1..Len(putc_waiters) :
       Reached(b, putc_waiters[j].tid,
               IF j <= i THEN Mark(j) + Takes(f[j - 1], j) ELSE Mark(j))
  /\ \A w \in Writers : ~Waits(w) => Reached(b, w, accepted[w])

\* The next blocked caller is served.
LEMMA FilledDoes ==
  ASSUME Buffers, NEW n \in Nat, n = Len(putc_waiters), NEW f, NEW i \in 0..(n - 1),
         Good(f[i], f, i)
  PROVE  /\ Takes(f[i], i + 1) \in 0..Len(putc_waiters[i + 1].data)
         /\ Good(Filled(f[i], i + 1), f, i + 1)
<1>0. i + 1 \in 1..n /\ (i + 1) - 1 = i /\ ~(i + 1 <= i) /\ i + 1 <= i + 1
  OBVIOUS
<1>1. PICK b, v, d, m, q :
        /\ b = f[i] /\ v = putc_waiters[i + 1].tid /\ d = putc_waiters[i + 1].data
        /\ m = Mark(i + 1) /\ q = Takes(f[i], i + 1)
  OBVIOUS
<1>2. /\ v \in Writers /\ accepted[v] \in Nat /\ Len(d) \in 0..accepted[v]
      /\ m = accepted[v] - Len(d) /\ Run(d, v, m) /\ shown \in [Writers -> Nat]
  <2>1. Kept(i + 1)
    BY <1>0 DEF Buffers
  <2>. QED  BY <1>1, <2>1 DEF Kept, Mark, Buffers
<1>3. m \in Nat /\ Len(d) \in Nat
  BY <1>2
<1>4. b \in Seq(Character) /\ InOrder(b) /\ Len(b) <= TX_BUF_SIZE /\ Len(b) \in Nat
  BY <1>1, LenProperties DEF Good
<1>5. q \in 0..Len(d) /\ Len(b) + q <= TX_BUF_SIZE
  BY <1>1, <1>3, <1>4, FitDoes DEF Takes
<1>6. PICK t : t = SubSeq(d, 1, q)
  OBVIOUS
<1>7. Run(t, v, m) /\ Len(t) = q
  BY <1>2, <1>3, <1>5, <1>6, RunSplit
<1>8. Reached(b, v, m)
  <2>1. Reached(f[i], putc_waiters[i + 1].tid, Mark(i + 1))
    BY <1>0 DEF Good
  <2>. QED  BY <1>1, <2>1
<1>9. /\ b \o t \in Seq(Character) /\ InOrder(b \o t) /\ Len(b \o t) = Len(b) + q
      /\ Reached(b \o t, v, m + q)
      /\ \A w, k : w # v /\ Reached(b, w, k) => Reached(b \o t, w, k)
  BY <1>2, <1>3, <1>4, <1>7, <1>8, Entered
<1>10. Filled(f[i], i + 1) = b \o t
  BY <1>1, <1>6 DEF Filled
<1>11. ASSUME NEW j \in 1..n
       PROVE  Reached(b \o t, putc_waiters[j].tid,
                      IF j <= i + 1 THEN Mark(j) + Takes(f[j - 1], j) ELSE Mark(j))
  <2>1. CASE j = i + 1
    BY <1>0, <1>1, <1>9, <2>1
  <2>2. CASE j # i + 1
    <3>1. putc_waiters[j].tid # v
      BY <1>0, <1>1, <2>2 DEF Buffers
    <3>2. j <= i + 1 <=> j <= i
      BY <2>2
    <3>3. Reached(b, putc_waiters[j].tid,
                  IF j <= i THEN Mark(j) + Takes(f[j - 1], j) ELSE Mark(j))
      BY <1>1 DEF Good
    <3>. QED  BY <1>9, <3>1, <3>2, <3>3
  <2>. QED  BY <2>1, <2>2
<1>12. ASSUME NEW w \in Writers, ~Waits(w) PROVE Reached(b \o t, w, accepted[w])
  <2>1. w # v
    BY <1>0, <1>1, <1>12 DEF Waits
  <2>2. Reached(b, w, accepted[w])
    BY <1>1, <1>12 DEF Good
  <2>. QED  BY <1>9, <2>1, <2>2
<1>13. Len(b \o t) <= TX_BUF_SIZE
  BY <1>5, <1>9
<1>. QED  BY <1>1, <1>5, <1>9, <1>10, <1>11, <1>12, <1>13 DEF Good

\* The whole loop: f are the buffers, and the first d of the n callers are drained.
Drained(f, d, n) ==
  /\ n \in Nat /\ d \in 0..n
  /\ \A i \in 1..n : Takes(f[i - 1], i) \in 0..Len(putc_waiters[i].data)
  /\ \A i \in 1..d : Takes(f[i - 1], i) = Len(putc_waiters[i].data)
  /\ Good(tx_buf', f, n)
  /\ putc_waiters' = [i \in 1..(n - d) |->
       [tid |-> putc_waiters[d + i].tid,
        data |-> SubSeq(putc_waiters[d + i].data, Takes(f[(d + i) - 1], d + i) + 1,
                        Len(putc_waiters[d + i].data))]]
  /\ writer' = [w \in Writers |-> IF \E i \in 1..d : putc_waiters[i].tid = w
                                  THEN "running" ELSE writer[w]]

LEMMA DrainDoes ==
  ASSUME Buffers, DrainPutcWaiters, NEW n, n = Len(putc_waiters)
  PROVE  \E f, d : Drained(f, d, n)
<1>. DEFINE N == Len(putc_waiters)
            Loop(f) == f = [i \in 0..N |-> IF i = 0 THEN tx_buf ELSE Filled(f[i - 1], i)]
            f == CHOOSE f : Loop(f)
            Stops(d) == /\ \A i \in 1..d : Takes(f[i - 1], i) = Len(putc_waiters[i].data)
                        /\ d < N => Takes(f[(d + 1) - 1], d + 1) < Len(putc_waiters[d + 1].data)
            d == CHOOSE d \in 0..N : Stops(d)
<1>0. N \in Nat
  BY LenProperties DEF Buffers
<1>1. /\ tx_buf' = f[N]
      /\ putc_waiters' = [i \in 1..(N - d) |->
           [tid |-> putc_waiters[d + i].tid,
            data |-> SubSeq(putc_waiters[d + i].data, Takes(f[(d + i) - 1], d + i) + 1,
                            Len(putc_waiters[d + i].data))]]
      /\ writer' = [w \in Writers |-> IF \E i \in 1..d : putc_waiters[i].tid = w
                                      THEN "running" ELSE writer[w]]
  BY DEF DrainPutcWaiters, Takes, Filled
<1>2. Loop(f)
  <2>1. \E x : Loop(x)
    BY <1>0, FilledExists
  <2>. HIDE DEF Loop
  <2>. QED  BY <2>1
<1>. HIDE DEF f
<1>3. f[0] = tx_buf /\ \A i \in 0..(N - 1) : f[i + 1] = Filled(f[i], i + 1)
  <2>1. 0 \in 0..N /\ \A i \in 0..(N - 1) : i + 1 \in 0..N /\ i + 1 # 0 /\ (i + 1) - 1 = i
    BY <1>0
  <2>. QED  BY <1>2, <2>1
<1>. HIDE DEF N, Loop
<1>. DEFINE T == {i \in 0..N : Good(f[i], f, i)}
<1>4. 0 \in T
  <2>1. ASSUME NEW j \in 1..Len(putc_waiters) PROVE ~(j <= 0) /\ Reached(tx_buf, putc_waiters[j].tid, Mark(j))
    <3>1. Kept(j)
      BY DEF Buffers
    <3>. QED  BY <3>1 DEF Kept, Mark
  <2>2. Good(tx_buf, f, 0)
    BY <2>1 DEF Good, Buffers
  <2>. QED  BY <1>0, <1>3, <2>2
<1>5. ASSUME NEW i \in 0..(N - 1), i \in T PROVE i + 1 \in T
  <2>1. Good(Filled(f[i], i + 1), f, i + 1)
    BY <1>0, <1>5, FilledDoes DEF N
  <2>2. i + 1 \in 0..N
    BY <1>0
  <2>. QED  BY <1>3, <2>1, <2>2
<1>6. \A i \in 0..N : Good(f[i], f, i)
  <2>. HIDE DEF T
  <2>1. \A i \in 0..N : i \in T
    BY <1>0, <1>4, <1>5, Stepwise
  <2>. QED  BY <2>1 DEF T
<1>7. \A i \in 0..(N - 1) : Takes(f[i], i + 1) \in 0..Len(putc_waiters[i + 1].data)
  <2>. SUFFICES ASSUME NEW i \in 0..(N - 1)
                PROVE  Takes(f[i], i + 1) \in 0..Len(putc_waiters[i + 1].data)
    OBVIOUS
  <2>1. i \in 0..N
    BY <1>0
  <2>. QED  BY <1>0, <1>6, <2>1, FilledDoes DEF N
<1>8. \A i \in 1..N : Takes(f[i - 1], i) \in 0..Len(putc_waiters[i].data)
  <2>. SUFFICES ASSUME NEW i \in 1..N
                PROVE  Takes(f[i - 1], i) \in 0..Len(putc_waiters[i].data)
    OBVIOUS
  <2>1. i - 1 \in 0..(N - 1) /\ (i - 1) + 1 = i
    BY <1>0
  <2>. QED  BY <1>7, <2>1
<1>9. \E x \in 0..N : Stops(x)
  <2>. DEFINE U == {i \in 0..N : i = N \/ Takes(f[i], i + 1) < Len(putc_waiters[i + 1].data)}
  <2>1. PICK x \in U : \A y \in U : x <= y
    <3>1. N \in U /\ U \subseteq Nat
      BY <1>0
    <3>. HIDE DEF U
    <3>. QED  BY <3>1, LeastNumber
  <2>2. x \in 0..N /\ (x + 1) - 1 = x
    BY <1>0
  <2>3. ASSUME NEW i \in 1..x PROVE Takes(f[i - 1], i) = Len(putc_waiters[i].data)
    <3>1. i \in 1..N /\ i - 1 \in 0..N /\ i - 1 # N /\ (i - 1) + 1 = i /\ ~(x <= i - 1)
      BY <1>0, <2>2
    <3>2. ~(Takes(f[i - 1], i) < Len(putc_waiters[i].data))
      BY <2>1, <3>1
    <3>3. Takes(f[i - 1], i) \in 0..Len(putc_waiters[i].data)
      BY <1>8, <3>1
    <3>4. Len(putc_waiters[i].data) \in Nat
      <4>1. Kept(i)
        BY <3>1 DEF Buffers, N
      <4>. QED  BY <4>1, LenProperties DEF Kept, Run
    <3>. HIDE DEF N, U
    <3>. QED  BY <3>2, <3>3, <3>4
  <2>4. Stops(x)
    BY <2>2, <2>3, <1>0
  <2>. QED  BY <2>2, <2>4
<1>10. d \in 0..N /\ Stops(d)
  <2>. HIDE DEF Stops
  <2>. QED  BY <1>9
<1>. HIDE DEF d
<1>11. Good(tx_buf', f, N)
  <2>1. N \in 0..N
    BY <1>0
  <2>. QED  BY <1>1, <1>6, <2>1
<1>12. Drained(f, d, N)
  BY <1>0, <1>1, <1>8, <1>10, <1>11 DEF Drained
<1>. QED  BY <1>12 DEF N

\* The blocked callers that are drained leave the array, the others keep their rests.
LEMMA StepFinishTxNotify ==
  ASSUME IInv, OutInv, FinishTxNotify
  PROVE  OutInv'
<1>0. PICK n, p : n = Len(putc_waiters) /\ p = putc_waiters
  OBVIOUS
<1>1. DrainPutcWaiters /\ UNCHANGED <<inbox, tx_fifo, accepted, shown>>
  BY DEF FinishTxNotify
<1>2. PICK f, d : Drained(f, d, n)
  BY <1>0, <1>1, DrainDoes DEF OutInv
<1>3. PICK q : q = [i \in 1..n |-> Takes(f[i - 1], i)]
  OBVIOUS
<1>4. /\ n \in Nat /\ d \in 0..n
      /\ \A i \in 1..n : q[i] = Takes(f[i - 1], i) /\ q[i] \in 0..Len(p[i].data)
      /\ \A i \in 1..d : q[i] = Len(p[i].data)
  <2>1. \A i \in 1..n : q[i] = Takes(f[i - 1], i)
    BY <1>3
  <2>2. n \in Nat /\ d \in 0..n
    BY <1>2 DEF Drained
  <2>3. \A i \in 1..d : i \in 1..n
    BY <2>2
  <2>. QED  BY <1>0, <1>2, <2>1, <2>2, <2>3 DEF Drained
<1>5. PICK e : e = [i \in 1..(n - d) |->
             [tid |-> p[d + i].tid,
              data |-> SubSeq(p[d + i].data, q[d + i] + 1, Len(p[d + i].data))]]
  OBVIOUS
<1>6. n - d \in Nat /\ \A i \in 1..(n - d) : d + i \in 1..n
  BY <1>4
<1>7. putc_waiters' = e
  <2>1. \A i \in 1..(n - d) : Takes(f[(d + i) - 1], d + i) = q[d + i]
    BY <1>4, <1>6
  <2>. QED  BY <1>0, <1>2, <1>5, <2>1 DEF Drained
<1>8. /\ Len(e) = n - d /\ \E S : e \in Seq(S)
      /\ \A i \in 1..(n - d) :
           /\ e[i].tid = p[d + i].tid
           /\ e[i].data = SubSeq(p[d + i].data, q[d + i] + 1, Len(p[d + i].data))
  <2>1. PICK S : S = {e[i] : i \in 1..(n - d)}
    OBVIOUS
  <2>2. e \in [1..(n - d) -> S]
    BY <1>5, <2>1
  <2>3. e \in Seq(S) /\ Len(e) = n - d
    BY <1>6, <2>2
  <2>. QED  BY <1>5, <2>3
<1>9. \A i \in 1..n :
        LET v == p[i].tid
            D == p[i].data IN
        /\ v \in Writers /\ accepted[v] \in Nat /\ Len(D) \in 0..accepted[v]
        /\ Run(D, v, accepted[v] - Len(D))
        /\ Reached(tx_buf', v, (accepted[v] - Len(D)) + q[i])
  <2>. SUFFICES ASSUME NEW i \in 1..n
                PROVE  /\ p[i].tid \in Writers /\ accepted[p[i].tid] \in Nat
                       /\ Len(p[i].data) \in 0..accepted[p[i].tid]
                       /\ Run(p[i].data, p[i].tid, accepted[p[i].tid] - Len(p[i].data))
                       /\ Reached(tx_buf', p[i].tid,
                                  (accepted[p[i].tid] - Len(p[i].data)) + q[i])
    OBVIOUS
  <2>1. Kept(i)
    BY <1>0 DEF OutInv, Buffers
  <2>2. Reached(tx_buf', p[i].tid, IF i <= n THEN Mark(i) + Takes(f[i - 1], i) ELSE Mark(i))
    BY <1>0, <1>2 DEF Drained, Good
  <2>3. i <= n
    BY <1>4
  <2>4. Reached(tx_buf', p[i].tid, Mark(i) + q[i])
    BY <1>4, <2>2, <2>3
  <2>. QED  BY <1>0, <2>1, <2>4 DEF Kept, Mark, OutInv, Buffers
<1>10. \A w, x : Reached(tx_buf', w, x) <=> Reached(tx_buf, w, x)'
  BY <1>1 DEF Reached
<1>11. /\ tx_buf' \in Seq(Character) /\ InOrder(tx_buf') /\ Len(tx_buf') <= TX_BUF_SIZE
       /\ \A w \in Writers : ~Waits(w) => Reached(tx_buf', w, accepted[w])
  BY <1>2 DEF Drained, Good
<1>12. ASSUME NEW i \in 1..(n - d) PROVE Kept(i)'
  <2>1. PICK j, v, D, m, a : /\ j = d + i /\ v = p[j].tid /\ D = p[j].data
                             /\ a = accepted[v] /\ m = a - Len(D)
    OBVIOUS
  <2>2. /\ j \in 1..n /\ v \in Writers /\ a \in Nat /\ Len(D) \in 0..a
        /\ Run(D, v, m) /\ Reached(tx_buf', v, m + q[j]) /\ q[j] \in 0..Len(D)
    <3>1. j \in 1..n
      BY <1>6, <2>1
    <3>2. q[j] \in 0..Len(D)
      BY <1>4, <2>1, <3>1
    <3>3. /\ v \in Writers /\ a \in Nat /\ Len(D) \in 0..a
          /\ Run(D, v, m) /\ Reached(tx_buf', v, m + q[j])
      BY <1>9, <2>1, <3>1
    <3>. QED  BY <3>1, <3>2, <3>3
  <2>3. m \in Nat /\ Len(D) \in Nat
    BY <2>1, <2>2
  <2>4. PICK E : E = SubSeq(D, q[j] + 1, Len(D))
    OBVIOUS
  <2>5. Run(E, v, m + q[j]) /\ Len(E) = Len(D) - q[j]
    BY <2>2, <2>3, <2>4, RunSplit
  <2>6. a - Len(E) = m + q[j] /\ Len(E) \in 0..a
    <3>1. PICK r, c : r = q[j] /\ c = Len(D)
      OBVIOUS
    <3>2. a \in Nat /\ c \in 0..a /\ r \in 0..c /\ m = a - c
      BY <2>1, <2>2, <3>1
    <3>3. a - (c - r) = m + r /\ c - r \in 0..a
      BY <3>2
    <3>. QED  BY <2>5, <3>1, <3>3
  <2>7. putc_waiters'[i].tid = v /\ putc_waiters'[i].data = E /\ accepted'[v] = a
    BY <1>1, <1>7, <1>8, <2>1, <2>4
  <2>8. Reached(tx_buf, v, m + q[j])'
    BY <1>10, <2>2
  <2>. QED  BY <2>2, <2>5, <2>6, <2>7, <2>8 DEF Kept
<1>13. ASSUME NEW w
       PROVE  Waits(w)' <=> \E j \in (d + 1)..n : p[j].tid = w
  <2>1. ASSUME NEW i \in 1..(n - d), e[i].tid = w PROVE \E j \in (d + 1)..n : p[j].tid = w
    <3>1. d + i \in (d + 1)..n /\ p[d + i].tid = w
      BY <1>4, <1>8, <2>1
    <3>. QED  BY <3>1
  <2>2. ASSUME NEW j \in (d + 1)..n, p[j].tid = w PROVE \E i \in 1..(n - d) : e[i].tid = w
    <3>1. j - d \in 1..(n - d) /\ d + (j - d) = j
      BY <1>4
    <3>2. e[j - d].tid = w
      BY <1>8, <2>2, <3>1
    <3>. QED  BY <3>1, <3>2
  <2>. QED  BY <1>7, <1>8, <2>1, <2>2 DEF Waits
<1>14. \A i \in 1..n : i \in 1..d \/ i \in (d + 1)..n
  BY <1>4
<1>15. \A i, j \in 1..n : p[i].tid = p[j].tid => i = j
  BY <1>0 DEF OutInv, Buffers
<1>16. ASSUME NEW w \in Writers, ~Waits(w)' PROVE Reached(tx_buf, w, accepted[w])'
  <2>1. CASE ~Waits(w)
    BY <1>1, <1>10, <1>11, <2>1
  <2>2. CASE Waits(w)
    <3>1. PICK i \in 1..n : p[i].tid = w
      BY <1>0, <2>2 DEF Waits
    <3>2. i \in 1..d
      BY <1>13, <1>14, <1>16, <3>1
    <3>3. Reached(tx_buf', w, (accepted[w] - Len(p[i].data)) + Len(p[i].data))
      BY <1>4, <1>9, <3>1, <3>2
    <3>4. (accepted[w] - Len(p[i].data)) + Len(p[i].data) = accepted[w]
      BY <1>9, <3>1
    <3>. QED  BY <1>1, <1>10, <3>3, <3>4
  <2>. QED  BY <2>1, <2>2
<1>17. \A i, j \in 1..(n - d) : e[i].tid = e[j].tid => i = j
  <2>. SUFFICES ASSUME NEW i \in 1..(n - d), NEW j \in 1..(n - d), e[i].tid = e[j].tid
                PROVE  i = j
    OBVIOUS
  <2>1. d + i = d + j
    BY <1>6, <1>8, <1>15
  <2>. QED  BY <1>4, <2>1
<1>18. Buffers'
  BY <1>1, <1>7, <1>8, <1>11, <1>12, <1>16, <1>17 DEF OutInv, Buffers
<1>19. \A w \in Writers : writer'[w] = IF \E i \in 1..d : p[i].tid = w THEN "running" ELSE writer[w]
  BY <1>0, <1>2 DEF Drained
<1>20. writer' \in [Writers -> {"running", "waiting"}]
  <2>1. \A w \in Writers : writer'[w] \in {"running", "waiting"}
    BY <1>19 DEF OutInv, AskedOnce
  <2>2. writer' = [w \in Writers |-> writer'[w]]
    BY <1>0, <1>2 DEF Drained
  <2>. QED  BY <2>1, <2>2
<1>21. ASSUME NEW w \in Writers, Waits(w)' PROVE writer'[w] = "waiting"
  <2>1. PICK j \in (d + 1)..n : p[j].tid = w
    BY <1>13, <1>21
  <2>2. j \in 1..n /\ \A i \in 1..d : i \in 1..n /\ i # j
    BY <1>4
  <2>3. Waits(w)
    BY <1>0, <2>1, <2>2 DEF Waits
  <2>4. \A i \in 1..d : p[i].tid # w
    BY <1>15, <2>1, <2>2
  <2>. QED  BY <1>19, <2>3, <2>4 DEF OutInv, AskedOnce
<1>22. Asks' = Asks /\ \A i \in Asks : inbox[i].from \in Writers
  BY <1>1 DEF Asks, IInv, Types, Messages
<1>23. ASSUME NEW i \in Asks
       PROVE  writer'[inbox[i].from] = "waiting" /\ ~Waits(inbox[i].from)'
  <2>1. PICK w \in Writers : w = inbox[i].from
    BY <1>22
  <2>2. writer[w] = "waiting" /\ ~Waits(w)
    BY <2>1 DEF OutInv, AskedOnce
  <2>3. \A j \in 1..n : p[j].tid # w
    BY <1>0, <2>2 DEF Waits
  <2>4. \A j \in (d + 1)..n : j \in 1..n
    BY <1>4
  <2>5. \A j \in 1..d : j \in 1..n
    BY <1>4
  <2>6. ~Waits(w)'
    BY <1>13, <2>3, <2>4
  <2>7. writer'[w] = "waiting"
    BY <1>19, <2>2, <2>3, <2>5
  <2>8. inbox'[i].from = w
    BY <1>1, <2>1
  <2>. QED  BY <1>1, <2>1, <2>6, <2>7 DEF Waits
<1>24. AskedOnce'
  BY <1>1, <1>20, <1>21, <1>22, <1>23 DEF OutInv, AskedOnce
<1>. QED  BY <1>18, <1>24 DEF OutInv

\* At the start nothing is on its way, and every step keeps the invariant.
LEMMA InitOutInv == Init => OutInv
<1>. SUFFICES ASSUME Init PROVE OutInv
  OBVIOUS
<1>1. Asks = {} /\ \A w : ~Waits(w)
  BY DEF Init, Asks, Waits
<1>2. \A w : Numbers(<<>>, w) = {}
  BY DEF Numbers
<1>3. ASSUME NEW w \in Writers PROVE Reached(<<>>, w, 0)
  <2>1. (0 + 1)..0 = {} /\ 0 \in 0..0
    OBVIOUS
  <2>. QED  BY <1>2, <2>1 DEF Init, Reached
<1>4. InOrder(<<>>)
  BY DEF InOrder
<1>5. Len(<<>>) <= TX_BUF_SIZE /\ <<>> \in Seq(Character) /\ Len(<<>>) = 0
  BY TerminalAssumption
<1>6. Buffers
  BY <1>1, <1>3, <1>4, <1>5 DEF Init, Buffers
<1>7. AskedOnce
  BY <1>1 DEF Init, AskedOnce
<1>. QED  BY <1>6, <1>7 DEF OutInv

LEMMA NextOutInv == IInv /\ OutInv /\ [Next]_vars => OutInv'
<1>. SUFFICES ASSUME IInv, OutInv, [Next]_vars PROVE OutInv'
  OBVIOUS
<1>1. CASE TxNotifierStep
  <2>1. CASE TxPoll
    BY <2>1, OutputKept DEF TxPoll
  <2>2. CASE TxEnable
    BY <2>2, OutputKept DEF TxEnable
  <2>3. CASE TxAwait
    BY <2>3, OutputKept DEF TxAwait
  <2>4. CASE TxSend
    BY <2>4, OutputKept DEF TxSend
  <2>. QED  BY <1>1, <2>1, <2>2, <2>3, <2>4 DEF TxNotifierStep
<1>2. CASE RxNotifierStep
  <2>1. CASE RxPoll
    <3>1. \/ inbox' = inbox
          \/ \E m : m.type # "PUTS" /\ inbox' = Append(inbox, m)
      BY <2>1 DEF RxPoll
    <3>. QED  BY <2>1, <3>1, OutputKept DEF RxPoll, txVars
  <2>2. CASE RxAwait
    BY <2>2, OutputKept DEF RxAwait, txVars
  <2>. QED  BY <1>2, <2>1, <2>2 DEF RxNotifierStep
<1>3. CASE ServerStep
  <2>1. CASE StartPuts
    BY <2>1, StepStartPuts
  <2>2. CASE StartTxNotify
    BY <2>2, OutputKept DEF StartTxNotify, txVars
  <2>3. CASE FlushOne
    BY <2>3, StepFlushOne
  <2>4. CASE FinishTxNotify
    BY <2>4, StepFinishTxNotify
  <2>5. CASE FinishPuts
    BY <2>5, OutputKept DEF FinishPuts
  <2>6. CASE ServeRxNotify
    BY <2>6, OutputKept DEF ServeRxNotify, txVars
  <2>7. CASE ServeGetc
    BY <2>7, OutputKept DEF ServeGetc, txVars
  <2>. QED  BY <1>3, <2>1, <2>2, <2>3, <2>4, <2>5, <2>6, <2>7 DEF ServerStep
<1>4. CASE Transmit
  BY <1>4, StepTransmit
<1>5. CASE TxInterrupt
  BY <1>5, OutputKept DEF TxInterrupt
<1>6. CASE RxInterrupt
  BY <1>6, OutputKept DEF RxInterrupt, txVars
<1>7. CASE Type
  BY <1>7, OutputKept DEF Type, txVars
<1>8. CASE \E w \in Writers, n \in 1..TERM_MAX_STR_LEN : CallPuts(w, n)
  BY <1>8, StepCallPuts
<1>9. CASE \E r \in Readers : CallGetc(r)
  <2>1. PICK r \in Readers : CallGetc(r)
    BY <1>9
  <2>2. \E m : m.type # "PUTS" /\ inbox' = Append(inbox, m)
    BY <2>1 DEF CallGetc
  <2>. QED  BY <2>1, <2>2, OutputKept DEF CallGetc, txVars
<1>10. CASE UNCHANGED vars
  BY <1>10, OutputKept DEF vars, txVars
<1>. QED  BY <1>1, <1>2, <1>3, <1>4, <1>5, <1>6, <1>7, <1>8, <1>9, <1>10 DEF Next

\* What the invariant says of the three places where a writer's characters are.
LEMMA OutInvSuffices == OutInv => OutputInOrder
<1>. SUFFICES ASSUME OutInv PROVE OutputInOrder
  OBVIOUS
<1>. DEFINE n == Len(putc_waiters)
            KeptOf(w) == UNION {Numbers(putc_waiters[i].data, w) : i \in 1..n}
<1>1. ASSUME NEW i \in 1..n
      PROVE  LET v == putc_waiters[i].tid
                 d == putc_waiters[i].data IN
             /\ v \in Writers /\ accepted[v] \in Nat /\ Len(d) \in 0..accepted[v]
             /\ Reached(tx_buf, v, accepted[v] - Len(d))
             /\ InOrder(d)
             /\ Numbers(d, v) = ((accepted[v] - Len(d)) + 1)..accepted[v]
             /\ \A w : w # v => Numbers(d, w) = {}
  <2>1. PICK v, d, m : v = putc_waiters[i].tid /\ d = putc_waiters[i].data
                       /\ m = accepted[v] - Len(d)
    OBVIOUS
  <2>2. /\ v \in Writers /\ accepted[v] \in Nat /\ Len(d) \in 0..accepted[v]
        /\ Run(d, v, m) /\ Reached(tx_buf, v, m)
    BY <2>1 DEF OutInv, Buffers, Kept
  <2>3. m \in Nat /\ m + Len(d) = accepted[v]
    BY <2>1, <2>2
  <2>4. InOrder(d) /\ Numbers(d, v) = (m + 1)..(m + Len(d)) /\ \A w : w # v => Numbers(d, w) = {}
    BY <2>2, <2>3, RunDoes
  <2>. QED  BY <2>1, <2>2, <2>3, <2>4
<1>2. ASSUME NEW w \in Writers
      PROVE  \E l, m \in shown[w]..accepted[w] :
               /\ l <= m
               /\ Numbers(tx_fifo, w) = (shown[w] + 1)..l
               /\ Numbers(tx_buf, w) = (l + 1)..m
               /\ KeptOf(w) = (m + 1)..accepted[w]
  <2>0. accepted[w] \in Nat /\ shown[w] \in Nat
    BY DEF OutInv, Buffers
  <2>1. \E m \in Nat : m <= accepted[w] /\ Reached(tx_buf, w, m) /\ KeptOf(w) = (m + 1)..accepted[w]
    <3>1. CASE Waits(w)
      <4>1. PICK i \in 1..n : putc_waiters[i].tid = w
        BY <3>1 DEF Waits
      <4>2. PICK d, m : d = putc_waiters[i].data /\ m = accepted[w] - Len(d)
        OBVIOUS
      <4>3. /\ Len(d) \in 0..accepted[w] /\ Reached(tx_buf, w, m)
            /\ Numbers(d, w) = (m + 1)..accepted[w]
        BY <1>1, <4>1, <4>2
      <4>4. m \in Nat /\ m <= accepted[w]
        BY <2>0, <4>2, <4>3
      <4>5. ASSUME NEW j \in 1..n, j # i PROVE Numbers(putc_waiters[j].data, w) = {}
        <5>1. putc_waiters[j].tid # w
          BY <4>1, <4>5 DEF OutInv, Buffers
        <5>. QED  BY <1>1, <5>1
      <4>6. KeptOf(w) = Numbers(d, w)
        BY <4>2, <4>5
      <4>. QED  BY <4>3, <4>4, <4>6
    <3>2. CASE ~Waits(w)
      <4>1. \A j \in 1..n : Numbers(putc_waiters[j].data, w) = {}
        BY <1>1, <3>2 DEF Waits
      <4>2. KeptOf(w) = {}
        BY <4>1
      <4>3. (accepted[w] + 1)..accepted[w] = {} /\ accepted[w] <= accepted[w]
        BY <2>0
      <4>4. Reached(tx_buf, w, accepted[w])
        BY <3>2 DEF OutInv, Buffers
      <4>. QED  BY <2>0, <4>2, <4>3, <4>4
    <3>. QED  BY <3>1, <3>2
  <2>. HIDE DEF KeptOf
  <2>2. PICK m \in Nat : m <= accepted[w] /\ Reached(tx_buf, w, m)
                         /\ KeptOf(w) = (m + 1)..accepted[w]
    BY <2>1
  <2>3. PICK l \in shown[w]..m : /\ Numbers(tx_fifo, w) = (shown[w] + 1)..l
                                 /\ Numbers(tx_buf, w) = (l + 1)..m
    BY <2>2 DEF Reached
  <2>4. l \in shown[w]..accepted[w] /\ m \in shown[w]..accepted[w] /\ l <= m
    BY <2>0, <2>2, <2>3
  <2>. QED  BY <2>2, <2>3, <2>4
<1>3. /\ InOrder(tx_fifo) /\ InOrder(tx_buf)
      /\ \A i \in 1..n : InOrder(putc_waiters[i].data)
      /\ \A i, j \in 1..n : putc_waiters[i].tid = putc_waiters[j].tid => i = j
  BY <1>1 DEF OutInv, Buffers
<1>. QED  BY <1>2, <1>3 DEF OutputInOrder

\* Whatever the writers, the sizes of the buffers and the order in which the UART drains,
\* every character handed over leaves the UART once and in order (terminal_server.c:
\* TERM_MSG_PUTS, drain_putc_waiters, the flush to the UART).
THEOREM OutputStaysInOrder == Spec => []OutputInOrder
<1>1. Init => IInv /\ OutInv
  BY InitIInv, InitOutInv
<1>2. (IInv /\ OutInv) /\ [Next]_vars => (IInv /\ OutInv)'
  BY NextIInv, NextOutInv
<1>3. IInv /\ OutInv => OutputInOrder
  BY OutInvSuffices
<1>. QED  BY <1>1, <1>2, <1>3, PTL DEF Spec
===============================================================================
