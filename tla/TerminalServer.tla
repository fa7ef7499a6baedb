---------------------------- MODULE TerminalServer ----------------------------
(***************************************************************************)
(* The terminal server, its two notifiers, its callers                     *)
(* (src/user/server/terminal_server.c) and the UART's two FIFOs.           *)
(*                                                                         *)
(* The notifiers are more urgent than the server and its callers, so these *)
(* run while both notifiers are blocked; interrupts come at any time.  A   *)
(* turn of the server's loop that feeds the UART is several steps, because *)
(* the UART drains while the server fills it.                              *)
(*                                                                         *)
(* A character is named by who produced it and its number in that stream;  *)
(* Putc is Puts of one character.                                          *)
(***************************************************************************)
EXTENDS Integers, Sequences, FiniteSets, SequencesExt

CONSTANTS
  Writers,                  \* tasks that call Putc and Puts
  Readers,                  \* tasks that call Getc
  TX_BUF_SIZE, RING_BUFFER_SIZE,            \* capacities of tx_buf and rx_buffer
  MAX_PUTC_WAITERS, MAX_GETC_WAITERS,
  FIFO_SIZE,                \* depth of the UART's FIFOs
  TX_LEVEL,                 \* the TX interrupt fires when the FIFO drains to this
  TERM_MAX_STR_LEN,         \* bound: characters in one Puts
  MAX_OUTPUT,               \* bound: characters a writer writes
  MAX_INPUT                 \* bound: characters that are typed

ASSUME TerminalAssumption ==
  /\ {TX_BUF_SIZE, RING_BUFFER_SIZE, MAX_PUTC_WAITERS, MAX_GETC_WAITERS, FIFO_SIZE,
      TERM_MAX_STR_LEN, MAX_OUTPUT, MAX_INPUT, TX_LEVEL} \subseteq Nat
  /\ TX_LEVEL < FIFO_SIZE

VARIABLES
  inbox,             \* the server's send queue: [type, from, chars]
  serving,           \* the request whose flush to the UART is under way, or Idle
  tx_buf,            \* characters on their way to the UART
  putc_waiters,      \* blocked Puts callers: [tid, data], data what is left to write
  notifier_blocked,  \* tx_notifier_blocked_tid >= 0: its reply is withheld
  tx_notifier,       \* "poll", "enable", "await", "awaiting", "send", "sent"
  tx_fifo,           \* the UART's transmit FIFO
  tx_irq,            \* [raw, enabled, pending]: raw status, mask, event_pending
  rx_buffer,
  getc_waiters,      \* tids in order
  rx_notifier,       \* "poll", "await", "awaiting", "sent"
  rx_fifo,           \* the UART's receive FIFO
  rx_irq,            \* [enabled, pending]
  typed,             \* characters typed so far
  writer, reader,    \* "running" or "waiting"
  accepted,          \* per writer: characters the server has taken from it
  shown,             \* per writer: characters that have left the UART
  got                \* per reader: the last characters Getc gave it

txVars == <<tx_buf, putc_waiters, notifier_blocked, tx_notifier, tx_fifo, tx_irq,
            writer, accepted, shown>>
rxVars == <<rx_buffer, getc_waiters, rx_notifier, rx_fifo, rx_irq, typed, reader, got>>
vars == <<inbox, serving, txVars, rxVars>>

Idle == [type |-> "IDLE"]

Init ==
  /\ inbox = <<>> /\ serving = Idle
  /\ tx_buf = <<>> /\ putc_waiters = <<>> /\ notifier_blocked = FALSE
  /\ tx_notifier = "poll" /\ tx_fifo = <<>>
  /\ tx_irq = [raw |-> FALSE, enabled |-> FALSE, pending |-> 0]
  /\ rx_buffer = <<>> /\ getc_waiters = <<>>
  /\ rx_notifier = "poll" /\ rx_fifo = <<>>
  /\ rx_irq = [enabled |-> FALSE, pending |-> 0]
  /\ typed = 0
  /\ writer = [w \in Writers |-> "running"]
  /\ reader = [r \in Readers |-> "running"]
  /\ accepted = [w \in Writers |-> 0]
  /\ shown = [w \in Writers |-> 0]
  /\ got = [r \in Readers |-> 0]

-----------------------------------------------------------------------------
(* Output: the UART and the TX notifier *)

\* The UART sends a character; the raw TX interrupt rises when the FIFO drains to
\* its trigger level.
Transmit ==
  /\ tx_fifo # <<>>
  /\ tx_fifo' = Tail(tx_fifo)
  /\ shown' = [shown EXCEPT ![Head(tx_fifo).from] = @ + 1]
  /\ tx_irq' = IF Len(tx_fifo) = TX_LEVEL + 1 THEN [tx_irq EXCEPT !.raw = TRUE] ELSE tx_irq
  /\ UNCHANGED <<inbox, serving, tx_buf, putc_waiters, notifier_blocked, tx_notifier,
                 writer, accepted, rxVars>>

\* irq_dispatch for UART_INT_TX: mask, clear, wake the notifier or count the event.
TxInterrupt ==
  /\ tx_irq.raw /\ tx_irq.enabled
  /\ tx_irq' = [raw |-> FALSE, enabled |-> FALSE,
                pending |-> tx_irq.pending + (IF tx_notifier = "awaiting" THEN 0 ELSE 1)]
  /\ tx_notifier' = IF tx_notifier = "awaiting" THEN "send" ELSE tx_notifier
  /\ UNCHANGED <<inbox, serving, tx_buf, putc_waiters, notifier_blocked, tx_fifo, writer,
                 accepted, shown, rxVars>>

uart_tx_ready == Len(tx_fifo) < FIFO_SIZE

\* tx_notifier_task, one step for each access to the UART and each system call.
TxPoll ==
  /\ tx_notifier = "poll"
  /\ tx_notifier' = IF uart_tx_ready THEN "send" ELSE "enable"
  /\ UNCHANGED <<inbox, serving, tx_buf, putc_waiters, notifier_blocked, tx_fifo, tx_irq,
                 writer, accepted, shown, rxVars>>

\* (mutant) the notifier waits for an interrupt it has not enabled
TxEnableForgotten ==
  /\ tx_notifier = "enable"
  /\ tx_notifier' = "await"
  /\ UNCHANGED <<inbox, serving, tx_buf, putc_waiters, notifier_blocked, tx_fifo, tx_irq,
                 writer, accepted, shown, rxVars>>

TxEnable ==
  /\ tx_notifier = "enable"
  /\ tx_irq' = [tx_irq EXCEPT !.enabled = TRUE]
  /\ tx_notifier' = "await"
  /\ UNCHANGED <<inbox, serving, tx_buf, putc_waiters, notifier_blocked, tx_fifo, writer,
                 accepted, shown, rxVars>>

TxAwait ==
  /\ tx_notifier = "await"
  /\ IF tx_irq.pending > 0
     THEN tx_notifier' = "send" /\ tx_irq' = [tx_irq EXCEPT !.pending = @ - 1]
     ELSE tx_notifier' = "awaiting" /\ UNCHANGED tx_irq
  /\ UNCHANGED <<inbox, serving, tx_buf, putc_waiters, notifier_blocked, tx_fifo, writer,
                 accepted, shown, rxVars>>

TxSend ==
  /\ tx_notifier = "send"
  /\ tx_notifier' = "sent"
  /\ inbox' = Append(inbox, [type |-> "TX_NOTIFY"])
  /\ UNCHANGED <<serving, tx_buf, putc_waiters, notifier_blocked, tx_fifo, tx_irq, writer,
                 accepted, shown, rxVars>>

-----------------------------------------------------------------------------
(* Output: the server *)

\* TERM_NOTIFIER_PRIORITY is above the priority of the server and of its callers.
NotifiersBlocked == {tx_notifier, rx_notifier} \subseteq {"awaiting", "sent"}

\* Puts of n characters, or Putc (n = 1).
CallPuts(w, n) ==
  /\ NotifiersBlocked
  /\ writer[w] = "running"
  /\ accepted[w] + n <= MAX_OUTPUT
  /\ writer' = [writer EXCEPT ![w] = "waiting"]
  /\ inbox' = Append(inbox, [type |-> "PUTS", from |-> w, len |-> n])
  /\ UNCHANGED <<serving, tx_buf, putc_waiters, notifier_blocked, tx_notifier, tx_fifo,
                 tx_irq, accepted, shown, rxVars>>

Chars(w, first, last) == [i \in 1..(last - first + 1) |-> [from |-> w, no |-> first + i - 1]]
Smaller(a, b) == IF a < b THEN a ELSE b

\* how many of n characters fit behind those in buf
Fit(buf, n) == Smaller(n, TX_BUF_SIZE - Len(buf))

\* (mutant) the whole string waits, with what has been written of it
LeftToWriteAll(req, written) ==
  Chars(req.from, accepted[req.from] + 1, accepted[req.from] + req.len)

\* What a blocked caller keeps: the string without the characters written.
LeftToWrite(req, written) ==
  Chars(req.from, accepted[req.from] + written + 1, accepted[req.from] + req.len)

\* TERM_MSG_PUTS and TERM_MSG_PUTC up to the flush: what fits goes to tx_buf; the
\* caller is answered, or waits with the rest, or is refused when the waiter array
\* is full.
StartPuts ==
  LET req == Head(inbox)
      w == req.from
      written == Fit(tx_buf, req.len) IN
  /\ serving = Idle /\ inbox # <<>> /\ req.type = "PUTS"
  /\ serving' = req
  /\ tx_buf' = tx_buf \o Chars(w, accepted[w] + 1, accepted[w] + written)
  /\ \/ /\ written = req.len
        /\ writer' = [writer EXCEPT ![w] = "running"]
        /\ accepted' = [accepted EXCEPT ![w] = @ + written]
        /\ UNCHANGED putc_waiters
     \/ /\ written < req.len /\ Len(putc_waiters) < MAX_PUTC_WAITERS
        /\ putc_waiters' = Append(putc_waiters, [tid |-> w, data |-> LeftToWrite(req, written)])
        /\ accepted' = [accepted EXCEPT ![w] = @ + req.len]
        /\ UNCHANGED writer
     \/ /\ written < req.len /\ Len(putc_waiters) >= MAX_PUTC_WAITERS
        /\ writer' = [writer EXCEPT ![w] = "running"]
        /\ accepted' = [accepted EXCEPT ![w] = @ + written]
        /\ UNCHANGED putc_waiters
  /\ inbox' = Tail(inbox)
  /\ UNCHANGED <<notifier_blocked, tx_notifier, tx_fifo, tx_irq, shown, rxVars>>

StartTxNotify ==
  /\ serving = Idle /\ inbox # <<>> /\ Head(inbox).type = "TX_NOTIFY"
  /\ serving' = Head(inbox)
  /\ inbox' = Tail(inbox)
  /\ UNCHANGED <<txVars, rxVars>>

\* One round of the loop that moves tx_buf to the UART.
FlushOne ==
  /\ serving # Idle /\ tx_buf # <<>> /\ uart_tx_ready
  /\ tx_buf' = Tail(tx_buf)
  /\ tx_fifo' = Append(tx_fifo, Head(tx_buf))
  /\ tx_irq' = [tx_irq EXCEPT !.raw = @ /\ Len(tx_fifo') <= TX_LEVEL]
  /\ UNCHANGED <<inbox, serving, putc_waiters, notifier_blocked, tx_notifier, writer,
                 accepted, shown, rxVars>>

FlushDone == serving # Idle /\ (tx_buf = <<>> \/ ~uart_tx_ready)

\* drain_putc_waiters: from each waiter in turn, as much as the buffer takes; those that
\* are drained are answered and leave the array.
DrainPutcWaiters ==
  LET n == Len(putc_waiters)
      data(i) == putc_waiters[i].data
      after[i \in 0..n] == IF i = 0 THEN tx_buf
                           ELSE after[i - 1] \o SubSeq(data(i), 1, Fit(after[i - 1], Len(data(i))))
      Moved(i) == Fit(after[i - 1], Len(data(i)))
      drained == CHOOSE d \in 0..n : /\ \A i \in 1..d : Moved(i) = Len(data(i))
                                     /\ d < n => Moved(d + 1) < Len(data(d + 1)) IN
  /\ tx_buf' = after[n]
  /\ putc_waiters' = [i \in 1..(n - drained) |->
                        [tid |-> putc_waiters[drained + i].tid,
                         data |-> SubSeq(data(drained + i), Moved(drained + i) + 1,
                                         Len(data(drained + i)))]]
  /\ writer' = [w \in Writers |-> IF \E i \in 1..drained : putc_waiters[i].tid = w
                                  THEN "running" ELSE writer[w]]

\* The end of TERM_MSG_TX_NOTIFY: the notifier's reply is withheld when there is
\* nothing left to write.
FinishTxNotify ==
  /\ FlushDone /\ serving.type = "TX_NOTIFY"
  /\ DrainPutcWaiters
  /\ IF tx_buf' = <<>> /\ putc_waiters' = <<>>
     THEN notifier_blocked' = TRUE /\ UNCHANGED tx_notifier
     ELSE notifier_blocked' = FALSE /\ tx_notifier' = "poll"
  /\ serving' = Idle
  /\ UNCHANGED <<inbox, tx_fifo, tx_irq, accepted, shown, rxVars>>

\* (mutant) the blocked notifier is never woken
WakeForNothing == FALSE

\* There is something for the notifier to do.
OutputLeft == tx_buf # <<>> \/ putc_waiters # <<>>

\* The end of TERM_MSG_PUTS: a withheld reply to the notifier is sent.
FinishPuts ==
  /\ FlushDone /\ serving.type = "PUTS"
  /\ IF notifier_blocked /\ OutputLeft
     THEN notifier_blocked' = FALSE /\ tx_notifier' = "poll"
     ELSE UNCHANGED <<notifier_blocked, tx_notifier>>
  /\ serving' = Idle
  /\ UNCHANGED <<inbox, tx_buf, putc_waiters, tx_fifo, tx_irq, writer, accepted, shown,
                 rxVars>>

-----------------------------------------------------------------------------
(* Input *)

\* A character arrives; the UART drops it when its FIFO is full.
Type ==
  /\ typed < MAX_INPUT
  /\ typed' = typed + 1
  /\ rx_fifo' = IF Len(rx_fifo) < FIFO_SIZE THEN Append(rx_fifo, typed + 1) ELSE rx_fifo
  /\ UNCHANGED <<inbox, serving, txVars, rx_buffer, getc_waiters, rx_notifier, rx_irq,
                 reader, got>>

\* irq_dispatch for UART_INT_RX and UART_INT_RT: the receive timeout rises some time
\* after a character has come to a FIFO nobody reads.
RxInterrupt ==
  /\ rx_irq.enabled /\ rx_fifo # <<>>
  /\ rx_irq' = [enabled |-> FALSE,
                pending |-> rx_irq.pending + (IF rx_notifier = "awaiting" THEN 0 ELSE 1)]
  /\ rx_notifier' = IF rx_notifier = "awaiting" THEN "poll" ELSE rx_notifier
  /\ UNCHANGED <<inbox, serving, txVars, rx_buffer, getc_waiters, rx_fifo, typed, reader, got>>

\* rx_notifier_task: send the next character, or enable the interrupt and wait.
RxPoll ==
  /\ rx_notifier = "poll"
  /\ IF rx_fifo # <<>>
     THEN /\ rx_fifo' = Tail(rx_fifo)
          /\ inbox' = Append(inbox, [type |-> "RX_NOTIFY", ch |-> Head(rx_fifo)])
          /\ rx_notifier' = "sent"
          /\ UNCHANGED rx_irq
     ELSE /\ rx_irq' = [rx_irq EXCEPT !.enabled = TRUE]
          /\ rx_notifier' = "await"
          /\ UNCHANGED <<inbox, rx_fifo>>
  /\ UNCHANGED <<serving, txVars, rx_buffer, getc_waiters, typed, reader, got>>

\* (mutant) an interrupt that came before the call does not count
RxAwaitIgnoresPending ==
  /\ rx_notifier = "await"
  /\ rx_notifier' = "awaiting"
  /\ UNCHANGED <<inbox, serving, txVars, rx_irq, rx_buffer, getc_waiters, rx_fifo, typed, reader,
                 got>>

\* AwaitEvent(EVENT_UART_RX)
RxAwait ==
  /\ rx_notifier = "await"
  /\ IF rx_irq.pending > 0
     THEN rx_notifier' = "poll" /\ rx_irq' = [rx_irq EXCEPT !.pending = @ - 1]
     ELSE rx_notifier' = "awaiting" /\ UNCHANGED rx_irq
  /\ UNCHANGED <<inbox, serving, txVars, rx_buffer, getc_waiters, rx_fifo, typed, reader, got>>

\* (mutant) a character is buffered although a reader waits for it
ServeRxNotifyBuffersFirst ==
  /\ serving = Idle /\ inbox # <<>> /\ Head(inbox).type = "RX_NOTIFY"
  /\ rx_buffer' = IF Len(rx_buffer) < RING_BUFFER_SIZE
                  THEN Append(rx_buffer, Head(inbox).ch) ELSE rx_buffer
  /\ rx_notifier' = "poll"
  /\ inbox' = Tail(inbox)
  /\ UNCHANGED <<serving, txVars, getc_waiters, rx_fifo, rx_irq, typed, reader, got>>

\* TERM_MSG_RX_NOTIFY: the first reader gets the character, or it is buffered, or it
\* is dropped because the buffer is full.
ServeRxNotify ==
  /\ serving = Idle /\ inbox # <<>> /\ Head(inbox).type = "RX_NOTIFY"
  /\ IF getc_waiters # <<>>
     THEN /\ reader' = [reader EXCEPT ![Head(getc_waiters)] = "running"]
          /\ got' = [got EXCEPT ![Head(getc_waiters)] = Head(inbox).ch]
          /\ getc_waiters' = Tail(getc_waiters)
          /\ UNCHANGED rx_buffer
     ELSE /\ rx_buffer' = IF Len(rx_buffer) < RING_BUFFER_SIZE
                          THEN Append(rx_buffer, Head(inbox).ch) ELSE rx_buffer
          /\ UNCHANGED <<getc_waiters, reader, got>>
  /\ rx_notifier' = "poll"
  /\ inbox' = Tail(inbox)
  /\ UNCHANGED <<serving, txVars, rx_fifo, rx_irq, typed>>

CallGetc(r) ==
  /\ NotifiersBlocked
  /\ reader[r] = "running"
  /\ reader' = [reader EXCEPT ![r] = "waiting"]
  /\ inbox' = Append(inbox, [type |-> "GETC", from |-> r])
  /\ UNCHANGED <<serving, txVars, rx_buffer, getc_waiters, rx_notifier, rx_fifo, rx_irq,
                 typed, got>>

\* TERM_MSG_GETC
ServeGetc ==
  LET r == Head(inbox).from IN
  /\ serving = Idle /\ inbox # <<>> /\ Head(inbox).type = "GETC"
  /\ \/ /\ rx_buffer # <<>>
        /\ reader' = [reader EXCEPT ![r] = "running"]
        /\ got' = [got EXCEPT ![r] = Head(rx_buffer)]
        /\ rx_buffer' = Tail(rx_buffer)
        /\ UNCHANGED getc_waiters
     \/ /\ rx_buffer = <<>> /\ Len(getc_waiters) < MAX_GETC_WAITERS
        /\ getc_waiters' = Append(getc_waiters, r)
        /\ UNCHANGED <<rx_buffer, reader, got>>
     \/ /\ rx_buffer = <<>> /\ Len(getc_waiters) >= MAX_GETC_WAITERS
        /\ reader' = [reader EXCEPT ![r] = "running"]
        /\ UNCHANGED <<rx_buffer, getc_waiters, got>>
  /\ inbox' = Tail(inbox)
  /\ UNCHANGED <<serving, txVars, rx_notifier, rx_fifo, rx_irq, typed>>

-----------------------------------------------------------------------------
TxNotifierStep == TxPoll \/ TxEnable \/ TxAwait \/ TxSend
RxNotifierStep == RxPoll \/ RxAwait
ServerStep ==
  /\ NotifiersBlocked
  /\ \/ StartPuts \/ StartTxNotify \/ FlushOne \/ FinishTxNotify \/ FinishPuts
     \/ ServeRxNotify \/ ServeGetc

Next ==
  \/ TxNotifierStep \/ RxNotifierStep \/ ServerStep
  \/ Transmit \/ TxInterrupt \/ RxInterrupt \/ Type
  \/ \E w \in Writers, n \in 1..TERM_MAX_STR_LEN : CallPuts(w, n)
  \/ \E r \in Readers : CallGetc(r)

Spec == Init /\ [][Next]_vars

\* The two notifiers and the server are the most urgent tasks after the name server;
\* the UART transmits what it holds and raises the interrupts that are due.
FairSpec ==
  Spec /\ WF_vars(TxNotifierStep) /\ WF_vars(RxNotifierStep) /\ WF_vars(ServerStep)
       /\ WF_vars(Transmit) /\ WF_vars(TxInterrupt) /\ WF_vars(RxInterrupt)

-----------------------------------------------------------------------------
(* Properties *)

\* the numbers of w's characters in s
Numbers(s, w) == {s[i].no : i \in {j \in DOMAIN s : s[j].from = w}}
InOrder(s) == \A i, j \in DOMAIN s : i < j /\ s[i].from = s[j].from => s[i].no < s[j].no

\* Every character a writer handed over leaves the UART once and in order: what was accepted
\* and not yet shown is in the UART, then in tx_buf, then with its blocked caller, each part
\* in order, without a gap and nothing twice.
OutputInOrder ==
  LET n == Len(putc_waiters)
      Kept(w) == UNION {Numbers(putc_waiters[i].data, w) : i \in 1..n} IN
  /\ InOrder(tx_fifo) /\ InOrder(tx_buf) /\ \A i \in 1..n : InOrder(putc_waiters[i].data)
  /\ \A i, j \in 1..n : putc_waiters[i].tid = putc_waiters[j].tid => i = j
  /\ \A w \in Writers : \E l, m \in shown[w]..accepted[w] :
       /\ l <= m
       /\ Numbers(tx_fifo, w) = (shown[w] + 1)..l
       /\ Numbers(tx_buf, w) = (l + 1)..m
       /\ Kept(w) = (m + 1)..accepted[w]

\* The withheld reply is never forgotten and never sent twice: a notifier that the server
\* keeps blocked is in its Send, whose request the server has taken and finished, and
\* between two requests there is nothing to send, neither in tx_buf nor with a caller
\* (tx_notifier_blocked_tid).
NotifierNotStranded ==
  notifier_blocked =>
    /\ tx_notifier = "sent"
    /\ \A i \in 1..Len(inbox) : inbox[i].type # "TX_NOTIFY"
    /\ serving.type # "TX_NOTIFY"
    /\ serving = Idle => tx_buf = <<>> /\ putc_waiters = <<>>

\* Readers are served first come first served with what was typed: a reader waits
\* only while the buffer is empty, and every buffered character is newer than those
\* the readers have got and older than those still on their way.
OnTheirWay == {i \in 1..Len(inbox) : inbox[i].type = "RX_NOTIFY"}
Increasing(s) == \A i, j \in DOMAIN s : i < j => s[i] < s[j]
Before(S, T) == \A x \in S, y \in T : x < y
InputInOrder ==
  LET sent == {inbox[i].ch : i \in OnTheirWay} IN
  /\ getc_waiters # <<>> => rx_buffer = <<>>
  /\ Increasing(rx_buffer) /\ Increasing(rx_fifo)
  /\ \A i, j \in OnTheirWay : i < j => inbox[i].ch < inbox[j].ch
  /\ Before(ToSet(rx_buffer), sent \cup ToSet(rx_fifo)) /\ Before(sent, ToSet(rx_fifo))
  /\ \A r \in Readers : Before({got[r]}, ToSet(rx_buffer) \cup sent \cup ToSet(rx_fifo))

\* Every Puts returns and what it handed over leaves the UART, whatever the order in
\* which the UART drains, its interrupt comes and the notifier's reply is withheld.
EveryPutsShown == \A w \in Writers :
  writer[w] = "waiting" ~> (writer[w] = "running" /\ shown[w] = accepted[w])

\* A character that is waiting in the UART reaches a reader that keeps asking.
InputRead == \A r \in Readers :
  (getc_waiters # <<>> /\ Head(getc_waiters) = r /\ rx_fifo # <<>>) ~> reader[r] = "running"
=============================================================================
