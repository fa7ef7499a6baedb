-------------------------- MODULE ClockServerProofs --------------------------
(***************************************************************************)
(* The clock server, for any number of clients, any capacity of the queue  *)
(* and any number of interrupts: no tick is lost on the way from the timer, *)
(* the sift loops of the heap keep the delay queue in order, nobody sleeps *)
(* past his tick and nobody is woken before it.                            *)
(***************************************************************************)
EXTENDS ClockServer, QueueLemmas

Messages ==
  [from : Clients \cup {Notifier}, type : {"NOTIFY", "TIME", "DELAY", "DELAY_UNTIL"},
   ticks : Nat]

Types ==
  /\ timer \in Nat /\ event_pending \in Nat /\ current_tick \in Nat
  /\ notifier \in {"running", "awaiting", "notified", "sent"}
  /\ inbox \in Seq(Messages)

\* The server has at most one message of the notifier, and one only while the notifier
\* is blocked in its Send.
OneNotification ==
  /\ notifier # "sent" => \A i \in 1..Len(inbox) : inbox[i].from # Notifier
  /\ \A i, j \in 1..Len(inbox) :
       inbox[i].from = Notifier /\ inbox[j].from = Notifier => i = j

IInv == Types /\ OneNotification /\ TicksConserved

\* At the start nothing has been sent.
LEMMA InitIInv == Init => IInv
  BY DEF Init, IInv, Types, OneNotification, TicksConserved, Messages

\* A message of a client leaves the notifier's alone.
LEMMA AppendClient ==
  ASSUME IInv, NEW m \in Messages, m.from # Notifier,
         inbox' = Append(inbox, m), UNCHANGED <<timer, event_pending, current_tick, notifier>>
  PROVE  IInv'
<1>1. Types'
  BY DEF IInv, Types
<1>2. \A i \in 1..Len(inbox') : inbox'[i].from = Notifier =>
         i \in 1..Len(inbox) /\ inbox'[i] = inbox[i]
  BY DEF IInv, Types
<1>3. OneNotification'
  BY <1>2 DEF IInv, OneNotification
<1>. QED  BY <1>1, <1>3 DEF IInv, TicksConserved

\* Every step keeps the three parts.
LEMMA NextIInv == IInv /\ [Next]_vars => IInv'
<1>. SUFFICES ASSUME IInv, [Next]_vars PROVE IInv'
  OBVIOUS
<1>. USE DEF IInv
<1>1. CASE TimerInterrupt
  <2>1. Types'  BY <1>1 DEF TimerInterrupt, Types
  <2>2. OneNotification'  BY <1>1 DEF TimerInterrupt, OneNotification
  <2>3. TicksConserved'  BY <1>1 DEF TimerInterrupt, TicksConserved, Types
  <2>. QED  BY <2>1, <2>2, <2>3
<1>2. CASE NotifierAwait
  <2>1. Types'  BY <1>2 DEF NotifierAwait, Types
  <2>2. OneNotification'  BY <1>2 DEF NotifierAwait, OneNotification
  <2>3. TicksConserved'  BY <1>2 DEF NotifierAwait, TicksConserved, Types
  <2>. QED  BY <2>1, <2>2, <2>3
<1>3. CASE NotifierSend
  <2>. DEFINE m == [from |-> Notifier, type |-> "NOTIFY", ticks |-> 0]
  <2>0. m \in Messages /\ inbox' = Append(inbox, m) /\ inbox \in Seq(Messages)
    BY <1>3 DEF NotifierSend, Messages, Types
  <2>1. Types'
    <3>1. inbox' \in Seq(Messages)  BY <2>0
    <3>. QED  BY <1>3, <3>1 DEF NotifierSend, Types
  <2>2. \A i \in 1..Len(inbox') : inbox'[i].from = Notifier => i = Len(inbox) + 1
    <3>1. \A i \in 1..Len(inbox) : inbox'[i] = inbox[i] /\ inbox[i].from # Notifier
      BY <1>3, <2>0 DEF NotifierSend, OneNotification
    <3>2. Len(inbox') = Len(inbox) + 1 /\ Len(inbox) \in Nat  BY <2>0
    <3>. QED  BY <3>1, <3>2
  <2>3. OneNotification'
    BY <1>3, <2>2 DEF NotifierSend, OneNotification
  <2>4. TicksConserved'  BY <1>3 DEF NotifierSend, TicksConserved, Types
  <2>. QED  BY <2>1, <2>3, <2>4
<1>4. CASE ServerStep
  <2>. USE <1>4 DEF ServerStep
  <2>0. inbox \in Seq(Messages) /\ inbox # <<>> /\ inbox' = Tail(inbox)
    BY DEF Types
  <2>1. inbox' \in Seq(Messages) /\ Len(inbox') = Len(inbox) - 1 /\ Len(inbox) \in Nat \ {0}
    BY <2>0
  <2>2. \A i \in 1..Len(inbox') : inbox'[i] = inbox[i + 1]
    BY <2>0
  <2>3. Head(inbox) = inbox[1]
    BY <2>0
  <2>4. CASE Head(inbox).from = Notifier
    <3>1. notifier = "sent"
      BY <2>1, <2>3, <2>4 DEF OneNotification
    <3>2. \A i \in 1..Len(inbox') : inbox'[i].from # Notifier
      BY <2>1, <2>2, <2>3, <2>4 DEF OneNotification
    <3>3. /\ current_tick' = current_tick + 1 /\ notifier' = "running"
          /\ UNCHANGED <<timer, event_pending>>
      BY <2>4 DEF Notify
    <3>4. Types'  BY <2>1, <3>3 DEF Types
    <3>5. TicksConserved'  BY <3>1, <3>3 DEF Types, TicksConserved
    <3>6. OneNotification'  BY <3>2 DEF OneNotification
    <3>. QED  BY <3>4, <3>5, <3>6
  <2>5. CASE Head(inbox).from # Notifier
    <3>1. UNCHANGED <<timer, event_pending, current_tick, notifier>>
      BY <2>5 DEF Serve
    <3>2. OneNotification'
      BY <2>1, <2>2, <3>1 DEF OneNotification
    <3>. QED  BY <2>1, <3>1, <3>2 DEF Types, TicksConserved
  <2>. QED  BY <2>4, <2>5
<1>5. ASSUME NEW c \in Clients, NEW req \in Requests, Request(c, req) PROVE IInv'
  <2>. DEFINE m == [from |-> c, type |-> req.type, ticks |-> req.ticks]
  <2>0. req.type \in {"NOTIFY", "TIME", "DELAY", "DELAY_UNTIL"} /\ req.ticks \in Nat
    <3>1. CASE req \in [type : {"TIME"}, ticks : {0}]
      BY <3>1
    <3>2. CASE req \in [type : {"DELAY", "DELAY_UNTIL"}, ticks : Ticks]
      BY <3>2, ClockAssumption
    <3>. QED  BY <3>1, <3>2 DEF Requests
  <2>1. m \in Messages /\ m.from # Notifier
    BY <2>0, ClockAssumption DEF Messages, Notifier
  <2>2. inbox' = Append(inbox, m) /\ UNCHANGED <<timer, event_pending, current_tick, notifier>>
    BY <1>5 DEF Request
  <2>. QED  BY <2>1, <2>2, AppendClient
<1>6. CASE UNCHANGED vars
  BY <1>6 DEF vars, Types, OneNotification, TicksConserved
<1>. QED  BY <1>1, <1>2, <1>3, <1>4, <1>5, <1>6 DEF Next

\* TicksConserved: each interrupt of the timer is counted by the server, pending in the
\* kernel or in the notifier's hands, whatever the server is busy with
\* (clock_notifier_task, AwaitEvent).
THEOREM NoTickLost == Spec => []TicksConserved
<1>1. Spec => []IInv
  BY InitIInv, NextIInv, PTL DEF Spec
<1>2. IInv => TicksConserved
  BY DEF IInv
<1>. QED  BY <1>1, <1>2, PTL

-----------------------------------------------------------------------------
(* The heap *)

LEMMA ParentDoes ==
  ASSUME NEW j \in Nat, j >= 2
  PROVE  /\ Parent(j) \in Nat /\ 1 <= Parent(j) /\ Parent(j) < j
         /\ \A i \in Nat : Parent(j) = i => j = 2 * i \/ j = 2 * i + 1
BY DEF Parent

LEMMA ChildDoes ==
  ASSUME NEW i \in Nat, i >= 1
  PROVE  Parent(2 * i) = i /\ Parent(2 * i + 1) = i
BY DEF Parent

Entries == [key : Nat, item : Clients]
Distinct(h) == \A i, j \in 1..Len(h) : h[i].item = h[j].item => i = j

LEMMA HeapsAre == Heaps = Seq(Entries)
BY DEF Heaps, Entries

\* g holds what h holds.
Holds(g, h) ==
  /\ g \in Heaps /\ Len(g) = Len(h) /\ Range(g) = Range(h)
  /\ Distinct(h) => Distinct(g)

LEMMA SwapDoes ==
  ASSUME NEW h \in Heaps, NEW i \in 1..Len(h), NEW j \in 1..Len(h), i # j
  PROVE  LET g == Swap(h, i, j) IN
         /\ Holds(g, h)
         /\ g[i] = h[j] /\ g[j] = h[i]
         /\ \A k \in 1..Len(h) : k # i /\ k # j => g[k] = h[k]
<1>. DEFINE g == Swap(h, i, j)
            n == Len(h)
<1>1. /\ n \in Nat /\ h \in [1..n -> Entries] /\ h \in Seq(Entries)
  BY HeapsAre, LenProperties
<1>2. /\ g \in [1..n -> Entries]
      /\ g[i] = h[j] /\ g[j] = h[i] /\ \A k \in 1..n : k # i /\ k # j => g[k] = h[k]
  BY <1>1 DEF Swap
<1>3. g \in Heaps /\ Len(g) = n
  <2>. HIDE DEF g, n
  <2>. QED  BY <1>1, <1>2, HeapsAre
<1>. HIDE DEF g, n
<1>a. i \in 1..n /\ j \in 1..n
  BY DEF n
<1>4. Range(g) = Range(h)
  <2>3. DOMAIN g = 1..n /\ DOMAIN h = 1..n
    BY <1>1, <1>2
  <2>1. ASSUME NEW k \in 1..n PROVE g[k] \in Range(h)
    <3>1. CASE k = i
      BY <3>1, <1>2, <1>a, <2>3 DEF Range
    <3>2. CASE k = j
      BY <3>2, <1>2, <1>a, <2>3 DEF Range
    <3>3. CASE k # i /\ k # j
      BY <3>3, <1>2, <2>3 DEF Range
    <3>. QED  BY <3>1, <3>2, <3>3
  <2>2. ASSUME NEW k \in 1..n PROVE h[k] \in Range(g)
    <3>1. CASE k = i
      BY <3>1, <1>2, <1>a, <2>3 DEF Range
    <3>2. CASE k = j
      BY <3>2, <1>2, <1>a, <2>3 DEF Range
    <3>3. CASE k # i /\ k # j
      BY <3>3, <1>2, <2>3 DEF Range
    <3>. QED  BY <3>1, <3>2, <3>3
  <2>4. Range(g) \subseteq Range(h)
    BY <2>1, <2>3 DEF Range
  <2>5. Range(h) \subseteq Range(g)
    BY <2>2, <2>3 DEF Range
  <2>. QED  BY <2>4, <2>5
<1>5. ASSUME Distinct(h) PROVE Distinct(g)
  <2>1. \A k, l \in 1..n : h[k].item = h[l].item => k = l
    BY <1>5 DEF Distinct, n
  <2>2. \A k, l \in 1..n : g[k].item = g[l].item => k = l
    BY <1>2, <1>a, <2>1
  <2>. QED  BY <1>3, <2>2 DEF Distinct
<1>. QED  BY <1>2, <1>3, <1>4, <1>5 DEF Holds, g, n

\* In order but between the entry at a and its parent.
UpInv(h, a) ==
  /\ a \in 1..Len(h)
  /\ \A j \in 2..Len(h) : j # a => Key(h, Parent(j)) <= Key(h, j)
  /\ \A j \in 2..Len(h) : Parent(j) = a /\ a >= 2 => Key(h, Parent(a)) <= Key(h, j)

\* In order but between the entry at a and its children.
DownInv(h, a) ==
  /\ a \in 1..Len(h)
  /\ \A j \in 2..Len(h) : Parent(j) # a => Key(h, Parent(j)) <= Key(h, j)
  /\ \A j \in 2..Len(h) : Parent(j) = a /\ a >= 2 => Key(h, Parent(a)) <= Key(h, j)

LEMMA KeysAreNumbers ==
  ASSUME NEW h \in Heaps
  PROVE  Len(h) \in Nat /\ \A i \in 1..Len(h) : Key(h, i) \in Nat /\ h[i].item \in Clients
<1>1. h \in Seq(Entries)
  BY HeapsAre
<1>2. Len(h) \in Nat /\ \A i \in 1..Len(h) : h[i] \in Entries
  BY <1>1, LenProperties
<1>. QED  BY <1>2 DEF Entries, Key

LEMMA UpDoes ==
  ASSUME NEW h \in Heaps, NEW a, UpInv(h, a)
  PROVE  LET s == [heap |-> h, at |-> a]
             p == Parent(a) IN
         IF IsHeap(h) THEN Up[s] = s
         ELSE /\ Up[s] = [heap |-> Swap(h, a, p), at |-> p]
              /\ UpInv(Swap(h, a, p), p) /\ p < a /\ Holds(Swap(h, a, p), h)
<1>. DEFINE s == [heap |-> h, at |-> a]
<1>1. PICK n, p : n = Len(h) /\ p = Parent(a)
  OBVIOUS
<1>2. n \in Nat /\ a \in 1..n /\ \A i \in 1..n : Key(h, i) \in Nat
  BY <1>1, KeysAreNumbers DEF UpInv
<1>3. s \in Loops
  BY <1>2 DEF Loops
<1>4. Up[s] = IF a = 1 \/ Key(h, p) <= Key(h, a) THEN s
              ELSE [heap |-> Swap(h, a, p), at |-> p]
  BY <1>1, <1>3 DEF Up
<1>. HIDE DEF s
<1>5. CASE IsHeap(h)
  <2>1. a = 1 \/ a \in 2..n
    BY <1>2
  <2>2. a = 1 \/ Key(h, p) <= Key(h, a)
    BY <1>1, <1>5, <2>1 DEF IsHeap
  <2>. QED  BY <1>4, <1>5, <2>2 DEF s
<1>6. CASE ~IsHeap(h)
  <2>1. a # 1 /\ ~(Key(h, p) <= Key(h, a))
    BY <1>1, <1>2, <1>6 DEF IsHeap, UpInv
  <2>2. a \in Nat /\ a >= 2 /\ a \in 2..n
    BY <1>2, <2>1
  <2>3. p \in 1..n /\ p < a /\ p # a
    BY <1>1, <1>2, <2>2, ParentDoes
  <2>4. PICK g : g = Swap(h, a, p)
    OBVIOUS
  <2>5. /\ Holds(g, h) /\ Len(g) = n
        /\ Key(g, a) = Key(h, p) /\ Key(g, p) = Key(h, a)
        /\ \A k \in 1..n : k # a /\ k # p => Key(g, k) = Key(h, k)
    <3>1. LET e == Swap(h, a, p) IN
          /\ Holds(e, h) /\ e[a] = h[p] /\ e[p] = h[a]
          /\ \A k \in 1..Len(h) : k # a /\ k # p => e[k] = h[k]
      BY <1>1, <1>2, <2>3, SwapDoes
    <3>. QED  BY <1>1, <2>4, <3>1 DEF Holds, Key
  <2>6. Key(h, a) < Key(h, p)
    BY <1>2, <2>1, <2>3
  <2>7. \A j \in 2..n : Parent(j) \in 1..n /\ j \in 1..n /\ Parent(j) # j
    BY <1>2, ParentDoes
  <2>8. \A j \in 2..n : j # a => Key(h, Parent(j)) <= Key(h, j)
    BY <1>1 DEF UpInv
  <2>9. \A j \in 2..n : Parent(j) = a => p \in 1..n /\ Key(h, p) <= Key(h, j)
    BY <1>1, <2>2, <2>3 DEF UpInv
  <2>10. ASSUME NEW j \in 2..n, j # p PROVE Key(g, Parent(j)) <= Key(g, j)
    <3>1. CASE j = a
      BY <1>1, <1>2, <2>5, <2>6, <3>1, <2>3
    <3>2. CASE j # a /\ Parent(j) = a
      BY <2>5, <2>7, <2>9, <2>10, <3>2
    <3>3. CASE j # a /\ Parent(j) = p
      <4>1. Key(h, p) <= Key(h, j) /\ Key(g, j) = Key(h, j)
        BY <2>5, <2>7, <2>8, <2>10, <3>3
      <4>. QED  BY <1>2, <2>3, <2>5, <2>6, <2>7, <3>3, <4>1
    <3>4. CASE j # a /\ Parent(j) # a /\ Parent(j) # p
      BY <2>5, <2>7, <2>8, <2>10, <3>4
    <3>. QED  BY <3>1, <3>2, <3>3, <3>4
  <2>11. ASSUME NEW j \in 2..n, Parent(j) = p, p >= 2 PROVE Key(g, Parent(p)) <= Key(g, j)
    <3>1. p \in 2..n /\ Parent(p) \in 1..n /\ Parent(p) < p
      BY <1>2, <2>3, <2>11, ParentDoes
    <3>2. Key(g, Parent(p)) = Key(h, Parent(p)) /\ Key(h, Parent(p)) <= Key(h, p)
      BY <2>3, <2>5, <2>8, <3>1
    <3>3. CASE j = a
      BY <2>5, <3>2, <3>3
    <3>4. CASE j # a
      <4>1. Key(h, p) <= Key(h, j) /\ Key(g, j) = Key(h, j) /\ j \in 1..n
        BY <2>5, <2>7, <2>8, <2>11, <3>4
      <4>. QED  BY <1>2, <2>3, <3>1, <3>2, <4>1
    <3>. QED  BY <3>3, <3>4
  <2>12. UpInv(g, p)
    BY <2>3, <2>5, <2>10, <2>11 DEF UpInv
  <2>13. Up[s] = [heap |-> Swap(h, a, p), at |-> p]
    BY <1>4, <2>1
  <2>. QED  BY <1>1, <1>6, <2>3, <2>4, <2>5, <2>12, <2>13 DEF s
<1>. QED  BY <1>5, <1>6 DEF s


\* heap_fixup restores the order, whatever the new entry.
LEMMA FixupDoes ==
  ASSUME NEW h \in Heaps, NEW n, n = Len(h), UpInv(h, n)
  PROVE  LET g == HeapFixup(h, n) IN IsHeap(g) /\ Holds(g, h)
<1>. DEFINE s == [heap |-> h, at |-> n]
            F == Up
            f == CHOOSE f : f = [k \in 0..n |-> IF k = 0 THEN s ELSE F[f[k - 1]]]
<1>0. n \in Nat /\ n >= 1
  BY KeysAreNumbers DEF UpInv
<1>1. HeapFixup(h, n) = f[n].heap
  BY DEF HeapFixup
<1>2. f[0] = s /\ \A k \in 0..(n - 1) : f[k + 1] = F[f[k]]
  <2>1. f = CHOOSE g : Rounds(g, n, F, s)
    BY DEF Rounds
  <2>. HIDE DEF s, F, f
  <2>. QED  BY <1>0, <2>1, RoundsDo
<1>. HIDE DEF f
<1>. DEFINE Good(t, k) ==
              \E g, a : /\ t = [heap |-> g, at |-> a]
                        /\ Holds(g, h) /\ UpInv(g, a) /\ (IsHeap(g) \/ a + k <= n)
            T == {k \in 0..n : Good(f[k], k)}
<1>3. 0 \in T
  <2>1. Holds(h, h) /\ n + 0 <= n
    BY <1>0 DEF Holds
  <2>2. Good(s, 0)
    BY <2>1
  <2>. QED  BY <1>0, <1>2, <2>2
<1>4. ASSUME NEW k \in 0..(n - 1), k \in T PROVE k + 1 \in T
  <2>1. PICK g, a : /\ f[k] = [heap |-> g, at |-> a]
                    /\ Holds(g, h) /\ UpInv(g, a) /\ (IsHeap(g) \/ a + k <= n)
    BY <1>4
  <2>2. g \in Heaps /\ a \in Nat /\ k \in Nat
    BY <1>4, <2>1 DEF Holds, UpInv
  <2>3. CASE IsHeap(g)
    <3>1. Up[[heap |-> g, at |-> a]] = [heap |-> g, at |-> a]
      BY <2>1, <2>2, <2>3, UpDoes
    <3>2. f[k + 1] = [heap |-> g, at |-> a]
      BY <1>2, <2>1, <3>1
    <3>3. Good(f[k + 1], k + 1)
      BY <2>1, <2>3, <3>2
    <3>. QED  BY <1>0, <3>3
  <2>4. CASE ~IsHeap(g)
    <3>1. PICK e, p : e = Swap(g, a, Parent(a)) /\ p = Parent(a)
      OBVIOUS
    <3>2. /\ Up[[heap |-> g, at |-> a]] = [heap |-> e, at |-> p]
          /\ UpInv(e, p) /\ p < a /\ Holds(e, g)
      BY <2>1, <2>2, <2>4, <3>1, UpDoes
    <3>3. f[k + 1] = [heap |-> e, at |-> p]
      BY <1>2, <2>1, <3>2
    <3>4. Holds(e, h)
      BY <2>1, <3>2 DEF Holds
    <3>5. p + (k + 1) <= n
      <4>1. p \in Nat /\ a + k <= n
        BY <2>1, <2>4, <3>2 DEF UpInv
      <4>. QED  BY <1>0, <2>2, <3>2, <4>1
    <3>6. Good(f[k + 1], k + 1)
      BY <3>2, <3>3, <3>4, <3>5
    <3>. QED  BY <1>0, <3>6
  <2>. QED  BY <2>3, <2>4
<1>5. n \in T
  <2>. HIDE DEF T
  <2>1. \A k \in 0..n : k \in T
    BY <1>0, <1>3, <1>4, Stepwise
  <2>. QED  BY <1>0, <2>1
<1>6. PICK g, a : /\ f[n] = [heap |-> g, at |-> a]
                  /\ Holds(g, h) /\ UpInv(g, a) /\ (IsHeap(g) \/ a + n <= n)
  BY <1>5
<1>7. ~(a + n <= n)
  BY <1>0, <1>6 DEF UpInv
<1>. QED  BY <1>1, <1>6, <1>7

LEMMA DownDoes ==
  ASSUME NEW h \in Heaps, NEW a, DownInv(h, a)
  PROVE  LET s == [heap |-> h, at |-> a]
             c == SmallerChild(h, a) IN
         IF IsHeap(h) THEN Down[s] = s
         ELSE /\ Down[s] = [heap |-> Swap(h, a, c), at |-> c]
              /\ DownInv(Swap(h, a, c), c) /\ a < c /\ Holds(Swap(h, a, c), h)
<1>. DEFINE s == [heap |-> h, at |-> a]
<1>1. PICK n, c : n = Len(h) /\ c = SmallerChild(h, a)
  OBVIOUS
<1>2. n \in Nat /\ a \in 1..n /\ \A i \in 1..n : Key(h, i) \in Nat
  BY <1>1, KeysAreNumbers DEF DownInv
<1>3. s \in Loops
  BY <1>2 DEF Loops
<1>4. Down[s] = IF 2 * a > n \/ Key(h, a) <= Key(h, c) THEN s
                ELSE [heap |-> Swap(h, a, c), at |-> c]
  BY <1>1, <1>3 DEF Down
<1>. HIDE DEF s
<1>5. a \in Nat /\ a >= 1 /\ Parent(2 * a) = a /\ Parent(2 * a + 1) = a
  BY <1>2, ChildDoes
<1>6. \A j \in 2..n : /\ Parent(j) \in 1..n /\ j \in 1..n /\ Parent(j) < j /\ Parent(j) # j
                      /\ Parent(j) = a => j = 2 * a \/ j = 2 * a + 1
  BY <1>2, <1>5, ParentDoes
<1>7. 2 * a <= n => /\ c \in 2..n /\ Parent(c) = a /\ a < c
                    /\ \A j \in 2..n : Parent(j) = a => Key(h, c) <= Key(h, j)
  <2>. SUFFICES ASSUME 2 * a <= n
                PROVE  /\ c \in 2..n /\ Parent(c) = a /\ a < c
                       /\ \A j \in 2..n : Parent(j) = a => Key(h, c) <= Key(h, j)
    OBVIOUS
  <2>1. PICK l, r : l = 2 * a /\ r = 2 * a + 1
    OBVIOUS
  <2>2. l \in 2..n /\ l \in 1..n /\ r \in Nat /\ a < l /\ a < r /\ r >= 2
    BY <1>2, <1>5, <2>1
  <2>3. c = IF r <= n /\ Key(h, r) < Key(h, l) THEN r ELSE l
    BY <1>1, <2>1 DEF SmallerChild
  <2>4. c \in 2..n /\ Parent(c) = a /\ a < c
    BY <1>2, <1>5, <2>1, <2>2, <2>3
  <2>5. ASSUME NEW j \in 2..n, Parent(j) = a PROVE Key(h, c) <= Key(h, j)
    <3>1. j = l \/ j = r
      BY <1>6, <2>1, <2>5
    <3>2. Key(h, j) \in Nat /\ Key(h, l) \in Nat
      BY <1>2, <1>6, <2>2
    <3>3. CASE j = r
      <4>1. r <= n /\ Key(h, r) \in Nat
        BY <1>2, <3>2, <3>3
      <4>. QED  BY <2>3, <3>2, <3>3, <4>1
    <3>4. CASE j = l
      <4>1. r <= n => Key(h, r) \in Nat
        BY <1>2, <2>2
      <4>. QED  BY <2>3, <3>2, <3>4, <4>1
    <3>. QED  BY <3>1, <3>3, <3>4
  <2>. QED  BY <2>4, <2>5
<1>8. \A j \in 2..n : Parent(j) # a => Key(h, Parent(j)) <= Key(h, j)
  BY <1>1 DEF DownInv
<1>9. CASE IsHeap(h)
  <2>1. 2 * a > n \/ Key(h, a) <= Key(h, c)
    <3>1. 2 * a > n \/ 2 * a <= n
      BY <1>2
    <3>. QED  BY <1>1, <1>7, <1>9, <3>1 DEF IsHeap
  <2>. QED  BY <1>4, <1>9, <2>1 DEF s
<1>10. CASE ~IsHeap(h)
  <2>1. ~(2 * a > n) /\ ~(Key(h, a) <= Key(h, c))
    <3>1. PICK j \in 2..n : ~(Key(h, Parent(j)) <= Key(h, j))
      BY <1>1, <1>10 DEF IsHeap
    <3>2. Parent(j) = a /\ (j = 2 * a \/ j = 2 * a + 1)
      BY <1>6, <1>8, <3>1
    <3>3. 2 * a <= n
      BY <1>2, <1>5, <3>2
    <3>4. Key(h, c) <= Key(h, j) /\ c \in 1..n /\ j \in 1..n
      BY <1>6, <1>7, <3>2, <3>3
    <3>5. Key(h, c) \in Nat /\ Key(h, j) \in Nat /\ Key(h, a) \in Nat
      BY <1>2, <3>4
    <3>6. ~(Key(h, a) <= Key(h, c))
      BY <3>1, <3>2, <3>4, <3>5
    <3>7. ~(2 * a > n)
      BY <1>2, <3>3
    <3>. QED  BY <3>6, <3>7
  <2>2. /\ c \in 2..n /\ c \in 1..n /\ Parent(c) = a /\ a < c /\ a # c
        /\ \A j \in 2..n : Parent(j) = a => Key(h, c) <= Key(h, j)
    BY <1>2, <1>7, <2>1
  <2>3. Key(h, c) < Key(h, a)
    BY <1>2, <2>1, <2>2
  <2>4. PICK g : g = Swap(h, a, c)
    OBVIOUS
  <2>5. /\ Holds(g, h) /\ Len(g) = n
        /\ Key(g, a) = Key(h, c) /\ Key(g, c) = Key(h, a)
        /\ \A k \in 1..n : k # a /\ k # c => Key(g, k) = Key(h, k)
    <3>1. LET e == Swap(h, a, c) IN
          /\ Holds(e, h) /\ e[a] = h[c] /\ e[c] = h[a]
          /\ \A k \in 1..Len(h) : k # a /\ k # c => e[k] = h[k]
      BY <1>1, <1>2, <2>2, SwapDoes
    <3>. QED  BY <1>1, <2>4, <3>1 DEF Holds, Key
  <2>6. a >= 2 => a \in 2..n /\ \A j \in 2..n : Parent(j) = a => Key(h, Parent(a)) <= Key(h, j)
    BY <1>1, <1>2 DEF DownInv
  <2>7. ASSUME NEW j \in 2..n, Parent(j) # c PROVE Key(g, Parent(j)) <= Key(g, j)
    <3>1. CASE j = c
      BY <1>2, <2>2, <2>3, <2>5, <3>1
    <3>2. CASE j # c /\ Parent(j) = a
      BY <1>6, <2>2, <2>5, <3>2
    <3>3. CASE j = a
      <4>1. Key(h, Parent(a)) <= Key(h, c) /\ Parent(a) \in 1..n /\ Parent(a) # a
        BY <1>5, <1>6, <2>2, <2>6, <3>3
      <4>. QED  BY <2>5, <2>7, <3>3, <4>1
    <3>4. CASE j # c /\ j # a /\ Parent(j) # a
      BY <1>6, <1>8, <2>5, <2>7, <3>4
    <3>. QED  BY <3>1, <3>2, <3>3, <3>4
  <2>8. ASSUME NEW j \in 2..n, Parent(j) = c PROVE Key(g, Parent(c)) <= Key(g, j)
    <3>1. j # a /\ j # c /\ j \in 1..n
      BY <1>2, <1>6, <2>2, <2>8
    <3>2. Key(h, c) <= Key(h, j) /\ Key(g, j) = Key(h, j)
      BY <1>8, <2>2, <2>5, <2>8, <3>1
    <3>. QED  BY <2>2, <2>5, <3>2
  <2>9. DownInv(g, c)
    BY <2>2, <2>5, <2>7, <2>8 DEF DownInv
  <2>10. Down[s] = [heap |-> Swap(h, a, c), at |-> c]
    BY <1>4, <2>1
  <2>. QED  BY <1>1, <1>10, <2>2, <2>4, <2>5, <2>9, <2>10 DEF s
<1>. QED  BY <1>9, <1>10 DEF s

\* heap_fixdown restores the order, whatever the entry at the root.
LEMMA FixdownDoes ==
  ASSUME NEW h \in Heaps, DownInv(h, 1)
  PROVE  LET g == HeapFixdown(h, 1) IN IsHeap(g) /\ Holds(g, h)
<1>. DEFINE n == Len(h)
            s == [heap |-> h, at |-> 1]
            F == Down
            f == CHOOSE f : f = [k \in 0..n |-> IF k = 0 THEN s ELSE F[f[k - 1]]]
<1>0. n \in Nat /\ n >= 1
  BY KeysAreNumbers DEF DownInv
<1>1. HeapFixdown(h, 1) = f[n].heap
  BY DEF HeapFixdown
<1>2. f[0] = s /\ \A k \in 0..(n - 1) : f[k + 1] = F[f[k]]
  <2>1. f = CHOOSE g : Rounds(g, n, F, s)
    BY DEF Rounds
  <2>. HIDE DEF s, F, n, f
  <2>. QED  BY <1>0, <2>1, RoundsDo
<1>. HIDE DEF f
<1>. DEFINE Good(t, k) ==
              \E g, a : /\ t = [heap |-> g, at |-> a]
                        /\ Holds(g, h) /\ DownInv(g, a) /\ (IsHeap(g) \/ a >= k + 1)
            T == {k \in 0..n : Good(f[k], k)}
<1>3. 0 \in T
  <2>1. Holds(h, h) /\ 1 >= 0 + 1
    BY <1>0 DEF Holds
  <2>2. Good(s, 0)
    BY <2>1
  <2>. QED  BY <1>0, <1>2, <2>2
<1>4. ASSUME NEW k \in 0..(n - 1), k \in T PROVE k + 1 \in T
  <2>1. PICK g, a : /\ f[k] = [heap |-> g, at |-> a]
                    /\ Holds(g, h) /\ DownInv(g, a) /\ (IsHeap(g) \/ a >= k + 1)
    BY <1>4
  <2>2. g \in Heaps /\ a \in Nat /\ k \in Nat
    BY <1>4, <2>1 DEF Holds, DownInv
  <2>3. CASE IsHeap(g)
    <3>1. Down[[heap |-> g, at |-> a]] = [heap |-> g, at |-> a]
      BY <2>1, <2>2, <2>3, DownDoes
    <3>2. f[k + 1] = [heap |-> g, at |-> a]
      BY <1>2, <2>1, <3>1
    <3>3. Good(f[k + 1], k + 1)
      BY <2>1, <2>3, <3>2
    <3>. QED  BY <1>0, <3>3
  <2>4. CASE ~IsHeap(g)
    <3>1. PICK c, e : c = SmallerChild(g, a) /\ e = Swap(g, a, c)
      OBVIOUS
    <3>2. /\ Down[[heap |-> g, at |-> a]] = [heap |-> e, at |-> c]
          /\ DownInv(e, c) /\ a < c /\ Holds(e, g)
      BY <2>1, <2>2, <2>4, <3>1, DownDoes
    <3>3. f[k + 1] = [heap |-> e, at |-> c]
      BY <1>2, <2>1, <3>2
    <3>4. Holds(e, h)
      BY <2>1, <3>2 DEF Holds
    <3>5. c >= (k + 1) + 1
      <4>1. c \in Nat /\ a >= k + 1
        BY <2>1, <2>4, <3>2 DEF DownInv
      <4>. QED  BY <1>0, <2>2, <3>2, <4>1
    <3>6. Good(f[k + 1], k + 1)
      BY <3>2, <3>3, <3>4, <3>5
    <3>. QED  BY <1>0, <3>6
  <2>. QED  BY <2>3, <2>4
<1>5. n \in T
  <2>. HIDE DEF T
  <2>1. \A k \in 0..n : k \in T
    BY <1>0, <1>3, <1>4, Stepwise
  <2>. QED  BY <1>0, <2>1
<1>6. PICK g, a : /\ f[n] = [heap |-> g, at |-> a]
                  /\ Holds(g, h) /\ DownInv(g, a) /\ (IsHeap(g) \/ a >= n + 1)
  BY <1>5
<1>7. ~(a >= n + 1)
  BY <1>0, <1>6 DEF DownInv, Holds
<1>. QED  BY <1>1, <1>6, <1>7


\* min_heap_insert adds the entry and keeps the order.
LEMMA InsertDoes ==
  ASSUME NEW h \in Heaps, IsHeap(h), NEW k \in Nat, NEW x \in Clients
  PROVE  LET g == Insert(h, k, x)
             e == [key |-> k, item |-> x] IN
         /\ g \in Heaps /\ IsHeap(g) /\ Len(g) = Len(h) + 1
         /\ Range(g) = Range(h) \cup {e}
         /\ Distinct(h) /\ (\A i \in 1..Len(h) : h[i].item # x) => Distinct(g)
<1>1. PICK n, e : n = Len(h) /\ e = [key |-> k, item |-> x]
  OBVIOUS
<1>2. h \in Seq(Entries) /\ e \in Entries /\ n \in Nat
  BY <1>1, HeapsAre, KeysAreNumbers DEF Entries
<1>3. PICK b : b = Append(h, e)
  OBVIOUS
<1>4. /\ b \in Seq(Entries) /\ b \in Heaps /\ Len(b) = n + 1 /\ b[n + 1] = e
      /\ \A i \in 1..n : b[i] = h[i]
      /\ Range(b) = Range(h) \cup {e}
  BY <1>1, <1>2, <1>3, HeapsAre, AppendProperties, AppendRange
<1>5. UpInv(b, n + 1)
  <2>1. n + 1 \in 1..(n + 1) /\ n + 1 \in Nat
    BY <1>2
  <2>2. ASSUME NEW j \in 2..(n + 1)
        PROVE  j \in Nat /\ j >= 2 /\ Parent(j) \in Nat /\ 1 <= Parent(j) /\ Parent(j) < j
    BY <1>2, ParentDoes
  <2>3. \A j \in 2..(n + 1) : Parent(j) # n + 1
    BY <1>2, <2>2
  <2>4. ASSUME NEW j \in 2..(n + 1), j # n + 1 PROVE Key(b, Parent(j)) <= Key(b, j)
    <3>1. j \in 2..n /\ j \in 1..n /\ Parent(j) \in 1..n
      BY <1>2, <2>2, <2>4
    <3>2. Key(h, Parent(j)) <= Key(h, j)
      BY <1>1, <3>1 DEF IsHeap
    <3>. QED  BY <1>4, <3>1, <3>2 DEF Key
  <2>. QED  BY <1>4, <2>1, <2>3, <2>4 DEF UpInv
<1>6. PICK g : g = HeapFixup(b, n + 1)
  OBVIOUS
<1>7. IsHeap(g) /\ Holds(g, b)
  BY <1>4, <1>5, <1>6, FixupDoes
<1>8. Insert(h, k, x) = g
  BY <1>1, <1>3, <1>6 DEF Insert
<1>9. ASSUME Distinct(h), \A i \in 1..Len(h) : h[i].item # x PROVE Distinct(g)
  <2>1. \A i \in 1..(n + 1) : i \in 1..n \/ i = n + 1
    BY <1>2
  <2>2. e.item = x
    BY <1>1
  <2>3. Distinct(b)
    BY <1>1, <1>4, <1>9, <2>1, <2>2 DEF Distinct
  <2>. QED  BY <1>7, <2>3 DEF Holds
<1>. QED  BY <1>1, <1>4, <1>7, <1>8, <1>9 DEF Holds

\* The root has the smallest key: a smallest counterexample is larger than its parent.
LEMMA RootIsLeast ==
  ASSUME NEW h \in Heaps, IsHeap(h), NEW i \in 1..Len(h)
  PROVE  Key(h, 1) <= Key(h, i)
<1>. DEFINE n == Len(h)
            Bad == {j \in 1..n : ~(Key(h, 1) <= Key(h, j))}
<1>1. n \in Nat /\ \A j \in 1..n : Key(h, j) \in Nat
  BY KeysAreNumbers
<1>2. ASSUME Bad # {} PROVE FALSE
  <2>1. PICK j \in Bad : \A l \in Bad : j <= l
    <3>1. Bad \subseteq Nat
      BY <1>1
    <3>. HIDE DEF Bad
    <3>. QED  BY <1>2, <3>1, LeastNumber
  <2>2. j \in 1..n /\ ~(Key(h, 1) <= Key(h, j)) /\ 1 \in 1..n
    BY <1>1
  <2>3. j # 1
    BY <1>1, <2>2
  <2>4. j \in 2..n /\ j \in Nat /\ j >= 2
    BY <1>1, <2>2, <2>3
  <2>5. Parent(j) \in 1..n /\ ~(j <= Parent(j))
    BY <1>1, <2>4, ParentDoes
  <2>6. Key(h, 1) <= Key(h, Parent(j))
    BY <2>1, <2>5
  <2>7. Key(h, Parent(j)) <= Key(h, j)
    BY <2>4 DEF IsHeap
  <2>. HIDE DEF n, Bad
  <2>. QED  BY <1>1, <2>2, <2>5, <2>6, <2>7
<1>. QED  BY <1>2

\* min_heap_pop takes the root and keeps the order.
LEMMA PopDoes ==
  ASSUME NEW h \in Heaps, IsHeap(h), h # <<>>
  PROVE  LET g == Pop(h) IN
         /\ g \in Heaps /\ IsHeap(g) /\ Len(g) = Len(h) - 1
         /\ Range(h) = Range(g) \cup {h[1]}
         /\ Distinct(h) => Distinct(g)
<1>1. PICK n : n = Len(h)
  OBVIOUS
<1>2. h \in Seq(Entries) /\ n \in Nat /\ n >= 1 /\ DOMAIN h = 1..n
  BY <1>1, HeapsAre, LenProperties, EmptySeq
<1>3. CASE n = 1
  <2>1. Pop(h) = <<>>
    BY <1>1, <1>3 DEF Pop
  <2>2. Range(<<>>) = {} /\ <<>> \in Heaps /\ Len(<<>>) = 0
    BY HeapsAre DEF Range
  <2>3. Range(h) = {h[1]}
    BY <1>2, <1>3 DEF Range
  <2>4. IsHeap(<<>>) /\ Distinct(<<>>)
    BY DEF IsHeap, Distinct
  <2>5. Len(<<>>) = n - 1
    BY <1>3, <2>2
  <2>. QED  BY <1>1, <2>1, <2>2, <2>3, <2>4, <2>5
<1>4. CASE n # 1
  <2>1. PICK m : m = n - 1
    OBVIOUS
  <2>2. m \in Nat /\ m >= 1 /\ m + 1 = n /\ m < n
    BY <1>2, <1>4, <2>1
  <2>3. PICK b : b = [SubSeq(h, 1, m) EXCEPT ![1] = h[n]]
    OBVIOUS
  <2>4. PICK a : a = SubSeq(h, 1, m)
    OBVIOUS
  <2>5. \A i \in 1..m : i \in 1..n
    BY <1>2, <2>2
  <2>6. a \in Seq(Entries) /\ Len(a) = m /\ \A i \in 1..m : a[i] = h[i]
    <3>1. \A i \in 1..m : h[i] \in Entries
      BY <1>2, <2>5
    <3>. QED  BY <1>2, <2>2, <2>4, <2>5, <3>1, SubSeqProperties
  <2>7. n \in 1..n /\ h[n] \in Entries /\ 1 \in 1..m
    BY <1>2, <2>2
  <2>8. /\ b \in Seq(Entries) /\ Len(b) = m /\ b[1] = h[n]
        /\ \A i \in 1..m : i # 1 => b[i] = h[i]
    <3>1. a \in [1..m -> Entries] /\ b = [a EXCEPT ![1] = h[n]]
      BY <2>3, <2>4, <2>6, LenProperties
    <3>2. /\ b \in [1..m -> Entries] /\ b[1] = h[n]
          /\ \A i \in 1..m : i # 1 => b[i] = a[i]
      BY <2>7, <3>1
    <3>3. b \in Seq(Entries) /\ Len(b) = m
      BY <2>2, <3>2
    <3>. QED  BY <2>6, <3>2, <3>3
  <2>9. DownInv(b, 1)
    <3>1. ASSUME NEW j \in 2..m, Parent(j) # 1 PROVE Key(b, Parent(j)) <= Key(b, j)
      <4>1. j \in Nat /\ j >= 2
        BY <2>2
      <4>2. Parent(j) \in Nat /\ 1 <= Parent(j) /\ Parent(j) < j
        BY <4>1, ParentDoes
      <4>3. Parent(j) \in 1..m /\ j \in 1..m /\ j # 1 /\ j \in 2..n
        BY <2>2, <4>1, <4>2
      <4>4. Key(h, Parent(j)) <= Key(h, j)
        BY <1>1, <4>3 DEF IsHeap
      <4>. QED  BY <2>8, <3>1, <4>3, <4>4 DEF Key
    <3>. QED  BY <2>7, <2>8, <3>1 DEF DownInv
  <2>10. PICK g : g = HeapFixdown(b, 1)
    OBVIOUS
  <2>11. b \in Heaps
    BY <2>8, HeapsAre
  <2>12. IsHeap(g) /\ Holds(g, b)
    BY <2>9, <2>10, <2>11, FixdownDoes
  <2>13. Pop(h) = g
    BY <1>1, <1>4, <2>1, <2>3, <2>10 DEF Pop
  <2>14. \A i \in 1..n : i = 1 \/ i = n \/ (i \in 1..m /\ i # 1)
    BY <1>2, <2>2
  <2>15. Range(h) = Range(b) \cup {h[1]}
    <3>1. DOMAIN b = 1..m
      BY <2>8
    <3>2. \A i \in 1..m : b[i] \in Range(h)
      BY <1>2, <2>5, <2>7, <2>8 DEF Range
    <3>3. \A i \in 1..n : h[i] \in Range(b) \cup {h[1]}
      BY <2>7, <2>8, <2>14, <3>1 DEF Range
    <3>4. h[1] \in Range(h)
      BY <1>2, <2>5, <2>7 DEF Range
    <3>5. Range(b) \subseteq Range(h)
      BY <3>1, <3>2 DEF Range
    <3>6. Range(h) \subseteq Range(b) \cup {h[1]}
      BY <1>2, <3>3 DEF Range
    <3>. QED  BY <3>4, <3>5, <3>6
  <2>16. ASSUME Distinct(h) PROVE Distinct(b)
    <3>1. \A i, j \in 1..n : h[i].item = h[j].item => i = j
      BY <1>1, <2>16 DEF Distinct
    <3>2. \A i \in 1..m : i # n
      BY <2>2
    <3>3. \A i, j \in 1..m : b[i].item = b[j].item => i = j
      BY <2>5, <2>7, <2>8, <3>1, <3>2
    <3>. QED  BY <2>8, <3>3 DEF Distinct
  <2>. QED  BY <1>1, <2>1, <2>8, <2>12, <2>13, <2>15, <2>16 DEF Holds
<1>. QED  BY <1>3, <1>4

\* The loop of CLOCK_MSG_NOTIFY takes the expired delays and no other.
LEMMA DrainedDoes ==
  ASSUME NEW h \in Heaps, IsHeap(h), Distinct(h), NEW tick \in Nat
  PROVE  LET g == Drained(h, tick) IN
         /\ g \in Heaps /\ IsHeap(g) /\ Distinct(g) /\ Len(g) <= Len(h)
         /\ Range(g) \subseteq Range(h)
         /\ \A e \in Range(h) : e \in Range(g) \/ e.key <= tick
         /\ \A i \in 1..Len(g) : Key(g, i) > tick
<1>. DEFINE n == Len(h)
            wake == [g \in Heaps |-> IF Due(g, tick) THEN Pop(g) ELSE g]
            f == CHOOSE f : f = [k \in 0..n |-> IF k = 0 THEN h ELSE wake[f[k - 1]]]
<1>0. n \in Nat
  BY KeysAreNumbers
<1>1. Drained(h, tick) = f[n]
  BY DEF Drained
<1>2. f[0] = h /\ \A k \in 0..(n - 1) : f[k + 1] = wake[f[k]]
  <2>1. f = CHOOSE g : Rounds(g, n, wake, h)
    BY DEF Rounds
  <2>. HIDE DEF wake, n, f
  <2>. QED  BY <1>0, <2>1, RoundsDo
<1>. HIDE DEF f
<1>. DEFINE Good(g, k) ==
              /\ g \in Heaps /\ IsHeap(g) /\ Distinct(g) /\ Len(g) <= n
              /\ Range(g) \subseteq Range(h)
              /\ \A e \in Range(h) : e \in Range(g) \/ e.key <= tick
              /\ ~Due(g, tick) \/ Len(g) + k <= n
            T == {k \in 0..n : Good(f[k], k)}
<1>3. 0 \in T
  BY <1>0, <1>2
<1>4. ASSUME NEW k \in 0..(n - 1), k \in T PROVE k + 1 \in T
  <2>1. PICK g : g = f[k]
    OBVIOUS
  <2>2. Good(g, k)
    BY <1>4, <2>1
  <2>3. f[k + 1] = IF Due(g, tick) THEN Pop(g) ELSE g
    BY <1>2, <2>1, <2>2
  <2>4. k + 1 \in 0..n /\ Len(g) \in Nat /\ k \in Nat
    BY <1>0, <2>2, KeysAreNumbers
  <2>5. CASE ~Due(g, tick)
    BY <2>2, <2>3, <2>4, <2>5
  <2>6. CASE Due(g, tick)
    <3>1. g # <<>> /\ Key(g, 1) <= tick
      BY <2>6 DEF Due
    <3>2. PICK e : e = Pop(g)
      OBVIOUS
    <3>3. /\ e \in Heaps /\ IsHeap(e) /\ Len(e) = Len(g) - 1
          /\ Range(g) = Range(e) \cup {g[1]} /\ Distinct(e)
      BY <2>2, <3>1, <3>2, PopDoes
    <3>4. g[1].key <= tick
      BY <3>1 DEF Key
    <3>5. Len(e) <= n /\ Len(e) + (k + 1) <= n
      BY <1>0, <2>2, <2>4, <2>6, <3>3
    <3>6. Good(e, k + 1)
      BY <2>2, <3>3, <3>4, <3>5
    <3>. QED  BY <2>3, <2>4, <2>6, <3>2, <3>6
  <2>. QED  BY <2>5, <2>6
<1>5. n \in T
  <2>. HIDE DEF T
  <2>1. \A k \in 0..n : k \in T
    BY <1>0, <1>3, <1>4, Stepwise
  <2>. QED  BY <1>0, <2>1
<1>6. PICK g : g = f[n]
  OBVIOUS
<1>7. Good(g, n)
  BY <1>5, <1>6
<1>8. ~Due(g, tick)
  <2>1. CASE Len(g) + n <= n
    <3>1. Len(g) = 0
      BY <1>0, <1>7, <2>1, KeysAreNumbers
    <3>2. g = <<>>
      BY <1>7, <3>1, HeapsAre, EmptySeq
    <3>. QED  BY <3>2 DEF Due
  <2>. QED  BY <1>7, <2>1
<1>9. ASSUME NEW i \in 1..Len(g) PROVE Key(g, i) > tick
  <2>1. /\ Len(g) \in Nat /\ g # <<>> /\ 1 \in 1..Len(g)
        /\ Key(g, i) \in Nat /\ Key(g, 1) \in Nat
    BY <1>7, <1>9, KeysAreNumbers
  <2>2. ~(Key(g, 1) <= tick)
    BY <1>8, <2>1 DEF Due
  <2>3. Key(g, 1) <= Key(g, i)
    BY <1>7, RootIsLeast
  <2>. QED  BY <2>1, <2>2, <2>3
<1>. QED  BY <1>1, <1>6, <1>7, <1>9


-----------------------------------------------------------------------------
(* The delay queue and the clients *)

\* Between two steps the heap holds later ticks only.
Queue ==
  /\ delay_queue \in Heaps /\ IsHeap(delay_queue) /\ Distinct(delay_queue)
  /\ Len(delay_queue) <= MAX_DELAY_TASKS
  /\ \A e \in Range(delay_queue) : e.key > current_tick /\ e.key = due[e.item]

Requested(c) == \E i \in Requesters : inbox[i].from = c
Sleeps(c) == \E e \in Range(delay_queue) : e.item = c

\* A request is the first message of the server's queue, since its sender ran with the
\* queue empty; so no tick is counted between a request and its service.
First ==
  \A i \in Requesters :
    /\ i = 1 /\ inbox[i].from \in Clients
    /\ WakeTick(inbox[i]) = due[inbox[i].from]
    /\ inbox[i].type = "TIME" => due[inbox[i].from] = 0

Calls ==
  /\ client \in [Clients -> {"running", "waiting"}] /\ due \in [Clients -> Nat]
  /\ \A c \in Clients : /\ client[c] = "waiting" <=> Requested(c) \/ Sleeps(c)
                        /\ ~(Requested(c) /\ Sleeps(c))
  /\ notifier = "awaiting" => event_pending = 0

QInv == Queue /\ First /\ Calls

LEMMA InitQInv == Init => QInv
<1>. SUFFICES ASSUME Init PROVE QInv
  OBVIOUS
<1>1. Range(<<>>) = {} /\ <<>> \in Heaps /\ Len(<<>>) = 0 /\ Requesters = {}
  BY HeapsAre DEF Init, Range, Requesters
<1>2. IsHeap(<<>>) /\ Distinct(<<>>)
  BY DEF IsHeap, Distinct
<1>3. Queue
  BY <1>1, <1>2, ClockAssumption DEF Init, Queue
<1>4. First /\ Calls
  BY <1>1 DEF Init, First, Calls, Requested, Sleeps
<1>. QED  BY <1>3, <1>4 DEF QInv

\* A step of the timer or of the notifier.
LEMMA QueueKept ==
  ASSUME IInv, QInv, UNCHANGED <<current_tick, delay_queue, client, due>>,
         (notifier = "awaiting" => event_pending = 0)',
         \/ inbox' = inbox
         \/ \E m \in Messages : m.from = Notifier /\ inbox' = Append(inbox, m)
  PROVE  QInv'
<1>1. Requesters' = Requesters /\ \A i \in Requesters : inbox'[i] = inbox[i]
  <2>1. CASE inbox' = inbox
    BY <2>1 DEF Requesters
  <2>2. CASE \E m \in Messages : m.from = Notifier /\ inbox' = Append(inbox, m)
    <3>1. PICK m \in Messages : m.from = Notifier /\ inbox' = Append(inbox, m)
      BY <2>2
    <3>2. inbox \in Seq(Messages)
      BY DEF IInv, Types
    <3>3. /\ Len(inbox) \in Nat /\ Len(inbox') = Len(inbox) + 1
          /\ inbox'[Len(inbox) + 1] = m
          /\ \A i \in 1..Len(inbox) : inbox'[i] = inbox[i]
      BY <3>1, <3>2, AppendProperties, LenProperties
    <3>. QED  BY <3>1, <3>3 DEF Requesters
  <2>. QED  BY <2>1, <2>2
<1>2. \A i \in Requesters : WakeTick(inbox[i])' = WakeTick(inbox[i])
  BY <1>1 DEF WakeTick
<1>3. Queue'
  BY DEF QInv, Queue
<1>4. First'
  BY <1>1, <1>2 DEF QInv, First
<1>5. Calls'
  BY <1>1 DEF QInv, Calls, Requested, Sleeps
<1>. QED  BY <1>3, <1>4, <1>5 DEF QInv

\* The server takes the first message: no request is left behind it.
LEMMA NoneLeft ==
  ASSUME IInv, QInv, inbox # <<>>, inbox' = Tail(inbox)
  PROVE  /\ Requesters' = {} /\ Head(inbox) = inbox[1] /\ Head(inbox) \in Messages
         /\ IF Head(inbox).from = Notifier THEN Requesters = {} ELSE Requesters = {1}
<1>1. inbox \in Seq(Messages)
  BY DEF IInv, Types
<1>2. /\ Len(inbox) \in Nat \ {0} /\ Len(inbox') = Len(inbox) - 1
      /\ Head(inbox) = inbox[1] /\ Head(inbox) \in Messages
      /\ \A i \in 1..(Len(inbox) - 1) : inbox'[i] = inbox[i + 1]
  BY <1>1, HeadTailProperties, LenProperties, EmptySeq
<1>3. \A i \in Requesters : i = 1
  BY DEF QInv, First
<1>4. ASSUME NEW i \in Requesters' PROVE FALSE
  <2>1. i \in Nat \ {0} /\ i + 1 \in Requesters
    BY <1>2 DEF Requesters
  <2>. QED  BY <1>3, <2>1
<1>5. 1 \in 1..Len(inbox)
  BY <1>2
<1>6. 1 \in Requesters <=> Head(inbox).from # Notifier
  BY <1>2, <1>5 DEF Requesters
<1>7. Requesters \subseteq {1}
  BY <1>3
<1>. QED  BY <1>2, <1>4, <1>6, <1>7

\* What ReplyTo does to the calls, when the clients in C had all been waiting.
LEMMA ReplyDoes ==
  ASSUME QInv, NEW C, NEW st, ReplyTo(C, st)
  PROVE  /\ client' \in [Clients -> {"running", "waiting"}] /\ due' \in [Clients -> Nat]
         /\ \A c \in Clients \cap C : client'[c] = "running"
         /\ \A c \in Clients \ C : client'[c] = client[c] /\ due'[c] = due[c]
BY DEF QInv, Calls, ReplyTo

LEMMA StepNotify ==
  ASSUME IInv, QInv, ServerStep, Head(inbox).from = Notifier
  PROVE  QInv'
<1>1. /\ inbox # <<>> /\ inbox' = Tail(inbox) /\ Notify
      /\ UNCHANGED event_pending
  BY DEF ServerStep
<1>2. Requesters' = {} /\ Requesters = {}
  BY <1>1, NoneLeft
<1>3. PICK h, g, t : h = delay_queue /\ t = current_tick + 1 /\ g = Drained(h, t)
  OBVIOUS
<1>4. /\ delay_queue' = g /\ current_tick' = t /\ notifier' = "running"
      /\ ReplyTo(Delayed(h) \ Delayed(g), "ok")
  BY <1>1, <1>3 DEF Notify
<1>5. h \in Heaps /\ IsHeap(h) /\ Distinct(h) /\ t \in Nat
  BY <1>3 DEF QInv, Queue, IInv, Types
<1>6. /\ g \in Heaps /\ IsHeap(g) /\ Distinct(g) /\ Len(g) <= Len(h)
      /\ Range(g) \subseteq Range(h)
      /\ \A i \in 1..Len(g) : Key(g, i) > t
  BY <1>3, <1>5, DrainedDoes
<1>7. PICK C : C = Delayed(h) \ Delayed(g)
  OBVIOUS
<1>8. /\ \A c : c \in Delayed(g) <=> \E e \in Range(g) : e.item = c
      /\ \A c : c \in Delayed(h) <=> \E e \in Range(h) : e.item = c
      /\ \A e \in Range(g) : e.key > t /\ e.item \in Clients
  <2>1. DOMAIN g = 1..Len(g) /\ DOMAIN h = 1..Len(h)
    BY <1>5, <1>6, HeapsAre, LenProperties
  <2>2. \A i \in 1..Len(g) : g[i].item \in Clients
    BY <1>6, KeysAreNumbers
  <2>. QED  BY <1>6, <2>1, <2>2 DEF Delayed, Range, Key
<1>9. /\ client' \in [Clients -> {"running", "waiting"}] /\ due' \in [Clients -> Nat]
      /\ \A c \in Clients \cap C : client'[c] = "running"
      /\ \A c \in Clients \ C : client'[c] = client[c] /\ due'[c] = due[c]
  BY <1>4, <1>7, ReplyDoes
<1>10. Queue'
  <2>1. Len(g) <= MAX_DELAY_TASKS
    <3>1. Len(h) <= MAX_DELAY_TASKS
      BY <1>3 DEF QInv, Queue
    <3>2. Len(h) \in Nat /\ Len(g) \in Nat /\ MAX_DELAY_TASKS \in Nat
      BY <1>5, <1>6, KeysAreNumbers, ClockAssumption
    <3>. QED  BY <1>6, <3>1, <3>2
  <2>2. ASSUME NEW e \in Range(g) PROVE e.key > t /\ e.key = due'[e.item]
    <3>1. e \in Range(h) /\ e.item \in Clients /\ e.item \notin C /\ e.key > t
      BY <1>6, <1>7, <1>8
    <3>2. e.key = due[e.item]
      BY <1>3, <3>1 DEF QInv, Queue
    <3>. QED  BY <1>9, <3>1, <3>2
  <2>. QED  BY <1>4, <1>6, <2>1, <2>2 DEF Queue
<1>11. First'
  BY <1>2 DEF First
<1>12. ASSUME NEW c \in Clients PROVE client'[c] = "waiting" <=> \E e \in Range(g) : e.item = c
  <2>1. client[c] = "waiting" <=> c \in Delayed(h)
    BY <1>2, <1>3, <1>8 DEF QInv, Calls, Requested, Sleeps
  <2>2. c \in Delayed(g) => c \in Delayed(h)
    BY <1>6, <1>8
  <2>. QED  BY <1>7, <1>8, <1>9, <2>1, <2>2
<1>13. Calls'
  BY <1>2, <1>4, <1>9, <1>12 DEF Calls, Requested, Sleeps
<1>. QED  BY <1>10, <1>11, <1>13 DEF QInv

LEMMA StepServe ==
  ASSUME IInv, QInv, ServerStep, Head(inbox).from # Notifier
  PROVE  QInv'
<1>1. PICK req, c : req = Head(inbox) /\ c = req.from
  OBVIOUS
<1>2. /\ inbox # <<>> /\ inbox' = Tail(inbox) /\ Serve(req)
      /\ UNCHANGED <<event_pending, current_tick, notifier>>
  BY <1>1 DEF ServerStep, Serve
<1>3. Requesters' = {} /\ Requesters = {1} /\ req = inbox[1]
  BY <1>1, <1>2, NoneLeft
<1>4. c \in Clients /\ WakeTick(req) = due[c] /\ Requested(c)
  BY <1>1, <1>3 DEF QInv, First, Requested
<1>5. /\ client[c] = "waiting" /\ ~Sleeps(c)
      /\ \A b \in Clients : b # c => (client[b] = "waiting" <=> Sleeps(b))
  BY <1>1, <1>3, <1>4 DEF QInv, Calls, Requested
\* the client is answered
<1>6. ASSUME NEW st, ReplyTo({c}, st), UNCHANGED delay_queue PROVE QInv'
  <2>1. /\ client' \in [Clients -> {"running", "waiting"}] /\ due' \in [Clients -> Nat]
        /\ client'[c] = "running"
        /\ \A b \in Clients : b # c => client'[b] = client[b] /\ due'[b] = due[b]
    BY <1>4, <1>6, ReplyDoes
  <2>2. \A e \in Range(delay_queue) : e.item \in Clients /\ e.item # c
    <3>1. \A i \in 1..Len(delay_queue) : delay_queue[i].item \in Clients
      BY KeysAreNumbers DEF QInv, Queue
    <3>2. DOMAIN delay_queue = 1..Len(delay_queue)
      BY HeapsAre, LenProperties DEF QInv, Queue
    <3>3. \A e \in Range(delay_queue) : e.item \in Clients
      BY <3>1, <3>2 DEF Range
    <3>. QED  BY <1>5, <3>3 DEF Sleeps
  <2>3. Queue'
    BY <1>2, <1>6, <2>1, <2>2 DEF QInv, Queue
  <2>4. First'
    BY <1>3 DEF First
  <2>5. Calls'
    BY <1>2, <1>3, <1>5, <1>6, <2>1 DEF QInv, Calls, Requested, Sleeps
  <2>. QED  BY <2>3, <2>4, <2>5 DEF QInv
\* the client is delayed
<1>7. ASSUME ~Full(delay_queue), delay_queue' = Insert(delay_queue, WakeTick(req), c),
             WakeTick(req) > current_tick, UNCHANGED <<client, due>>
      PROVE  QInv'
  <2>1. PICK h, g, k, e : /\ h = delay_queue /\ k = WakeTick(req) /\ g = Insert(h, k, c)
                          /\ e = [key |-> k, item |-> c]
    OBVIOUS
  <2>2. h \in Heaps /\ IsHeap(h) /\ Distinct(h) /\ k \in Nat /\ k > current_tick /\ k = due[c]
    BY <1>4, <1>7, <2>1 DEF QInv, Queue, Calls
  <2>3. Len(h) \in Nat /\ DOMAIN h = 1..Len(h)
    BY <2>2, HeapsAre, LenProperties
  <2>4. \A i \in 1..Len(h) : h[i].item # c
    BY <1>5, <2>1, <2>3 DEF Sleeps, Range
  <2>5. /\ g \in Heaps /\ IsHeap(g) /\ Len(g) = Len(h) + 1
        /\ Range(g) = Range(h) \cup {e} /\ Distinct(g)
    BY <1>4, <2>1, <2>2, <2>4, InsertDoes
  <2>6. Len(g) <= MAX_DELAY_TASKS
    BY <1>7, <2>1, <2>3, <2>5, ClockAssumption DEF Full
  <2>7. e.key = k /\ e.item = c
    BY <2>1
  <2>8. \A d \in Range(g) : d.key > current_tick /\ d.key = due[d.item]
    BY <2>1, <2>2, <2>5, <2>7 DEF QInv, Queue
  <2>9. Queue'
    BY <1>2, <1>7, <2>1, <2>5, <2>6, <2>8 DEF Queue
  <2>10. First'
    BY <1>3 DEF First
  <2>11. \A b : Sleeps(b)' <=> Sleeps(b) \/ b = c
    BY <1>7, <2>1, <2>5, <2>7 DEF Sleeps
  <2>12. Calls'
    BY <1>2, <1>3, <1>5, <1>7, <2>11 DEF QInv, Calls, Requested
  <2>. QED  BY <2>9, <2>10, <2>12 DEF QInv
<1>. QED  BY <1>1, <1>2, <1>6, <1>7 DEF Serve, InsertDelayEntry

LEMMA StepRequest ==
  ASSUME IInv, QInv, NEW c \in Clients, NEW req \in Requests, Request(c, req)
  PROVE  QInv'
<1>. DEFINE m == [from |-> c, type |-> req.type, ticks |-> req.ticks]
<1>0. req.ticks \in Nat /\ (req.type = "TIME" => req.ticks = 0)
  <2>1. CASE req \in [type : {"TIME"}, ticks : {0}]
    BY <2>1
  <2>2. CASE req \in [type : {"DELAY", "DELAY_UNTIL"}, ticks : Ticks]
    BY <2>2, ClockAssumption
  <2>. QED  BY <2>1, <2>2 DEF Requests
<1>1. /\ notifier = "awaiting" /\ inbox = <<>> /\ client[c] = "running"
      /\ client' = [client EXCEPT ![c] = "waiting"]
      /\ due' = [due EXCEPT ![c] = IF req.type = "DELAY" THEN timer + req.ticks ELSE req.ticks]
      /\ inbox' = Append(inbox, m)
      /\ UNCHANGED <<event_pending, notifier, current_tick, delay_queue>>
  BY DEF Request, ServerIdle
<1>2. timer = current_tick /\ timer \in Nat /\ current_tick \in Nat
  BY <1>1 DEF IInv, Types, TicksConserved, QInv, Calls
<1>3. c # Notifier /\ m.from = c /\ m.type = req.type /\ m.ticks = req.ticks
  BY ClockAssumption DEF Notifier
<1>. HIDE DEF m
<1>4. inbox' = <<m>> /\ Len(inbox') = 1 /\ inbox'[1] = m
  BY <1>1
<1>5. Requesters' = {1} /\ Requesters = {}
  <2>1. Requesters' = {i \in 1..1 : inbox'[i].from # Notifier}
    BY <1>4 DEF Requesters
  <2>2. Requesters = {}
    BY <1>1 DEF Requesters
  <2>. QED  BY <1>3, <1>4, <2>1, <2>2
<1>6. /\ client' \in [Clients -> {"running", "waiting"}] /\ due' \in [Clients -> Nat]
      /\ client'[c] = "waiting"
      /\ due'[c] = IF req.type = "DELAY" THEN current_tick + req.ticks ELSE req.ticks
      /\ \A b \in Clients : b # c => client'[b] = client[b] /\ due'[b] = due[b]
  BY <1>0, <1>1, <1>2 DEF QInv, Calls
<1>7. WakeTick(inbox[1])' = due'[c]
  BY <1>1, <1>3, <1>4, <1>6 DEF WakeTick
<1>8. First'
  <2>1. req.type = "TIME" => due'[c] = 0
    BY <1>0, <1>6
  <2>. QED  BY <1>3, <1>4, <1>5, <1>7, <2>1 DEF First
<1>9. /\ ~Sleeps(c) /\ \A b : Requested(b)' <=> b = c
      /\ \A b \in Clients : client[b] = "waiting" <=> Sleeps(b)
  <2>1. \A b : ~Requested(b)
    BY <1>5 DEF Requested
  <2>2. \A b : Requested(b)' <=> b = c
    BY <1>3, <1>4, <1>5 DEF Requested
  <2>. QED  BY <1>1, <2>1, <2>2 DEF QInv, Calls
<1>10. \A b : Sleeps(b)' <=> Sleeps(b)
  BY <1>1 DEF Sleeps
<1>11. Calls'
  BY <1>1, <1>6, <1>9, <1>10 DEF QInv, Calls
<1>12. \A e \in Range(delay_queue) : e.item \in Clients /\ e.item # c
  <2>1. \A i \in 1..Len(delay_queue) : delay_queue[i].item \in Clients
    BY KeysAreNumbers DEF QInv, Queue
  <2>2. DOMAIN delay_queue = 1..Len(delay_queue)
    BY HeapsAre, LenProperties DEF QInv, Queue
  <2>3. \A e \in Range(delay_queue) : e.item \in Clients
    BY <2>1, <2>2 DEF Range
  <2>. QED  BY <1>9, <2>3 DEF Sleeps
<1>13. Queue'
  BY <1>1, <1>6, <1>12 DEF QInv, Queue
<1>. QED  BY <1>8, <1>11, <1>13 DEF QInv

LEMMA NextQInv == IInv /\ QInv /\ [Next]_vars => QInv'
<1>. SUFFICES ASSUME IInv, QInv, [Next]_vars PROVE QInv'
  OBVIOUS
<1>1. CASE TimerInterrupt
  <2>1. (notifier = "awaiting" => event_pending = 0)'
    BY <1>1 DEF TimerInterrupt
  <2>. QED  BY <1>1, <2>1, QueueKept DEF TimerInterrupt
<1>2. CASE NotifierAwait
  <2>1. (notifier = "awaiting" => event_pending = 0)'
    BY <1>2 DEF NotifierAwait, IInv, Types
  <2>. QED  BY <1>2, <2>1, QueueKept DEF NotifierAwait
<1>3. CASE NotifierSend
  <2>1. [from |-> Notifier, type |-> "NOTIFY", ticks |-> 0] \in Messages
    BY DEF Messages
  <2>2. \E m \in Messages : m.from = Notifier /\ inbox' = Append(inbox, m)
    BY <1>3, <2>1 DEF NotifierSend
  <2>. QED  BY <1>3, <2>2, QueueKept DEF NotifierSend
<1>4. CASE ServerStep
  BY <1>4, StepNotify, StepServe
<1>5. CASE \E c \in Clients, req \in Requests : Request(c, req)
  BY <1>5, StepRequest
<1>6. CASE UNCHANGED vars
  BY <1>6, QueueKept DEF vars, QInv, Calls
<1>. QED  BY <1>1, <1>2, <1>3, <1>4, <1>5, <1>6 DEF Next

\* A client is counted once when it waits and not at all when it does not.
LEMMA QInvSuffices == IInv /\ QInv => DelayQueue
<1>. SUFFICES ASSUME IInv, QInv PROVE DelayQueue
  OBVIOUS
<1>1. /\ delay_queue \in Heaps /\ IsHeap(delay_queue) /\ Len(delay_queue) <= MAX_DELAY_TASKS
      /\ Len(delay_queue) \in Nat /\ DOMAIN delay_queue = 1..Len(delay_queue)
  BY HeapsAre, LenProperties DEF QInv, Queue
<1>2. \A i \in 1..Len(delay_queue) : Key(delay_queue, i) > current_tick
  BY <1>1 DEF QInv, Queue, Range, Key
<1>3. ASSUME NEW c \in Clients
      PROVE  Cardinality({i \in Requesters : inbox[i].from = c})
               + Cardinality({i \in 1..Len(delay_queue) : delay_queue[i].item = c})
             = IF client[c] = "waiting" THEN 1 ELSE 0
  <2>1. PICK A, B : /\ A = {i \in Requesters : inbox[i].from = c}
                    /\ B = {i \in 1..Len(delay_queue) : delay_queue[i].item = c}
    OBVIOUS
  <2>2. Cardinality(A) = IF Requested(c) THEN 1 ELSE 0
    <3>1. CASE Requested(c)
      <4>1. A = {1}
        BY <2>1, <3>1 DEF Requested, QInv, First
      <4>. QED  BY <3>1, <4>1, FS_Singleton
    <3>2. CASE ~Requested(c)
      <4>1. A = {}
        BY <2>1, <3>2 DEF Requested
      <4>. QED  BY <3>2, <4>1, FS_EmptySet
    <3>. QED  BY <3>1, <3>2
  <2>3. Cardinality(B) = IF Sleeps(c) THEN 1 ELSE 0
    <3>1. CASE Sleeps(c)
      <4>1. PICK i \in 1..Len(delay_queue) : delay_queue[i].item = c
        BY <1>1, <3>1 DEF Sleeps, Range
      <4>2. B = {i}
        BY <2>1, <4>1 DEF QInv, Queue, Distinct
      <4>. QED  BY <3>1, <4>2, FS_Singleton
    <3>2. CASE ~Sleeps(c)
      <4>1. B = {}
        BY <1>1, <2>1, <3>2 DEF Sleeps, Range
      <4>. QED  BY <3>2, <4>1, FS_EmptySet
    <3>. QED  BY <3>1, <3>2
  <2>4. /\ client[c] = "waiting" <=> Requested(c) \/ Sleeps(c)
        /\ ~(Requested(c) /\ Sleeps(c))
    BY DEF QInv, Calls
  <2>5. Cardinality(A) + Cardinality(B) = IF client[c] = "waiting" THEN 1 ELSE 0
    BY <2>2, <2>3, <2>4
  <2>. QED  BY <2>1, <2>5
<1>. QED  BY <1>1, <1>2, <1>3 DEF DelayQueue

\* DelayQueue: for any clients, any capacity and any arguments, the delay queue stays a
\* heap within its capacity, a waiting client is in one place and once, and nobody sleeps
\* past his tick (min_heap.c, insert_delay_entry and the loop of CLOCK_MSG_NOTIFY).
THEOREM NobodyOverslept == Spec => []DelayQueue
<1>1. Init => IInv /\ QInv
  BY InitIInv, InitQInv
<1>2. (IInv /\ QInv) /\ [Next]_vars => (IInv /\ QInv)'
  BY NextIInv, NextQInv
<1>. QED  BY <1>1, <1>2, QInvSuffices, PTL DEF Spec

Honoured ==
  \A c \in Clients :
    client[c] = "waiting" /\ client'[c] = "running" /\ status'[c] = "ok" => timer >= due[c]

\* Only two steps of the server answer with a tick: a request that is not for later, and
\* the drained delays, whose ticks are not beyond the one being counted.
LEMMA NextHonoured == IInv /\ QInv /\ [Next]_vars => Honoured
<1>. SUFFICES ASSUME IInv, QInv, [Next]_vars,
                     NEW c \in Clients, client[c] = "waiting", client'[c] = "running",
                     status'[c] = "ok"
              PROVE  timer >= due[c]
  BY DEF Honoured
<1>0. /\ timer \in Nat /\ current_tick \in Nat /\ event_pending \in Nat /\ due[c] \in Nat
      /\ timer >= current_tick
      /\ notifier = "sent" => timer >= current_tick + 1
  BY DEF IInv, Types, TicksConserved, QInv, Calls
<1>1. CASE TimerInterrupt \/ NotifierAwait \/ NotifierSend \/ UNCHANGED vars
  BY <1>1 DEF TimerInterrupt, NotifierAwait, NotifierSend, vars
<1>2. CASE ServerStep /\ Head(inbox).from = Notifier
  <2>1. inbox # <<>> /\ inbox' = Tail(inbox) /\ Notify
    BY <1>2 DEF ServerStep
  <2>2. Requesters = {}
    BY <1>2, <2>1, NoneLeft
  <2>3. notifier = "sent"
    <3>1. inbox \in Seq(Messages)
      BY DEF IInv, Types
    <3>2. 1 \in 1..Len(inbox) /\ inbox[1] = Head(inbox)
      BY <2>1, <3>1, HeadTailProperties, LenProperties, EmptySeq
    <3>. QED  BY <1>2, <3>2 DEF IInv, OneNotification
  <2>4. PICK h, g, t : h = delay_queue /\ t = current_tick + 1 /\ g = Drained(h, t)
    OBVIOUS
  <2>5. h \in Heaps /\ IsHeap(h) /\ Distinct(h) /\ t \in Nat
    BY <2>4 DEF QInv, Queue, IInv, Types
  <2>6. g \in Heaps /\ \A e \in Range(h) : e \in Range(g) \/ e.key <= t
    BY <2>4, <2>5, DrainedDoes
  <2>7. c \in Delayed(h) \ Delayed(g)
    BY <2>1, <2>4 DEF Notify, ReplyTo
  <2>8. DOMAIN g = 1..Len(g) /\ DOMAIN h = 1..Len(h)
    BY <2>5, <2>6, HeapsAre, LenProperties
  <2>9. PICK e \in Range(h) : e.item = c /\ e \notin Range(g)
    BY <2>7, <2>8 DEF Delayed, Range
  <2>10. e.key <= t /\ e.key = due[c]
    BY <2>4, <2>6, <2>9 DEF QInv, Queue
  <2>. QED  BY <1>0, <2>3, <2>4, <2>10
<1>3. CASE ServerStep /\ Head(inbox).from # Notifier
  <2>1. PICK req : req = Head(inbox)
    OBVIOUS
  <2>2. inbox # <<>> /\ inbox' = Tail(inbox) /\ Serve(req)
    BY <1>3, <2>1 DEF ServerStep
  <2>3. Requesters = {1} /\ req = inbox[1]
    BY <1>3, <2>1, <2>2, NoneLeft
  <2>4. WakeTick(req) = due[req.from] /\ (req.type = "TIME" => due[req.from] = 0)
    BY <2>3 DEF QInv, First
  <2>5. CASE ReplyTo({req.from}, "ok") /\ (req.type = "TIME" \/ WakeTick(req) <= current_tick)
    <3>1. req.from = c
      BY <2>5 DEF ReplyTo
    <3>. QED  BY <1>0, <2>4, <2>5, <3>1
  <2>6. CASE InsertDelayEntry(req.from, WakeTick(req))
    BY <2>6 DEF InsertDelayEntry, ReplyTo
  <2>. QED  BY <2>2, <2>5, <2>6 DEF Serve
<1>4. CASE \E d \in Clients, req \in Requests : Request(d, req)
  BY <1>4 DEF Request, QInv, Calls
<1>. QED  BY <1>1, <1>2, <1>3, <1>4 DEF Next

\* DelayHonoured: a call that succeeds returns only when as many timer interrupts have
\* come as it was to wait for, whatever the server was busy with (clock_server_task).
THEOREM NobodyWokenEarly == Spec => DelayHonoured
<1>1. Init => IInv /\ QInv
  BY InitIInv, InitQInv
<1>2. (IInv /\ QInv) /\ [Next]_vars => (IInv /\ QInv)'
  BY NextIInv, NextQInv
<1>3. (IInv /\ QInv) /\ [Next]_vars => [Honoured]_vars
  BY NextHonoured
<1>4. Spec => [][Honoured]_vars
  BY <1>1, <1>2, <1>3, PTL DEF Spec
<1>. QED  BY <1>4 DEF DelayHonoured, Honoured
===============================================================================
