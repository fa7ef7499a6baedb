-------------------------- MODULE GameManagerProofs --------------------------
(***************************************************************************)
(* The game for any trains, sensors, routes, numbers of rounds and sizes   *)
(* of the event ring: the first of two players at a sensor gets the larger *)
(* share, every hit of a round is counted before the round ends, and a     *)
(* role is done only when its train has come to stand since the pick.      *)
(***************************************************************************)
EXTENDS GameManager, QueueLemmas

-----------------------------------------------------------------------------
(* The invariant *)

GameFields ==
  {"state", "step", "pending", "entered", "train", "target", "done", "standby", "stood",
   "round", "first", "claims", "used", "score", "started"}

\* What the scores are counted from.
Counted(g) ==
  /\ g.claims \subseteq Players \X Sensors /\ IsFiniteSet(g.claims)
  /\ DOMAIN g.score = Players

\* The points of each player for the claims C, those of L made before the other player.
Own(r, C) == {c \in C : c[1] = r}
Shares(C, L, score) ==
  \A r \in Players : score[r] = 2 * Cardinality(Own(r, C)) + Cardinality(Own(r, C) \cap L)

Formed(g) ==
  /\ DOMAIN g = GameFields /\ DOMAIN g.entered = 1..3
  /\ g.first \in Players /\ Counted(g)

\* The trains have all been given, and are different.
Cast(g) ==
  /\ DOMAIN g.train = Roles
  /\ \A r \in Roles : g.train[r] \in Trains
  /\ \A r, u \in Roles : g.train[r] = g.train[u] => r = u

Event(e) == e.type \in {"hit", "stop"} /\ (e.type = "hit" => e.sensor \in Sensors)

\* The ring keeps at least the events of the game since its last tick.
Ring ==
  /\ \E S : events \in Seq(S)
  /\ \A i \in 1..Len(events) : Event(events[i])
  /\ Len(events) <= POS_GAME_EVENT_CAP
  /\ news \in Nat /\ news <= Len(events)

Shapes ==
  /\ Formed(game)
  /\ DOMAIN pos = Trains /\ \A t \in Trains : DOMAIN pos[t] = PosFields
  /\ Ring

\* How many trains have been entered, the one that still looks for its position included.
Given(g) == IF g.pending > 0 THEN g.pending ELSE g.step

EnteredOnce(g) ==
  /\ g.step \in 0..3 /\ g.pending \in 0..3 /\ g.done = {}
  /\ \A i \in 1..Given(g) : g.entered[i] \in Trains
  /\ \A i, j \in 1..Given(g) : g.entered[i] = g.entered[j] => i = j

\* A match under way: no train looks for its position any more.
Playing ==
  game.state \in {"WAIT_PICK", "ROUND_RUNNING"} =>
    /\ Cast(game) /\ game.round \in Nat
    /\ \A r \in Roles : pos[game.train[r]].st # "finding"

\* A stop that the game may still read, or see in the position, is one of this round.
StopsOfRound ==
  game.state = "ROUND_RUNNING" /\ game.round \notin early =>
    /\ game.done \subseteq arrived
    /\ \A i \in 1..Len(events), r \in Roles :
         events[i].type = "stop" /\ events[i].train = game.train[r]
           /\ SameSensor(events[i].sensor, game.target[r]) => r \in arrived
    /\ \A r \in Roles : StoppedAtTarget(pos[game.train[r]], game.target[r]) => r \in arrived

\* A hit of this round is claimed or among the last events, those since the last tick.
HitsOfRound ==
  game.state = "ROUND_RUNNING" =>
    \A c \in earned :
      \/ c \in game.claims
      \/ \E j \in 1..news, r \in Players :
           LET e == events[Len(events) + 1 - j]
           IN  e.type = "hit" /\ e.train = game.train[r] /\ c = <<r, e.sensor>>

\* ConsumeEvents for any events: game_consume_events reads es from the game g on.
Consumed(es, g) ==
  LET after[n \in 0..Len(es)] == IF n = 0 THEN g ELSE NoteEvent(after[n - 1], es[n])
  IN  after[Len(es)]

\* The claims are the hits of the match, and the points their shares, once all is read.
Tallied(g, E, L) == g.claims = E /\ Shares(E, L, g.score)
HitsTallied ==
  /\ led \subseteq earned
  /\ game.state = "SETUP" => earned = {}
  /\ game.state = "WAIT_PICK" => earned \subseteq game.claims
  /\ early = {} =>
       /\ Shares(game.claims, led, game.score)
       /\ game.state \in {"WAIT_PICK", "MATCH_OVER"} => game.claims = earned
       /\ game.state = "ROUND_RUNNING" =>
            /\ Len(events) = news /\ game.claims \subseteq earned
            /\ Tallied(Consumed(events, game), earned, led)

IInv ==
  /\ Shapes
  /\ game.state = "SETUP" => EnteredOnce(game)
  /\ game.state = "WAIT_PICK" => game.done = {}
  /\ Playing /\ StopsOfRound /\ HitsOfRound /\ HitsTallied /\ HitsScored

-----------------------------------------------------------------------------
(* The scores *)

\* The names of the roles.
LEMMA RoleNames ==
  /\ Human # AI /\ Human # Neutral /\ AI # Neutral
  /\ Players \subseteq Roles /\ Other(Human) = AI /\ Other(AI) = Human
BY DEF Human, AI, Neutral, Players, Roles, Other

\* No claims, no points.
LEMMA NothingCounted ==
  ASSUME NEW g, g.claims = {}, g.score = [r \in Players |-> 0]
  PROVE  Counted(g) /\ \A L : Shares({}, L, g.score)
<1>1. Cardinality({}) = 0 /\ IsFiniteSet({})
  BY FS_EmptySet
<1>2. \A r, L : Own(r, {}) = {} /\ {} \cap L = {}
  BY DEF Own
<1>. QED  BY <1>1, <1>2 DEF Counted, Shares

\* A new claim is worth two half points, and one more to the first of the two players.
LEMMA ClaimShared ==
  ASSUME NEW C, IsFiniteSet(C), NEW L, L \subseteq C, NEW r \in Players, NEW s,
         <<r, s>> \notin C,
         NEW score, DOMAIN score = Players, Shares(C, L, score),
         NEW M, M = L \cup (IF <<Other(r), s>> \in C THEN {} ELSE {<<r, s>>})
  PROVE  Shares(C \cup {<<r, s>>}, M,
                [score EXCEPT ![r] = @ + (IF <<Other(r), s>> \in C THEN 2 ELSE 3)])
<1>. DEFINE w == IF <<Other(r), s>> \in C THEN 2 ELSE 3
            v == IF <<Other(r), s>> \in C THEN 0 ELSE 1
<1>0. PICK c : c = <<r, s>> /\ c[1] = r
  OBVIOUS
<1>1. ASSUME NEW q \in Players
      PROVE  /\ IsFiniteSet(Own(q, C)) /\ Cardinality(Own(q, C)) \in Nat
             /\ IsFiniteSet(Own(q, C) \cap L) /\ Cardinality(Own(q, C) \cap L) \in Nat
  BY FS_Subset, FS_CardinalityType DEF Own
<1>2. ASSUME NEW q \in Players, q # r
      PROVE  Own(q, C \cup {c}) = Own(q, C) /\ Own(q, C) \cap M = Own(q, C) \cap L
  BY <1>0, <1>2 DEF Own
<1>3. Own(r, C \cup {c}) = Own(r, C) \cup {c} /\ c \notin Own(r, C)
  BY <1>0 DEF Own
<1>4. Cardinality(Own(r, C) \cup {c}) = Cardinality(Own(r, C)) + 1
  BY <1>1, <1>3, FS_AddElement
<1>5. Cardinality((Own(r, C) \cup {c}) \cap M) = Cardinality(Own(r, C) \cap L) + v
  <2>1. CASE <<Other(r), s>> \in C
    <3>1. (Own(r, C) \cup {c}) \cap M = Own(r, C) \cap L /\ v = 0
      BY <1>0, <2>1
    <3>2. Cardinality((Own(r, C) \cup {c}) \cap M) = Cardinality(Own(r, C) \cap L)
      BY <3>1, Zenon
    <3>3. Cardinality(Own(r, C) \cap L) \in Nat
      BY <1>1
    <3>. HIDE DEF v
    <3>. QED  BY <3>1, <3>2, <3>3
  <2>2. CASE <<Other(r), s>> \notin C
    <3>1. (Own(r, C) \cup {c}) \cap M = (Own(r, C) \cap L) \cup {c} /\ v = 1
      BY <1>0, <2>2
    <3>2. c \notin Own(r, C) \cap L
      BY <1>3
    <3>3. Cardinality((Own(r, C) \cap L) \cup {c}) = Cardinality(Own(r, C) \cap L) + 1
      BY <1>1, <3>2, FS_AddElement
    <3>. QED  BY <3>1, <3>3
  <2>. QED  BY <2>1, <2>2
<1>6. w = 2 + v /\ v \in Nat
  OBVIOUS
<1>. DEFINE new == [score EXCEPT ![r] = @ + w]
<1>7. new[r] = score[r] + w /\ \A q \in Players : q # r => new[q] = score[q]
  OBVIOUS
<1>8. score[r] = 2 * Cardinality(Own(r, C)) + Cardinality(Own(r, C) \cap L)
  BY DEF Shares
<1>. HIDE DEF w, v, new
<1>9. new[r] = 2 * Cardinality(Own(r, C \cup {c})) + Cardinality(Own(r, C \cup {c}) \cap M)
  <2>1. PICK m \in Nat, n \in Nat : /\ m = Cardinality(Own(r, C))
                                   /\ n = Cardinality(Own(r, C) \cap L)
    BY <1>1
  <2>2. new[r] = (2 * m + n) + (2 + v)
    BY <1>6, <1>7, <1>8, <2>1
  <2>3. (2 * m + n) + (2 + v) = 2 * (m + 1) + (n + v)
    BY <1>6
  <2>4. /\ Cardinality(Own(r, C \cup {c})) = m + 1
        /\ Cardinality(Own(r, C \cup {c}) \cap M) = n + v
    BY <1>3, <1>4, <1>5, <2>1
  <2>. QED  BY <2>2, <2>3, <2>4
<1>10. ASSUME NEW q \in Players
       PROVE  new[q] = 2 * Cardinality(Own(q, C \cup {c})) + Cardinality(Own(q, C \cup {c}) \cap M)
  BY <1>2, <1>7, <1>9 DEF Shares
<1>. QED  BY <1>0, <1>10 DEF Shares, new, w
-----------------------------------------------------------------------------
(* The events of a tick *)

\* What reading events leaves alone.
Same(g, h) ==
  /\ h.state = g.state /\ h.step = g.step /\ h.pending = g.pending
  /\ h.entered = g.entered /\ h.train = g.train /\ h.target = g.target
  /\ h.round = g.round /\ h.first = g.first
SameScores(g, h) == h.claims = g.claims /\ h.score = g.score

\* e is a stop of the train of r on its target.
StopOf(g, e, r) ==
  e.type = "stop" /\ e.train = g.train[r] /\ SameSensor(e.sensor, g.target[r])
\* e is a hit by the train of r.
HitOf(g, e, r) == e.type = "hit" /\ e.train = g.train[r]
\* h is g with a claim of r.
ClaimOf(g, h, r, s) ==
  /\ <<r, s>> \notin g.claims /\ h.claims = g.claims \cup {<<r, s>>}
  /\ h.score = [g.score EXCEPT ![r] = @ + (IF <<Other(r), s>> \in g.claims THEN 2 ELSE 3)]

LEMMA ClaimCounted ==
  ASSUME NEW g, NEW h, Counted(g), NEW r \in Players, NEW s \in Sensors, ClaimOf(g, h, r, s)
  PROVE  Counted(h)
<1>1. PICK c : c = <<r, s>>
  OBVIOUS
<1>2. h.claims = g.claims \cup {c} /\ IsFiniteSet(g.claims)
  BY <1>1 DEF Counted, ClaimOf
<1>3. IsFiniteSet(h.claims)
  BY <1>2, FS_AddElement
<1>. QED  BY <1>1, <1>2, <1>3 DEF Counted, ClaimOf

\* A train plays one role, so the role of an event is the one its hit counts for.
LEMMA NoteEventDoes ==
  ASSUME NEW g, Formed(g), Cast(g), g.state = "ROUND_RUNNING", NEW e, Event(e)
  PROVE  LET h == NoteEvent(g, e) IN
         /\ Formed(h) /\ Same(g, h)
         /\ g.claims \subseteq h.claims
         /\ \A r \in Players : HitOf(g, e, r) => <<r, e.sensor>> \in h.claims
         /\ \A r \in h.done : r \in g.done \/ (r \in Roles /\ StopOf(g, e, r))
         /\ \/ /\ \A r \in Players : HitOf(g, e, r) => <<r, e.sensor>> \in g.claims
               /\ SameScores(g, h)
            \/ \E r \in Players : HitOf(g, e, r) /\ ClaimOf(g, h, r, e.sensor)
<1>. DEFINE R == {r \in Roles : g.train[r] = e.train}
            h == NoteEvent(g, e)
<1>1. CASE R = {}
  <2>1. h = g
    BY <1>1 DEF NoteEvent
  <2>2. \A r \in Players : ~HitOf(g, e, r)
    BY <1>1, RoleNames DEF HitOf
  <2>. QED  BY <2>1, <2>2 DEF Same, SameScores
<1>2. CASE R # {}
  <2>. DEFINE q == CHOOSE r \in R : TRUE
  <2>1. q \in Roles /\ g.train[q] = e.train /\ \A r \in Roles : g.train[r] = e.train => r = q
    BY <1>2 DEF Cast
  <2>2. h = IF e.type = "hit" THEN NoteHit(g, q, e.sensor) ELSE NoteStop(g, q, e.sensor)
    BY <1>2 DEF NoteEvent
  <2>. HIDE DEF h, q
  <2>3. CASE e.type = "hit"
    <3>1. CASE q = Neutral \/ <<q, e.sensor>> \in g.claims
      <4>1. h = g
        BY <2>2, <2>3, <3>1 DEF NoteHit
      <4>2. \A r \in Players : HitOf(g, e, r) => <<r, e.sensor>> \in g.claims
        BY <2>1, <3>1, RoleNames DEF HitOf, Players
      <4>. QED  BY <4>1, <4>2 DEF Same, SameScores, h
    <3>2. CASE ~(q = Neutral \/ <<q, e.sensor>> \in g.claims)
      <4>1. h = [g EXCEPT !.claims = @ \cup {<<q, e.sensor>>},
                          !.score[q] = @ + (IF <<Other(q), e.sensor>> \in g.claims THEN 2 ELSE 3)]
        BY <2>2, <2>3, <3>2 DEF NoteHit
      <4>2. /\ DOMAIN h = GameFields /\ Same(g, h) /\ h.done = g.done
            /\ h.claims = g.claims \cup {<<q, e.sensor>>}
            /\ h.score = [g.score EXCEPT ![q] = @ + (IF <<Other(q), e.sensor>> \in g.claims
                                                    THEN 2 ELSE 3)]
        BY <4>1 DEF Formed, GameFields, Same
      <4>3. q \in Players /\ e.sensor \in Sensors
        BY <2>1, <2>3, <3>2 DEF Roles, Players, Event
      <4>4. ClaimOf(g, h, q, e.sensor) /\ HitOf(g, e, q)
        BY <2>1, <2>3, <3>2, <4>2 DEF ClaimOf, HitOf
      <4>a. Counted(h)
        BY <4>3, <4>4, ClaimCounted DEF Formed
      <4>5. Formed(h)
        BY <4>2, <4>a DEF Formed, Same
      <4>6. \A r \in Players : HitOf(g, e, r) => <<r, e.sensor>> \in h.claims
        BY <2>1, <4>2, RoleNames DEF HitOf
      <4>. QED  BY <4>2, <4>3, <4>4, <4>5, <4>6 DEF h
    <3>. QED  BY <3>1, <3>2
  <2>4. CASE e.type = "stop"
    <3>1. h = [g EXCEPT !.done = IF SameSensor(e.sensor, g.target[q]) THEN @ \cup {q} ELSE @,
                        !.stood = @ \/ (q = Neutral /\ SameSensor(e.sensor, g.standby))]
      BY <2>2, <2>4 DEF NoteStop
    <3>2. /\ DOMAIN h = GameFields /\ Same(g, h) /\ h.claims = g.claims /\ h.score = g.score
          /\ h.done = IF SameSensor(e.sensor, g.target[q]) THEN g.done \cup {q} ELSE g.done
      BY <3>1 DEF Formed, GameFields, Same
    <3>3. Formed(h)
      BY <3>2 DEF Formed, Counted, Same
    <3>4. \A r \in Players : ~HitOf(g, e, r)
      BY <2>4 DEF HitOf
    <3>5. \A r \in h.done : r \in g.done \/ (r \in Roles /\ StopOf(g, e, r))
      BY <2>1, <2>4, <3>2 DEF StopOf
    <3>. QED  BY <3>2, <3>3, <3>4, <3>5 DEF SameScores, h
  <2>. QED  BY <2>3, <2>4 DEF Event
<1>. QED  BY <1>1, <1>2

\* The values the loop of game_consume_events goes through.
Loop(es, g, N, f) == f = [n \in 0..N |-> IF n = 0 THEN g ELSE NoteEvent(f[n - 1], es[n])]

LEMMA LoopExists ==
  ASSUME NEW N \in Nat, NEW g, NEW es
  PROVE  \E f : Loop(es, g, N, f)
<1>. DEFINE Upto(f, m) == f = [n \in 0..m |-> IF n = 0 THEN g ELSE NoteEvent(f[n - 1], es[n])]
            T == {m \in 0..N : \E f : Upto(f, m)}
<1>1. 0 \in T
  <2>. DEFINE f == [n \in 0..0 |-> g]
  <2>1. Upto(f, 0)
    <3>1. \A n \in 0..0 : n = 0  OBVIOUS
    <3>2. f = [n \in 0..0 |-> IF n = 0 THEN g ELSE NoteEvent(f[n - 1], es[n])]
      BY <3>1
    <3>. QED  BY <3>2
  <2>. HIDE DEF Upto, f
  <2>2. 0 \in 0..N
    OBVIOUS
  <2>. QED  BY <2>1, <2>2
<1>2. ASSUME NEW m \in 0..(N - 1), m \in T PROVE m + 1 \in T
  <2>1. PICK f : Upto(f, m)
    BY <1>2
  <2>. DEFINE h == [n \in 0..(m + 1) |-> IF n = m + 1 THEN NoteEvent(f[m], es[m + 1])
                                         ELSE f[n]]
  <2>2. ASSUME NEW n \in 0..(m + 1)
        PROVE  h[n] = IF n = 0 THEN g ELSE NoteEvent(h[n - 1], es[n])
    <3>1. CASE n = m + 1
      <4>1. n # 0 /\ n - 1 = m /\ m \in 0..(m + 1) /\ m # m + 1
        BY <3>1
      <4>2. h[n] = NoteEvent(f[m], es[m + 1]) /\ h[m] = f[m]
        BY <3>1, <4>1
      <4>. QED  BY <3>1, <4>1, <4>2
    <3>2. CASE n # m + 1
      <4>1. n \in 0..m /\ h[n] = f[n]
        BY <3>2
      <4>2. f[n] = IF n = 0 THEN g ELSE NoteEvent(f[n - 1], es[n])
        BY <2>1, <4>1
      <4>3. n # 0 => n - 1 \in 0..(m + 1) /\ n - 1 # m + 1 /\ h[n - 1] = f[n - 1]
        BY <4>1
      <4>. QED  BY <4>1, <4>2, <4>3
    <3>. QED  BY <3>1, <3>2
  <2>3. Upto(h, m + 1)
    <3>1. h = [n \in 0..(m + 1) |-> h[n]]
      OBVIOUS
    <3>. HIDE DEF h
    <3>2. h = [n \in 0..(m + 1) |-> IF n = 0 THEN g ELSE NoteEvent(h[n - 1], es[n])]
      BY <2>2, <3>1
    <3>. QED  BY <3>2
  <2>4. m + 1 \in 0..N
    OBVIOUS
  <2>. QED  BY <2>3, <2>4
<1>3. N \in T
  <2>. HIDE DEF T
  <2>1. \A n \in 0..N : n \in T
    BY <1>1, <1>2, Stepwise
  <2>. QED  BY <2>1
<1>. QED  BY <1>3 DEF Loop

\* The course of the loop, event by event.
Course(es, g, f) ==
  /\ f[0] = g
  /\ \A n \in 0..(Len(es) - 1) : f[n + 1] = NoteEvent(f[n], es[n + 1])
  /\ Consumed(es, g) = f[Len(es)]

LEMMA Reading ==
  ASSUME NEW es, NEW g, Len(es) \in Nat
  PROVE  \E f : Course(es, g, f)
<1>. DEFINE N == Len(es)
            f == CHOOSE f : f = [n \in 0..N |-> IF n = 0 THEN g ELSE NoteEvent(f[n - 1], es[n])]
<1>1. Consumed(es, g) = f[N]
  BY DEF Consumed
<1>2. f = [n \in 0..N |-> IF n = 0 THEN g ELSE NoteEvent(f[n - 1], es[n])]
  <2>1. \E x : Loop(es, g, Len(es), x)
    BY LoopExists
  <2>2. \E x : x = [n \in 0..N |-> IF n = 0 THEN g ELSE NoteEvent(x[n - 1], es[n])]
    BY <2>1 DEF Loop
  <2>. QED  BY <2>2
<1>. HIDE DEF f
<1>3. f[0] = g /\ \A n \in 0..(N - 1) : f[n + 1] = NoteEvent(f[n], es[n + 1])
  <2>1. 0 \in 0..N /\ \A n \in 0..(N - 1) : n + 1 \in 0..N /\ n + 1 # 0 /\ (n + 1) - 1 = n
    OBVIOUS
  <2>. QED  BY <1>2, <2>1
<1>. QED  BY <1>1, <1>3 DEF Course

\* One tick reads all the events: every hit is claimed, and a role that becomes done has
\* stopped on its target.
LEMMA ConsumeDoes ==
  ASSUME NEW es, Len(es) \in Nat, \A i \in 1..Len(es) : Event(es[i]),
         NEW g, Formed(g), Cast(g), g.state = "ROUND_RUNNING"
  PROVE  LET h == Consumed(es, g) IN
         /\ Formed(h) /\ Same(g, h)
         /\ g.claims \subseteq h.claims
         /\ \A i \in 1..Len(es), r \in Players :
              HitOf(g, es[i], r) => <<r, es[i].sensor>> \in h.claims
         /\ \A r \in h.done : \/ r \in g.done
                              \/ r \in Roles /\ \E i \in 1..Len(es) : StopOf(g, es[i], r)
<1>. DEFINE N == Len(es)
<1>0. PICK f : Course(es, g, f)
  BY Reading
<1>3. f[0] = g /\ \A n \in 0..(N - 1) : f[n + 1] = NoteEvent(f[n], es[n + 1])
  BY <1>0 DEF Course
<1>. HIDE DEF N
<1>. DEFINE Good(h, n) ==
              /\ Formed(h) /\ Same(g, h)
              /\ g.claims \subseteq h.claims
              /\ \A i \in 1..n, r \in Players :
                   HitOf(g, es[i], r) => <<r, es[i].sensor>> \in h.claims
              /\ \A r \in h.done : \/ r \in g.done
                                   \/ r \in Roles /\ \E i \in 1..n : StopOf(g, es[i], r)
            T == {n \in 0..N : Good(f[n], n)}
<1>4. 0 \in T
  <2>1. Good(g, 0)
    BY DEF Same
  <2>. QED  BY <1>3, <2>1 DEF N
<1>5. ASSUME NEW n \in 0..(N - 1), n \in T PROVE n + 1 \in T
  <2>. DEFINE k == f[n]
              e == es[n + 1]
              h == NoteEvent(k, e)
  <2>1. Good(k, n)
    BY <1>5
  <2>2. n + 1 \in 1..N /\ n + 1 \in 0..N /\ 1..(n + 1) = (1..n) \cup {n + 1}
    BY DEF N
  <2>3. Event(e)
    BY <2>2 DEF N
  <2>4. Cast(k) /\ k.state = "ROUND_RUNNING"
    BY <2>1 DEF Cast, Same
  <2>5. \A r : /\ StopOf(k, e, r) <=> StopOf(g, e, r)
               /\ HitOf(k, e, r) <=> HitOf(g, e, r)
    BY <2>1 DEF StopOf, HitOf, Same
  <2>. HIDE DEF k, e
  <2>6. /\ Formed(h) /\ Same(k, h)
        /\ k.claims \subseteq h.claims
        /\ \A r \in Players : HitOf(k, e, r) => <<r, e.sensor>> \in h.claims
        /\ \A r \in h.done : r \in k.done \/ (r \in Roles /\ StopOf(k, e, r))
    BY <2>1, <2>3, <2>4, NoteEventDoes
  <2>. HIDE DEF h
  <2>7. Good(h, n + 1)
    <3>1. Formed(h) /\ Same(g, h) /\ g.claims \subseteq h.claims
      BY <2>1, <2>6 DEF Same
    <3>2. ASSUME NEW i \in 1..(n + 1), NEW r \in Players, HitOf(g, es[i], r)
          PROVE  <<r, es[i].sensor>> \in h.claims
      <4>1. CASE i \in 1..n  BY <2>1, <2>6, <3>2, <4>1
      <4>2. CASE i = n + 1  BY <2>5, <2>6, <3>2, <4>2 DEF e
      <4>. QED  BY <2>2, <4>1, <4>2
    <3>3. ASSUME NEW r \in h.done
          PROVE  \/ r \in g.done
                 \/ r \in Roles /\ \E i \in 1..(n + 1) : StopOf(g, es[i], r)
      <4>1. CASE r \in k.done  BY <2>1, <2>2, <4>1
      <4>2. CASE r \in Roles /\ StopOf(k, e, r)
        <5>1. n + 1 \in 1..(n + 1) /\ StopOf(g, es[n + 1], r)
          BY <2>2, <2>5, <4>2 DEF e
        <5>. QED  BY <4>2, <5>1
      <4>. QED  BY <2>6, <4>1, <4>2
    <3>. QED  BY <3>1, <3>2, <3>3
  <2>8. f[n + 1] = h
    BY <1>3 DEF h, k, e
  <2>. QED  BY <2>2, <2>7, <2>8
<1>6. N \in T
  <2>. HIDE DEF T
  <2>1. \A n \in 0..N : n \in T
    BY <1>4, <1>5, Stepwise DEF N
  <2>. QED  BY <2>1 DEF N
<1>7. Good(f[N], N)
  BY <1>6
<1>. QED  BY <1>0, <1>7 DEF N, Course

\* The points depend on the events, the trains of the roles and the points so far only.
LEMMA SameNote ==
  ASSUME NEW g, NEW k, Formed(g), Formed(k), Cast(g), k.train = g.train,
         g.state = "ROUND_RUNNING", k.state = "ROUND_RUNNING", SameScores(g, k),
         NEW e, Event(e)
  PROVE  SameScores(NoteEvent(g, e), NoteEvent(k, e))
<1>. DEFINE h == NoteEvent(g, e)
            m == NoteEvent(k, e)
<1>1. Cast(k) /\ \A r : HitOf(k, e, r) <=> HitOf(g, e, r)
  BY DEF Cast, HitOf
<1>2. \/ /\ \A r \in Players : HitOf(g, e, r) => <<r, e.sensor>> \in g.claims
         /\ SameScores(g, h)
      \/ \E r \in Players : HitOf(g, e, r) /\ ClaimOf(g, h, r, e.sensor)
  BY NoteEventDoes
<1>3. \/ /\ \A r \in Players : HitOf(k, e, r) => <<r, e.sensor>> \in k.claims
         /\ SameScores(k, m)
      \/ \E r \in Players : HitOf(k, e, r) /\ ClaimOf(k, m, r, e.sensor)
  BY <1>1, NoteEventDoes
<1>4. \A q, r \in Players : HitOf(g, e, q) /\ HitOf(g, e, r) => q = r
  BY RoleNames DEF Cast, HitOf
<1>. HIDE DEF h, m
<1>5. SameScores(h, m)
  <2>1. g.claims = k.claims /\ g.score = k.score
    BY DEF SameScores
  <2>2. CASE \A r \in Players : HitOf(g, e, r) => <<r, e.sensor>> \in g.claims
    <3>1. \A r \in Players : HitOf(g, e, r) => /\ ~ClaimOf(g, h, r, e.sensor)
                                              /\ ~ClaimOf(k, m, r, e.sensor)
      BY <2>1, <2>2 DEF ClaimOf
    <3>2. SameScores(g, h) /\ SameScores(k, m)
      BY <1>1, <1>2, <1>3, <3>1
    <3>. QED  BY <2>1, <3>2 DEF SameScores
  <2>3. CASE \E r \in Players : HitOf(g, e, r) /\ <<r, e.sensor>> \notin g.claims
    <3>1. PICK r \in Players : HitOf(g, e, r) /\ <<r, e.sensor>> \notin g.claims
      BY <2>3
    <3>2. ClaimOf(g, h, r, e.sensor) /\ ClaimOf(k, m, r, e.sensor)
      BY <1>1, <1>2, <1>3, <1>4, <2>1, <3>1
    <3>. QED  BY <2>1, <3>2 DEF SameScores, ClaimOf
  <2>. QED  BY <2>2, <2>3
<1>. QED  BY <1>5 DEF h, m

\* Reading the events es from g, and reading them with perhaps one more from k.
LEMMA SameReading ==
  ASSUME NEW es, Len(es) \in Nat, \A i \in 1..Len(es) : Event(es[i]),
         NEW g, NEW k, Formed(g), Formed(k), Cast(g), k.train = g.train,
         g.state = "ROUND_RUNNING", k.state = "ROUND_RUNNING", SameScores(g, k),
         NEW f, Course(es, g, f),
         NEW h, h[0] = k, \A n \in 0..(Len(es) - 1) : h[n + 1] = NoteEvent(h[n], es[n + 1])
  PROVE  LET N == Len(es) IN
         /\ SameScores(f[N], h[N]) /\ Formed(h[N]) /\ Same(k, h[N])
         /\ Formed(f[N]) /\ Same(g, f[N])
<1>. DEFINE N == Len(es)
            Good(n) == /\ Formed(f[n]) /\ Same(g, f[n])
                       /\ Formed(h[n]) /\ Same(k, h[n]) /\ SameScores(f[n], h[n])
            T == {n \in 0..N : Good(n)}
<1>0. N \in Nat /\ f[0] = g /\ \A n \in 0..(N - 1) : f[n + 1] = NoteEvent(f[n], es[n + 1])
  BY DEF Course
<1>1. 0 \in T
  <2>1. Good(0)
    BY <1>0 DEF Same
  <2>. QED  BY <1>0, <2>1
<1>2. ASSUME NEW n \in 0..(N - 1), n \in T PROVE n + 1 \in T
  <2>. DEFINE a == f[n]
              b == h[n]
              e == es[n + 1]
  <2>1. Good(n)
    BY <1>2
  <2>2. Event(e) /\ n + 1 \in 0..N
    <3>1. n + 1 \in 1..N /\ n + 1 \in 0..N
      BY <1>0
    <3>. QED  BY <3>1
  <2>3. /\ Cast(a) /\ a.state = "ROUND_RUNNING" /\ Cast(b) /\ b.state = "ROUND_RUNNING"
        /\ b.train = a.train
    BY <2>1 DEF Cast, Same
  <2>4. f[n + 1] = NoteEvent(a, e) /\ h[n + 1] = NoteEvent(b, e)
    BY <1>0
  <2>. HIDE DEF a, b, e
  <2>5. Formed(a) /\ Formed(b) /\ SameScores(a, b)
    BY <2>1 DEF a, b
  <2>6. /\ Formed(NoteEvent(a, e)) /\ Same(a, NoteEvent(a, e))
        /\ Formed(NoteEvent(b, e)) /\ Same(b, NoteEvent(b, e))
    BY <2>2, <2>3, <2>5, NoteEventDoes
  <2>7. SameScores(NoteEvent(a, e), NoteEvent(b, e))
    BY <2>2, <2>3, <2>5, SameNote
  <2>8. Same(g, a) /\ Same(k, b)
    BY <2>1 DEF a, b
  <2>9. Good(n + 1)
    BY <2>4, <2>6, <2>7, <2>8 DEF Same
  <2>. QED  BY <2>2, <2>9
<1>3. N \in T
  <2>. HIDE DEF T
  <2>1. \A n \in 0..N : n \in T
    BY <1>0, <1>1, <1>2, Stepwise
  <2>. QED  BY <1>0, <2>1
<1>. QED  BY <1>3

\* Nothing but the trains of the roles and the points so far matters to the points.
LEMMA SameConsumed ==
  ASSUME NEW es, Len(es) \in Nat, \A i \in 1..Len(es) : Event(es[i]),
         NEW g, NEW k, Formed(g), Formed(k), Cast(g), k.train = g.train,
         g.state = "ROUND_RUNNING", k.state = "ROUND_RUNNING", SameScores(g, k)
  PROVE  SameScores(Consumed(es, g), Consumed(es, k))
<1>1. PICK f : Course(es, g, f)
  BY Reading
<1>2. PICK h : Course(es, k, h)
  BY Reading
<1>3. SameScores(f[Len(es)], h[Len(es)])
  <2>1. h[0] = k /\ \A n \in 0..(Len(es) - 1) : h[n + 1] = NoteEvent(h[n], es[n + 1])
    BY <1>2 DEF Course
  <2>. QED  BY <1>1, <2>1, SameReading
<1>4. Consumed(es, g) = f[Len(es)] /\ Consumed(es, k) = h[Len(es)]
  BY <1>1, <1>2 DEF Course
<1>. QED  BY <1>3, <1>4

\* One more event at the end of the ring is noted after the others.
LEMMA ConsumedMore ==
  ASSUME NEW es, Len(es) \in Nat, \A i \in 1..Len(es) : Event(es[i]),
         NEW ds, Len(ds) = Len(es) + 1, \A i \in 1..Len(es) : ds[i] = es[i],
         NEW e, ds[Len(es) + 1] = e, Event(e),
         NEW g, Formed(g), Cast(g), g.state = "ROUND_RUNNING"
  PROVE  LET k == Consumed(es, g)
             h == Consumed(ds, g)
         IN  \/ /\ \A r \in Players : HitOf(g, e, r) => <<r, e.sensor>> \in k.claims
                /\ SameScores(k, h)
             \/ \E r \in Players : HitOf(g, e, r) /\ ClaimOf(k, h, r, e.sensor)
<1>. DEFINE N == Len(es)
<1>1. PICK f : Course(es, g, f)
  BY Reading
<1>2. Len(ds) \in Nat
  OBVIOUS
<1>3. PICK h : Course(ds, g, h)
  BY <1>2, Reading
<1>4. /\ h[0] = g /\ Consumed(ds, g) = h[N + 1] /\ h[N + 1] = NoteEvent(h[N], e)
      /\ \A n \in 0..(N - 1) : h[n + 1] = NoteEvent(h[n], es[n + 1])
  <2>1. N \in 0..(Len(ds) - 1) /\ Len(ds) = N + 1
    OBVIOUS
  <2>2. \A n \in 0..(N - 1) : n \in 0..(Len(ds) - 1) /\ n + 1 \in 1..N
    OBVIOUS
  <2>. QED  BY <1>3, <2>1, <2>2 DEF Course
<1>5. SameScores(g, g)
  BY DEF SameScores
<1>6. SameScores(f[N], h[N]) /\ Formed(h[N]) /\ Same(g, h[N])
  BY <1>1, <1>4, <1>5, SameReading
<1>7. Consumed(es, g) = f[N]
  BY <1>1 DEF Course
<1>. DEFINE b == h[N]
            m == NoteEvent(b, e)
<1>8. /\ Cast(b) /\ b.state = "ROUND_RUNNING" /\ \A r : HitOf(b, e, r) <=> HitOf(g, e, r)
  BY <1>6 DEF Cast, Same, HitOf
<1>. HIDE DEF b
<1>9. \/ /\ \A r \in Players : HitOf(b, e, r) => <<r, e.sensor>> \in b.claims
         /\ SameScores(b, m)
      \/ \E r \in Players : HitOf(b, e, r) /\ ClaimOf(b, m, r, e.sensor)
  BY <1>6, <1>8, NoteEventDoes DEF b
<1>10. Consumed(ds, g) = m /\ SameScores(Consumed(es, g), b)
  BY <1>4, <1>6, <1>7 DEF b
<1>. HIDE DEF m
<1>. QED  BY <1>8, <1>9, <1>10 DEF SameScores, ClaimOf

-----------------------------------------------------------------------------
(* The position server between two steps of the game *)

SameGame(g, h) ==
  /\ DOMAIN h = DOMAIN g /\ Same(g, h)
  /\ h.done = g.done /\ SameScores(g, h)

\* A step that leaves the game as it is, or notes a place the neutral yields to.
LEMMA GameKept ==
  ASSUME IInv, SameGame(game, game'),
         DOMAIN pos' = Trains, \A t \in Trains : DOMAIN pos'[t] = PosFields,
         \A t \in Trains : pos'[t].st = "finding" => pos[t].st = "finding",
         Ring', StopsOfRound', HitsOfRound', HitsTallied',
         earned' = earned \/ game.state = "ROUND_RUNNING", early' = early
  PROVE  IInv'
<1>1. Formed(game')
  BY DEF Formed, Counted, SameGame, SameScores, Same, IInv, Shapes
<1>2. Shapes'
  BY <1>1 DEF Shapes
<1>3. (game.state = "SETUP" => EnteredOnce(game)) => (game.state = "SETUP" => EnteredOnce(game))'
  BY DEF EnteredOnce, Given, SameGame, Same
<1>4. Playing'
  BY DEF IInv, Playing, Cast, SameGame, Same
<1>5. HitsScored'
  BY DEF IInv, HitsScored, SameGame, SameScores, Same
<1>. QED  BY <1>2, <1>3, <1>4, <1>5 DEF IInv, SameGame, Same

\* What the events come to does not change with the place the neutral yields to.
LEMMA TallyKept ==
  ASSUME IInv, SameGame(game, game'), UNCHANGED <<events, news, history>>
  PROVE  HitsTallied'
<1>1. events' = events /\ news' = news /\ earned' = earned /\ led' = led /\ early' = early
  BY DEF history
<1>2. /\ game'.state = game.state /\ game'.claims = game.claims /\ game'.score = game.score
      /\ game'.train = game.train /\ SameScores(game, game')
  BY DEF SameGame, Same, SameScores
<1>3. ASSUME game.state = "ROUND_RUNNING"
      PROVE  SameScores(Consumed(events, game), Consumed(events, game'))
  <2>1. Formed(game')
    BY DEF Formed, Counted, SameGame, SameScores, Same, IInv, Shapes
  <2>2. Cast(game) /\ Formed(game)
    BY <1>3 DEF IInv, Playing, Shapes
  <2>3. Len(events) \in Nat /\ \A i \in 1..Len(events) : Event(events[i])
    BY LenProperties DEF IInv, Shapes, Ring
  <2>. QED  BY <1>2, <1>3, <2>1, <2>2, <2>3, SameConsumed
<1>. QED  BY <1>1, <1>2, <1>3 DEF IInv, HitsTallied, Tallied, SameScores

\* One train moves, or comes to stand without having arrived anywhere.
LEMMA OneTrain ==
  ASSUME IInv, NEW t \in Trains, NEW q, pos' = [pos EXCEPT ![t] = q],
         DOMAIN q = PosFields, q.st # "finding",
         q.st # "stopped" \/ pos[t].st = "finding",
         SameGame(game, game'), UNCHANGED <<events, news, history>>
  PROVE  IInv'
<1>1. /\ DOMAIN pos' = Trains /\ pos'[t] = q
      /\ \A u \in Trains : u # t => pos'[u] = pos[u]
      /\ \A u \in Trains : DOMAIN pos'[u] = PosFields
  BY DEF IInv, Shapes
<1>2. \A u \in Trains : pos'[u].st = "finding" => pos[u].st = "finding"
  BY <1>1
<1>3. StopsOfRound'
  <2>. SUFFICES ASSUME game.state = "ROUND_RUNNING" PROVE StopsOfRound'
    BY DEF StopsOfRound, SameGame, Same
  <2>1. \A r \in Roles : game.train[r] \in Trains /\ pos[game.train[r]].st # "finding"
    BY DEF IInv, Playing, Cast
  <2>2. \A r \in Roles : StoppedAtTarget(pos'[game.train[r]], game.target[r])
                           => StoppedAtTarget(pos[game.train[r]], game.target[r])
    BY <1>1, <2>1 DEF StoppedAtTarget
  <2>. QED  BY <2>2 DEF IInv, StopsOfRound, SameGame, Same, history
<1>4. HitsOfRound'
  BY DEF IInv, HitsOfRound, SameGame, SameScores, Same, history
<1>5. HitsTallied'
  BY TallyKept
<1>6. Ring'
  BY DEF IInv, Shapes, Ring
<1>. QED  BY <1>1, <1>2, <1>3, <1>4, <1>5, <1>6, GameKept DEF history

LEMMA SetGoalDoes ==
  ASSUME NEW q, DOMAIN q = PosFields, NEW s
  PROVE  DOMAIN SetGoal(q, s) = PosFields /\ SetGoal(q, s).st = "waiting"
BY DEF SetGoal, PosFields

\* A new event enters the ring and is the last of it; the oldest may leave.
LEMMA PublishDoes ==
  ASSUME IInv, NEW type \in {"hit", "stop"}, NEW t, NEW s, type = "hit" => s \in Sensors,
         Publish(type, t, s)
  PROVE  LET e == [type |-> type, train |-> t, sensor |-> s]
             n == Len(events)
         IN  /\ Ring'
             /\ \A i \in 1..Len(events') : \/ events'[i] = e
                                           \/ \E j \in 1..n : events'[i] = events[j]
             /\ game.state \notin {"OFF", "SETUP"} =>
                  /\ news' = news + 1 /\ events'[Len(events')] = e
                  /\ \A j \in 1..news : events'[Len(events') + 1 - (j + 1)] = events[n + 1 - j]
                  /\ n = news =>
                       /\ Len(events') = n + 1 /\ events'[n + 1] = e
                       /\ \A i \in 1..n : events'[i] = events[i]
<1>. DEFINE e == [type |-> type, train |-> t, sensor |-> s]
            all == Append(events, e)
            n == Len(events)
<1>0. /\ events' = Published(type, t, s)
      /\ \/ game.state \in {"OFF", "SETUP"} /\ news' = news
         \/ news < MAX_UNREAD /\ news' = news + 1
         \/ news < 1 /\ news' = news + 1
  BY DEF Publish
<1>1. PICK S : events \in Seq(S)
  BY DEF IInv, Shapes, Ring
<1>2. n \in Nat /\ events \in Seq(S \cup {e})
  <2>1. S \subseteq S \cup {e}  OBVIOUS
  <2>. QED  BY <1>1, <2>1, SeqMonotonic, LenProperties
<1>3. /\ all \in Seq(S \cup {e}) /\ all # <<>> /\ Len(all) = n + 1
      /\ \A i \in 1..n : all[i] = events[i] /\ all[n + 1] = e
  BY <1>2, AppendProperties
<1>4. all[n + 1] = e
  BY <1>2, AppendProperties
<1>5. events' = IF n + 1 > POS_GAME_EVENT_CAP THEN Tail(all) ELSE all
  BY <1>0, <1>3 DEF Published
<1>6. /\ Tail(all) \in Seq(S \cup {e}) /\ Len(Tail(all)) = n
      /\ \A i \in 1..n : Tail(all)[i] = all[i + 1]
  BY <1>2, <1>3, HeadTailProperties
<1>7. Event(e)
  BY DEF Event
<1>. HIDE DEF all, e, n
<1>8. \A i \in 1..(n + 1) : all[i] = e \/ (i \in 1..n /\ all[i] = events[i])
  BY <1>2, <1>3, <1>4
<1>9. ASSUME NEW i \in 1..Len(events')
      PROVE  events'[i] = e \/ \E j \in 1..n : events'[i] = events[j]
  <2>1. CASE events' = all
    BY <1>3, <1>8, <1>9, <2>1
  <2>2. CASE events' = Tail(all)
    <3>1. i \in 1..n /\ i + 1 \in 1..(n + 1) /\ events'[i] = all[i + 1]
      BY <1>2, <1>6, <1>9, <2>2
    <3>. QED  BY <1>8, <3>1
  <2>. QED  BY <1>5, <2>1, <2>2
<1>10. /\ \A j \in 1..n : Event(events[j])
       /\ n <= POS_GAME_EVENT_CAP /\ news \in Nat /\ news <= n
  BY DEF IInv, Shapes, Ring, n
<1>11. \A i \in 1..Len(events') : Event(events'[i])
  BY <1>7, <1>9, <1>10
<1>12. POS_GAME_EVENT_CAP \in Nat \ {0} /\ MAX_UNREAD \in Nat /\ MAX_UNREAD <= POS_GAME_EVENT_CAP
  BY GameAssumption
<1>13. \E Q : events' \in Seq(Q)
  BY <1>3, <1>5, <1>6
<1>14. /\ Len(events') <= POS_GAME_EVENT_CAP /\ news' \in Nat /\ news' <= Len(events')
  BY <1>0, <1>2, <1>3, <1>5, <1>6, <1>10, <1>12
<1>15. Ring'
  BY <1>11, <1>13, <1>14 DEF Ring
<1>16. ASSUME game.state \notin {"OFF", "SETUP"}
       PROVE  /\ news' = news + 1 /\ events'[Len(events')] = e
              /\ \A j \in 1..news : events'[Len(events') + 1 - (j + 1)] = events[n + 1 - j]
              /\ n = news =>
                   /\ Len(events') = n + 1 /\ events'[n + 1] = e
                   /\ \A i \in 1..n : events'[i] = events[i]
  <2>1. news' = news + 1 /\ news < POS_GAME_EVENT_CAP
    BY <1>0, <1>10, <1>12, <1>16
  <2>2. CASE events' = all
    <3>1. \A j \in 1..news : (n + 1) + 1 - (j + 1) = n + 1 - j /\ n + 1 - j \in 1..n
      BY <1>2, <1>10
    <3>. QED  BY <1>3, <1>4, <2>1, <2>2, <3>1
  <2>3. CASE events' = Tail(all) /\ events' # all
    <3>1. n = POS_GAME_EVENT_CAP /\ n # news
      BY <1>2, <1>5, <1>10, <1>12, <2>1, <2>3
    <3>2. n \in 1..n /\ Len(events') = n /\ events'[n] = e
      BY <1>2, <1>4, <1>6, <1>12, <2>3, <3>1
    <3>3. ASSUME NEW j \in 1..news
          PROVE  events'[n + 1 - (j + 1)] = events[n + 1 - j]
      <4>1. n - j \in 1..n /\ n + 1 - (j + 1) = n - j /\ n + 1 - j = (n - j) + 1
            /\ (n - j) + 1 \in 1..n
        BY <1>2, <1>10, <2>1, <3>1
      <4>. QED  BY <1>3, <1>6, <2>3, <4>1
    <3>. QED  BY <2>1, <3>1, <3>2, <3>3
  <2>. QED  BY <1>5, <2>2, <2>3
<1>. QED  BY <1>9, <1>15, <1>16 DEF e, n

\* A hit that has just been made is counted as the game will count it.
LEMMA HitTallied ==
  ASSUME IInv, NEW t \in Trains, NEW s \in Sensors, Hit(t, s)
  PROVE  HitsTallied'
<1>. DEFINE claim == IF game.state = "ROUND_RUNNING" THEN (RoleOf(t) \cap Players) \X {s} ELSE {}
            e == [type |-> "hit", train |-> t, sensor |-> s]
<1>1. /\ Publish("hit", t, s) /\ game' = game /\ early' = early
      /\ earned' = earned \cup claim
      /\ led' = led \cup {c \in claim : \A r \in Players : <<r, s>> \notin earned}
  BY DEF Hit
<1>2. led \subseteq earned /\ led' \subseteq earned'
  BY <1>1 DEF IInv, HitsTallied
<1>3. CASE game.state # "ROUND_RUNNING"
  <2>1. claim = {}
    BY <1>3
  <2>. HIDE DEF claim
  <2>2. earned' = earned /\ led' = led
    BY <1>1, <2>1
  <2>. QED  BY <1>1, <1>2, <1>3, <2>2 DEF IInv, HitsTallied
<1>4. CASE game.state = "ROUND_RUNNING" /\ early # {}
  BY <1>1, <1>2, <1>4 DEF HitsTallied
<1>5. CASE game.state = "ROUND_RUNNING" /\ early = {}
  <2>. DEFINE k == Consumed(events, game)
              h == Consumed(events', game)
  <2>1. /\ Cast(game) /\ Formed(game) /\ Len(events) = news /\ game.claims \subseteq earned
        /\ Shares(game.claims, led, game.score) /\ Tallied(k, earned, led)
    BY <1>5 DEF IInv, Playing, Shapes, HitsTallied
  <2>2. Len(events) \in Nat /\ \A i \in 1..Len(events) : Event(events[i])
    BY LenProperties DEF IInv, Shapes, Ring
  <2>3. /\ news' = news + 1 /\ Len(events') = Len(events) + 1
        /\ events'[Len(events) + 1] = e /\ \A i \in 1..Len(events) : events'[i] = events[i]
    BY <1>1, <1>5, <2>1, PublishDoes
  <2>4. Event(e) /\ e.sensor = s /\ \A r \in Players : HitOf(game, e, r) <=> r \in RoleOf(t)
    BY RoleNames DEF Event, HitOf, RoleOf
  <2>. HIDE DEF e
  <2>5. \/ /\ \A r \in Players : HitOf(game, e, r) => <<r, e.sensor>> \in k.claims
           /\ SameScores(k, h)
        \/ \E r \in Players : HitOf(game, e, r) /\ ClaimOf(k, h, r, e.sensor)
    BY <1>5, <2>1, <2>2, <2>3, <2>4, ConsumedMore
  <2>6. Formed(k)
    BY <1>5, <2>1, <2>2, ConsumeDoes
  <2>7. k.claims = earned /\ Shares(earned, led, k.score)
    BY <2>1 DEF Tallied
  <2>8. Shares(game.claims, led', game.score)
    <3>1. game.claims \cap led' = game.claims \cap led
      <4>1. ASSUME NEW c \in claim, \A r \in Players : <<r, s>> \notin earned
            PROVE  c \notin earned
        BY <1>5, <4>1
      <4>. HIDE DEF claim
      <4>. QED  BY <1>1, <2>1, <4>1
    <3>2. \A r : Own(r, game.claims) \cap led' = Own(r, game.claims) \cap led
      BY <3>1 DEF Own
    <3>. QED  BY <2>1, <3>2 DEF Shares
  <2>. HIDE DEF k, h
  <2>9. CASE /\ \A r \in Players : HitOf(game, e, r) => <<r, e.sensor>> \in k.claims
             /\ SameScores(k, h)
    <3>1. claim \subseteq earned
      BY <1>5, <2>4, <2>7, <2>9
    <3>2. {c \in claim : \A r \in Players : <<r, s>> \notin earned} = {}
      BY <1>5, <3>1
    <3>. HIDE DEF claim
    <3>3. earned' = earned /\ led' = led
      BY <1>1, <3>1, <3>2
    <3>4. Tallied(h, earned', led')
      BY <1>1, <2>7, <2>9, <3>3 DEF Tallied, SameScores, h
    <3>. QED  BY <1>1, <1>2, <1>5, <2>1, <2>3, <2>8, <3>3, <3>4 DEF HitsTallied, h
  <2>10. CASE \E r \in Players : HitOf(game, e, r) /\ ClaimOf(k, h, r, e.sensor)
    <3>1. PICK r \in Players : HitOf(game, e, r) /\ ClaimOf(k, h, r, s)
      BY <2>4, <2>10
    <3>2. RoleOf(t) \cap Players = {r}
      <4>1. r \in RoleOf(t)
        BY <2>4, <3>1
      <4>2. \A q \in RoleOf(t) \cap Players : q = r
        BY <2>1, <4>1, RoleNames DEF Cast, RoleOf
      <4>. QED  BY <4>1, <4>2
    <3>3. claim = {<<r, s>>}
      BY <1>5, <3>2
    <3>4. Players = {r, Other(r)}
      BY RoleNames DEF Players
    <3>5. led' = led \cup (IF <<Other(r), s>> \in earned THEN {} ELSE {<<r, s>>})
      <4>1. <<r, s>> \notin earned
        BY <2>7, <3>1 DEF ClaimOf
      <4>. HIDE DEF claim
      <4>. QED  BY <1>1, <3>3, <3>4, <4>1
    <3>6. earned' = earned \cup {<<r, s>>}
      BY <1>1, <3>3
    <3>. HIDE DEF claim
    <3>7. /\ IsFiniteSet(earned) /\ DOMAIN k.score = Players /\ <<r, s>> \notin earned
          /\ h.claims = earned \cup {<<r, s>>}
          /\ h.score = [k.score EXCEPT ![r] = @ + (IF <<Other(r), s>> \in earned THEN 2 ELSE 3)]
      BY <2>6, <2>7, <3>1 DEF Formed, Counted, ClaimOf
    <3>8. Shares(earned', led', h.score)
      BY <1>2, <2>7, <3>5, <3>6, <3>7, ClaimShared
    <3>9. Tallied(h, earned', led')
      BY <1>1, <3>6, <3>7, <3>8 DEF Tallied, h
    <3>. QED  BY <1>1, <1>2, <1>5, <2>1, <2>3, <2>8, <3>6, <3>9 DEF HitsTallied, h
  <2>. QED  BY <2>5, <2>9, <2>10
<1>. QED  BY <1>3, <1>4, <1>5

LEMMA StepHit ==
  ASSUME IInv, NEW t \in Trains, NEW s \in Sensors, Hit(t, s)
  PROVE  IInv'
<1>. DEFINE e == [type |-> "hit", train |-> t, sensor |-> s]
<1>1. /\ pos' = [pos EXCEPT ![t].at = s] /\ Publish("hit", t, s)
      /\ game' = game /\ arrived' = arrived /\ early' = early
      /\ earned' = earned \cup (IF game.state = "ROUND_RUNNING"
                                THEN (RoleOf(t) \cap Players) \X {s} ELSE {})
  BY DEF Hit
<1>2. /\ DOMAIN pos' = Trains
      /\ \A u \in Trains : /\ DOMAIN pos'[u] = PosFields
                           /\ pos'[u].st = pos[u].st /\ pos'[u].fin = pos[u].fin
                           /\ pos'[u].goal = pos[u].goal
  BY <1>1 DEF IInv, Shapes, PosFields
<1>3. e.type = "hit" /\ e.train = t /\ e.sensor = s
  OBVIOUS
<1>4. /\ Ring'
      /\ \A i \in 1..Len(events') : \/ events'[i] = e
                                    \/ \E j \in 1..Len(events) : events'[i] = events[j]
      /\ game.state \notin {"OFF", "SETUP"} =>
           /\ news' = news + 1 /\ events'[Len(events')] = e
           /\ \A j \in 1..news : events'[Len(events') + 1 - (j + 1)] = events[Len(events) + 1 - j]
  BY <1>1, PublishDoes
<1>. HIDE DEF e
<1>5. StopsOfRound'
  <2>. SUFFICES ASSUME game.state = "ROUND_RUNNING", game.round \notin early PROVE StopsOfRound'
    BY <1>1 DEF StopsOfRound
  <2>1. \A r \in Roles : game.train[r] \in Trains
    BY DEF IInv, Playing, Cast
  <2>2. \A i \in 1..Len(events'), r \in Roles :
          events'[i].type = "stop" /\ events'[i].train = game.train[r]
            /\ SameSensor(events'[i].sensor, game.target[r]) => r \in arrived
    BY <1>3, <1>4 DEF IInv, StopsOfRound
  <2>3. \A r \in Roles : StoppedAtTarget(pos'[game.train[r]], game.target[r]) => r \in arrived
    BY <1>2, <2>1 DEF IInv, StopsOfRound, StoppedAtTarget
  <2>. QED  BY <1>1, <2>2, <2>3 DEF IInv, StopsOfRound
<1>6. HitsOfRound'
  <2>. SUFFICES ASSUME game.state = "ROUND_RUNNING", NEW c \in earned'
                PROVE  \/ c \in game.claims
                       \/ \E j \in 1..news', r \in Players :
                            LET d == events'[Len(events') + 1 - j]
                            IN  d.type = "hit" /\ d.train = game.train[r] /\ c = <<r, d.sensor>>
    BY <1>1 DEF HitsOfRound
  <2>0. Len(events') \in Nat /\ news \in Nat /\ 1 \in 1..news' /\ news' = news + 1
    BY <1>4, LenProperties DEF Ring, IInv, Shapes
  <2>2. CASE c \in earned
    <3>1. CASE c \in game.claims
      BY <3>1
    <3>2. CASE \E j \in 1..news, r \in Players :
                 LET d == events[Len(events) + 1 - j]
                 IN  d.type = "hit" /\ d.train = game.train[r] /\ c = <<r, d.sensor>>
      <4>1. PICK j \in 1..news, r \in Players :
                 LET d == events[Len(events) + 1 - j]
                 IN  d.type = "hit" /\ d.train = game.train[r] /\ c = <<r, d.sensor>>
        BY <3>2
      <4>2. j + 1 \in 1..news' /\ events'[Len(events') + 1 - (j + 1)] = events[Len(events) + 1 - j]
        BY <1>4, <2>0
      <4>. QED  BY <4>1, <4>2
    <3>. QED  BY <2>2, <3>1, <3>2 DEF IInv, HitsOfRound
  <2>3. CASE c \in (RoleOf(t) \cap Players) \X {s}
    <3>1. PICK r \in RoleOf(t) \cap Players : c = <<r, s>>
      BY <2>3
    <3>2. Len(events') + 1 - 1 = Len(events') /\ events'[Len(events')] = e
      BY <1>4, <2>0
    <3>3. r \in Players /\ game.train[r] = t
      BY DEF RoleOf
    <3>. QED  BY <1>3, <2>0, <3>1, <3>2, <3>3
  <2>. QED  BY <1>1, <2>2, <2>3
<1>7. SameGame(game, game')
  BY <1>1 DEF SameGame, SameScores, Same
<1>8. HitsTallied'
  BY HitTallied
<1>9. earned' = earned \/ game.state = "ROUND_RUNNING"
  BY <1>1
<1>. QED  BY <1>1, <1>2, <1>4, <1>5, <1>6, <1>7, <1>8, <1>9, GameKept

\* A stop is worth nothing.
LEMMA StopTallied ==
  ASSUME IInv, NEW t \in Trains, Stop(t)
  PROVE  HitsTallied'
<1>. DEFINE e == [type |-> "stop", train |-> t, sensor |-> pos[t].goal]
<1>1. /\ Publish("stop", t, pos[t].goal) /\ game' = game /\ early' = early
      /\ earned' = earned /\ led' = led
  BY DEF Stop
<1>2. CASE ~(game.state = "ROUND_RUNNING" /\ early = {})
  BY <1>1, <1>2 DEF IInv, HitsTallied
<1>3. CASE game.state = "ROUND_RUNNING" /\ early = {}
  <2>. DEFINE k == Consumed(events, game)
              h == Consumed(events', game)
  <2>1. Cast(game) /\ Formed(game) /\ Len(events) = news /\ Tallied(k, earned, led)
    BY <1>3 DEF IInv, Playing, Shapes, HitsTallied
  <2>2. Len(events) \in Nat /\ \A i \in 1..Len(events) : Event(events[i])
    BY LenProperties DEF IInv, Shapes, Ring
  <2>3. /\ news' = news + 1 /\ Len(events') = Len(events) + 1
        /\ events'[Len(events) + 1] = e /\ \A i \in 1..Len(events) : events'[i] = events[i]
    BY <1>1, <1>3, <2>1, PublishDoes
  <2>4. Event(e) /\ \A r : ~HitOf(game, e, r)
    BY DEF Event, HitOf
  <2>. HIDE DEF e
  <2>5. SameScores(k, h)
    BY <1>3, <2>1, <2>2, <2>3, <2>4, ConsumedMore
  <2>. HIDE DEF k, h
  <2>6. Tallied(h, earned', led')
    BY <1>1, <2>1, <2>5 DEF Tallied, SameScores, h
  <2>. QED  BY <1>1, <1>3, <2>1, <2>3, <2>6 DEF IInv, HitsTallied, h
<1>. QED  BY <1>2, <1>3

LEMMA StepStop ==
  ASSUME IInv, NEW t \in Trains, Stop(t)
  PROVE  IInv'
<1>. DEFINE s == pos[t].goal
            e == [type |-> "stop", train |-> t, sensor |-> s]
<1>1. /\ pos' = Stopped(pos, t) /\ Publish("stop", t, s)
      /\ game' = game /\ earned' = earned /\ early' = early
      /\ arrived' = arrived \cup {r \in RoleOf(t) : SameSensor(s, game.target[r])}
  BY DEF Stop
<1>2. /\ DOMAIN pos' = Trains
      /\ \A u \in Trains : u # t => pos'[u] = pos[u]
      /\ DOMAIN pos'[t] = PosFields
      /\ pos'[t].st \in {"waiting", "stopped"}
      /\ pos'[t].st = "stopped" => pos'[t].goal = s
  <2>. DEFINE q == [pos[t] EXCEPT !.st = "stopped", !.fin = TRUE]
              v == [q EXCEPT !.parked = q.resume # None,
                             !.yield = IF q.resume = None THEN None ELSE @]
  <2>1. DOMAIN pos = Trains /\ DOMAIN pos[t] = PosFields
    BY DEF IInv, Shapes
  <2>2. DOMAIN q = PosFields /\ q.st = "stopped" /\ q.goal = s
    BY <2>1 DEF PosFields
  <2>3. DOMAIN v = PosFields /\ v.st = "stopped" /\ v.goal = s
    BY <2>2 DEF PosFields
  <2>4. DOMAIN SetGoal(q, q.queued) = PosFields /\ SetGoal(q, q.queued).st = "waiting"
    BY <2>2, SetGoalDoes
  <2>5. \/ pos' = [pos EXCEPT ![t] = SetGoal(q, q.queued)]
        \/ pos' = [pos EXCEPT ![t] = v]
        \/ pos' = [pos EXCEPT ![t] = q]
    BY <1>1 DEF Stopped
  <2>. HIDE DEF q, v, s
  <2>. QED  BY <2>1, <2>2, <2>3, <2>4, <2>5
<1>3. e.type = "stop" /\ e.train = t /\ e.sensor = s
  OBVIOUS
<1>4. /\ Ring'
      /\ \A i \in 1..Len(events') : \/ events'[i] = e
                                    \/ \E j \in 1..Len(events) : events'[i] = events[j]
      /\ game.state \notin {"OFF", "SETUP"} =>
           /\ news' = news + 1
           /\ \A j \in 1..news : events'[Len(events') + 1 - (j + 1)] = events[Len(events) + 1 - j]
  BY <1>1, PublishDoes
<1>. HIDE DEF e, s
<1>5. \A r \in Roles : game.train[r] = t /\ SameSensor(s, game.target[r]) => r \in arrived'
  BY <1>1 DEF RoleOf
<1>6. StopsOfRound'
  <2>. SUFFICES ASSUME game.state = "ROUND_RUNNING", game.round \notin early PROVE StopsOfRound'
    BY <1>1 DEF StopsOfRound
  <2>1. \A r \in Roles : game.train[r] \in Trains
    BY DEF IInv, Playing, Cast
  <2>2. \A i \in 1..Len(events'), r \in Roles :
          events'[i].type = "stop" /\ events'[i].train = game.train[r]
            /\ SameSensor(events'[i].sensor, game.target[r]) => r \in arrived'
    BY <1>1, <1>3, <1>4, <1>5 DEF IInv, StopsOfRound
  <2>3. \A r \in Roles : StoppedAtTarget(pos'[game.train[r]], game.target[r]) => r \in arrived'
    BY <1>1, <1>2, <1>5, <2>1 DEF IInv, StopsOfRound, StoppedAtTarget
  <2>4. game.done \subseteq arrived'
    BY <1>1 DEF IInv, StopsOfRound
  <2>. QED  BY <1>1, <2>2, <2>3, <2>4 DEF StopsOfRound
<1>7. HitsOfRound'
  <2>. SUFFICES ASSUME game.state = "ROUND_RUNNING", NEW c \in earned, c \notin game.claims
                PROVE  \E j \in 1..news', r \in Players :
                            LET d == events'[Len(events') + 1 - j]
                            IN  d.type = "hit" /\ d.train = game.train[r] /\ c = <<r, d.sensor>>
    BY <1>1 DEF HitsOfRound
  <2>1. PICK j \in 1..news, r \in Players :
               LET d == events[Len(events) + 1 - j]
               IN  d.type = "hit" /\ d.train = game.train[r] /\ c = <<r, d.sensor>>
    BY DEF IInv, HitsOfRound
  <2>2. news \in Nat
    BY DEF Ring, IInv, Shapes
  <2>3. j + 1 \in 1..news' /\ events'[Len(events') + 1 - (j + 1)] = events[Len(events) + 1 - j]
    BY <1>4, <2>2
  <2>. QED  BY <2>1, <2>3
<1>8. SameGame(game, game')
  BY <1>1 DEF SameGame, SameScores, Same
<1>9. /\ \A u \in Trains : DOMAIN pos'[u] = PosFields
      /\ \A u \in Trains : pos'[u].st = "finding" => pos[u].st = "finding"
  BY <1>2 DEF IInv, Shapes
<1>10. HitsTallied'
  BY StopTallied
<1>. QED  BY <1>1, <1>2, <1>4, <1>6, <1>7, <1>8, <1>9, <1>10, GameKept

\* The other steps of the position server.
LEMMA StepMove ==
  ASSUME IInv, NEW t \in Trains,
         Found(t) \/ StopShort(t) \/ Resume(t) \/ DeadTrack(t) \/ ResumeAfterYield(t)
  PROVE  IInv'
<1>0. DOMAIN pos = Trains /\ DOMAIN pos[t] = PosFields
  BY DEF IInv, Shapes
<1>1. UNCHANGED <<game, events, news, history>> /\ SameGame(game, game')
  BY DEF Found, StopShort, Resume, DeadTrack, ResumeAfterYield, SameGame, SameScores, Same
<1>2. \E q : /\ pos' = [pos EXCEPT ![t] = q] /\ DOMAIN q = PosFields
             /\ q.st # "finding" /\ (q.st # "stopped" \/ pos[t].st = "finding")
  <2>1. CASE Found(t)
    <3>. DEFINE q == [pos[t] EXCEPT !.st = "stopped"]
    <3>1. pos' = [pos EXCEPT ![t] = q] /\ pos[t].st = "finding"
      BY <2>1 DEF Found
    <3>2. DOMAIN q = PosFields /\ q.st = "stopped"
      BY <1>0 DEF PosFields
    <3>. QED  BY <3>1, <3>2
  <2>2. CASE StopShort(t)
    <3>. DEFINE q == IF pos[t].queued # None THEN SetGoal(pos[t], pos[t].queued)
                     ELSE [pos[t] EXCEPT !.st = "waiting"]
    <3>1. pos' = [pos EXCEPT ![t] = q]
      BY <2>2 DEF StopShort
    <3>2. DOMAIN q = PosFields /\ q.st = "waiting"
      BY <1>0, SetGoalDoes DEF PosFields
    <3>. QED  BY <3>1, <3>2
  <2>3. CASE Resume(t)
    <3>. DEFINE q == [pos[t] EXCEPT !.st = "moving"]
    <3>1. pos' = [pos EXCEPT ![t] = q]
      BY <2>3 DEF Resume
    <3>2. DOMAIN q = PosFields /\ q.st = "moving"
      BY <1>0 DEF PosFields
    <3>. QED  BY <3>1, <3>2
  <2>4. CASE DeadTrack(t)
    <3>. DEFINE q(s) == [pos[t] EXCEPT !.st = s]
    <3>1. pos' = [pos EXCEPT ![t] = q("dead")] \/ pos' = [pos EXCEPT ![t] = q("moving")]
      BY <2>4 DEF DeadTrack
    <3>2. /\ DOMAIN q("dead") = PosFields /\ q("dead").st = "dead"
          /\ DOMAIN q("moving") = PosFields /\ q("moving").st = "moving"
      BY <1>0 DEF PosFields
    <3>. QED  BY <3>1, <3>2
  <2>5. CASE ResumeAfterYield(t)
    <3>. DEFINE q == SetGoal(pos[t], pos[t].resume)
    <3>1. pos' = [pos EXCEPT ![t] = q]
      BY <2>5 DEF ResumeAfterYield
    <3>2. DOMAIN q = PosFields /\ q.st = "waiting"
      BY <1>0, SetGoalDoes
    <3>. QED  BY <3>1, <3>2
  <2>. QED  BY <2>1, <2>2, <2>3, <2>4, <2>5
<1>. QED  BY <1>1, <1>2, OneTrain

LEMMA StepYield ==
  ASSUME IInv, NEW t \in Trains, NEW u, Yield(t, u)
  PROVE  IInv'
<1>0. DOMAIN pos = Trains /\ DOMAIN pos[t] = PosFields /\ DOMAIN game = GameFields
  BY DEF IInv, Shapes, Formed
<1>1. UNCHANGED <<events, news, history>>
  BY DEF Yield
<1>2. \E q : pos' = [pos EXCEPT ![t] = q] /\ DOMAIN q = PosFields /\ q.st = "moving"
  <2>. DEFINE resumes == pos[t].resume # None /\ ~(DeadlockMode /\ Neutral \in RoleOf(t))
              q(y) == [pos[t] EXCEPT !.st = "moving", !.goal = y, !.fin = FALSE,
                         !.yield = y, !.parked = FALSE,
                         !.resume = IF resumes THEN pos[t].resume ELSE None,
                         !.yielded = IF ~resumes THEN {} ELSE {u}]
  <2>1. PICK y : pos' = [pos EXCEPT ![t] = q(y)]
    BY DEF Yield
  <2>2. DOMAIN q(y) = PosFields /\ q(y).st = "moving"
    BY <1>0 DEF PosFields
  <2>. HIDE DEF q
  <2>. QED  BY <2>1, <2>2
<1>3. SameGame(game, game')
  <2>1. game' = game \/ \E y : game' = [game EXCEPT !.standby = y, !.stood = FALSE]
    BY DEF Yield, NoteNeutralYield
  <2>. QED  BY <1>0, <2>1 DEF GameFields, SameGame, SameScores, Same
<1>. QED  BY <1>1, <1>2, <1>3, OneTrain

LEMMA StepPosition ==
  ASSUME IInv, PositionStep
  PROVE  IInv'
BY StepHit, StepStop, StepMove, StepYield DEF PositionStep

-----------------------------------------------------------------------------
(* What the game's operators leave alone *)

LEMMA FormedKept ==
  ASSUME NEW g, NEW h, Formed(g), DOMAIN h = GameFields, DOMAIN h.entered = 1..3,
         h.first \in Players, h.claims = g.claims, h.score = g.score
  PROVE  Formed(h)
BY DEF Formed, Counted

LEMMA ResetRoundDoes ==
  ASSUME NEW g, Formed(g)
  PROVE  LET h == ResetRound(g) IN
         /\ Formed(h) /\ h.done = {} /\ h.state = g.state /\ h.train = g.train
         /\ h.round = g.round /\ SameScores(g, h)
         /\ h.step = g.step /\ h.pending = g.pending
<1>. DEFINE h == ResetRound(g)
<1>1. /\ DOMAIN h = GameFields /\ h.entered = g.entered /\ h.first = g.first
      /\ h.claims = g.claims /\ h.score = g.score
      /\ h.done = {} /\ h.state = g.state /\ h.train = g.train /\ h.round = g.round
      /\ h.step = g.step /\ h.pending = g.pending
  BY DEF Formed, GameFields, ResetRound
<1>. HIDE DEF h
<1>2. Formed(h)
  BY <1>1, FormedKept DEF Formed
<1>. QED  BY <1>1, <1>2 DEF SameScores, h

\* No claims, no points.
Unscored(g) == g.claims = {} /\ g.score = [r \in Players |-> 0]

LEMMA ResetAllDoes ==
  ASSUME NEW g, Formed(g)
  PROVE  LET h == ResetAll(g) IN
         /\ Formed(h) /\ Unscored(h)
         /\ h.done = {} /\ h.state = "OFF" /\ h.step = 0 /\ h.pending = 0
<1>. DEFINE k == [g EXCEPT !.state = "OFF", !.step = 0, !.pending = 0,
                           !.entered = [i \in 1..3 |-> None],
                           !.train = [r \in Roles |-> None],
                           !.claims = {}, !.used = {},
                           !.score = [r \in Players |-> 0],
                           !.round = 0, !.first = Human]
<1>1. /\ DOMAIN k = GameFields /\ k.entered = [i \in 1..3 |-> None] /\ k.first = Human
      /\ k.claims = {} /\ k.score = [r \in Players |-> 0]
      /\ k.state = "OFF" /\ k.step = 0 /\ k.pending = 0
  BY DEF Formed, GameFields
<1>2. ResetAll(g) = ResetRound(k)
  BY DEF ResetAll
<1>. HIDE DEF k
<1>3. Counted(k)
  BY <1>1, NothingCounted
<1>4. Formed(k)
  BY <1>1, <1>3 DEF Formed, Players
<1>. QED  BY <1>1, <1>2, <1>4, ResetRoundDoes DEF SameScores, Unscored

LEMMA BeginWaitPickDoes ==
  ASSUME NEW g, NEW p, Formed(g), NEW h \in BeginWaitPick(g, p)
  PROVE  /\ Formed(h) /\ h.state \in {"WAIT_PICK", "STOPPING"}
         /\ h.done = g.done /\ h.train = g.train /\ h.round = g.round /\ SameScores(g, h)
<1>1. PICK a, n : h = Chosen(g, a, n)
  BY DEF BeginWaitPick
<1>2. /\ DOMAIN h = GameFields /\ h.entered = g.entered /\ h.first = g.first
      /\ h.claims = g.claims /\ h.score = g.score
      /\ h.done = g.done /\ h.train = g.train /\ h.round = g.round
      /\ h.state \in {"WAIT_PICK", "STOPPING"}
  BY <1>1 DEF Formed, GameFields, Chosen
<1>. QED  BY <1>2, FormedKept DEF Formed, SameScores

\* Three different trains that stand still become the three roles.
LEMMA LaunchMatchDoes ==
  ASSUME NEW g, NEW p, Formed(g), NEW h \in LaunchMatch(g, p), h # g,
         \A i \in 1..3 : g.entered[i] \in Trains,
         \A i, j \in 1..3 : g.entered[i] = g.entered[j] => i = j
  PROVE  /\ Formed(h) /\ h.state \in {"WAIT_PICK", "STOPPING"} /\ h.done = {}
         /\ h.round = 1 /\ Cast(h) /\ Unscored(h)
         /\ \A r \in Roles : p[h.train[r]].st # "finding"
<1>. DEFINE w(r) == CHOOSE i \in 1..3 : Order[i] = r
            m(f) == [ResetAll(g) EXCEPT !.train = [r \in Roles |-> g.entered[w(r)]],
                                        !.first = f, !.round = 1]
<1>1. \A i \in 1..3 : SetupReady(p, g.entered[i])
  BY DEF LaunchMatch
<1>2. PICK f \in Players : h \in BeginWaitPick(m(f), p)
  BY <1>1 DEF LaunchMatch
<1>3. \A r \in Roles : w(r) \in 1..3 /\ Order[w(r)] = r
  <2>1. \A r \in Roles : \E i \in 1..3 : Order[i] = r
    <3>1. 1 \in 1..3 /\ 2 \in 1..3 /\ 3 \in 1..3
      OBVIOUS
    <3>2. Order[1] = Human /\ Order[2] = AI /\ Order[3] = Neutral
      BY DEF Order
    <3>. QED  BY <3>1, <3>2 DEF Roles
  <2>. QED  BY <2>1
<1>4. /\ DOMAIN m(f) = GameFields /\ m(f).entered = ResetAll(g).entered /\ m(f).first = f
      /\ m(f).claims = ResetAll(g).claims /\ m(f).score = ResetAll(g).score
      /\ m(f).done = ResetAll(g).done /\ m(f).round = 1
      /\ m(f).train = [r \in Roles |-> g.entered[w(r)]]
  <2>1. DOMAIN ResetAll(g) = GameFields
    BY ResetAllDoes DEF Formed
  <2>. HIDE DEF w
  <2>. QED  BY <2>1 DEF GameFields
<1>. HIDE DEF m
<1>5. Formed(m(f)) /\ m(f).done = {} /\ Unscored(m(f))
  BY <1>4, ResetAllDoes, FormedKept DEF Formed, Unscored
<1>6. /\ Formed(h) /\ Unscored(h) /\ h.state \in {"WAIT_PICK", "STOPPING"} /\ h.done = {} /\ h.round = 1
      /\ h.train = [r \in Roles |-> g.entered[w(r)]]
  BY <1>2, <1>4, <1>5, BeginWaitPickDoes DEF SameScores, Unscored
<1>. HIDE DEF w
<1>7. DOMAIN h.train = Roles /\ \A r \in Roles : h.train[r] = g.entered[w(r)]
  BY <1>6
<1>8. Cast(h)
  BY <1>3, <1>7 DEF Cast
<1>9. \A r \in Roles : p[h.train[r]].st # "finding"
  BY <1>1, <1>3, <1>7 DEF SetupReady
<1>. QED  BY <1>6, <1>8, <1>9

\* The i-th train of the setup is known to stand still.
LEMMA SetupStepDoneDoes ==
  ASSUME NEW g, NEW p, Formed(g), g.state = "SETUP", g.done = {}, NEW i \in 1..3,
         \A j \in 1..i : g.entered[j] \in Trains,
         \A j, k \in 1..i : g.entered[j] = g.entered[k] => j = k,
         NEW h \in SetupStepDone(g, p, i)
  PROVE  /\ Formed(h)
         /\ \/ h.state = "SETUP" /\ EnteredOnce(h) /\ SameScores(g, h)
            \/ /\ h.state \in {"WAIT_PICK", "STOPPING"} /\ h.done = {}
               /\ h.round = 1 /\ Cast(h) /\ Unscored(h)
               /\ \A r \in Roles : p[h.train[r]].st # "finding"
<1>. DEFINE n == [g EXCEPT !.step = i, !.pending = 0]
<1>1. /\ DOMAIN n = GameFields /\ n.entered = g.entered /\ n.first = g.first
      /\ n.claims = g.claims /\ n.score = g.score /\ n.done = {} /\ n.state = "SETUP"
      /\ n.step = i /\ n.pending = 0
  BY DEF Formed, GameFields
<1>2. h \in IF i < 3 THEN {n} ELSE LaunchMatch(n, p)
  BY DEF SetupStepDone
<1>. HIDE DEF n
<1>3. Formed(n)
  BY <1>1, FormedKept DEF Formed
<1>4. EnteredOnce(n)
  BY <1>1 DEF EnteredOnce, Given
<1>5. CASE h = n
  BY <1>1, <1>3, <1>4, <1>5 DEF SameScores
<1>6. CASE h # n
  <2>1. i = 3 /\ h \in LaunchMatch(n, p)
    BY <1>2, <1>6
  <2>2. /\ \A j \in 1..3 : n.entered[j] \in Trains
        /\ \A j, k \in 1..3 : n.entered[j] = n.entered[k] => j = k
    BY <1>1, <2>1
  <2>. QED  BY <1>3, <1>6, <2>1, <2>2, LaunchMatchDoes
<1>. QED  BY <1>5, <1>6

-----------------------------------------------------------------------------
(* The steps of a round *)

\* The trains after a command of the game: none comes to stand, none is lost again.
Moved(p, q) ==
  /\ DOMAIN q = Trains /\ \A u \in Trains : DOMAIN q[u] = PosFields
  /\ \A u \in Trains : q[u].st = "finding" => p[u].st = "finding"
  /\ \A u \in Trains : q[u].st = "stopped" => q[u] = p[u]

LEMMA GotoDoes ==
  ASSUME NEW p, DOMAIN p = Trains, \A u \in Trains : DOMAIN p[u] = PosFields,
         NEW t \in Trains, NEW s
  PROVE  LET q == Goto(p, t, s) IN
         /\ Moved(p, q) /\ q[t].st # "stopped"
         /\ \A u \in Trains : u # t => q[u] = p[u]
<1>. DEFINE q == Goto(p, t, s)
            v == IF GotoActive(p[t]) THEN [p[t] EXCEPT !.queued = s] ELSE SetGoal(p[t], s)
<1>1. /\ DOMAIN v = PosFields /\ v.st # "stopped"
      /\ v.st = "finding" => p[t].st = "finding"
  <2>1. CASE GotoActive(p[t])
    <3>1. DOMAIN v = PosFields /\ v.st = p[t].st
      BY <2>1 DEF PosFields
    <3>. QED  BY <2>1, <3>1 DEF GotoActive
  <2>2. CASE ~GotoActive(p[t])
    BY <2>2, SetGoalDoes
  <2>. QED  BY <2>1, <2>2
<1>2. q = [p EXCEPT ![t] = v]
  BY DEF Goto
<1>. HIDE DEF v, q
<1>3. DOMAIN q = Trains /\ q[t] = v /\ \A u \in Trains : u # t => q[u] = p[u]
  BY <1>2
<1>. QED  BY <1>1, <1>3 DEF Moved, q

LEMMA SyncCompletionDoes ==
  ASSUME NEW g, Formed(g), NEW p
  PROVE  LET h == SyncCompletion(g, p) IN
         /\ Formed(h) /\ Same(g, h) /\ SameScores(g, h)
         /\ \A r \in h.done : r \in g.done
                              \/ (r \in Roles /\ StoppedAtTarget(p[g.train[r]], g.target[r]))
<1>. DEFINE h == SyncCompletion(g, p)
<1>1. /\ DOMAIN h = GameFields /\ Same(g, h) /\ h.claims = g.claims /\ h.score = g.score
      /\ h.done = g.done \cup {r \in Roles : StoppedAtTarget(p[g.train[r]], g.target[r])}
  BY DEF Formed, GameFields, SyncCompletion, Same
<1>. HIDE DEF h
<1>2. Formed(h)
  BY <1>1, FormedKept DEF Formed, Same
<1>. QED  BY <1>1, <1>2 DEF SameScores, h

LEMMA ResolveNeutralDoes ==
  ASSUME NEW g, NEW p, Formed(g), Cast(g),
         DOMAIN p = Trains, \A u \in Trains : DOMAIN p[u] = PosFields,
         NEW w \in ResolveNeutral(g, p)
  PROVE  /\ Formed(w[1]) /\ Same(g, w[1])
         /\ SameScores(g, w[1]) /\ w[1].done = g.done
         /\ Moved(p, w[2])
<1>1. ASSUME NEW h, DOMAIN h = GameFields, Same(g, h), h.claims = g.claims, h.score = g.score,
             h.done = g.done
      PROVE  Formed(h) /\ Same(g, h) /\ SameScores(g, h) /\ h.done = g.done
  BY <1>1, FormedKept DEF Formed, Same, SameScores
<1>2. Moved(p, p)
  BY DEF Moved
<1>3. ASSUME NEW s
      PROVE  LET h == Resolved(g, s) IN
             Formed(h) /\ Same(g, h) /\ SameScores(g, h) /\ h.done = g.done
  <2>. DEFINE h == Resolved(g, s)
  <2>1. /\ DOMAIN h = GameFields /\ Same(g, h) /\ h.claims = g.claims /\ h.score = g.score
        /\ h.done = g.done
    BY DEF Formed, GameFields, Resolved, Same
  <2>. HIDE DEF h
  <2>2. Formed(h) /\ Same(g, h) /\ SameScores(g, h) /\ h.done = g.done
    BY <1>1, <2>1
  <2>. QED  BY <2>2 DEF h
<1>4. ASSUME w \in Redirected(g, p)
      PROVE  /\ Formed(w[1]) /\ Same(g, w[1])
             /\ SameScores(g, w[1]) /\ w[1].done = g.done
             /\ Moved(p, w[2])
  <2>. DEFINE t == g.train[Neutral]
  <2>1. CASE w = <<g, p>>
    <3>1. w[1] = g /\ w[2] = p
      BY <2>1
    <3>2. DOMAIN g = GameFields /\ Same(g, g) /\ SameScores(g, g)
      BY DEF Formed, Same, SameScores
    <3>. QED  BY <1>1, <1>2, <3>1, <3>2
  <2>2. CASE w # <<g, p>>
    <3>1. PICK s \in StandbyTargets(g, p) : w = <<[g EXCEPT !.standby = s], Goto(p, t, s)>>
      BY <1>4, <2>2 DEF Redirected
    <3>. DEFINE h == [g EXCEPT !.standby = s]
    <3>2. w[1] = h /\ w[2] = Goto(p, t, s)
      BY <3>1
    <3>3. /\ DOMAIN h = GameFields /\ Same(g, h) /\ h.claims = g.claims /\ h.score = g.score
          /\ h.done = g.done
      BY DEF Formed, GameFields, Same
    <3>. HIDE DEF h
    <3>4. Formed(h)
      BY <1>1, <3>3
    <3>5. t \in Trains
      BY DEF Cast, Roles
    <3>6. Moved(p, Goto(p, t, s))
      BY <3>5, GotoDoes
    <3>. QED  BY <3>2, <3>3, <3>4, <3>6 DEF SameScores
  <2>. QED  BY <2>1, <2>2
<1>5. \/ w = <<g, p>>
      \/ \E s : w = <<Resolved(g, s), p>>
      \/ w \in Redirected(g, p)
  BY DEF ResolveNeutral
<1>6. CASE w = <<g, p>>
  <2>1. w[1] = g /\ w[2] = p
    BY <1>6
  <2>2. DOMAIN g = GameFields /\ Same(g, g) /\ SameScores(g, g)
    BY DEF Formed, Same, SameScores
  <2>. QED  BY <1>1, <1>2, <2>1, <2>2
<1>7. CASE \E s : w = <<Resolved(g, s), p>>
  <2>1. PICK s : w = <<Resolved(g, s), p>>
    BY <1>7
  <2>2. w[1] = Resolved(g, s) /\ w[2] = p
    BY <2>1
  <2>. QED  BY <1>2, <1>3, <2>2
<1>. QED  BY <1>4, <1>5, <1>6, <1>7

LEMMA Halted ==
  ASSUME IInv, Shapes', UNCHANGED history,
         SameScores(game, game') \/ Unscored(game'),
         game'.state \notin {"SETUP", "WAIT_PICK", "ROUND_RUNNING", "MATCH_OVER"}
  PROVE  IInv'
<1>1. led' = led /\ earned' = earned /\ early' = early
  BY DEF history
<1>2. Unscored(game') => \A L : Shares(game'.claims, L, game'.score)
  BY NothingCounted DEF Unscored
<1>3. HitsTallied'
  BY <1>1, <1>2 DEF IInv, HitsTallied, SameScores
<1>. QED  BY <1>3 DEF IInv, Playing, StopsOfRound, HitsOfRound, HitsScored

\* With nothing to read, reading changes nothing.
LEMMA ConsumedNone ==
  ASSUME NEW es, Len(es) = 0, NEW g
  PROVE  Consumed(es, g) = g
BY Reading DEF Course

\* An empty ring.
LEMMA NoEvents ==
  ASSUME events' = <<>>, news' = 0
  PROVE  Ring' /\ Len(events') = 0 /\ 1..0 = {} /\ 1..news' = {}
<1>1. <<>> \in Seq({}) /\ Len(<<>>) = 0 /\ 1..0 = {}
  BY EmptySeq
<1>2. POS_GAME_EVENT_CAP \in Nat
  BY GameAssumption
<1>. QED  BY <1>1, <1>2 DEF Ring

LEMMA StepRoundTick ==
  ASSUME IInv, RoundTick
  PROVE  IInv'
<1>. DEFINE a == ConsumeEvents(game)
            b == SyncCompletion(a, pos)
<1>1. Cast(game) /\ game.state = "ROUND_RUNNING"
  BY DEF RoundTick, IInv, Playing
<1>2. /\ Formed(a) /\ Same(game, a) /\ game.claims \subseteq a.claims
      /\ \A i \in 1..Len(events), r \in Players :
           HitOf(game, events[i], r) => <<r, events[i].sensor>> \in a.claims
      /\ \A r \in a.done : \/ r \in game.done
                           \/ r \in Roles /\ \E i \in 1..Len(events) : StopOf(game, events[i], r)
  <2>1. /\ Len(events) \in Nat /\ \A i \in 1..Len(events) : Event(events[i])
        /\ Formed(game)
    BY LenProperties DEF IInv, Shapes, Ring
  <2>2. a = Consumed(events, game)
    BY DEF ConsumeEvents, Consumed
  <2>. HIDE DEF a
  <2>. QED  BY <1>1, <2>1, <2>2, ConsumeDoes
<1>3. PICK w \in ResolveNeutral(b, pos) :
        LET g == SyncCompletion(w[1], w[2])
        IN  /\ game' \in IF RoundDone(g) THEN AdvanceRound(g, w[2]) ELSE {g}
            /\ pos' = w[2]
  BY DEF RoundTick
<1>4. /\ events' = <<>> /\ news' = 0
      /\ earned' = earned /\ led' = led /\ arrived' = arrived /\ early' = early
  BY DEF RoundTick, history
<1>a. early = {} => a.claims = earned /\ Shares(earned, led, a.score)
  BY <1>1 DEF ConsumeEvents, Consumed, IInv, HitsTallied, Tallied
<1>. DEFINE g == SyncCompletion(w[1], w[2])
<1>. HIDE DEF a
<1>5. /\ Formed(b) /\ Same(a, b) /\ SameScores(a, b)
      /\ \A r \in b.done : r \in a.done
                           \/ (r \in Roles /\ StoppedAtTarget(pos[a.train[r]], a.target[r]))
  BY <1>2, SyncCompletionDoes
<1>. HIDE DEF b
<1>6. DOMAIN pos = Trains /\ \A u \in Trains : DOMAIN pos[u] = PosFields
  BY DEF IInv, Shapes
<1>7. Same(game, b) /\ Cast(b)
  BY <1>1, <1>2, <1>5 DEF Same, Cast
<1>8. /\ Formed(w[1]) /\ Same(b, w[1]) /\ SameScores(b, w[1]) /\ w[1].done = b.done
      /\ Moved(pos, w[2])
  BY <1>5, <1>6, <1>7, ResolveNeutralDoes
<1>9. /\ Formed(g) /\ Same(w[1], g) /\ SameScores(w[1], g)
      /\ \A r \in g.done : r \in w[1].done
                    \/ (r \in Roles /\ StoppedAtTarget(w[2][w[1].train[r]], w[1].target[r]))
  BY <1>8, SyncCompletionDoes
<1>10. game' \in IF RoundDone(g) THEN AdvanceRound(g, w[2]) ELSE {g}
  BY <1>3
<1>11. pos' = w[2]
  BY <1>3
<1>. HIDE DEF g
<1>12. Same(game, g) /\ Cast(g) /\ g.claims = a.claims /\ g.score = a.score
  BY <1>1, <1>5, <1>7, <1>8, <1>9 DEF Same, SameScores, Cast
\* a stop seen in the position has happened in this round
<1>13. ASSUME game.round \notin early
       PROVE  \A r \in Roles : StoppedAtTarget(pos[game.train[r]], game.target[r]) => r \in arrived
  BY <1>1, <1>13 DEF IInv, StopsOfRound
<1>14. ASSUME game.round \notin early
       PROVE  \A r \in Roles : StoppedAtTarget(w[2][game.train[r]], game.target[r]) => r \in arrived
  BY <1>1, <1>8, <1>13, <1>14 DEF Moved, Cast, StoppedAtTarget
<1>15. ASSUME game.round \notin early
       PROVE  g.done \subseteq arrived
  <2>1. \A r \in a.done : r \in arrived
    BY <1>1, <1>2, <1>15 DEF IInv, StopsOfRound, StopOf
  <2>2. \A r \in b.done : r \in arrived
    BY <1>2, <1>5, <1>13, <1>15, <2>1 DEF Same
  <2>3. \A r \in g.done : r \in arrived
    BY <1>7, <1>8, <1>9, <1>14, <1>15, <2>2 DEF Same
  <2>. QED  BY <2>3
<1>16. earned \subseteq g.claims
  <2>1. ASSUME NEW c \in earned
        PROVE  c \in a.claims
    <3>1. CASE c \in game.claims
      BY <1>2, <3>1
    <3>2. CASE c \notin game.claims
      <4>1. PICK j \in 1..news, r \in Players :
                   LET e == events[Len(events) + 1 - j]
                   IN  e.type = "hit" /\ e.train = game.train[r] /\ c = <<r, e.sensor>>
        BY <1>1, <3>2 DEF IInv, HitsOfRound
      <4>2. Len(events) + 1 - j \in 1..Len(events)
        BY LenProperties DEF IInv, Shapes, Ring
      <4>. QED  BY <1>2, <4>1, <4>2 DEF HitOf
    <3>. QED  BY <3>1, <3>2
  <2>. QED  BY <1>12, <2>1
<1>17. \A r \in Roles : pos'[game.train[r]].st # "finding"
  BY <1>1, <1>8, <1>11 DEF IInv, Playing, Moved, Cast
<1>18. /\ DOMAIN pos' = Trains /\ \A t \in Trains : DOMAIN pos'[t] = PosFields
       /\ Ring' /\ Len(events') = 0 /\ 1..0 = {} /\ 1..news' = {}
  BY <1>4, <1>8, <1>11, NoEvents DEF Moved
<1>b. early = {} => /\ g.claims = earned /\ Shares(g.claims, led, g.score)
                    /\ Tallied(g, earned, led)
  BY <1>a, <1>12 DEF Tallied
<1>c. led \subseteq earned
  BY DEF IInv, HitsTallied
<1>19. game.round \in Nat
  BY <1>1 DEF IInv, Playing
<1>20. CASE game' = g
  <2>1. Shapes'
    BY <1>9, <1>18, <1>20 DEF Shapes
  <2>2. Playing'
    BY <1>12, <1>17, <1>19, <1>20 DEF Playing, Same
  <2>3. StopsOfRound'
    BY <1>4, <1>11, <1>12, <1>14, <1>15, <1>18, <1>20 DEF StopsOfRound, Same
  <2>6. HitsTallied'
    <3>1. Consumed(events', game') = game'
      BY <1>18, ConsumedNone
    <3>2. early = {} => Tallied(game', earned', led')
      BY <1>4, <1>b, <1>20 DEF Tallied
    <3>3. game'.state = "ROUND_RUNNING"
      BY <1>1, <1>12, <1>20 DEF Same
    <3>. QED  BY <1>4, <1>18, <1>20, <1>b, <1>c, <3>1, <3>2, <3>3 DEF HitsTallied, Tallied
  <2>4. HitsOfRound' /\ HitsScored'
    BY <1>4, <1>16, <1>b, <1>20 DEF HitsOfRound, HitsScored
  <2>5. game'.state = "ROUND_RUNNING"
    BY <1>1, <1>12, <1>20 DEF Same
  <2>. QED  BY <2>1, <2>2, <2>3, <2>4, <2>5, <2>6 DEF IInv
<1>21. CASE game' \in AdvanceRound(g, w[2])
  <2>1. CASE game' = [g EXCEPT !.state = "MATCH_OVER"]
    <3>1. /\ DOMAIN game' = GameFields /\ game'.entered = g.entered /\ game'.first = g.first
          /\ game'.claims = g.claims /\ game'.score = g.score /\ game'.state = "MATCH_OVER"
      BY <1>9, <2>1 DEF Formed, GameFields
    <3>2. Formed(game')
      BY <1>9, <3>1, FormedKept DEF Formed
    <3>3. Shapes'
      BY <1>18, <3>2 DEF Shapes
    <3>4. HitsScored'
      BY <1>4, <1>16, <1>b, <3>1 DEF HitsScored
    <3>5. HitsTallied'
      BY <1>4, <1>b, <1>c, <3>1 DEF HitsTallied
    <3>. QED  BY <3>1, <3>3, <3>4, <3>5 DEF IInv, Playing, StopsOfRound, HitsOfRound
  <2>2. CASE game' \in BeginWaitPick([ResetRound(g) EXCEPT !.round = @ + 1], w[2])
    <3>. DEFINE n == [ResetRound(g) EXCEPT !.round = @ + 1]
    <3>1. /\ Formed(ResetRound(g)) /\ ResetRound(g).done = {}
          /\ ResetRound(g).train = g.train /\ ResetRound(g).round = g.round
          /\ SameScores(g, ResetRound(g))
      BY <1>9, ResetRoundDoes
    <3>2. /\ DOMAIN n = GameFields /\ n.entered = ResetRound(g).entered
          /\ n.first = ResetRound(g).first
          /\ n.claims = g.claims /\ n.score = g.score
          /\ n.done = {} /\ n.train = g.train /\ n.round = g.round + 1
      BY <3>1 DEF Formed, GameFields, SameScores
    <3>. HIDE DEF n
    <3>3. Formed(n)
      BY <3>1, <3>2, FormedKept DEF Formed, SameScores
    <3>4. /\ Formed(game') /\ game'.state \in {"WAIT_PICK", "STOPPING"}
          /\ game'.done = n.done /\ game'.train = n.train /\ game'.round = n.round
          /\ SameScores(n, game')
      BY <2>2, <3>3, BeginWaitPickDoes DEF n
    <3>5. Shapes'
      BY <1>18, <3>4 DEF Shapes
    <3>6. Playing'
      BY <1>12, <1>17, <1>19, <3>2, <3>4 DEF Playing, Cast, Same
    <3>7. HitsScored'
      BY <1>4, <1>16, <1>b, <3>2, <3>4 DEF HitsScored, SameScores
    <3>8. HitsTallied'
      BY <1>4, <1>16, <1>b, <1>c, <3>2, <3>4 DEF HitsTallied, SameScores
    <3>. QED  BY <3>2, <3>4, <3>5, <3>6, <3>7, <3>8 DEF IInv, StopsOfRound, HitsOfRound
  <2>. QED  BY <1>21, <2>1, <2>2 DEF AdvanceRound
<1>. QED  BY <1>10, <1>20, <1>21

\* The ring stays; the game is cast, or goes on with its setup.
LEMMA CastOrSetup ==
  ASSUME IInv, Formed(game'), UNCHANGED <<events, news>>,
         earned' = {}, led' = {}, early' = early \/ early' = {},
         DOMAIN pos' = Trains, \A t \in Trains : DOMAIN pos'[t] = PosFields,
         \/ game'.state = "SETUP" /\ EnteredOnce(game')
            /\ (early' = {} => Shares(game'.claims, led', game'.score))
         \/ /\ game'.state \in {"WAIT_PICK", "STOPPING"} /\ game'.done = {}
            /\ game'.round = 1 /\ Cast(game') /\ Unscored(game')
            /\ \A r \in Roles : pos'[game'.train[r]].st # "finding"
  PROVE  IInv'
<1>1. Shapes'
  BY DEF IInv, Shapes, Ring
<1>2. (game.state = "SETUP" => EnteredOnce(game))'
  OBVIOUS
<1>3. Playing'
  BY DEF Playing
<1>4. (game.state = "WAIT_PICK" => game.done = {})'
  OBVIOUS
<1>5. StopsOfRound' /\ HitsOfRound' /\ HitsScored'
  BY DEF StopsOfRound, HitsOfRound, HitsScored
<1>6. Unscored(game') => Shares(game'.claims, led', game'.score)
  BY NothingCounted DEF Unscored
<1>7. HitsTallied'
  BY <1>6 DEF HitsTallied, Unscored
<1>. QED  BY <1>1, <1>2, <1>3, <1>4, <1>5, <1>7 DEF IInv

\* What the setup has kept of the scores.
LEMMA SetupUnscored ==
  ASSUME IInv, game.state = "SETUP", UNCHANGED history
  PROVE  /\ earned' = {} /\ led' = {} /\ early' = early
         /\ early' = {} => \A h : SameScores(game, h) => Shares(h.claims, led', h.score)
<1>1. earned' = earned /\ led' = led /\ early' = early
  BY DEF history
<1>. QED  BY <1>1 DEF IInv, HitsTallied, SameScores

LEMMA StepStartSetup ==
  ASSUME IInv, StartSetup
  PROVE  IInv'
<1>. DEFINE g == ResetAll(game)
<1>1. /\ game' = [g EXCEPT !.state = "SETUP", !.started = TRUE]
      /\ UNCHANGED <<pos, events, news>> /\ earned' = {} /\ led' = {} /\ early' = {}
  BY DEF StartSetup
<1>2. Formed(g) /\ Unscored(g) /\ g.done = {} /\ g.step = 0 /\ g.pending = 0
  BY ResetAllDoes DEF IInv, Shapes
<1>. HIDE DEF g
<1>3. /\ DOMAIN game' = GameFields /\ game'.entered = g.entered /\ game'.first = g.first
      /\ game'.claims = g.claims /\ game'.score = g.score /\ game'.done = {}
      /\ game'.step = 0 /\ game'.pending = 0 /\ game'.state = "SETUP"
  BY <1>1, <1>2 DEF Formed, GameFields
<1>4. Formed(game')
  BY <1>2, <1>3, FormedKept DEF Formed
<1>5. EnteredOnce(game')
  BY <1>3 DEF EnteredOnce, Given
<1>6. Shares(game'.claims, led', game'.score)
  BY <1>2, <1>3, NothingCounted DEF Unscored
<1>. QED  BY <1>1, <1>3, <1>4, <1>5, <1>6, CastOrSetup DEF IInv, Shapes

LEMMA StepEnterTrain ==
  ASSUME IInv, NEW t \in Trains, EnterTrain(t)
  PROVE  IInv'
<1>. DEFINE i == game.step + 1
            g == [game EXCEPT !.entered[i] = t, !.train[Order[i]] = t]
<1>1. /\ game.state = "SETUP" /\ game.pending = 0
      /\ \A j \in 1..game.step : game.entered[j] # t
      /\ UNCHANGED <<events, news, history>>
      /\ \/ i > 3 /\ game' = [game EXCEPT !.state = "OVERRUN"] /\ pos' = pos
         \/ i <= 3 /\ game' \in SetupStepDone(g, pos, i) /\ pos' = pos
         \/ /\ i <= 3 /\ pos' = [pos EXCEPT ![t].st = "finding"]
            /\ game' = [g EXCEPT !.pending = i]
  BY Zenon DEF EnterTrain
<1>2. Formed(game) /\ DOMAIN pos = Trains /\ \A u \in Trains : DOMAIN pos[u] = PosFields
  BY DEF IInv, Shapes
<1>3. /\ game.step \in 0..3 /\ game.done = {}
      /\ \A j \in 1..game.step : game.entered[j] \in Trains
      /\ \A j, k \in 1..game.step : game.entered[j] = game.entered[k] => j = k
  BY <1>1 DEF IInv, EnteredOnce, Given
<1>4. CASE i > 3 /\ game' = [game EXCEPT !.state = "OVERRUN"] /\ pos' = pos
  <2>1. /\ DOMAIN game' = GameFields /\ game'.entered = game.entered
        /\ game'.first = game.first /\ game'.claims = game.claims
        /\ game'.score = game.score /\ game'.state = "OVERRUN"
        /\ SameScores(game, game')
    BY <1>2, <1>4 DEF Formed, GameFields, SameScores
  <2>2. Formed(game')
    BY <1>2, <2>1, FormedKept DEF Formed
  <2>3. Shapes'
    BY <1>1, <1>4, <2>2 DEF IInv, Shapes, Ring
  <2>. QED  BY <1>1, <2>1, <2>3, Halted
<1>5. CASE i <= 3
  <2>s. /\ earned' = {} /\ led' = {} /\ early' = early
        /\ early' = {} => \A h : SameScores(game, h) => Shares(h.claims, led', h.score)
    BY <1>1, SetupUnscored
  <2>0. i \in 1..3 /\ \A j \in 1..i : j \in 1..game.step \/ j = i
    BY <1>3, <1>5
  <2>a. \/ game' \in SetupStepDone(g, pos, i) /\ pos' = pos
        \/ pos' = [pos EXCEPT ![t].st = "finding"] /\ game' = [g EXCEPT !.pending = i]
    <3>1. ~(i > 3)
      BY <1>5, <2>0
    <3>. HIDE DEF g, i
    <3>. QED  BY <1>1, <3>1
  <2>1. /\ DOMAIN g = GameFields /\ DOMAIN g.entered = 1..3 /\ g.first = game.first
        /\ g.claims = game.claims /\ g.score = game.score /\ g.state = "SETUP"
        /\ g.done = {} /\ g.entered = [game.entered EXCEPT ![i] = t]
    BY <1>1, <1>2, <1>3 DEF Formed, GameFields
  <2>. HIDE DEF g
  <2>2. Formed(g)
    BY <1>2, <2>1, FormedKept DEF Formed
  <2>3. g.entered[i] = t /\ \A j \in 1..game.step : j # i /\ g.entered[j] = game.entered[j]
    BY <1>2, <1>3, <2>0, <2>1 DEF Formed
  <2>4. \A j \in 1..i : g.entered[j] \in Trains
    BY <1>3, <2>0, <2>3
  <2>5. \A j, k \in 1..i : g.entered[j] = g.entered[k] => j = k
    BY <1>1, <1>3, <2>0, <2>3
  <2>. HIDE DEF i
  <2>6. CASE game' \in SetupStepDone(g, pos, i) /\ pos' = pos
    <3>1. /\ Formed(game')
          /\ \/ game'.state = "SETUP" /\ EnteredOnce(game') /\ SameScores(g, game')
             \/ /\ game'.state \in {"WAIT_PICK", "STOPPING"} /\ game'.done = {}
                /\ game'.round = 1 /\ Cast(game') /\ Unscored(game')
                /\ \A r \in Roles : pos[game'.train[r]].st # "finding"
      BY <2>0, <2>1, <2>2, <2>4, <2>5, <2>6, SetupStepDoneDoes
    <3>2. SameScores(g, game') => SameScores(game, game')
      BY <2>1 DEF SameScores
    <3>. QED  BY <1>1, <1>2, <2>6, <3>1, <3>2, <2>s, CastOrSetup
  <2>7. CASE pos' = [pos EXCEPT ![t].st = "finding"] /\ game' = [g EXCEPT !.pending = i]
    <3>1. /\ DOMAIN game' = GameFields /\ game'.entered = g.entered /\ game'.first = g.first
          /\ game'.claims = g.claims /\ game'.score = g.score /\ game'.done = {}
          /\ game'.pending = i /\ game'.state = "SETUP"
      BY <2>1, <2>7 DEF GameFields
    <3>2. game'.step = game.step
      <4>1. game'.step = g.step
        BY <2>1, <2>7 DEF GameFields
      <4>2. g.step = game.step
        BY <1>2 DEF g, Formed, GameFields
      <4>. QED  BY <4>1, <4>2
    <3>3. Formed(game')
      BY <2>1, <2>2, <3>1, FormedKept DEF Formed
    <3>4. Given(game') = i
      BY <2>0, <3>1 DEF Given
    <3>5. EnteredOnce(game')
      BY <1>3, <2>0, <2>4, <2>5, <3>1, <3>2, <3>4 DEF EnteredOnce
    <3>6. DOMAIN pos' = Trains /\ \A u \in Trains : DOMAIN pos'[u] = PosFields
      BY <1>2, <2>7 DEF PosFields
    <3>7. SameScores(game, game')
      BY <2>1, <3>1 DEF SameScores
    <3>. QED  BY <1>1, <2>s, <3>1, <3>3, <3>5, <3>6, <3>7, CastOrSetup
  <2>. QED  BY <2>a, <2>6, <2>7
<1>. QED  BY <1>1, <1>3, <1>4, <1>5

LEMMA StepSetupTick ==
  ASSUME IInv, SetupTick
  PROVE  IInv'
<1>. DEFINE i == game.pending
<1>1. /\ game.state = "SETUP" /\ i > 0
      /\ game' \in SetupStepDone(game, pos, i)
      /\ UNCHANGED <<pos, events, news, history>>
  BY DEF SetupTick
<1>2. EnteredOnce(game)
  BY <1>1 DEF IInv
<1>3. i \in 1..3 /\ Given(game) = i
  BY <1>1, <1>2 DEF EnteredOnce, Given
<1>4. /\ Formed(game')
      /\ \/ game'.state = "SETUP" /\ EnteredOnce(game') /\ SameScores(game, game')
         \/ /\ game'.state \in {"WAIT_PICK", "STOPPING"} /\ game'.done = {}
            /\ game'.round = 1 /\ Cast(game') /\ Unscored(game')
            /\ \A r \in Roles : pos[game'.train[r]].st # "finding"
  BY <1>1, <1>2, <1>3, SetupStepDoneDoes DEF EnteredOnce, IInv, Shapes
<1>5. /\ earned' = {} /\ led' = {} /\ early' = early
      /\ early' = {} => \A h : SameScores(game, h) => Shares(h.claims, led', h.score)
  BY <1>1, SetupUnscored
<1>. QED  BY <1>1, <1>4, <1>5, CastOrSetup DEF IInv, Shapes

LEMMA StepIdleTick ==
  ASSUME IInv, IdleTick
  PROVE  IInv'
<1>1. /\ game.state \in {"WAIT_PICK", "MATCH_OVER"} /\ events' = <<>> /\ news' = 0
      /\ UNCHANGED <<game, pos, history>>
  BY DEF IdleTick
<1>2. Ring'
  BY <1>1, NoEvents
<1>3. Shapes'
  BY <1>1, <1>2 DEF IInv, Shapes
<1>4. Playing'
  BY <1>1 DEF IInv, Playing, Cast
<1>5. HitsTallied'
  BY <1>1 DEF IInv, HitsTallied, history
<1>. QED  BY <1>1, <1>3, <1>4, <1>5 DEF IInv, StopsOfRound, HitsOfRound, HitsScored, history

\* However a game ends, what remains has its shape.
LEMMA ForceStopNowDoes ==
  ASSUME IInv, ForceStopNow
  PROVE  /\ Formed(game') /\ game'.state \in {"PANIC", "OFF"}
         /\ SameScores(game, game') \/ Unscored(game')
         /\ DOMAIN pos' = Trains /\ \A t \in Trains : DOMAIN pos'[t] = PosFields
<1>0. Formed(game) /\ DOMAIN pos = Trains /\ \A u \in Trains : DOMAIN pos[u] = PosFields
  BY DEF IInv, Shapes
<1>1. CASE game' = [game EXCEPT !.state = "PANIC"] /\ pos' = pos
  <2>1. /\ DOMAIN game' = GameFields /\ game'.entered = game.entered
        /\ game'.first = game.first /\ game'.claims = game.claims
        /\ game'.score = game.score /\ game'.state = "PANIC"
    BY <1>0, <1>1 DEF Formed, GameFields
  <2>2. Formed(game')
    BY <1>0, <2>1, FormedKept DEF Formed
  <2>. QED  BY <1>0, <1>1, <2>1, <2>2 DEF SameScores
<1>2. CASE /\ pos' = [t \in Trains |-> IF t \in InGame THEN Reset(pos[t]) ELSE pos[t]]
           /\ game' = ResetAll(game)
  <2>1. \A t \in Trains : DOMAIN Reset(pos[t]) = PosFields
    BY <1>0 DEF Reset, PosFields
  <2>. QED  BY <1>0, <1>2, <2>1, ResetAllDoes
<1>. QED  BY <1>1, <1>2 DEF ForceStopNow

LEMMA StepEnd ==
  ASSUME IInv, StoppingTick \/ StopForce \/ StopGame
  PROVE  IInv'
<1>1. UNCHANGED history
  BY DEF StoppingTick, StopForce, StopGame
<1>2. Ring'
  <2>1. \/ events' = <<>> /\ news' = 0
        \/ events' = events /\ (news' = 0 \/ news' = news)
    BY DEF StoppingTick, StopForce, StopGame
  <2>2. CASE events' = <<>> /\ news' = 0
    BY <2>2, NoEvents
  <2>3. CASE events' = events /\ (news' = 0 \/ news' = news)
    BY <2>3, LenProperties DEF IInv, Shapes, Ring
  <2>. QED  BY <2>1, <2>2, <2>3
<1>3. CASE ForceStopNow
  <2>1. Shapes'
    BY <1>2, <1>3, ForceStopNowDoes DEF Shapes
  <2>. QED  BY <1>1, <1>3, <2>1, ForceStopNowDoes, Halted
<1>4. CASE StoppingTick /\ UNCHANGED <<game, pos>>
  <2>1. game'.state = "STOPPING"
    BY <1>4 DEF StoppingTick
  <2>2. Shapes'
    BY <1>2, <1>4 DEF IInv, Shapes
  <2>3. SameScores(game, game')
    BY <1>4 DEF SameScores
  <2>. QED  BY <1>1, <2>1, <2>2, <2>3, Halted
<1>5. CASE StopGame
  <2>1. /\ DOMAIN game' = GameFields /\ game'.entered = game.entered
        /\ game'.first = game.first /\ game'.claims = game.claims
        /\ game'.score = game.score /\ game'.state = "STOPPING" /\ pos' = pos
        /\ SameScores(game, game')
    BY <1>5 DEF StopGame, IInv, Shapes, Formed, GameFields, SameScores
  <2>2. Formed(game')
    BY <2>1, FormedKept DEF IInv, Shapes, Formed
  <2>3. Shapes'
    BY <1>2, <2>1, <2>2 DEF IInv, Shapes
  <2>. QED  BY <1>1, <2>1, <2>3, Halted
<1>. QED  BY <1>3, <1>4, <1>5 DEF StoppingTick, StopForce

\* The three goals are dispatched, so no train stands on its new target yet.
LEMMA StepPick ==
  ASSUME IInv, NEW s \in Sensors, Pick(s)
  PROVE  IInv'
<1>. DEFINE g == [game EXCEPT !.target[Human] = s]
            turns == <<Priority(game), Other(Priority(game)), Neutral>>
            refused == {i \in 1..3 : GotoRefused(pos, g.train[turns[i]])}
            sent == {i \in 1..3 : \A j \in refused : i < j}
            Send(p, i) == IF i \in sent THEN Goto(p, g.train[turns[i]], g.target[turns[i]])
                          ELSE p
<1>1. /\ game.state = "WAIT_PICK"
      /\ game' = [g EXCEPT !.state = IF refused = {} THEN "ROUND_RUNNING" ELSE "STOPPING"]
      /\ pos' = Send(Send(Send(pos, 1), 2), 3)
      /\ events' = events /\ news' = news
  BY DEF Pick
<1>2. /\ earned' = earned /\ led' = led /\ arrived' = {}
      /\ early' = IF events = <<>> THEN early ELSE early \cup {game.round}
  BY DEF Pick
<1>3. /\ Formed(game) /\ DOMAIN pos = Trains /\ \A u \in Trains : DOMAIN pos[u] = PosFields
      /\ Cast(game) /\ game.round \in Nat /\ game.done = {}
      /\ \A r \in Roles : pos[game.train[r]].st # "finding"
  BY <1>1 DEF IInv, Shapes, Playing
<1>4. /\ DOMAIN g = GameFields /\ g.entered = game.entered /\ g.first = game.first
      /\ g.claims = game.claims /\ g.score = game.score
      /\ g.done = {} /\ g.train = game.train /\ g.round = game.round
  BY <1>3 DEF Formed, GameFields
<1>5. turns[1] \in Roles /\ turns[2] \in Roles /\ turns[3] = Neutral
      /\ Roles = {turns[1], turns[2], turns[3]}
  BY <1>3 DEF Formed, Priority, Other, Players, Roles
<1>. HIDE DEF g, turns
<1>6. /\ DOMAIN game' = GameFields /\ game'.entered = game.entered /\ game'.first = game.first
      /\ game'.claims = game.claims /\ game'.score = game.score
      /\ game'.done = {} /\ game'.train = game.train /\ game'.round = game.round
      /\ game'.target = g.target
      /\ game'.state = IF refused = {} THEN "ROUND_RUNNING" ELSE "STOPPING"
  BY <1>1, <1>4 DEF GameFields
<1>a. /\ led \subseteq earned
      /\ early' = {} => /\ early = {} /\ events = <<>>
                       /\ game'.claims = earned /\ Shares(earned, led, game'.score)
  <2>1. early' = {} => early = {} /\ events = <<>>
    BY <1>2
  <2>. QED  BY <1>1, <1>6, <2>1 DEF IInv, HitsTallied
<1>7. Formed(game')
  BY <1>3, <1>6, FormedKept DEF Formed
<1>. DEFINE T(i) == game.train[turns[i]]
<1>8. T(1) \in Trains /\ T(2) \in Trains /\ T(3) \in Trains
      /\ T(1) # T(2) /\ T(1) # T(3) /\ T(2) # T(3)
  <2>1. turns[1] # turns[2] /\ turns[1] # turns[3] /\ turns[2] # turns[3]
    BY <1>3 DEF turns, Formed, Priority, Other, Players, Human, AI, Neutral
  <2>2. turns[3] \in Roles
    BY <1>5 DEF Roles
  <2>. QED  BY <1>3, <1>5, <2>1, <2>2 DEF Cast
<1>9. ASSUME NEW p, DOMAIN p = Trains, \A u \in Trains : DOMAIN p[u] = PosFields,
             NEW i \in {1, 2, 3}
      PROVE  /\ Moved(p, Send(p, i))
             /\ i \in sent => Send(p, i)[T(i)].st # "stopped"
             /\ \A u \in Trains : u # T(i) => Send(p, i)[u] = p[u]
  <2>1. g.train[turns[i]] = T(i) /\ T(i) \in Trains
    BY <1>4, <1>8
  <2>. HIDE DEF T
  <2>2. CASE i \in sent
    <3>1. Send(p, i) = Goto(p, T(i), g.target[turns[i]])
      BY <2>1, <2>2
    <3>. QED  BY <1>9, <2>1, <3>1, GotoDoes
  <2>3. CASE i \notin sent
    <3>1. Send(p, i) = p
      BY <2>3
    <3>. QED  BY <1>9, <2>3, <3>1 DEF Moved
  <2>. QED  BY <2>2, <2>3
<1>. DEFINE p1 == Send(pos, 1)
            p2 == Send(p1, 2)
            p3 == Send(p2, 3)
<1>. HIDE DEF Send, sent
<1>10. /\ Moved(pos, p1) /\ (1 \in sent => p1[T(1)].st # "stopped")
       /\ \A u \in Trains : u # T(1) => p1[u] = pos[u]
  BY <1>3, <1>9
<1>. HIDE DEF p1
<1>11. /\ Moved(p1, p2) /\ (2 \in sent => p2[T(2)].st # "stopped")
       /\ \A u \in Trains : u # T(2) => p2[u] = p1[u]
  BY <1>9, <1>10 DEF Moved
<1>. HIDE DEF p2
<1>12. /\ Moved(p2, p3) /\ (3 \in sent => p3[T(3)].st # "stopped")
       /\ \A u \in Trains : u # T(3) => p3[u] = p2[u]
  BY <1>9, <1>11 DEF Moved
<1>13. pos' = p3
  BY <1>1 DEF p1, p2
<1>. HIDE DEF p3
<1>14. /\ DOMAIN pos' = Trains /\ \A u \in Trains : DOMAIN pos'[u] = PosFields
       /\ \A u \in Trains : pos'[u].st = "finding" => pos[u].st = "finding"
  BY <1>10, <1>11, <1>12, <1>13 DEF Moved
<1>15. Shapes'
  BY <1>1, <1>7, <1>14 DEF IInv, Shapes, Ring
<1>16. CASE refused # {}
  <2>1. game'.state = "STOPPING"
    BY <1>6, <1>16
  <2>2. HitsTallied'
    BY <1>2, <1>a, <2>1 DEF HitsTallied
  <2>. QED  BY <1>15, <2>1, <2>2 DEF IInv, Playing, StopsOfRound, HitsOfRound, HitsScored
<1>17. CASE refused = {}
  <2>1. game'.state = "ROUND_RUNNING"
    BY <1>6, <1>17
  <2>2. 1 \in sent /\ 2 \in sent /\ 3 \in sent
    BY <1>17 DEF sent
  <2>3. pos'[T(1)].st # "stopped" /\ pos'[T(2)].st # "stopped" /\ pos'[T(3)].st # "stopped"
    BY <1>8, <1>10, <1>11, <1>12, <1>13, <2>2
  <2>4. \A r \in Roles : pos'[game.train[r]].st # "stopped"
    BY <1>5, <2>3
  <2>5. Playing'
    BY <1>3, <1>6, <1>14 DEF Playing, Cast
  <2>6. ASSUME events = <<>>
        PROVE  Len(events) = 0 /\ 1..0 = {} /\ news = 0
    <3>1. Len(<<>>) = 0 /\ 1..0 = {}
      BY EmptySeq
    <3>. QED  BY <2>6, <3>1 DEF IInv, Shapes, Ring
  <2>7. game'.round \notin early' => events = <<>>
    BY <1>2, <1>6
  <2>8. StopsOfRound'
    BY <1>1, <1>6, <2>4, <2>6, <2>7 DEF StopsOfRound, StoppedAtTarget
  <2>9. HitsTallied'
    <3>. SUFFICES ASSUME early' = {} PROVE HitsTallied'
      BY <1>2, <1>a, <2>1 DEF HitsTallied
    <3>1. Consumed(events', game') = game' /\ Len(events') = news'
      BY <1>1, <1>a, <2>6, ConsumedNone
    <3>2. Tallied(game', earned', led')
      BY <1>2, <1>a DEF Tallied
    <3>. QED  BY <1>2, <1>a, <2>1, <3>1, <3>2 DEF HitsTallied, Tallied
  <2>10. HitsOfRound'
    BY <1>1, <1>2, <1>6, <2>1 DEF IInv, HitsTallied, HitsOfRound
  <2>. QED  BY <1>15, <2>1, <2>5, <2>8, <2>9, <2>10 DEF IInv, HitsScored
<1>. QED  BY <1>16, <1>17

-----------------------------------------------------------------------------
(* The results *)

LEMMA InitInvariant == Init => IInv
<1>. SUFFICES ASSUME Init PROVE IInv
  OBVIOUS
<1>1. /\ DOMAIN game = GameFields /\ DOMAIN game.entered = 1..3 /\ game.first = Human
      /\ game.claims = {} /\ game.score = [r \in Players |-> 0] /\ game.state = "OFF"
  BY DEF Init, GameFields
<1>2. Formed(game) /\ \A L : Shares({}, L, game.score)
  BY <1>1, NothingCounted DEF Formed, Players
<1>3. Ring
  <2>1. /\ events \in Seq([type : {"hit", "stop"}, train : Trains, sensor : Sensors])
        /\ Len(events) <= POS_GAME_EVENT_CAP /\ news = 0
    BY GameAssumption DEF Init
  <2>2. \A i \in 1..Len(events) :
          events[i] \in [type : {"hit", "stop"}, train : Trains, sensor : Sensors]
    BY <2>1, ElementOfSeq
  <2>. QED  BY <2>1, <2>2, LenProperties DEF Ring, Event
<1>4. Shapes
  BY <1>2, <1>3, GameAssumption DEF Init, Shapes
<1>5. HitsTallied
  BY <1>1, <1>2 DEF Init, HitsTallied
<1>. QED  BY <1>1, <1>4, <1>5 DEF IInv, Playing, StopsOfRound, HitsOfRound, HitsScored

LEMMA StepInvariant == IInv /\ [Next]_vars => IInv'
<1>. SUFFICES ASSUME IInv, [Next]_vars PROVE IInv'
  OBVIOUS
<1>1. CASE UNCHANGED vars
  <2>1. /\ game' = game /\ pos' = pos /\ events' = events /\ news' = news
        /\ earned' = earned /\ led' = led /\ arrived' = arrived /\ early' = early
    BY <1>1 DEF vars, history
  <2>2. Shapes' /\ Playing' /\ HitsScored'
    BY <2>1 DEF IInv, Shapes, Ring, Playing, Cast, HitsScored
  <2>3. StopsOfRound' /\ HitsOfRound'
    BY <2>1 DEF IInv, StopsOfRound, HitsOfRound
  <2>4. HitsTallied'
    BY <2>1 DEF IInv, HitsTallied, Tallied
  <2>. QED  BY <2>1, <2>2, <2>3, <2>4 DEF IInv
<1>2. CASE PositionStep
  BY <1>2, StepPosition
<1>3. CASE Tick
  BY <1>3, StepSetupTick, StepIdleTick, StepRoundTick, StepEnd DEF Tick
<1>4. CASE Command
  BY <1>4, StepStartSetup, StepEnd, StepEnterTrain, StepPick DEF Command
<1>. QED  BY <1>1, <1>2, <1>3, <1>4 DEF Next

\* What holds of the game between any two steps of it and of the position server.
LEMMA GameInvariant == Spec => []IInv
BY InitInvariant, StepInvariant, PTL DEF Spec

\* However many sensors, rounds and hits there are and in whatever order the two players make
\* them: of a node that both claim, the player whose train was there first has 3 half points and
\* the other 2, and each has them once in the match (game_consume_events).  The hits are told
\* apart by the trains' history, the points by what the ring still holds at each tick.
THEOREM FirstAlwaysGetsMore == Spec => []FirstGetsMore
<1>1. IInv => FirstGetsMore
  BY DEF IInv, HitsTallied, Shares, Own, FirstGetsMore
<1>. QED  BY <1>1, GameInvariant, PTL

\* A round never ends with a hit of its players unread: the event ring holds them until the
\* tick that ends the round (pos_publish_game_event, game_on_tick).  This is where the
\* assumption on MAX_UNREAD is used: the position server publishes no more events between two
\* ticks than the ring holds.  Without an early pick nothing but those hits is counted.
THEOREM NoHitForgotten == Spec => []HitsScored
<1>1. IInv => HitsScored
  BY DEF IInv
<1>. QED  BY <1>1, GameInvariant, PTL

\* In a round whose pick came after a tick that had read the ring empty, no older stop counts,
\* of the setup, an earlier round, game or goto: a role is done only when its train has stopped
\* on its target since the pick (game_consume_events, game_sync_slot_completion_from_position).
THEOREM RoundEndsByArrival == Spec => []DoneIsThere
<1>1. IInv => DoneIsThere
  BY DEF IInv, StopsOfRound, DoneIsThere
<1>. QED  BY <1>1, GameInvariant, PTL
=============================================================================
