-------------------------- MODULE TrainRuntimeProofs --------------------------
(***************************************************************************)
(* The calls between the servers of the train program never close a ring,  *)
(* at most one of the tasks that share the position state is at work,      *)
(* locks of switches are lifted only during a prompt, the stored           *)
(* directions of plain turnouts come true, and a train that no reverse     *)
(* holds has the speed asked for it: for any trains, turnouts, commands    *)
(* and bounds.                                                             *)
(***************************************************************************)
EXTENDS TrainRuntime, FiniteSetTheorems, SequenceTheorems, TLAPS

-----------------------------------------------------------------------------
(* The invariant *)

\* A task calls only tasks of lower rank.
Rank(t) == CASE t = "track" -> 0 [] t = "position" -> 1 [] t \in Managers -> 2
             [] t = "runtime" -> 3 [] t = "control" -> 4 [] OTHER -> 5

Modes == {"COMMAND", "RAW"}
CallOps ==
  {"SET_SPEED", "SET_SWITCH", "UPDATE_SWITCH", "START_REVERSE", "COMPLETE_REVERSE",
   "RESET_STARTUP", "SENSOR", "FAST_TICK", "SETTLE_TICK", "REPLAN_TICK", "GOTO",
   "SPEED_CHANGE", "REVERSE", "RELEASE_NODE", "RELEASE_TRAIN", "RESET_ALL", "MARK_ROUTES_DIRTY",
   "ALLOW_SWITCH_OVERRIDE", "CLEAR_SWITCH_OVERRIDES", "FORCE_STOP", "COMMAND", "TICK"}
EffectOps ==
  {"START_REVERSE_REPLY", "RV_DONE", "RETRY", "RETRIED", "REFRESH", "DEACTIVATE", "SHUTDOWN"}
Requests ==
  [to : Tasks, op : CallOps]
    \cup [to : {"track"}, op : CallOps, train : Trains]
    \cup [to : {"track"}, op : CallOps, train : Trains, speed : Speeds]
    \cup [to : {"track"}, op : CallOps, sw : Turnouts, dir : Directions]
    \cup [to : {"track"}, op : CallOps, sw : Turnouts, dir : Directions, hit : {TRUE}]
    \cup [to : {"position"}, op : CallOps, sw : Turnouts]
    \cup [to : {"control", "runtime"}, op : CallOps, cmd : Commands]
Effects ==
  [do : EffectOps] \cup [do : EffectOps, train : Trains]
    \cup [do : {"THROW"}, sw : Turnouts, dir : Directions]
    \cup [do : {"ACQUIRE", "DRAW"}, mode : Modes]
Steps == Requests \cup Effects
Calls(e) == "to" \in DOMAIN e
Effect(e, op) == "do" \in DOMAIN e /\ e.do = op

\* What a reverse is made of, from its start to its end.
Reverses(e) ==
  \/ Calls(e) /\ e.op \in {"START_REVERSE", "COMPLETE_REVERSE"}
  \/ Effect(e, "START_REVERSE_REPLY") \/ Effect(e, "RV_DONE")

\* Handlers that apply the switches of a route: of the position server, of the demo, and of
\* the runtime or parts of those.
Storers == {"position", "demo", "runtime", "quiet", "still"}

Fit(s, e) ==
  /\ Calls(e) => Rank(e.to) < Rank(s)
  /\ Calls(e) /\ s \in {"input", "control"} => e \in [to : Tasks, op : CallOps, cmd : Commands]
  /\ Calls(e) /\ e.op = "ALLOW_SWITCH_OVERRIDE" => s \in {"runtime", "prompt", "still"}
  /\ Calls(e) /\ e.op = "UPDATE_SWITCH" => s \in Storers
  /\ Effect(e, "THROW") => s \in Storers /\ e.sw \in Turnouts /\ e.dir \in Directions
  /\ Calls(e) /\ e.op = "SET_SWITCH" => e.sw \in Turnouts
  /\ Calls(e) /\ e.op = "SET_SPEED" => e.train \in Trains /\ e.speed \in Speeds
  /\ Calls(e) /\ e.op = "RESET_STARTUP" => s = "demo"
  /\ Effect(e, "REFRESH") \/ Effect(e, "DEACTIVATE") => s = "runtime"
  /\ Reverses(e) => s \in {"runtime", "prompt", "quiet"}

\* What the rest of a handler of s may be (or a part of a handler of the runtime: "prompt",
\* on a line typed at the prompt; "quiet", on another; "still", on one that reverses no
\* train): nothing comes between an ACQUIRE and its DRAW.
Fits(s, q) ==
  /\ q \in Seq(Steps)
  /\ \A i \in 1..Len(q) : Fit(s, q[i])
  /\ \A i \in 1..Len(q) : Effect(q[i], "ACQUIRE") => i < Len(q) /\ Effect(q[i + 1], "DRAW")

Handlers ==
  /\ todo \in [Tasks -> Seq(Steps)] /\ client \in [Tasks -> Tasks \cup {Nobody}]
  /\ \A s \in Tasks : Fits(s, todo[s])
  /\ todo["track"] = <<>> /\ client["track"] = Nobody

\* A client is blocked on the server it is the client of; the servers that serve one
\* request at a time work only while they have a client.
Clients ==
  /\ \A s \in Tasks : client[s] # Nobody => Asks(client[s], s)
  /\ \A s \in {"position"} \cup Managers : todo[s] # <<>> => client[s] # Nobody
  /\ client["position"] \in Servers \cup {Nobody}
  /\ \A s \in Managers : client[s] \in {"runtime", Nobody}

Drawers == {t \in Tasks : todo[t] # <<>> /\ Effect(Head(todo[t]), "DRAW")}
Waiters == {ui.waiters[i].task : i \in 1..Len(ui.waiters)}

\* Who has the drawing lock or waits for it is about to draw, and calls nobody.
Console ==
  /\ ui \in [owner : Tasks \cup {Nobody}, mode : Modes, depth : Nat,
             waiters : Seq([task : Tasks, mode : Modes]), lost : SUBSET Tasks]
  /\ ui.depth = IF ui.owner = Nobody THEN 0 ELSE 1
  /\ ui.owner = Nobody => ui.waiters = <<>>
  /\ ui.owner # Nobody => ui.owner \in Drawers /\ ui.owner \notin Waiters
  /\ \A i \in 1..Len(ui.waiters) : ui.waiters[i].task \in Drawers
  /\ \A i, j \in 1..Len(ui.waiters) : ui.waiters[i].task = ui.waiters[j].task => i = j

Mails ==
  [to : {"runtime"}, op : {"SENSOR_HIT", "SWITCH_ACK", "RV_REQUEST", "FAST", "SETTLE",
                           "REPLAN", "DEMO", "GAME"}]
    \cup [to : {"runtime"}, op : {"RV_COMPLETE"}, train : Trains]

Flow == Handlers /\ Clients /\ Console /\ BagToSet(mail) \subseteq Mails

-----------------------------------------------------------------------------
(* Steps of handlers *)

LEMMA Kinds ==
  /\ \A e \in Requests : Calls(e) /\ e.to \in Tasks /\ \A op : ~Effect(e, op)
  /\ \A e \in Effects : ~Calls(e)
<1>. USE DEF Requests, Effects, Tasks, Servers, Calls, Effect
<1>1. \A e \in Requests : /\ "to" \in DOMAIN e /\ "do" \notin DOMAIN e /\ e.to \in Tasks
  OBVIOUS
<1>2. \A e \in Effects : "do" \in DOMAIN e /\ "to" \notin DOMAIN e
  OBVIOUS
<1>. QED  BY <1>1, <1>2

LEMMA FitsTail ==
  ASSUME NEW s, NEW q, Fits(s, q), q # <<>>
  PROVE  Fits(s, Tail(q)) /\ Head(q) \in Steps /\ Head(q) = q[1] /\ Fit(s, Head(q))
<1>1. q \in Seq(Steps) /\ Len(q) \in Nat \ {0}
  BY EmptySeq, LenProperties DEF Fits
<1>2. /\ Tail(q) \in Seq(Steps) /\ Len(Tail(q)) = Len(q) - 1
      /\ \A i \in 1..Len(Tail(q)) : Tail(q)[i] = q[i + 1] /\ i + 1 \in 1..Len(q)
      /\ Head(q) = q[1] /\ 1 \in 1..Len(q) /\ q[1] \in Steps
  BY <1>1, HeadTailProperties, ElementOfSeq
<1>3. ASSUME NEW i \in 1..Len(Tail(q))
      PROVE  /\ Fit(s, Tail(q)[i])
             /\ Effect(Tail(q)[i], "ACQUIRE") =>
                  i < Len(Tail(q)) /\ Effect(Tail(q)[i + 1], "DRAW")
  <2>1. Tail(q)[i] = q[i + 1] /\ i + 1 \in 1..Len(q)
    BY <1>2
  <2>2. Fit(s, q[i + 1])
    BY <2>1 DEF Fits
  <2>3. ASSUME Effect(q[i + 1], "ACQUIRE")
        PROVE  i < Len(Tail(q)) /\ Effect(Tail(q)[i + 1], "DRAW")
    <3>1. i + 1 < Len(q) /\ Effect(q[i + 2], "DRAW")
      BY <2>1, <2>3, <1>1 DEF Fits
    <3>2. i + 1 \in 1..Len(Tail(q))
      BY <3>1, <1>1, <1>2
    <3>. QED  BY <3>1, <3>2, <1>2
  <2>. QED  BY <2>1, <2>2, <2>3
<1>. QED  BY <1>1, <1>2, <1>3 DEF Fits

LEMMA FitsConcat ==
  ASSUME NEW s, NEW p, NEW q, Fits(s, p), Fits(s, q)
  PROVE  Fits(s, p \o q)
<1>. DEFINE c == p \o q
<1>1. p \in Seq(Steps) /\ q \in Seq(Steps) /\ Len(p) \in Nat /\ Len(q) \in Nat
  BY LenProperties DEF Fits
<1>2. /\ c \in Seq(Steps) /\ Len(c) = Len(p) + Len(q)
      /\ \A i \in 1..(Len(p) + Len(q)) : c[i] = IF i <= Len(p) THEN p[i] ELSE q[i - Len(p)]
  BY <1>1, ConcatProperties
<1>. HIDE DEF c
<1>3. ASSUME NEW i \in 1..Len(c)
      PROVE  /\ Fit(s, c[i])
             /\ Effect(c[i], "ACQUIRE") => i < Len(c) /\ Effect(c[i + 1], "DRAW")
  <2>1. CASE i <= Len(p)
    <3>1. i \in 1..Len(p) /\ c[i] = p[i]
      BY <2>1, <1>1, <1>2
    <3>2. ASSUME Effect(p[i], "ACQUIRE") PROVE i < Len(c) /\ Effect(c[i + 1], "DRAW")
      <4>1. i < Len(p) /\ Effect(p[i + 1], "DRAW")
        BY <3>1, <3>2 DEF Fits
      <4>. QED  BY <4>1, <1>1, <1>2
    <3>. QED  BY <3>1, <3>2 DEF Fits
  <2>2. CASE i > Len(p)
    <3>. DEFINE k == i - Len(p)
    <3>1. k \in 1..Len(q) /\ c[i] = q[k]
      BY <2>2, <1>1, <1>2
    <3>2. ASSUME Effect(q[k], "ACQUIRE") PROVE i < Len(c) /\ Effect(c[i + 1], "DRAW")
      <4>1. k < Len(q) /\ Effect(q[k + 1], "DRAW")
        BY <3>1, <3>2 DEF Fits
      <4>2. i + 1 \in 1..(Len(p) + Len(q)) /\ i + 1 > Len(p) /\ i + 1 - Len(p) = k + 1
        BY <4>1, <3>1, <1>1, <2>2
      <4>. QED  BY <4>1, <4>2, <1>1, <1>2
    <3>. QED  BY <3>1, <3>2 DEF Fits
  <2>. QED  BY <2>1, <2>2, <1>1, <1>2
<1>. QED  BY <1>2, <1>3 DEF Fits, c

\* Single steps, pairs of them, and batches of output.
LEMMA FitsFew ==
  ASSUME NEW s
  PROVE  /\ Fits(s, <<>>)
         /\ \A e \in Steps : Fit(s, e) /\ ~Effect(e, "ACQUIRE") => Fits(s, <<e>>)
         /\ \A m \in Modes : Fits(s, Batch(m))
<1>1. Fits(s, <<>>)
  BY DEF Fits
<1>2. ASSUME NEW e \in Steps, Fit(s, e), ~Effect(e, "ACQUIRE") PROVE Fits(s, <<e>>)
  <2>1. <<e>> \in Seq(Steps) /\ Len(<<e>>) = 1 /\ <<e>>[1] = e
    OBVIOUS
  <2>2. \A i \in 1..1 : i = 1
    OBVIOUS
  <2>. QED  BY <1>2, <2>1, <2>2 DEF Fits
<1>3. ASSUME NEW m \in Modes PROVE Fits(s, Batch(m))
  <2>. DEFINE a == [do |-> "ACQUIRE", mode |-> m]
              d == [do |-> "DRAW", mode |-> m]
  <2>1. /\ a \in Effects /\ d \in Effects
        /\ Effect(a, "ACQUIRE") /\ Effect(d, "DRAW") /\ ~Effect(d, "ACQUIRE")
        /\ \A op \in EffectOps \cup {"THROW"} : ~Effect(a, op) /\ ~Effect(d, op)
    <3>1. a \in [do : {"ACQUIRE", "DRAW"}, mode : Modes] /\ d \in [do : {"ACQUIRE", "DRAW"}, mode : Modes]
      OBVIOUS
    <3>2. "do" \in DOMAIN a /\ a.do = "ACQUIRE" /\ "do" \in DOMAIN d /\ d.do = "DRAW"
      OBVIOUS
    <3>. HIDE DEF a, d
    <3>. QED  BY <3>1, <3>2 DEF Effects, Effect, EffectOps
  <2>2. Fit(s, a) /\ Fit(s, d)
    BY <2>1, Kinds DEF Fit, Reverses, EffectOps
  <2>. HIDE DEF a, d
  <2>3. /\ <<a, d>> \in Seq(Steps) /\ Len(<<a, d>>) = 2
        /\ <<a, d>>[1] = a /\ <<a, d>>[2] = d
    BY <2>1 DEF Steps
  <2>4. \A i \in 1..2 : i = 1 \/ i = 2
    OBVIOUS
  <2>5. Fits(s, <<a, d>>)
    BY <2>1, <2>2, <2>3, <2>4 DEF Fits
  <2>. QED  BY <2>5 DEF Batch, a, d
<1>. QED  BY <1>1, <1>2, <1>3

LEMMA FitsPair ==
  ASSUME NEW s, NEW a, NEW b, Fits(s, <<a>>), Fits(s, <<b>>)
  PROVE  Fits(s, <<a, b>>)
<1>1. <<a>> \o <<b>> = <<a, b>>
  <2>1. <<a>> \in Seq({a, b}) /\ <<b>> \in Seq({a, b}) /\ <<a, b>> \in Seq({a, b})
    OBVIOUS
  <2>. DEFINE c == <<a>> \o <<b>>
  <2>2. c \in Seq({a, b}) /\ Len(c) = 2 /\ c[1] = a /\ c[2] = b
    BY <2>1, ConcatProperties
  <2>. HIDE DEF c
  <2>3. c = <<a, b>>
    BY <2>1, <2>2
  <2>. QED  BY <2>3 DEF c
<1>2. Fits(s, <<a>> \o <<b>>)
  BY FitsConcat
<1>. QED  BY <1>1, <1>2

LEMMA FitsTriple ==
  ASSUME NEW s, NEW a, NEW b, NEW c, Fits(s, <<a>>), Fits(s, <<b>>), Fits(s, <<c>>)
  PROVE  Fits(s, <<a, b, c>>)
<1>1. <<a, b>> \o <<c>> = <<a, b, c>>
  <2>1. /\ <<a, b>> \in Seq({a, b, c}) /\ <<c>> \in Seq({a, b, c})
        /\ <<a, b, c>> \in Seq({a, b, c})
    OBVIOUS
  <2>. DEFINE d == <<a, b>> \o <<c>>
  <2>2. d \in Seq({a, b, c}) /\ Len(d) = 3 /\ d[1] = a /\ d[2] = b /\ d[3] = c
    BY <2>1, ConcatProperties
  <2>. HIDE DEF d
  <2>3. d = <<a, b, c>>
    BY <2>1, <2>2
  <2>. QED  BY <2>3 DEF d
<1>2. Fits(s, <<a, b>> \o <<c>>)
  BY FitsPair, FitsConcat
<1>. QED  BY <1>1, <1>2

\* The requests that not every server makes, or not of everything.
LimitedOps ==
  {"ALLOW_SWITCH_OVERRIDE", "SET_SWITCH", "UPDATE_SWITCH", "SET_SPEED", "START_REVERSE",
   "COMPLETE_REVERSE"}

\* Handlers of the servers: neither the input nor the control task.
Serves(s) == s \notin {"input", "control"}

LEMMA AskFits ==
  ASSUME NEW s, Serves(s), NEW to \in Tasks, Rank(to) < Rank(s),
         NEW op \in CallOps \ LimitedOps, op = "RESET_STARTUP" => s = "demo"
  PROVE  Fits(s, <<Ask(to, op)>>)
<1>. DEFINE e == Ask(to, op)
<1>1. e \in Requests /\ e.to = to /\ e.op = op
  BY DEF Ask, Requests
<1>. HIDE DEF e
<1>2. Calls(e) /\ \A x : ~Effect(e, x)
  BY <1>1, Kinds
<1>3. Fit(s, e)
  BY <1>1, <1>2 DEF Fit, Serves, LimitedOps, Reverses
<1>4. e \in Steps
  BY <1>1 DEF Steps
<1>5. Fits(s, <<e>>)
  BY <1>2, <1>3, <1>4, FitsFew
<1>. QED  BY <1>5 DEF e

LEMMA TrackFits ==
  ASSUME NEW s, Serves(s), Rank(s) > 0
  PROVE  /\ \A t \in Trains, v \in Speeds : Fits(s, <<SetSpeed(t, v)>>)
         /\ \A x \in Turnouts, d \in Directions :
              /\ Fits(s, <<SetSwitch(x, d)>>)
              /\ s \in Storers => /\ Fits(s, <<UpdateSwitch(x, d)>>)
                                 /\ Fits(s, <<Correction(x, d)>>)
         /\ s \in {"runtime", "prompt", "quiet"} =>
              \A t \in Trains : Fits(s, <<StartReverse(t)>>) /\ Fits(s, <<CompleteReverse(t)>>)
<1>1. ASSUME NEW e \in Requests, e.to = "track",
             e.op \notin {"ALLOW_SWITCH_OVERRIDE", "RESET_STARTUP"},
             e.op = "UPDATE_SWITCH" => s \in Storers, e.op = "SET_SWITCH" => e.sw \in Turnouts,
             e.op = "SET_SPEED" => e.train \in Trains /\ e.speed \in Speeds,
             e.op \in {"START_REVERSE", "COMPLETE_REVERSE"} => s \in {"runtime", "prompt", "quiet"}
      PROVE  Fits(s, <<e>>)
  <2>1. Calls(e) /\ \A x : ~Effect(e, x)
    BY <1>1, Kinds
  <2>2. Rank("track") = 0
    BY DEF Rank, Managers
  <2>3. Fit(s, e)
    BY <1>1, <2>1, <2>2 DEF Fit, Serves, Reverses
  <2>. QED  BY <1>1, <2>1, <2>3, FitsFew DEF Steps
<1>2. ASSUME NEW t \in Trains, NEW v \in Speeds
      PROVE  Fits(s, <<SetSpeed(t, v)>>)
  <2>1. SetSpeed(t, v) \in Requests /\ SetSpeed(t, v).to = "track"
        /\ SetSpeed(t, v).op = "SET_SPEED"
        /\ SetSpeed(t, v).train \in Trains /\ SetSpeed(t, v).speed \in Speeds
    BY DEF SetSpeed, Requests, CallOps
  <2>. QED  BY <2>1, <1>1
<1>3. ASSUME NEW x \in Turnouts, NEW d \in Directions
      PROVE  /\ Fits(s, <<SetSwitch(x, d)>>)
             /\ s \in Storers => /\ Fits(s, <<UpdateSwitch(x, d)>>)
                                /\ Fits(s, <<Correction(x, d)>>)
  <2>1. SetSwitch(x, d) \in Requests /\ SetSwitch(x, d).to = "track"
        /\ SetSwitch(x, d).op = "SET_SWITCH" /\ SetSwitch(x, d).sw \in Turnouts
    BY DEF SetSwitch, Requests, CallOps
  <2>2. UpdateSwitch(x, d) \in Requests /\ UpdateSwitch(x, d).to = "track"
        /\ UpdateSwitch(x, d).op = "UPDATE_SWITCH"
    BY DEF UpdateSwitch, Requests, CallOps
  <2>3. Correction(x, d) \in Requests /\ Correction(x, d).to = "track"
        /\ Correction(x, d).op = "UPDATE_SWITCH"
    BY DEF Correction, Requests, CallOps
  <2>. QED  BY <2>1, <2>2, <2>3, <1>1
<1>4. ASSUME s \in {"runtime", "prompt", "quiet"}, NEW t \in Trains
      PROVE  Fits(s, <<StartReverse(t)>>) /\ Fits(s, <<CompleteReverse(t)>>)
  <2>1. StartReverse(t) \in Requests /\ StartReverse(t).to = "track"
        /\ StartReverse(t).op = "START_REVERSE"
    BY DEF StartReverse, Requests, CallOps
  <2>2. CompleteReverse(t) \in Requests /\ CompleteReverse(t).to = "track"
        /\ CompleteReverse(t).op = "COMPLETE_REVERSE"
    BY DEF CompleteReverse, Requests, CallOps
  <2>. QED  BY <2>1, <2>2, <1>1, <1>4
<1>. QED  BY <1>2, <1>3, <1>4

LEMMA DoFits ==
  /\ \A s, op : op \in {"RETRY", "RETRIED", "SHUTDOWN"} => Fits(s, <<Do(op)>>)
  /\ \A s \in {"runtime", "prompt", "quiet"} : Fits(s, <<Do("RV_DONE")>>)
  /\ Fits("runtime", <<Do("REFRESH")>>) /\ Fits("runtime", <<Do("DEACTIVATE")>>)
  /\ \A s \in {"runtime", "prompt", "quiet"} : \A t \in Trains : Fits(s, <<Started(t)>>)
<1>1. ASSUME NEW s, NEW op \in EffectOps \ {"START_REVERSE_REPLY"},
             op = "RV_DONE" => s \in {"runtime", "prompt", "quiet"},
             op \in {"REFRESH", "DEACTIVATE"} => s = "runtime"
      PROVE  Fits(s, <<Do(op)>>)
  <2>. DEFINE e == Do(op)
  <2>1. e \in Effects /\ e.do = op
    BY DEF Do, Effects
  <2>. HIDE DEF e
  <2>2. Fit(s, e)
    BY <2>1, <1>1, Kinds DEF Fit, Effect, Reverses, EffectOps
  <2>3. Fits(s, <<e>>)
    BY <2>1, <2>2, FitsFew DEF Steps, Effect, EffectOps
  <2>. QED  BY <2>3 DEF e
<1>2. ASSUME NEW s \in {"runtime", "prompt", "quiet"}, NEW t \in Trains
      PROVE  Fits(s, <<Started(t)>>)
  <2>. DEFINE e == Started(t)
  <2>1. e \in Effects /\ e.do = "START_REVERSE_REPLY"
    BY DEF Started, Effects, EffectOps
  <2>. HIDE DEF e
  <2>2. Fit(s, e)
    BY <2>1, Kinds DEF Fit, Effect, Reverses
  <2>3. Fits(s, <<e>>)
    BY <2>1, <2>2, FitsFew DEF Steps, Effect
  <2>. QED  BY <2>3 DEF e
<1>. QED  BY <1>1, <1>2 DEF EffectOps

-----------------------------------------------------------------------------
(* The handlers *)

LEMMA Ranks ==
  /\ Rank("track") = 0 /\ Rank("position") = 1 /\ Rank("demo") = 2 /\ Rank("game") = 2
  /\ Rank("runtime") = 3 /\ Rank("control") = 4 /\ Rank("input") = 5 /\ Rank("ui_tick") = 5
  /\ \A s \in Servers : Serves(s) /\ s \in Tasks
  /\ \A s \in Managers : s \in Servers /\ Rank(s) = 2 /\ s \in Tasks
BY DEF Rank, Managers, Servers, Tasks, Serves

\* The calls of who drives a train: a speed, or a turnout of a route.
LEMMA DriveFits ==
  ASSUME NEW s \in Storers, Rank(s) > 0
  PROVE  /\ \A q \in {<<>>} \cup PositionCalls : Fits(s, q)
         /\ \A x \in Turnouts, d \in Directions : Fits(s, <<SetSwitch(x, d), UpdateSwitch(x, d)>>)
<1>0. Serves(s)
  BY DEF Serves, Storers
<1>1. ASSUME NEW x \in Turnouts, NEW d \in Directions
      PROVE  Fits(s, <<SetSwitch(x, d), UpdateSwitch(x, d)>>)
  BY <1>0, TrackFits, FitsPair
<1>2. ASSUME NEW x \in Turnouts, NEW d \in Directions
      PROVE  Fits(s, <<Throw(x, d)>>)
  <2>. DEFINE e == Throw(x, d)
  <2>1. e \in Effects /\ e.do = "THROW" /\ e.sw \in Turnouts /\ e.dir \in Directions
    BY DEF Throw, Effects
  <2>. HIDE DEF e
  <2>2. Fit(s, e)
    BY <2>1, Kinds DEF Fit, Effect, Reverses
  <2>3. Fits(s, <<e>>)
    BY <2>1, <2>2, FitsFew DEF Steps, Effect
  <2>. QED  BY <2>3 DEF e
<1>3. ASSUME NEW t \in Trains, NEW v \in Speeds
      PROVE  Fits(s, <<SetSpeed(t, v)>>)
  BY <1>0, TrackFits
<1>4. ASSUME NEW q \in PositionCalls
      PROVE  \/ \E t \in Trains, v \in Speeds : q = <<SetSpeed(t, v)>>
             \/ \E x \in Turnouts, d \in Directions : q = <<Throw(x, d)>>
  BY <1>4 DEF PositionCalls
<1>5. \A q \in PositionCalls : Fits(s, q)
  BY <1>2, <1>3, <1>4
<1>. HIDE DEF PositionCalls
<1>. QED  BY <1>1, <1>5, FitsFew

\* A handler of the position server: a correction, then calls, or calls and a line.
LEMMA DriveCases ==
  ASSUME NEW op, NEW q \in DriveSteps(op)
  PROVE  \/ q = <<>>
         \/ \E fix \in {<<>>} \cup Corrections, drive \in {<<>>} \cup PositionCalls : q = fix \o drive
         \/ \E drive \in PositionCalls : q = drive \o LogLine
<1>. DEFINE Fixes == {<<>>} \cup (IF op = "SENSOR" THEN Corrections ELSE {})
            Rides == {<<>>} \cup PositionCalls
            Lone == {fix \o drive : fix \in Fixes, drive \in Rides}
            Lines == IF op = "REPLAN_TICK" THEN {p \o LogLine : p \in PositionCalls} ELSE {}
<1>1. DriveSteps(op) = IF op \notin Drives THEN {<<>>} ELSE Lone \cup Lines
  BY DEF DriveSteps
<1>2. ASSUME q \in Lone PROVE \E fix \in Fixes, drive \in Rides : q = fix \o drive
  <2>. HIDE DEF Fixes, Rides
  <2>. QED  BY <1>2
<1>3. Fixes \subseteq {<<>>} \cup Corrections
  <2>. HIDE DEF Corrections
  <2>. QED  OBVIOUS
<1>4. ASSUME q \in Lines PROVE \E drive \in PositionCalls : q = drive \o LogLine
  <2>. HIDE DEF PositionCalls, LogLine
  <2>. QED  BY <1>4
<1>. HIDE DEF Fixes, Lone, Lines
<1>5. q = <<>> \/ q \in Lone \/ q \in Lines
  BY <1>1
<1>. HIDE DEF Rides
<1>6. (\E fix \in Fixes, drive \in Rides : q = fix \o drive)
        => \E fix \in {<<>>} \cup Corrections, drive \in Rides : q = fix \o drive
  BY <1>3
<1>. QED  BY <1>2, <1>4, <1>5, <1>6 DEF Rides

LEMMA PositionFits ==
  ASSUME NEW op, NEW q \in DriveSteps(op)
  PROVE  Fits("position", q)
<1>1. "position" \in Storers /\ Serves("position") /\ Rank("position") > 0
  BY Ranks DEF Storers, Serves
<1>2. /\ \A p \in {<<>>} \cup PositionCalls : Fits("position", p)
      /\ Fits("position", LogLine)
  BY <1>1, DriveFits, FitsFew DEF LogLine, Modes
<1>3. \A p \in Corrections : Fits("position", p)
  <2>. SUFFICES ASSUME NEW x \in Turnouts, NEW d \in Directions
                PROVE  Fits("position", <<Correction(x, d)>>)
    BY DEF Corrections, Directions
  <2>. QED  BY <1>1, TrackFits
<1>4. CASE q = <<>>
  BY <1>2, <1>4
<1>5. ASSUME NEW fix \in {<<>>} \cup Corrections, NEW drive \in {<<>>} \cup PositionCalls,
             q = fix \o drive
      PROVE  Fits("position", q)
  BY <1>2, <1>3, <1>5, FitsConcat
<1>6. ASSUME NEW drive \in PositionCalls, q = drive \o LogLine
      PROVE  Fits("position", q)
  BY <1>2, <1>6, FitsConcat
<1>7. \/ q = <<>>
      \/ \E fix \in {<<>>} \cup Corrections, drive \in {<<>>} \cup PositionCalls : q = fix \o drive
      \/ \E drive \in PositionCalls : q = drive \o LogLine
  BY DriveCases
<1>. QED  BY <1>4, <1>5, <1>6, <1>7

LEMMA StopFits ==
  ASSUME NEW s \in Managers
  PROVE  (\A t \in Trains : Fits(s, StopTrain(t))) /\ Fits(s, StopAll)
<1>1. Serves(s) /\ Rank(s) = 2 /\ "position" \in Tasks
  BY Ranks DEF Servers
<1>2. ASSUME NEW t \in Trains
      PROVE  /\ Fits(s, <<Ask("position", "SPEED_CHANGE")>>) /\ Fits(s, <<SetSpeed(t, 0)>>)
             /\ Fits(s, StopTrain(t))
             /\ Len(StopTrain(t)) = 2
             /\ StopTrain(t)[1] = Ask("position", "SPEED_CHANGE")
             /\ StopTrain(t)[2] = SetSpeed(t, 0)
  <2>1. Fits(s, <<Ask("position", "SPEED_CHANGE")>>)
    BY <1>1, AskFits, Ranks DEF CallOps, LimitedOps
  <2>2. Fits(s, <<SetSpeed(t, 0)>>)
    BY <1>1, TrackFits, RuntimeAssumption
  <2>3. Fits(s, StopTrain(t))
    BY <2>1, <2>2, FitsPair DEF StopTrain
  <2>4. /\ Len(StopTrain(t)) = 2 /\ StopTrain(t)[1] = Ask("position", "SPEED_CHANGE")
        /\ StopTrain(t)[2] = SetSpeed(t, 0)
    BY DEF StopTrain
  <2>. QED  BY <2>1, <2>2, <2>3, <2>4
<1>. DEFINE n == Cardinality(Trains)
            order == SetToSeq(Trains)
<1>3. n \in Nat /\ order \in [1..n -> Trains]
  <2>1. n \in Nat /\ ExistsBijection(1..n, Trains)
    BY FS_CardinalityType, RuntimeAssumption
  <2>2. \E f \in [1..n -> Trains] : IsInjective(f)
    <3>1. PICK f \in Bijection(1..n, Trains) : TRUE
      BY <2>1 DEF ExistsBijection
    <3>2. f \in [1..n -> Trains] /\ IsInjective(f)
      BY <3>1 DEF Bijection, Injection
    <3>. QED  BY <3>2
  <2>. QED  BY <2>1, <2>2 DEF SetToSeq
<1>4. Len(order) = n
  BY <1>3
<1>. HIDE DEF n, order
<1>5. ASSUME NEW i \in 1..(2 * n)
      PROVE  LET e == StopTrain(order[(i + 1) \div 2])[2 - (i % 2)]
             IN  e \in Steps /\ Fit(s, e) /\ ~Effect(e, "ACQUIRE")
  <2>. DEFINE t == order[(i + 1) \div 2]
              k == 2 - (i % 2)
  <2>1. (i + 1) \div 2 \in 1..n /\ k \in {1, 2}
    BY <1>3
  <2>2. t \in Trains
    BY <2>1, <1>3
  <2>. HIDE DEF t, k
  <2>3. Fits(s, StopTrain(t)) /\ Len(StopTrain(t)) = 2 /\ k \in 1..2
    <3>1. k \in 1..2
      BY <2>1
    <3>2. Fits(s, StopTrain(t)) /\ Len(StopTrain(t)) = 2
      BY <2>2, <1>2, Zenon
    <3>. QED  BY <3>1, <3>2
  <2>4. StopTrain(t)[k] \in Steps /\ Fit(s, StopTrain(t)[k])
    BY <2>3, ElementOfSeq DEF Fits
  <2>5. Ask("position", "SPEED_CHANGE") \in Requests /\ SetSpeed(t, 0) \in Requests
    BY <2>2, RuntimeAssumption, <1>1 DEF Ask, SetSpeed, Requests, CallOps
  <2>6. ~Effect(StopTrain(t)[k], "ACQUIRE")
    BY <2>1, <2>2, <2>5, <1>2, Kinds
  <2>. QED  BY <2>4, <2>6 DEF t, k
<1>6. StopAll = [i \in 1..(2 * n) |-> StopTrain(order[(i + 1) \div 2])[2 - (i % 2)]]
  BY <1>4 DEF StopAll, order
<1>7. StopAll \in Seq(Steps) /\ Len(StopAll) = 2 * n
      /\ \A i \in 1..(2 * n) : StopAll[i] = StopTrain(order[(i + 1) \div 2])[2 - (i % 2)]
  BY <1>3, <1>5, <1>6
<1>8. Fits(s, StopAll)
  BY <1>5, <1>7 DEF Fits
<1>. QED  BY <1>2, <1>8

LEMMA ManagerFits ==
  ASSUME NEW s \in Managers, NEW op, NEW q \in ManagerCalls(s, op)
  PROVE  Fits(s, q)
<1>1. Serves(s) /\ Rank(s) = 2 /\ "position" \in Tasks /\ "track" \in Tasks
  BY Ranks DEF Servers
<1>2. Fits(s, LogLine) /\ Fits(s, <<>>)
  BY FitsFew DEF LogLine, Modes
<1>3. /\ Fits(s, <<Ask("position", "RESET_ALL")>>) /\ Fits(s, <<Ask("position", "GOTO")>>)
      /\ s = "demo" => Fits(s, <<Ask("track", "RESET_STARTUP")>>)
  BY <1>1, AskFits, Ranks DEF CallOps, LimitedOps
<1>4. s = "demo" => Fits(s, <<Ask("position", "RESET_ALL"), Ask("track", "RESET_STARTUP")>>)
  BY <1>3, FitsPair
<1>5. s = "demo" => Fits(s, StopAll \o <<Ask("position", "RESET_ALL"), Ask("track", "RESET_STARTUP")>>)
  BY <1>4, StopFits, FitsConcat
<1>6. \A e \in GameStops : Fits(s, e)
  <2>1. Fits(s, <<Ask("position", "RELEASE_TRAIN")>>)
    BY <1>1, AskFits, Ranks DEF CallOps, LimitedOps
  <2>2. \A t \in Trains : Fits(s, GameStop(t))
    BY <2>1, StopFits, FitsConcat DEF GameStop
  <2>3. \A t \in Trains : Fits(s, GameStop(t) \o LogLine)
    BY <1>2, <2>2, FitsConcat
  <2>4. \A t, u \in Trains : Fits(s, GameStop(t) \o (GameStop(u) \o LogLine))
    BY <2>2, <2>3, FitsConcat
  <2> DEFINE One == {GameStop(t) \o LogLine : t \in Trains}
             Two == {GameStop(t) \o (GameStop(u) \o LogLine) : t, u \in Trains}
  <2>5. GameStops = {LogLine} \cup One \cup Two
    BY DEF GameStops
  <2>6. ASSUME NEW e \in One PROVE Fits(s, e)
    <3>1. \E t \in Trains : e = GameStop(t) \o LogLine  OBVIOUS
    <3>. QED  BY <3>1, <2>3
  <2>7. ASSUME NEW e \in Two PROVE Fits(s, e)
    <3>1. \E t, u \in Trains : e = GameStop(t) \o (GameStop(u) \o LogLine)  OBVIOUS
    <3>. QED  BY <3>1, <2>4
  <2>. HIDE DEF One, Two
  <2>. QED  BY <1>2, <2>5, <2>6, <2>7
<1>7. s = "demo" => \A e \in PositionCalls : Fits(s, e)
  BY <1>1, DriveFits DEF Storers
<1>8. \A t \in Trains : Fits(s, StopTrain(t))
  BY StopFits
<1>. HIDE DEF PositionCalls, GameStops
<1>. QED  BY <1>2, <1>3, <1>5, <1>6, <1>7, <1>8 DEF ManagerCalls

\* Handlers of the runtime, or parts of them.
Acts(s) == s \in {"runtime", "prompt", "quiet", "still"}

LEMMA RuntimeAsks ==
  ASSUME NEW s, Acts(s)
  PROVE
  /\ \A op \in CallOps \ (LimitedOps \cup {"RESET_STARTUP"}) : Fits(s, <<Ask("position", op)>>)
  /\ \A m \in Managers : \A op \in {"FORCE_STOP", "COMMAND", "TICK"} :
       Fits(s, <<Ask(m, op)>>)
  /\ s # "quiet" => \A x \in Turnouts : Fits(s, <<Override(x)>>)
  /\ \A t \in Trains, v \in Speeds : Fits(s, <<SetSpeed(t, v)>>)
  /\ \A x \in Turnouts, d \in Directions : Fits(s, <<SetSwitch(x, d)>>)
  /\ s # "still" => \A t \in Trains : /\ Fits(s, <<StartReverse(t)>>)
                                       /\ Fits(s, <<CompleteReverse(t)>>)
<1>0. Serves(s) /\ Rank(s) \in {3, 5} /\ "position" \in Tasks
  BY DEF Acts, Serves, Rank, Managers, Tasks, Servers
<1>1. ASSUME NEW op \in CallOps \ (LimitedOps \cup {"RESET_STARTUP"})
      PROVE  Fits(s, <<Ask("position", op)>>)
  <2>1. Rank("position") < Rank(s)
    BY <1>0, Ranks
  <2>. QED  BY <1>0, <2>1, AskFits
<1>2. ASSUME NEW m \in Managers, NEW op \in {"FORCE_STOP", "COMMAND", "TICK"}
      PROVE  Fits(s, <<Ask(m, op)>>)
  <2>1. Rank(m) < Rank(s) /\ m \in Tasks
    BY <1>0, Ranks
  <2>2. op \in CallOps \ LimitedOps /\ op # "RESET_STARTUP"
    BY DEF CallOps, LimitedOps
  <2>. QED  BY <1>0, <2>1, <2>2, AskFits
<1>3. ASSUME s # "quiet", NEW x \in Turnouts PROVE Fits(s, <<Override(x)>>)
  <2>. DEFINE e == Override(x)
  <2>1. e \in Requests /\ e.to = "position" /\ e.op = "ALLOW_SWITCH_OVERRIDE"
    BY DEF Override, Requests, CallOps
  <2>. HIDE DEF e
  <2>2. Fit(s, e)
    <3>1. Rank("position") < Rank(s) /\ s \in {"runtime", "prompt", "still"}
      BY <1>0, <1>3, Ranks DEF Acts
    <3>2. s \notin {"input", "control"}
      BY <3>1
    <3>3. Calls(e) /\ ~Effect(e, "REFRESH") /\ ~Effect(e, "DEACTIVATE") /\ ~Reverses(e)
      BY <2>1, Kinds DEF Reverses
    <3>. QED  BY <2>1, <3>1, <3>2, <3>3, Kinds DEF Fit
  <2>3. Fits(s, <<e>>)
    BY <2>1, <2>2, Kinds, FitsFew DEF Steps
  <2>. QED  BY <2>3 DEF e
<1>4. Rank(s) > 0
  BY <1>0
<1>5. /\ \A t \in Trains, v \in Speeds : Fits(s, <<SetSpeed(t, v)>>)
      /\ \A x \in Turnouts, d \in Directions : Fits(s, <<SetSwitch(x, d)>>)
      /\ s # "still" => \A t \in Trains : /\ Fits(s, <<StartReverse(t)>>)
                                           /\ Fits(s, <<CompleteReverse(t)>>)
  BY <1>0, <1>4, TrackFits DEF Acts
<1>. QED  BY <1>1, <1>2, <1>3, <1>5

LEMMA EventFits ==
  ASSUME NEW m \in Mails, m.op # "RV_REQUEST", NEW s, Acts(s),
         s = "runtime" \/ m.op # "REPLAN", m.op = "RV_COMPLETE" => s # "still"
  PROVE  Fits(s, EventSteps(m))
<1>. USE RuntimeAsks
<1>1. CASE m.op \in {"SENSOR_HIT", "SWITCH_ACK", "FAST", "SETTLE"}
  BY <1>1 DEF EventSteps, CallOps, LimitedOps
<1>2. CASE m.op = "REPLAN"
  <2>1. Fits(s, <<Ask("position", "REPLAN_TICK")>>)
    BY DEF CallOps, LimitedOps
  <2>2. Fits(s, <<Ask("position", "REPLAN_TICK"), Do("REFRESH")>>)
    BY <1>2, <2>1, DoFits, FitsPair
  <2>. QED  BY <1>2, <2>2 DEF EventSteps
<1>3. CASE m.op \in {"DEMO", "GAME"}
  BY <1>3 DEF EventSteps, Managers
<1>4. CASE m.op = "RV_COMPLETE"
  <2>1. m.train \in Trains
    BY <1>4 DEF Mails
  <2>2. Fits(s, <<CompleteReverse(m.train)>>)
    BY <2>1, <1>4, RuntimeAsks
  <2>3. Fits(s, <<Ask("position", "REVERSE")>>) /\ Fits(s, <<Do("RV_DONE")>>)
    BY <1>4, DoFits DEF CallOps, LimitedOps, Acts
  <2>4. Fits(s, <<CompleteReverse(m.train), Ask("position", "REVERSE"), Do("RV_DONE")>>)
    BY <2>2, <2>3, FitsTriple
  <2>. QED  BY <1>4, <2>4 DEF EventSteps
<1>. QED  BY <1>1, <1>2, <1>3, <1>4 DEF Mails

LEMMA PromptFits ==
  ASSUME NEW c \in CommandLines, NEW q \in PromptSteps(c), NEW s \in {"runtime", "prompt", "still"}
  PROVE  Fits(s, q)
<1>0. Acts(s) /\ s # "quiet"
  BY DEF Acts
<1>. USE <1>0
<1>1. Fits(s, LogLine) /\ Fits(s, <<>>)
  BY FitsFew DEF LogLine, Modes
<1>2. CASE c.type \in {"DEMO", "GAME"} /\ c.force
  <2>1. q = <<Ask(c.server, "FORCE_STOP")>> /\ c.server \in Managers
    BY <1>2 DEF PromptSteps, CommandLines
  <2>. QED  BY <2>1, RuntimeAsks
<1>3. CASE q \in {LogLine, <<>>}
  BY <1>1, <1>3
<1>4. CASE q \in ReplanSteps
  <2>1. PICK x \in Turnouts, release \in {<<>>, <<Ask("position", "RELEASE_NODE")>>} :
             q = <<Override(x)>> \o release \o <<Ask("position", "REPLAN_TICK"), Do("RETRY")>>
    BY <1>4 DEF ReplanSteps
  <2>2. Fits(s, <<Override(x)>>) /\ Fits(s, release)
    BY <1>1, RuntimeAsks DEF CallOps, LimitedOps
  <2>3. Fits(s, <<Ask("position", "REPLAN_TICK")>>)
    BY RuntimeAsks DEF CallOps, LimitedOps
  <2>4. Fits(s, <<Ask("position", "REPLAN_TICK"), Do("RETRY")>>)
    BY <2>3, DoFits, FitsPair
  <2>5. Fits(s, <<Override(x)>> \o release)
    BY <2>2, FitsConcat
  <2>. QED  BY <2>1, <2>4, <2>5, FitsConcat
<1>5. CASE ~(c.type \in {"DEMO", "GAME"} /\ c.force) /\ c.type # "QUIT"
  BY <1>3, <1>4, <1>5 DEF PromptSteps
<1>6. CASE ~(c.type \in {"DEMO", "GAME"} /\ c.force) /\ c.type = "QUIT"
  <2>1. q = <<>>
    BY <1>6 DEF PromptSteps
  <2>. QED  BY <2>1, <1>1
<1>. QED  BY <1>2, <1>5, <1>6

LEMMA CommandFits ==
  ASSUME NEW c \in CommandLines, NEW q \in CommandSteps(c), NEW s, Acts(s),
         prompt => s # "quiet", c.type = "RV" => s # "still" \/ prompt
  PROVE  Fits(s, q)
<1>. USE Ranks
<1>1. CASE prompt
  BY <1>1, PromptFits DEF CommandSteps, Acts
<1>2. CASE ~prompt /\ q = LogLine
  BY <1>2, FitsFew DEF LogLine, Modes
<1>3. CASE ~prompt /\ q # LogLine /\ c.type = "TR"
  <2>1. /\ q = <<Ask("position", "SPEED_CHANGE"), SetSpeed(c.train, c.speed)>>
        /\ c.train \in Trains /\ c.speed \in Speeds
    BY <1>3 DEF CommandSteps, CommandLines
  <2>2. Fits(s, <<Ask("position", "SPEED_CHANGE")>>)
    BY RuntimeAsks DEF CallOps, LimitedOps
  <2>3. Fits(s, <<SetSpeed(c.train, c.speed)>>)
    BY <2>1, RuntimeAsks
  <2>. QED  BY <2>1, <2>2, <2>3, FitsPair
<1>4. CASE ~prompt /\ q # LogLine /\ c.type = "SW"
  <2>1. q = <<SetSwitch(c.sw, c.dir)>> /\ c.sw \in Turnouts /\ c.dir \in Directions
    BY <1>4 DEF CommandSteps, CommandLines
  <2>. QED  BY <2>1, RuntimeAsks
<1>5. CASE ~prompt /\ q # LogLine /\ c.type = "RV"
  <2>1. q = <<StartReverse(c.train), Started(c.train)>> /\ c.train \in Trains
    BY <1>5 DEF CommandSteps, CommandLines
  <2>2. Fits(s, <<StartReverse(c.train)>>) /\ Fits(s, <<Started(c.train)>>)
    BY <2>1, <1>5, RuntimeAsks, DoFits DEF Acts
  <2>. QED  BY <2>1, <2>2, FitsPair
<1>6. CASE ~prompt /\ q # LogLine /\ c.type = "GOTO"
  <2>1. q = <<Ask("position", "GOTO")>>
    BY <1>6 DEF CommandSteps
  <2>. QED  BY <2>1, RuntimeAsks DEF CallOps, LimitedOps
<1>7. CASE ~prompt /\ q # LogLine /\ c.type \in {"DEMO", "GAME"}
  <2>1. /\ q = <<Ask(c.server, IF c.force THEN "FORCE_STOP" ELSE "COMMAND")>>
        /\ c.server \in Managers
    BY <1>7 DEF CommandSteps, CommandLines
  <2>. QED  BY <2>1, RuntimeAsks
<1>8. CASE ~prompt /\ q # LogLine /\ c.type = "QUIT"
  BY <1>8 DEF CommandSteps
<1>. QED  BY <1>1, <1>2, <1>3, <1>4, <1>5, <1>6, <1>7, <1>8 DEF CommandLines

-----------------------------------------------------------------------------
(* The steps *)

\* One handler moves on: by itself, as a request is taken up, or as one
\* is answered.
LEMMA Turns ==
  ASSUME Flow, NEW t \in Tasks \ {"track"}, NEW q, Fits(t, q),
         todo' = [todo EXCEPT ![t] = q],
         \/ /\ client' = client /\ \A s \in Tasks : client[s] # t
            /\ t \in {"position"} \cup Managers /\ q # <<>> => client[t] # Nobody
         \/ \E c \in Tasks : /\ client' = [client EXCEPT ![t] = c]
                             /\ todo[t] = <<>> /\ Asks(c, t)
                             /\ t = "position" => c \in Servers
                             /\ t \in Managers => c = "runtime"
         \/ \E s \in Tasks : /\ client[s] = t /\ client' = [client EXCEPT ![s] = Nobody]
                             /\ todo[s] = <<>>
  PROVE  Handlers' /\ Clients'
<1>0. /\ todo \in [Tasks -> Seq(Steps)] /\ client \in [Tasks -> Tasks \cup {Nobody}]
      /\ todo'[t] = q /\ \A r \in Tasks : r # t => todo'[r] = todo[r]
      /\ client["track"] = Nobody /\ Nobody \notin Tasks /\ t \in Tasks /\ q \in Seq(Steps)
      /\ \A s \in Tasks : Fits(s, todo[s])
      /\ todo["track"] = <<>> /\ "track" \in Tasks /\ "track" # t
      /\ {"position"} \cup Managers \subseteq Tasks
      /\ Clients /\ Console
  BY RuntimeAssumption DEF Flow, Handlers, Fits, Tasks, Servers
<1>1. Handlers'
  <2>1. todo' \in [Tasks -> Seq(Steps)] /\ \A s \in Tasks : Fits(s, todo'[s])
    BY <1>0
  <2>2. \A s \in Tasks, c \in Tasks \cup {Nobody} :
          client' = [client EXCEPT ![s] = c] /\ (s = t \/ c = Nobody) =>
            client' \in [Tasks -> Tasks \cup {Nobody}] /\ client'["track"] = Nobody
    BY <1>0
  <2>. QED  BY <2>1, <2>2, <1>0 DEF Handlers
<1>3. /\ \A r, s : r \in Tasks /\ r # t => (Asks(r, s)' <=> Asks(r, s))
      /\ \A r, s : todo[r] = <<>> => ~Asks(r, s)
      /\ \A r, s1, s2 : Asks(r, s1) /\ Asks(r, s2) => s1 = s2
  BY <1>0 DEF Asks
<1>4. /\ \A s \in Tasks : client[s] # Nobody => client[s] \in Tasks /\ Asks(client[s], s)
      /\ \A s \in Tasks : client[s] = t => Asks(t, s)
      /\ \A s \in {"position"} \cup Managers : todo[s] # <<>> => client[s] # Nobody
      /\ client["position"] \in Servers \cup {Nobody}
      /\ \A s \in Managers : client[s] \in {"runtime", Nobody}
  BY <1>0 DEF Clients
<1>5. Clients'
  <2>1. ASSUME client' = client, \A s \in Tasks : client[s] # t,
               t \in {"position"} \cup Managers /\ q # <<>> => client[t] # Nobody
        PROVE  Clients'
    BY <2>1, <1>0, <1>3, <1>4 DEF Clients
  <2>2. ASSUME NEW c \in Tasks, client' = [client EXCEPT ![t] = c],
               todo[t] = <<>>, Asks(c, t),
               t = "position" => c \in Servers, t \in Managers => c = "runtime"
        PROVE  Clients'
    <3>1. c # t
      BY <2>2, <1>3
    <3>2. \A r \in Tasks : r # t => todo'[r] = todo[r] /\ client'[r] = client[r]
      BY <2>2, <1>0
    <3>3. client'[t] = c /\ Asks(c, t)'
      BY <2>2, <3>1, <1>0, <1>3
    <3>4. \A r \in Tasks : client[r] # t
      BY <2>2, <1>0, <1>3, <1>4
    <3>5. \A s \in Tasks : (client[s] # Nobody => Asks(client[s], s))'
      BY <3>2, <3>3, <3>4, <1>3, <1>4
    <3>6. \A s \in {"position"} \cup Managers : todo'[s] # <<>> => client'[s] # Nobody
      BY <3>2, <3>3, <1>0, <1>4
    <3>7. /\ client'["position"] \in Servers \cup {Nobody}
          /\ \A s \in Managers : client'[s] \in {"runtime", Nobody}
      BY <2>2, <3>2, <3>3, <1>0, <1>4
    <3>. QED  BY <3>5, <3>6, <3>7 DEF Clients
  <2>3. ASSUME NEW s \in Tasks, client[s] = t, client' = [client EXCEPT ![s] = Nobody],
               todo[s] = <<>>
        PROVE  Clients'
    <3>1. Asks(t, s)
      BY <2>3, <1>0, <1>4
    <3>2. s # t
      BY <2>3, <3>1, <1>3
    <3>3. \A r \in Tasks : client[r] = t => r = s
      BY <3>1, <1>0, <1>3, <1>4
    <3>4. /\ client'[s] = Nobody
          /\ \A r \in Tasks : r # s => client'[r] = client[r]
      BY <2>3, <1>0
    <3>5. \A r \in Tasks : (client[r] # Nobody => Asks(client[r], r))'
      BY <3>3, <3>4, <1>3, <1>4
    <3>6. \A r \in {"position"} \cup Managers : todo'[r] # <<>> => client'[r] # Nobody
      <4>. SUFFICES ASSUME NEW r \in {"position"} \cup Managers, todo'[r] # <<>>
                    PROVE  client'[r] # Nobody
        OBVIOUS
      <4>1. r \in Tasks /\ r # s
        BY <2>3, <3>2, <1>0
      <4>2. todo[r] # <<>>
        BY <3>1, <4>1, <1>0, <1>3
      <4>. QED  BY <3>4, <4>1, <4>2, <1>4
    <3>7. \A r \in Tasks : client'[r] \in {client[r], Nobody}
      BY <3>4
    <3>. QED  BY <3>5, <3>6, <3>7, <1>0, <1>4 DEF Clients
  <2>. QED  BY <2>1, <2>2, <2>3
<1>. QED  BY <1>1, <1>5

\* One handler moves on, and draws nothing.
LEMMA Moves ==
  ASSUME Flow, NEW t \in Tasks \ {"track"}, NEW q, Fits(t, q), t \notin Drawers,
         todo' = [todo EXCEPT ![t] = q], ui' = ui, BagToSet(mail') \subseteq Mails,
         \/ /\ client' = client /\ \A s \in Tasks : client[s] # t
            /\ t \in {"position"} \cup Managers /\ q # <<>> => client[t] # Nobody
         \/ \E c \in Tasks : /\ client' = [client EXCEPT ![t] = c]
                             /\ todo[t] = <<>> /\ Asks(c, t)
                             /\ t = "position" => c \in Servers
                             /\ t \in Managers => c = "runtime"
         \/ \E s \in Tasks : /\ client[s] = t /\ client' = [client EXCEPT ![s] = Nobody]
                             /\ todo[s] = <<>>
  PROVE  Flow'
<1>0. /\ todo'[t] = q /\ \A r \in Tasks : r # t => todo'[r] = todo[r]
      /\ Console
  BY DEF Flow, Handlers
<1>1. Handlers' /\ Clients'
  BY Turns
<1>2. Console'
  <2>1. \A r \in Tasks : r \in Drawers => r # t /\ r \in Drawers'
    BY <1>0 DEF Drawers
  <2>2. \A i \in 1..Len(ui.waiters) : ui.waiters[i].task \in Tasks
    <3>1. ui.waiters \in Seq([task : Tasks, mode : Modes])
      BY <1>0 DEF Console
    <3>2. \A i \in 1..Len(ui.waiters) : ui.waiters[i] \in [task : Tasks, mode : Modes]
      BY <3>1, ElementOfSeq
    <3>. QED  BY <3>2
  <2>3. ui.owner \in Tasks \cup {Nobody}
    BY <1>0 DEF Console
  <2>4. Waiters' = Waiters
    BY DEF Waiters
  <2>. QED  BY <2>1, <2>2, <2>3, <2>4, <1>0 DEF Console
<1>. QED  BY <1>1, <1>2 DEF Flow

\* A task at a request or at an effect that draws nothing.
LEMMA Heads ==
  ASSUME Flow, NEW t \in Tasks
  PROVE  /\ \A s : Asks(t, s) => /\ t # "track" /\ t \notin Drawers /\ todo[t] # <<>>
                                 /\ Request(t) \in Requests /\ Fit(t, Request(t))
                                 /\ Calls(Request(t)) /\ Request(t).to = s
                                 /\ s \in Tasks /\ Rank(s) < Rank(t)
                                 /\ \A r \in Tasks : client[r] = t => r = s
         /\ \A op : At(t, op) => /\ t # "track" /\ todo[t] # <<>>
                                 /\ Effect(Head(todo[t]), op)
                                 /\ \A s : ~Asks(t, s)
                                 /\ \A s \in Tasks : client[s] # t
                                 /\ op # "DRAW" => t \notin Drawers
         /\ todo[t] = <<>> => t \notin Drawers /\ (\A s \in Tasks : client[s] # t)
         /\ todo[t] # <<>> => Fits(t, Tail(todo[t]))
<1>1. /\ Fits(t, todo[t]) /\ todo["track"] = <<>> /\ Nobody \notin Tasks
      /\ \A s \in Tasks : client[s] = t => Asks(t, s)
  BY RuntimeAssumption DEF Flow, Handlers, Clients
<1>2. todo[t] # <<>> => /\ Head(todo[t]) \in Steps /\ Fit(t, Head(todo[t]))
                        /\ Fits(t, Tail(todo[t]))
  BY <1>1, FitsTail
<1>3. ASSUME NEW s, Asks(t, s)
      PROVE  /\ t # "track" /\ t \notin Drawers /\ todo[t] # <<>>
             /\ Request(t) \in Requests /\ Fit(t, Request(t))
             /\ Calls(Request(t)) /\ Request(t).to = s
             /\ s \in Tasks /\ Rank(s) < Rank(t)
             /\ \A r \in Tasks : client[r] = t => r = s
  <2>1. /\ todo[t] # <<>> /\ t # "track" /\ Calls(Request(t)) /\ Request(t).to = s
        /\ Fit(t, Request(t))
    BY <1>1, <1>2, <1>3 DEF Asks, Calls, Request
  <2>2. Request(t) \in Requests
    BY <2>1, <1>2, Kinds DEF Steps, Request
  <2>3. t \notin Drawers /\ s \in Tasks
    BY <2>1, <2>2, Kinds DEF Drawers, Request
  <2>4. Rank(s) < Rank(t)
    BY <2>1 DEF Fit
  <2>5. \A r : Asks(t, r) => r = s
    BY <1>3 DEF Asks
  <2>. QED  BY <2>1, <2>2, <2>3, <2>4, <2>5, <1>1
<1>4. ASSUME NEW op, At(t, op)
      PROVE  /\ t # "track" /\ todo[t] # <<>>
             /\ Effect(Head(todo[t]), op) /\ \A s : ~Asks(t, s)
             /\ \A s \in Tasks : client[s] # t
             /\ op # "DRAW" => t \notin Drawers
  <2>1. todo[t] # <<>> /\ Effect(Head(todo[t]), op) /\ t # "track"
    BY <1>1, <1>4 DEF At, Effect
  <2>2. \A s : ~Asks(t, s)
    BY <2>1, <1>2, Kinds DEF Asks, Steps, Calls
  <2>. QED  BY <2>1, <2>2, <1>1 DEF Drawers, Effect
<1>. QED  BY <1>1, <1>2, <1>3, <1>4 DEF Drawers, Asks

\* A handler whose request the track server has served, or whose effect is done.
LEMMA ThenFlow ==
  ASSUME Flow, NEW t \in Tasks, NEW steps, Fits(t, steps), Then(t, steps),
         ui' = ui, client' = client, BagToSet(mail') \subseteq Mails,
         Asks(t, "track") \/ \E op : op # "DRAW" /\ At(t, op)
  PROVE  Flow'
<1>. DEFINE q == steps \o Tail(todo[t])
<1>1. client["track"] = Nobody /\ Nobody \notin Tasks /\ "track" \in Tasks
  BY RuntimeAssumption DEF Flow, Handlers, Tasks, Servers
<1>2. /\ t # "track" /\ t \notin Drawers /\ todo[t] # <<>> /\ Fits(t, Tail(todo[t]))
      /\ \A s \in Tasks : client[s] # t
  BY <1>1, Heads
<1>3. todo' = [todo EXCEPT ![t] = q] /\ Fits(t, q)
  BY <1>2, FitsConcat DEF Then
<1>4. t \in {"position"} \cup Managers => client[t] # Nobody
  BY <1>2 DEF Flow, Clients
<1>. HIDE DEF q
<1>. QED  BY <1>2, <1>3, <1>4, Moves

LEMMA TrackFlow ==
  ASSUME Flow, NEW c \in Servers, Track(c)
  PROVE  Flow'
<1>1. /\ Asks(c, "track") /\ Then(c, <<>>) /\ UNCHANGED <<client, mail, ui>>
  BY DEF Track, TrackSetSpeed, TrackSetSwitch, TrackUpdateSwitch, TrackStartReverse,
         TrackCompleteReverse, TrackReset, Served
<1>2. c \in Tasks /\ Fits(c, <<>>) /\ BagToSet(mail') \subseteq Mails
  BY <1>1, Ranks, FitsFew DEF Flow
<1>. QED  BY <1>1, <1>2, ThenFlow

LEMMA AnswerFlow ==
  ASSUME Flow, NEW s \in Tasks, Answer(s)
  PROVE  Flow'
<1>. DEFINE t == client[s]
            q == <<>> \o Tail(todo[t])
<1>1. /\ todo[s] = <<>> /\ t # Nobody /\ todo' = [todo EXCEPT ![t] = q]
      /\ client' = [client EXCEPT ![s] = Nobody] /\ mail' = mail /\ ui' = ui
  BY DEF Answer, Then
<1>2. t \in Tasks /\ Asks(t, s)
  BY <1>1 DEF Flow, Handlers, Clients
<1>3. t # "track" /\ t \notin Drawers /\ Fits(t, Tail(todo[t]))
  BY <1>2, Heads
<1>4. Fits(t, q)
  BY <1>3, FitsFew, FitsConcat
<1>5. BagToSet(mail') \subseteq Mails
  BY <1>1 DEF Flow
<1>6. client[s] = t
  OBVIOUS
<1>. HIDE DEF t, q
<1>. QED  BY <1>1, <1>2, <1>3, <1>4, <1>5, <1>6, Moves

\* A request taken up by a server that was idle.
LEMMA BeginFlow ==
  ASSUME Flow, NEW s \in Tasks \ {"track"}, NEW c \in Tasks, NEW steps, Fits(s, steps),
         Idle(s), Asks(c, s), Begin(s, c, steps),
         s = "position" => c \in Servers, s \in Managers => c = "runtime"
  PROVE  Flow'
<1>1. /\ todo[s] = <<>> /\ todo' = [todo EXCEPT ![s] = steps]
      /\ client' = [client EXCEPT ![s] = c] /\ mail' = mail /\ ui' = ui
  BY DEF Begin, Idle
<1>2. s \notin Drawers /\ BagToSet(mail') \subseteq Mails
  BY <1>1, Heads DEF Flow
<1>. QED  BY <1>1, <1>2, Moves

\* An idle task that starts by itself.
LEMMA StartFlow ==
  ASSUME Flow, NEW s \in {"runtime", "input", "ui_tick"}, NEW steps, Fits(s, steps),
         Idle(s), todo' = [todo EXCEPT ![s] = steps], client' = client, ui' = ui,
         BagToSet(mail') \subseteq Mails
  PROVE  Flow'
<1>1. s \in Tasks \ {"track"} /\ s \notin {"position"} \cup Managers
  BY DEF Tasks, Servers, Managers
<1>2. s \notin Drawers /\ \A r \in Tasks : client[r] # s
  BY <1>1, Heads DEF Idle
<1>. QED  BY <1>1, <1>2, Moves

LEMMA PositionFlow ==
  ASSUME Flow, NEW c \in Servers, PositionServe(c)
  PROVE  Flow'
<1>1. PICK steps \in DriveSteps(Request(c).op) :
           Idle("position") /\ Asks(c, "position") /\ Begin("position", c, steps)
  BY DEF PositionServe
<1>2. "position" \in Tasks \ {"track"} /\ "position" \notin Managers /\ c \in Tasks
  BY Ranks DEF Servers, Managers
<1>. QED  BY <1>1, <1>2, PositionFits, BeginFlow

LEMMA ManagerFlow ==
  ASSUME Flow, NEW s \in Managers, ManagerServe(s, "runtime")
  PROVE  Flow'
<1>1. PICK steps \in ManagerCalls(s, Request("runtime").op) :
           Idle(s) /\ Asks("runtime", s) /\ Begin(s, "runtime", steps)
  BY DEF ManagerServe
<1>2. /\ s \in Tasks \ {"track"} /\ s # "position" /\ "runtime" \in Tasks
  BY Ranks DEF Servers, Managers
<1>3. Fits(s, steps)
  BY ManagerFits
<1>. QED  BY <1>1, <1>2, <1>3, BeginFlow

\* A turnout of a route, unless it is stored as the route needs it.
\* What a route's turnout comes to: nothing, or a command and its direction stored.
LEMMA Throws ==
  ASSUME Flow, NEW t \in Tasks, Throwing(t)
  PROVE  \E x \in Turnouts, d \in Directions :
           \E q \in {<<>>, <<SetSwitch(x, d), UpdateSwitch(x, d)>>} :
             /\ Then(t, q) /\ At(t, "THROW") /\ todo[t] # <<>> /\ t # "track" /\ t \in Storers
             /\ Rank(t) > 0
             /\ UNCHANGED <<client, mail, track, deadlock, rv, box, used, ui>>
<1>. DEFINE e == Head(todo[t])
            q == IF NeedsChange(e.sw, e.dir)
                 THEN <<SetSwitch(e.sw, e.dir), UpdateSwitch(e.sw, e.dir)>> ELSE <<>>
<1>1. At(t, "THROW") /\ Then(t, q) /\ UNCHANGED <<client, mail, track, deadlock, rv, box, used, ui>>
  BY DEF Throwing
<1>2. /\ t # "track" /\ todo[t] # <<>> /\ Effect(e, "THROW") /\ Fits(t, todo[t])
  BY <1>1, Heads DEF Flow, Handlers
<1>3. t \in Storers /\ e.sw \in Turnouts /\ e.dir \in Directions
  <2>1. Fit(t, e)
    BY <1>2, FitsTail
  <2>. QED  BY <1>2, <2>1 DEF Fit
<1>4. Rank(t) > 0
  BY <1>2 DEF Rank, Managers
<1>5. q \in {<<>>, <<SetSwitch(e.sw, e.dir), UpdateSwitch(e.sw, e.dir)>>}
  OBVIOUS
<1>. HIDE DEF e, q
<1>. QED  BY <1>1, <1>2, <1>3, <1>4, <1>5

LEMMA ThrowingFlow ==
  ASSUME Flow, NEW t \in Tasks, Throwing(t)
  PROVE  Flow'
<1>1. PICK x \in Turnouts, d \in Directions : \E q \in {<<>>, <<SetSwitch(x, d), UpdateSwitch(x, d)>>} :
             /\ Then(t, q) /\ At(t, "THROW") /\ t \in Storers /\ Rank(t) > 0
             /\ UNCHANGED <<client, mail, ui>>
  BY Throws
<1>2. PICK q \in {<<>>, <<SetSwitch(x, d), UpdateSwitch(x, d)>>} :
             /\ Then(t, q) /\ At(t, "THROW") /\ t \in Storers /\ Rank(t) > 0
             /\ UNCHANGED <<client, mail, ui>>
  BY <1>1
<1>3. Fits(t, q)
  BY <1>2, DriveFits
<1>4. BagToSet(mail') \subseteq Mails
  BY <1>2 DEF Flow
<1>. QED  BY <1>2, <1>3, <1>4, ThenFlow

LEMMA DrawingFlow ==
  ASSUME Flow, NEW t \in Tasks, Drawing(t)
  PROVE  Flow'
<1>. DEFINE h == Head(todo[t])
            q == <<>> \o Tail(todo[t])
            U == [owner : Tasks \cup {Nobody}, mode : Modes, depth : Nat,
                  waiters : Seq([task : Tasks, mode : Modes]), lost : SUBSET Tasks]
<1>1. PICK op \in {"ACQUIRE", "DRAW"} :
        /\ At(t, op) /\ ~Waiting(t)
        /\ op = "ACQUIRE" => Acquire(t, h.mode)
        /\ op = "DRAW" => DrawAndRelease(t, h.mode)
  BY DEF Drawing, At
<1>2. todo' = [todo EXCEPT ![t] = q] /\ client' = client /\ mail' = mail
  BY DEF Drawing, Then
<1>3. /\ t # "track" /\ todo[t] # <<>> /\ Effect(h, op) /\ \A s \in Tasks : client[s] # t
      /\ Fits(t, todo[t]) /\ Fits(t, Tail(todo[t])) /\ Nobody \notin Tasks
      /\ h \in Steps /\ h = todo[t][1]
  BY <1>1, Heads, FitsTail, RuntimeAssumption DEF Flow, Handlers
<1>4. h.mode \in Modes
  <2>1. h \in Effects /\ h.do = op
    BY <1>3, Kinds DEF Steps, Effect
  <2>. QED  BY <2>1, <1>1 DEF Effects, EffectOps
<1>5. Fits(t, q) /\ q = Tail(todo[t])
  <2>1. Tail(todo[t]) \in Seq(Steps)
    BY <1>3 DEF Fits
  <2>. QED  BY <2>1, <1>3, ConcatEmptySeq
<1>6. Handlers' /\ Clients'
  <2>1. t \in {"position"} \cup Managers => client[t] # Nobody
    BY <1>3 DEF Flow, Clients
  <2>. HIDE DEF q
  <2>. QED  BY <1>2, <1>3, <1>5, <2>1, Turns
<1>7. todo'[t] = q /\ \A r \in Tasks : r # t => todo'[r] = todo[r] /\ (r \in Drawers' <=> r \in Drawers)
  BY <1>2 DEF Drawers, Flow, Handlers
<1>8. /\ ui \in U /\ (ui.owner # Nobody => ui.owner \in Drawers /\ ui.owner \notin Waiters)
      /\ \A i \in 1..Len(ui.waiters) : /\ ui.waiters[i].task \in Drawers
                                       /\ ui.waiters[i].task \in Tasks
                                       /\ ui.waiters[i].task # t
      /\ t \notin Waiters /\ Len(ui.waiters) \in Nat
      /\ ui.depth = IF ui.owner = Nobody THEN 0 ELSE 1
      /\ ui.owner = Nobody => ui.waiters = <<>>
      /\ \A i, j \in 1..Len(ui.waiters) : ui.waiters[i].task = ui.waiters[j].task => i = j
  <2>1. ui.waiters \in Seq([task : Tasks, mode : Modes])
    BY DEF Flow, Console
  <2>2. /\ \A i \in 1..Len(ui.waiters) : ui.waiters[i] \in [task : Tasks, mode : Modes]
        /\ DOMAIN ui.waiters = 1..Len(ui.waiters) /\ Len(ui.waiters) \in Nat
    BY <2>1, ElementOfSeq, LenProperties
  <2>3. t \notin Waiters
    BY <2>2, <1>1 DEF Waiting, Waiters
  <2>4. \A i \in 1..Len(ui.waiters) : ui.waiters[i].task # t
    BY <2>3 DEF Waiters
  <2>. QED  BY <2>2, <2>3, <2>4 DEF Flow, Console
<1>. HIDE DEF h, q, U
<1>9. CASE op = "ACQUIRE"
  <2>1. t \notin Drawers
    BY <1>3, <1>9 DEF Drawers, Effect, h
  <2>2. t \in Drawers'
    <3>1. 1 \in 1..Len(todo[t])
      BY <1>3, EmptySeq DEF Fits
    <3>2. 1 < Len(todo[t]) /\ Effect(todo[t][2], "DRAW")
      BY <1>3, <1>9, <3>1 DEF Fits
    <3>3. /\ q \in Seq(Steps) /\ Len(q) = Len(todo[t]) - 1
          /\ \A i \in 1..Len(q) : q[i] = todo[t][i + 1]
      BY <1>3, <1>5, HeadTailProperties DEF Fits
    <3>4. Len(todo[t]) \in Nat
      BY <1>3, LenProperties DEF Fits
    <3>5. Len(q) # 0 /\ q[1] = todo[t][2]
      BY <3>2, <3>3, <3>4
    <3>6. q # <<>>
      BY <3>5, EmptySeq
    <3>7. Head(q) = q[1]
      BY <3>3, <3>6
    <3>. QED  BY <3>2, <3>5, <3>6, <3>7, <1>7 DEF Drawers
  <2>3. ui.owner # t
    BY <2>1, <1>3, <1>8
  <2>4. CASE ui.owner = Nobody
    <3>1. ui' = [ui EXCEPT !.owner = t, !.mode = h.mode, !.depth = @ + 1]
      BY <2>4, <1>1, <1>9 DEF Acquire
    <3>2. /\ ui' \in U /\ ui'.owner = t /\ ui'.depth = 1 /\ ui'.waiters = ui.waiters
      <4>1. ui.depth = 0 /\ 0 + 1 = 1
        BY <2>4, <1>8
      <4>2. ui' = [ui EXCEPT !.owner = t, !.mode = h.mode, !.depth = 1]
        BY <3>1, <4>1
      <4>. QED  BY <4>2, <1>4, <1>8 DEF U
    <3>3. t \notin Waiters'
      BY <3>2, <1>8 DEF Waiters
    <3>. QED  BY <3>2, <3>3, <2>2, <2>4, <1>3, <1>7, <1>8, <1>6, <1>2 DEF Console, Flow, U
  <2>5. CASE ui.owner # Nobody /\ Len(ui.waiters) < UI_SERVER_MAX_WAITERS
    <3>. DEFINE w == Append(ui.waiters, [task |-> t, mode |-> h.mode])
    <3>1. ui' = [ui EXCEPT !.waiters = w]
      BY <2>3, <2>5, <1>1, <1>9 DEF Acquire
    <3>2. /\ w \in Seq([task : Tasks, mode : Modes]) /\ Len(w) = Len(ui.waiters) + 1
          /\ w[Len(ui.waiters) + 1].task = t
          /\ \A i \in 1..Len(ui.waiters) : w[i] = ui.waiters[i]
          /\ DOMAIN w = 1..Len(w)
      <4>1. ui.waiters \in Seq([task : Tasks, mode : Modes])
        BY <1>8 DEF U
      <4>. QED  BY <4>1, <1>4, AppendProperties, LenProperties
    <3>. HIDE DEF w
    <3>3. /\ ui' \in U /\ ui'.owner = ui.owner /\ ui'.depth = ui.depth /\ ui'.waiters = w
      BY <3>1, <3>2, <1>8 DEF U
    <3>4. \A i \in 1..Len(w) : (i \in 1..Len(ui.waiters) /\ w[i] = ui.waiters[i])
                               \/ (i = Len(ui.waiters) + 1 /\ w[i].task = t)
      BY <3>2, <1>8
    <3>5. \A i \in 1..Len(w) : w[i].task \in Drawers' /\ w[i].task # ui.owner
      <4>. SUFFICES ASSUME NEW i \in 1..Len(w)
                    PROVE  w[i].task \in Drawers' /\ w[i].task # ui.owner
        OBVIOUS
      <4>1. CASE i \in 1..Len(ui.waiters) /\ w[i] = ui.waiters[i]
        <5>1. w[i].task \in Waiters
          BY <4>1 DEF Waiters
        <5>. QED  BY <5>1, <4>1, <2>5, <1>7, <1>8
      <4>2. CASE w[i].task = t
        BY <4>2, <2>2, <2>3
      <4>. QED  BY <3>4, <4>1, <4>2
    <3>6. \A i, j \in 1..Len(w) : w[i].task = w[j].task => i = j
      <4>. SUFFICES ASSUME NEW i \in 1..Len(w), NEW j \in 1..Len(w), w[i].task = w[j].task
                    PROVE  i = j
        OBVIOUS
      <4>1. \A k \in 1..Len(ui.waiters) : ui.waiters[k].task # t
        BY <1>8
      <4>2. CASE i \in 1..Len(ui.waiters) /\ w[i] = ui.waiters[i]
        <5>1. j \in 1..Len(ui.waiters) /\ w[j] = ui.waiters[j]
          BY <3>4, <4>1, <4>2
        <5>. QED  BY <5>1, <4>2, <1>8
      <4>3. CASE i = Len(ui.waiters) + 1 /\ w[i].task = t
        BY <3>4, <4>1, <4>3
      <4>. QED  BY <3>4, <4>2, <4>3
    <3>7. ui.owner \in Drawers' /\ ui.owner \notin Waiters'
      <4>1. ui.owner \in Tasks /\ ui.owner \in Drawers
        BY <2>5, <1>8 DEF U
      <4>2. ui.owner \in Drawers'
        BY <4>1, <2>3, <1>7, <3>3
      <4>3. ui.owner \notin Waiters'
        BY <3>3, <3>5 DEF Waiters
      <4>. QED  BY <4>2, <4>3
    <3>. QED  BY <3>3, <3>5, <3>6, <3>7, <2>5, <1>8, <1>6, <1>2 DEF Console, Flow, U
  <2>6. CASE ui.owner # Nobody /\ ~(Len(ui.waiters) < UI_SERVER_MAX_WAITERS)
    <3>1. ui' = [ui EXCEPT !.lost = @ \cup {t}]
      BY <2>3, <2>6, <1>1, <1>9 DEF Acquire
    <3>2. /\ ui' \in U /\ ui'.owner = ui.owner /\ ui'.depth = ui.depth
          /\ ui'.waiters = ui.waiters
      BY <3>1, <1>8 DEF U
    <3>3. Waiters' = Waiters
      BY <3>2 DEF Waiters
    <3>4. ui.owner \in Tasks
      BY <2>6, <1>8 DEF U
    <3>. QED  BY <3>2, <3>3, <3>4, <2>3, <2>6, <1>7, <1>8, <1>6, <1>2 DEF Console, Flow, U
  <2>. QED  BY <2>4, <2>5, <2>6
<1>10. CASE op = "DRAW"
  <2>. DEFINE d == IF ui.owner = t /\ ui.mode = h.mode THEN ui
                   ELSE [ui EXCEPT !.lost = @ \cup {t}]
  <2>1. ui' = IF ui.owner = t THEN Released(d) ELSE d
    BY <1>1, <1>10 DEF DrawAndRelease
  <2>2. d \in U /\ d.owner = ui.owner /\ d.depth = ui.depth /\ d.waiters = ui.waiters
    BY <1>8 DEF U
  <2>. HIDE DEF d
  <2>3. CASE ui.owner # t
    <3>1. ui' = d
      BY <2>1, <2>3
    <3>2. Waiters' = Waiters
      BY <3>1, <2>2 DEF Waiters
    <3>3. ui.owner # Nobody => ui.owner \in Drawers'
      BY <2>3, <1>7, <1>8, <3>1, <2>2 DEF U
    <3>4. \A i \in 1..Len(ui.waiters) : ui.waiters[i].task \in Drawers'
      BY <1>7, <1>8, <3>1, <2>2
    <3>. QED  BY <3>1, <3>2, <3>3, <3>4, <2>2, <2>3, <1>7, <1>8, <1>6, <1>2 DEF Console, Flow, U
  <2>4. CASE ui.owner = t /\ ui.waiters = <<>>
    <3>1. ui' = [d EXCEPT !.owner = Nobody, !.depth = 0]
      BY <2>1, <2>2, <2>4, <1>3, <1>8 DEF Released
    <3>2. ui' \in U /\ ui'.owner = Nobody /\ ui'.depth = 0 /\ ui'.waiters = <<>>
      BY <3>1, <2>2, <2>4 DEF U
    <3>. QED  BY <3>2, <1>6, <1>2 DEF Console, Flow, U
  <2>5. CASE ui.owner = t /\ ui.waiters # <<>>
    <3>. DEFINE w == Tail(ui.waiters)
                o == Head(ui.waiters)
    <3>1. ui' = [d EXCEPT !.owner = o.task, !.mode = o.mode, !.waiters = w]
      BY <2>1, <2>2, <2>5, <1>3, <1>8 DEF Released
    <3>2. /\ o \in [task : Tasks, mode : Modes] /\ o = ui.waiters[1]
          /\ w \in Seq([task : Tasks, mode : Modes]) /\ Len(w) = Len(ui.waiters) - 1
          /\ \A i \in 1..Len(w) : w[i] = ui.waiters[i + 1] /\ i + 1 \in 1..Len(ui.waiters)
          /\ 1 \in 1..Len(ui.waiters) /\ DOMAIN w = 1..Len(w)
      <4>1. ui.waiters \in Seq([task : Tasks, mode : Modes])
        BY <1>8 DEF U
      <4>2. Len(ui.waiters) \in Nat \ {0}
        BY <4>1, <2>5, EmptySeq
      <4>3. /\ o \in [task : Tasks, mode : Modes] /\ w \in Seq([task : Tasks, mode : Modes])
            /\ Len(w) = Len(ui.waiters) - 1
            /\ \A i \in 1..Len(w) : w[i] = ui.waiters[i + 1]
        BY <4>1, <2>5, HeadTailProperties
      <4>5. o = ui.waiters[1]
        BY <4>1, <2>5
      <4>4. DOMAIN w = 1..Len(w)
        BY <4>3, LenProperties
      <4>. QED  BY <4>2, <4>3, <4>4, <4>5
    <3>. HIDE DEF w, o
    <3>3. /\ ui' \in U /\ ui'.owner = o.task /\ ui'.depth = 1 /\ ui'.waiters = w
      BY <3>1, <3>2, <2>2, <2>5, <1>3, <1>8 DEF U
    <3>4. o.task \in Tasks /\ o.task # t /\ o.task \in Drawers
      BY <3>2, <1>8
    <3>5. o.task \in Drawers'
      BY <3>4, <1>7
    <3>6. \A i \in 1..Len(w) : /\ w[i].task \in Tasks /\ w[i].task # t /\ w[i].task \in Drawers
                               /\ w[i].task # o.task
      BY <3>2, <1>8
    <3>7. \A i \in 1..Len(w) : w[i].task \in Drawers'
      BY <3>6, <1>7
    <3>8. \A i, j \in 1..Len(w) : w[i].task = w[j].task => i = j
      <4>. SUFFICES ASSUME NEW i \in 1..Len(w), NEW j \in 1..Len(w), w[i].task = w[j].task
                    PROVE  i = j
        OBVIOUS
      <4>1. \A k, l \in 1..Len(ui.waiters) :
               ui.waiters[k].task = ui.waiters[l].task => k = l
        BY <1>8
      <4>2. /\ i + 1 \in 1..Len(ui.waiters) /\ j + 1 \in 1..Len(ui.waiters)
            /\ ui.waiters[i + 1].task = ui.waiters[j + 1].task
        BY <3>2
      <4>3. i + 1 = j + 1
        BY <4>1, <4>2
      <4>. QED  BY <4>3
    <3>9. o.task \notin Waiters'
      BY <3>3, <3>6 DEF Waiters
    <3>10. o.task # Nobody
      BY <3>4, <1>3
    <3>11. (ui.owner \in Drawers /\ ui.owner \notin Waiters)'
      BY <3>3, <3>5, <3>9
    <3>12. (\A i \in 1..Len(ui.waiters) : ui.waiters[i].task \in Drawers)'
      BY <3>3, <3>7
    <3>13. Console'
      BY <3>3, <3>8, <3>10, <3>11, <3>12 DEF Console, U
    <3>. QED  BY <3>13, <1>6, <1>2 DEF Flow
  <2>. QED  BY <2>3, <2>4, <2>5
<1>. QED  BY <1>1, <1>9, <1>10

LEMMA Posting ==
  ASSUME NEW m
  PROVE  /\ BagToSet(mail (+) SetToBag({m})) = BagToSet(mail) \cup {m}
         /\ BagToSet(mail (-) SetToBag({m})) \subseteq BagToSet(mail)
BY DEF BagToSet, SetToBag, (+), (-)

\* A message more or less.
LEMMA Posts ==
  ASSUME BagToSet(mail) \subseteq Mails, NEW m,
         \/ m \in Mails /\ mail' = mail (+) SetToBag({m})
         \/ mail' = mail (-) SetToBag({m})
  PROVE  BagToSet(mail') \subseteq Mails
<1>1. /\ BagToSet(mail (+) SetToBag({m})) = BagToSet(mail) \cup {m}
      /\ BagToSet(mail (-) SetToBag({m})) \subseteq BagToSet(mail)
  BY Posting
<1>. QED  BY <1>1

\* What is posted to the runtime.
LEMMA Posted ==
  /\ \A op \in {"SENSOR_HIT", "SWITCH_ACK", "RV_REQUEST", "FAST", "SETTLE", "REPLAN",
                "DEMO", "GAME"} : Ask("runtime", op) \in Mails
  /\ \A t \in Trains : [to |-> "runtime", op |-> "RV_COMPLETE", train |-> t] \in Mails
BY DEF Ask, Mails

\* Steps that leave every handler where it is.
LEMMA StandFlow ==
  ASSUME Flow, UNCHANGED <<todo, client, ui>>, BagToSet(mail') \subseteq Mails
  PROVE  Flow'
<1>1. Handlers'
  BY DEF Flow, Handlers
<1>2. Clients'
  BY DEF Flow, Clients, Asks
<1>3. Console'
  BY DEF Flow, Console, Drawers, Waiters
<1>. QED  BY <1>1, <1>2, <1>3 DEF Flow

LEMMA CommandFlow ==
  ASSUME Flow, RuntimeCommand
  PROVE  Flow'
<1>1. /\ Idle("runtime") /\ Asks("control", "runtime")
      /\ "control" \in Tasks /\ "runtime" \in Tasks \ {"track"}
  BY DEF RuntimeCommand, Tasks, Servers
<1>2. Request("control").cmd \in CommandLines
  <2>1. Calls(Request("control")) /\ Fit("control", Request("control"))
    BY <1>1, Heads
  <2>2. Request("control") \in [to : Tasks, op : CallOps, cmd : Commands]
    BY <2>1 DEF Fit
  <2>. QED  BY <2>2, RuntimeAssumption
<1>3. PICK steps \in CommandSteps(Request("control").cmd) :
           Begin("runtime", "control", steps \o <<Do("REFRESH")>>)
  BY DEF RuntimeCommand
<1>4. Fits("runtime", steps \o <<Do("REFRESH")>>)
  BY <1>2, CommandFits, DoFits, FitsConcat DEF Acts
<1>. QED  BY <1>1, <1>3, <1>4, BeginFlow DEF Managers

LEMMA RuntimeFlow ==
  ASSUME Flow, Runtime
  PROVE  Flow'
<1>0. "runtime" \in Tasks /\ BagToSet(mail) \subseteq Mails
  BY DEF Tasks, Servers, Flow
<1>1. CASE RuntimeCommand
  BY <1>1, CommandFlow
<1>2. CASE RuntimeEvent
  <2>1. PICK m \in BagToSet(mail) : /\ Idle("runtime") /\ m.op # "RV_REQUEST"
                                    /\ mail' = mail (-) SetToBag({m})
                                    /\ todo' = [todo EXCEPT !["runtime"] = EventSteps(m)]
                                    /\ client' = client /\ ui' = ui
    BY <1>2 DEF RuntimeEvent
  <2>2. Fits("runtime", EventSteps(m))
    BY <1>0, <2>1, EventFits DEF Acts
  <2>3. BagToSet(mail') \subseteq Mails
    BY <1>0, <2>1, Posts
  <2>. QED  BY <2>1, <2>2, <2>3, StartFlow
<1>3. CASE RuntimeRvRequest
  <2>1. BagToSet(mail') \subseteq Mails
    BY <1>0, <1>3, Posts DEF RuntimeRvRequest
  <2>. QED  BY <1>3, <2>1, StandFlow DEF RuntimeRvRequest, kernel
<1>4. CASE RuntimeReversing
  <2>. DEFINE steps == IF reversed = 2 THEN <<Ask("position", "REVERSE")>> ELSE <<>>
  <2>1. /\ At("runtime", "START_REVERSE_REPLY") /\ Then("runtime", steps)
        /\ client' = client /\ ui' = ui
    BY <1>4 DEF RuntimeReversing
  <2>2. Fits("runtime", steps)
    BY RuntimeAsks, FitsFew DEF CallOps, LimitedOps, Acts
  <2>3. BagToSet(mail') \subseteq Mails
    <3>1. \/ mail' = mail
          \/ \E m : mail' = mail (-) SetToBag({m})
          \/ \E m : m \in Mails /\ mail' = mail (+) SetToBag({m})
      BY <1>4, Posted DEF RuntimeReversing
    <3>. QED  BY <3>1, <1>0, Posts
  <2>. HIDE DEF steps
  <2>. QED  BY <1>0, <2>1, <2>2, <2>3, ThenFlow
<1>5. CASE RuntimeReversed \/ RuntimeDeactivate
  <2>1. /\ At("runtime", "RV_DONE") \/ At("runtime", "DEACTIVATE")
        /\ Then("runtime", <<>>) /\ client' = client /\ ui' = ui /\ mail' = mail
    BY <1>5 DEF RuntimeReversed, RuntimeDeactivate
  <2>. QED  BY <1>0, <2>1, FitsFew, ThenFlow
<1>6. CASE RuntimeRetried
  <2>1. /\ At("runtime", "RETRIED") /\ client' = client /\ ui' = ui /\ mail' = mail
        /\ Then("runtime", LogLine) \/ Then("runtime", <<>>)
    BY <1>6 DEF RuntimeRetried
  <2>2. Fits("runtime", LogLine) /\ Fits("runtime", <<>>)
    BY FitsFew DEF LogLine, Modes
  <2>. QED  BY <1>0, <2>1, <2>2, ThenFlow
<1>8. CASE RuntimeRetry
  <2>1. PICK q \in {<<>>} \cup PositionCalls : Then("runtime", q \o <<Do("RETRIED")>>)
    BY <1>8 DEF RuntimeRetry
  <2>2. At("runtime", "RETRY") /\ client' = client /\ ui' = ui /\ mail' = mail
    BY <1>8 DEF RuntimeRetry
  <2>3. Fits("runtime", q \o <<Do("RETRIED")>>)
    <3>1. "runtime" \in Storers /\ Rank("runtime") > 0
      BY Ranks DEF Storers
    <3>2. Fits("runtime", q)
      BY <3>1, DriveFits
    <3>. QED  BY <3>2, DoFits, FitsConcat
  <2>. QED  BY <1>0, <2>1, <2>2, <2>3, ThenFlow
<1>7. CASE RuntimeRefresh
  <2>. DEFINE clear == <<Ask("position", "CLEAR_SWITCH_OVERRIDES"), Do("DEACTIVATE")>>
  <2>1. /\ At("runtime", "REFRESH") /\ client' = client /\ ui' = ui /\ mail' = mail
        /\ Then("runtime", LogLine) \/ Then("runtime", clear) \/ Then("runtime", <<>>)
    BY <1>7 DEF RuntimeRefresh
  <2>2. Fits("runtime", LogLine) /\ Fits("runtime", <<>>)
    BY FitsFew DEF LogLine, Modes
  <2>3. Fits("runtime", <<Ask("position", "CLEAR_SWITCH_OVERRIDES")>>)
    BY RuntimeAsks DEF CallOps, LimitedOps, Acts
  <2>4. Fits("runtime", clear)
    BY <2>3, DoFits, FitsPair
  <2>. HIDE DEF clear
  <2>. QED  BY <1>0, <2>1, <2>2, <2>4, ThenFlow
<1>. QED  BY <1>1, <1>2, <1>3, <1>4, <1>5, <1>6, <1>7, <1>8 DEF Runtime

LEMMA TickMails ==
  \A k \in TickTasks : LET m == Ask("runtime", k)
                       IN  /\ m \in Mails /\ m.op = k
                           /\ m.op \in {"FAST", "SETTLE", "REPLAN", "DEMO", "GAME"}
BY RuntimeAssumption, Posted DEF Ask

\* The frames in, the tick and delay tasks, the tasks of the console.
LEMMA OtherFlow ==
  ASSUME Flow,
         \/ TrackFrame \/ BoxFrame \/ SensorHit \/ ControlCommand \/ UITick
         \/ \E k \in TickTasks : Tick(k)
         \/ \E t \in Trains : DelayEnds(t)
         \/ \E c \in Commands : InputLine(c)
  PROVE  Flow'
<1>0. BagToSet(mail) \subseteq Mails
  BY DEF Flow
<1>1. CASE TrackFrame \/ BoxFrame \/ SensorHit
  <2>1. BagToSet(mail') \subseteq Mails
    <3>1. mail' = mail \/ \E m \in Mails : mail' = mail (+) SetToBag({m})
      BY <1>1, Posted DEF TrackFrame, BoxFrame, SensorHit, NotifyRuntime, kernel
    <3>. QED  BY <3>1, <1>0, Posts
  <2>2. UNCHANGED <<todo, client, ui>>
    BY <1>1 DEF TrackFrame, BoxFrame, SensorHit, NotifyRuntime, kernel
  <2>. QED  BY <2>1, <2>2, StandFlow
<1>2. ASSUME NEW k \in TickTasks, Tick(k) PROVE Flow'
  <2>. DEFINE m == Ask("runtime", k)
  <2>1. m \in Mails /\ m.op = k /\ k \notin {"RV_REQUEST", "RV_COMPLETE"}
    BY TickMails
  <2>2. /\ Idle("runtime") /\ todo' = [todo EXCEPT !["runtime"] = EventSteps(m)]
        /\ UNCHANGED <<client, mail, ui>>
    BY <1>2 DEF Tick
  <2>. HIDE DEF m
  <2>3. Fits("runtime", EventSteps(m))
    BY <2>1, EventFits DEF Acts
  <2>. QED  BY <1>0, <2>2, <2>3, StartFlow
<1>3. ASSUME NEW t \in Trains, DelayEnds(t) PROVE Flow'
  <2>. DEFINE m == [to |-> "runtime", op |-> "RV_COMPLETE", train |-> t]
  <2>1. mail' = mail (+) SetToBag({m}) /\ UNCHANGED <<todo, client, ui>>
    BY <1>3 DEF DelayEnds, kernel
  <2>2. m \in Mails
    BY Posted
  <2>. HIDE DEF m
  <2>3. BagToSet(mail') \subseteq Mails
    BY <1>0, <2>1, <2>2, Posts
  <2>. QED  BY <2>1, <2>3, StandFlow
<1>4. ASSUME NEW c \in Commands, InputLine(c) PROVE Flow'
  <2>. DEFINE e == [to |-> "control", op |-> "COMMAND", cmd |-> c]
  <2>1. e \in [to : Tasks, op : CallOps, cmd : Commands] /\ e \in Requests
        /\ e.to = "control" /\ e.op = "COMMAND"
    BY DEF Tasks, CallOps, Requests
  <2>2. /\ Idle("input") /\ todo' = [todo EXCEPT !["input"] = LogLine \o <<e>>]
        /\ client' = client /\ ui' = ui /\ mail' = mail
    BY <1>4 DEF InputLine
  <2>. HIDE DEF e
  <2>3. Fits("input", <<e>>)
    <3>1. Fit("input", e)
      BY <2>1, Kinds, Ranks DEF Fit, Reverses
    <3>. QED  BY <2>1, <3>1, Kinds, FitsFew DEF Steps
  <2>4. Fits("input", LogLine \o <<e>>)
    BY <2>3, FitsFew, FitsConcat DEF LogLine, Modes
  <2>. QED  BY <1>0, <2>2, <2>4, StartFlow
<1>5. CASE ControlCommand
  <2>. DEFINE c == Request("input").cmd
              e == [to |-> "runtime", op |-> "COMMAND", cmd |-> c]
              last == IF c.type = "QUIT" THEN <<Do("SHUTDOWN")>> ELSE <<>>
  <2>1. /\ Idle("control") /\ Asks("input", "control")
        /\ Begin("control", "input", <<e>> \o last)
    BY <1>5 DEF ControlCommand
  <2>2. "input" \in Tasks /\ "control" \in Tasks \ {"track"} /\ "runtime" \in Tasks
    BY DEF Tasks, Servers
  <2>3. Calls(Request("input")) /\ Fit("input", Request("input"))
    BY <2>1, <2>2, Heads
  <2>4. Request("input") \in [to : Tasks, op : CallOps, cmd : Commands]
    BY <2>3 DEF Fit
  <2>5. c \in Commands
    BY <2>4
  <2>. HIDE DEF c
  <2>6. e \in [to : Tasks, op : CallOps, cmd : Commands] /\ e \in Requests
        /\ e.to = "runtime" /\ e.op = "COMMAND"
    BY <2>2, <2>5 DEF CallOps, Requests
  <2>7. Fits("control", last)
    BY DoFits, FitsFew
  <2>. HIDE DEF e, last
  <2>8. Fits("control", <<e>>)
    <3>1. Fit("control", e)
      BY <2>6, Kinds, Ranks DEF Fit, Reverses
    <3>. QED  BY <2>6, <3>1, Kinds, FitsFew DEF Steps
  <2>9. Fits("control", <<e>> \o last)
    BY <2>7, <2>8, FitsConcat
  <2>. QED  BY <2>1, <2>2, <2>9, BeginFlow DEF Managers
<1>6. CASE UITick
  <2>1. /\ Idle("ui_tick") /\ todo' = [todo EXCEPT !["ui_tick"] = Redraw]
        /\ client' = client /\ ui' = ui /\ mail' = mail
    BY <1>6 DEF UITick
  <2>2. Fits("ui_tick", Redraw)
    BY FitsFew DEF Redraw, Modes
  <2>. QED  BY <1>0, <2>1, <2>2, StartFlow
<1>. QED  BY <1>1, <1>2, <1>3, <1>4, <1>5, <1>6

LEMMA InitFlow == Init => Flow
<1>. SUFFICES ASSUME Init PROVE Flow
  OBVIOUS
<1>1. /\ todo = [t \in Tasks |-> <<>>] /\ client = [s \in Tasks |-> Nobody]
      /\ ui = [owner |-> Nobody, mode |-> "RAW", depth |-> 0, waiters |-> <<>>, lost |-> {}]
      /\ mail = EmptyBag /\ "track" \in Tasks
  BY DEF Init, UIInit, Tasks, Servers
<1>2. Handlers
  <2>1. <<>> \in Seq(Steps)
    OBVIOUS
  <2>. QED  BY <1>1, <2>1, FitsFew DEF Handlers
<1>3. Clients
  BY <1>1, Ranks DEF Clients, Servers, Managers, Tasks
<1>4. Console
  <2>1. <<>> \in Seq([task : Tasks, mode : Modes]) /\ Len(<<>>) = 0
    OBVIOUS
  <2>. QED  BY <1>1, <2>1 DEF Console, Modes
<1>5. BagToSet(mail) \subseteq Mails
  BY <1>1 DEF BagToSet, EmptyBag, SetToBag
<1>. QED  BY <1>2, <1>3, <1>4, <1>5 DEF Flow

\* What holds of the handlers, the callers, the console and the mail between any two steps of
\* any two tasks.
LEMMA FlowInvariant == Spec => []Flow
<1>1. Flow /\ [Next]_vars => Flow'
  <2>. SUFFICES ASSUME Flow, [Next]_vars PROVE Flow'
    OBVIOUS
  <2>1. CASE UNCHANGED vars
    <3>1. UNCHANGED <<todo, client, ui, mail>>
      BY <2>1 DEF vars, kernel
    <3>. QED  BY <3>1, StandFlow DEF Flow
  <2>2. ASSUME NEW t \in Tasks, Answer(t) \/ Drawing(t) \/ Throwing(t) PROVE Flow'
    BY <2>2, AnswerFlow, DrawingFlow, ThrowingFlow
  <2>3. ASSUME NEW c \in Servers, Track(c) \/ PositionServe(c) PROVE Flow'
    BY <2>3, TrackFlow, PositionFlow
  <2>. QED  BY <2>1, <2>2, <2>3, ManagerFlow, RuntimeFlow, OtherFlow DEF Next
<1>. QED  BY <1>1, InitFlow, PTL DEF Spec

-----------------------------------------------------------------------------
(* The locks lifted in a prompt *)

Lifts(e) == Calls(e) /\ e.op = "ALLOW_SWITCH_OVERRIDE"
Clear == Ask("position", "CLEAR_SWITCH_OVERRIDES")
Closes(q) == \E i \in 1..Len(q) : Effect(q[i], "DEACTIVATE")
Quiet(q) == \A i \in 1..Len(q) : /\ ~Lifts(q[i]) /\ ~Effect(q[i], "REFRESH")
                                 /\ ~Effect(q[i], "DEACTIVATE")

\* The prompt is looked at last in a handler of the runtime, and left only behind the call
\* that locks the switches again.
Ends(q) ==
  \A i \in 1..Len(q) :
    /\ Effect(q[i], "REFRESH") => i = Len(q)
    /\ Effect(q[i], "DEACTIVATE") => i = Len(q) /\ (i = 1 \/ (i = 2 /\ q[1] = Clear))

Locks ==
  LET q == todo["runtime"]
  IN  /\ Ends(q)
      /\ (\E i \in 1..Len(q) : Lifts(q[i])) => prompt
      /\ overrides # {} =>
           prompt /\ (Closes(q) => Len(q) = 2 /\ client["position"] # "runtime")

LEMMA QuietParts ==
  /\ \A q : Fits("quiet", q) => Quiet(q)
  /\ \A q : Fits("prompt", q) => /\ \A i \in 1..Len(q) : ~Effect(q[i], "REFRESH")
                                 /\ \A i \in 1..Len(q) : ~Effect(q[i], "DEACTIVATE")
BY DEF Fits, Fit, Quiet, Lifts

\* The runtime goes on with its handler, a few steps put before the rest.
LEMMA GoesOn ==
  ASSUME Locks, NEW q, NEW steps, q = todo["runtime"], q \in Seq(Steps), q # <<>>,
         steps \in Seq(Steps), Quiet(steps), todo'["runtime"] = steps \o Tail(q),
         prompt => prompt', overrides' = overrides,
         \/ q[1] # Clear
         \/ steps = <<>> /\ client["position"] = "runtime"
  PROVE  Locks'
<1>. DEFINE r == steps \o Tail(q)
            n == Len(steps)
<1>1. /\ Len(q) \in Nat \ {0} /\ n \in Nat
      /\ Tail(q) \in Seq(Steps) /\ Len(Tail(q)) = Len(q) - 1
      /\ \A i \in 1..Len(Tail(q)) : Tail(q)[i] = q[i + 1]
  BY EmptySeq, LenProperties, HeadTailProperties
<1>2. /\ Len(r) = n + Len(q) - 1
      /\ \A i \in 1..(n + Len(q) - 1) : r[i] = IF i <= n THEN steps[i] ELSE Tail(q)[i - n]
  <2>1. /\ Len(r) = Len(steps) + Len(Tail(q))
        /\ \A i \in 1..(Len(steps) + Len(Tail(q))) :
             r[i] = IF i <= Len(steps) THEN steps[i] ELSE Tail(q)[i - Len(steps)]
    BY <1>1, ConcatProperties
  <2>2. Len(steps) + Len(Tail(q)) = n + Len(q) - 1
    BY <1>1
  <2>. QED  BY <2>1, <2>2
<1>. HIDE DEF r, n
<1>a. n \in Nat /\ Len(q) \in Nat
  BY <1>1
<1>b. ASSUME NEW k \in Int, k - n \in 1..(Len(q) - 1) PROVE k - n + 1 \in 1..Len(q)
  BY <1>a, <1>b
<1>3. ASSUME NEW i \in 1..Len(r)
      PROVE  \/ ~Lifts(r[i]) /\ ~Effect(r[i], "REFRESH") /\ ~Effect(r[i], "DEACTIVATE")
             \/ i - n \in 1..(Len(q) - 1) /\ r[i] = q[i - n + 1]
  <2>1. CASE i <= n
    <3>1. i \in 1..Len(steps) /\ r[i] = steps[i]
      BY <2>1, <1>1, <1>2 DEF n
    <3>. QED  BY <3>1 DEF Quiet
  <2>2. CASE i > n
    <3>1. i - n \in 1..(Len(q) - 1) /\ r[i] = Tail(q)[i - n]
      BY <2>2, <1>1, <1>2
    <3>. QED  BY <3>1, <1>1
  <2>. QED  BY <2>1, <2>2, <1>1, <1>2
\* If the prompt is to be left, the call before it has just been answered.
<1>4. ASSUME NEW i \in 1..Len(r), Effect(r[i], "DEACTIVATE")
      PROVE  i = 1 /\ Len(r) = 1 /\ q[1] = Clear /\ Closes(q)
  <2>1. i - n \in 1..(Len(q) - 1) /\ r[i] = q[i - n + 1]
    BY <1>3, <1>4
  <2>2. i - n + 1 \in 1..Len(q)
    BY <2>1, <1>b
  <2>3. i - n + 1 = Len(q) /\ i - n + 1 = 2 /\ q[1] = Clear
    BY <2>1, <2>2, <1>1, <1>4 DEF Locks, Ends
  <2>4. n = 0
    BY <2>3, EmptySeq DEF n
  <2>5. i = 1 /\ Len(r) = 1
    <3>1. Len(r) = n + Len(q) - 1 /\ Len(q) = 2 /\ n = 0
      BY <2>3, <2>4, <1>2
    <3>2. i \in Int /\ i - n + 1 = 2
      BY <2>3, <1>1, <1>2
    <3>. QED  BY <3>1, <3>2
  <2>6. Effect(q[i - n + 1], "DEACTIVATE")
    BY <2>1, <1>4
  <2>7. Closes(q)
    BY <2>2, <2>6 DEF Closes
  <2>. QED  BY <2>3, <2>5, <2>7
<1>5. Ends(r)
  <2>1. ASSUME NEW i \in 1..Len(r), Effect(r[i], "REFRESH") PROVE i = Len(r)
    <3>1. i - n \in 1..(Len(q) - 1) /\ r[i] = q[i - n + 1]
      BY <1>3, <2>1
    <3>2. i - n + 1 \in 1..Len(q)
      BY <3>1, <1>b
    <3>3. i - n + 1 = Len(q)
      BY <3>1, <3>2, <2>1 DEF Locks, Ends
    <3>. QED  BY <3>2, <3>3, <1>1, <1>2
  <2>. QED  BY <2>1, <1>4 DEF Ends
<1>6. ASSUME NEW i \in 1..Len(r), Lifts(r[i]) PROVE prompt
  <2>1. i - n \in 1..(Len(q) - 1) /\ r[i] = q[i - n + 1]
    BY <1>3, <1>6
  <2>2. i - n + 1 \in 1..Len(q)
    BY <2>1, <1>b
  <2>. QED  BY <2>1, <2>2, <1>6 DEF Locks
<1>7. ASSUME overrides # {} PROVE prompt /\ ~Closes(r)
  <2>1. prompt /\ (Closes(q) => Len(q) = 2 /\ client["position"] # "runtime")
    BY <1>7 DEF Locks
  <2>2. ASSUME NEW i \in 1..Len(r), Effect(r[i], "DEACTIVATE") PROVE FALSE
    BY <2>1, <2>2, <1>4
  <2>. QED  BY <2>1, <2>2 DEF Closes
<1>8. r = todo'["runtime"]
  BY DEF r
<1>. QED  BY <1>5, <1>6, <1>7, <1>8 DEF Locks

\* A new handler of the runtime.
LEMMA StartsAnew ==
  ASSUME Locks, NEW q, todo["runtime"] = <<>>, todo'["runtime"] = q,
         prompt' = prompt, overrides' = overrides,
         Ends(q), ~Closes(q), (\E i \in 1..Len(q) : Lifts(q[i])) => prompt
  PROVE  Locks'
BY DEF Locks

\* Steps of which the runtime takes no notice.
LEMMA StaysLocked ==
  ASSUME Locks, todo'["runtime"] = todo["runtime"], prompt' = prompt, overrides' = overrides,
         client'["position"] = "runtime" => client["position"] = "runtime"
  PROVE  Locks'
BY DEF Locks

\* Any step of a task other than the runtime, but for those of the position server.
LEMMA OthersLocked ==
  ASSUME Flow, Locks, prompt' = prompt, overrides' = overrides,
         \/ \E t \in Tasks \ {"runtime"} : \E q : todo' = [todo EXCEPT ![t] = q]
         \/ todo' = todo,
         \/ client' = client
         \/ \E s \in Tasks \ {"position"} : \E c : client' = [client EXCEPT ![s] = c]
         \/ \E s \in Tasks : client' = [client EXCEPT ![s] = Nobody]
  PROVE  Locks'
<1>1. "runtime" \in Tasks /\ "position" \in Tasks /\ Nobody # "runtime"
  BY RuntimeAssumption DEF Tasks, Servers
<1>2. todo'["runtime"] = todo["runtime"]
  BY <1>1 DEF Flow, Handlers
<1>3. client'["position"] = "runtime" => client["position"] = "runtime"
  BY <1>1 DEF Flow, Handlers
<1>. QED  BY <1>2, <1>3, StaysLocked

LEMMA RuntimeHead ==
  ASSUME Flow
  PROVE  /\ "runtime" \in Tasks /\ "runtime" \in Servers /\ "position" \in Tasks
         /\ todo \in [Tasks -> Seq(Steps)] /\ todo["runtime"] \in Seq(Steps)
         /\ client["position"] = "runtime" => Asks("runtime", "position")
         /\ todo["runtime"] # <<>> =>
              /\ Head(todo["runtime"]) = todo["runtime"][1]
              /\ Len(todo["runtime"]) \in Nat \ {0}
<1>1. "runtime" \in Tasks /\ "runtime" \in Servers /\ "position" \in Tasks
  BY DEF Tasks, Servers
<1>2. todo \in [Tasks -> Seq(Steps)] /\ todo["runtime"] \in Seq(Steps)
  BY <1>1 DEF Flow, Handlers
<1>3. client["position"] = "runtime" => Asks("runtime", "position")
  BY <1>1, RuntimeAssumption DEF Flow, Clients
<1>4. todo["runtime"] # <<>> => Len(todo["runtime"]) \in Nat \ {0}
  BY <1>2, EmptySeq
<1>. QED  BY <1>1, <1>2, <1>3, <1>4

LEMMA QuietFew ==
  /\ Fits("quiet", <<>>) /\ Fits("quiet", LogLine) /\ Fits("quiet", <<Ask("position", "REVERSE")>>)
  /\ \A q \in {<<>>} \cup PositionCalls : Fits("quiet", q \o <<Do("RETRIED")>>)
  /\ \A x \in Turnouts, d \in Directions : Fits("quiet", <<SetSwitch(x, d), UpdateSwitch(x, d)>>)
<1>1. Fits("quiet", <<>>) /\ Fits("quiet", LogLine)
  BY FitsFew DEF LogLine, Modes
<1>2. Fits("quiet", <<Ask("position", "REVERSE")>>)
  BY RuntimeAsks DEF Acts, CallOps, LimitedOps
<1>3. "quiet" \in Storers /\ Rank("quiet") > 0
  BY DEF Storers, Rank, Managers
<1>4. ASSUME NEW q \in {<<>>} \cup PositionCalls PROVE Fits("quiet", q \o <<Do("RETRIED")>>)
  <2>1. Fits("quiet", q) /\ Fits("quiet", <<Do("RETRIED")>>)
    BY <1>3, DriveFits, DoFits
  <2>. QED  BY <2>1, FitsConcat
<1>. QED  BY <1>1, <1>2, <1>3, <1>4, DriveFits

\* The runtime has been answered, or has done one of its own effects.
LEMMA AnsweredLocked ==
  ASSUME Flow, Locks, NEW steps, Then("runtime", steps),
         prompt => prompt', overrides' = overrides,
         \/ steps = <<>> /\ client["position"] = "runtime"
         \/ steps = <<>> /\ \E s : Asks("runtime", s) /\ s # "position"
         \/ (\E op : At("runtime", op)) /\ Fits("quiet", steps)
  PROVE  Locks'
<1>. DEFINE q == todo["runtime"]
<1>1. q # <<>> /\ q \in Seq(Steps) /\ Head(q) = q[1]
  BY RuntimeHead DEF Asks, At
<1>2. todo'["runtime"] = steps \o Tail(q)
  BY RuntimeHead DEF Then
<1>3. steps \in Seq(Steps) /\ Quiet(steps)
  BY QuietFew, QuietParts DEF Fits
<1>4. q[1] # Clear \/ (steps = <<>> /\ client["position"] = "runtime")
  <2>1. ASSUME NEW s, Asks("runtime", s), s # "position" PROVE q[1] # Clear
    BY <2>1, <1>1 DEF Asks, Clear, Ask
  <2>2. ASSUME NEW op, At("runtime", op) PROVE q[1] # Clear
    BY <2>2, <1>1 DEF At, Clear, Ask
  <2>. QED  BY <2>1, <2>2
<1>. HIDE DEF q
<1>5. q = todo["runtime"]
  BY DEF q
<1>. QED  BY <1>1, <1>2, <1>3, <1>4, <1>5, GoesOn

LEMMA AnswerLocked ==
  ASSUME Flow, Locks, NEW s \in Tasks, Answer(s)
  PROVE  Locks'
<1>1. /\ client[s] # Nobody /\ Then(client[s], <<>>)
      /\ client' = [client EXCEPT ![s] = Nobody]
      /\ prompt' = prompt /\ overrides' = overrides
  BY DEF Answer, deadlock
<1>2. client[s] \in Tasks /\ Asks(client[s], s)
  BY <1>1 DEF Flow, Handlers, Clients
<1>3. CASE client[s] = "runtime"
  BY <1>1, <1>2, <1>3, AnsweredLocked
<1>4. CASE client[s] # "runtime"
  BY <1>1, <1>2, <1>4, OthersLocked DEF Then
<1>. QED  BY <1>3, <1>4

LEMMA DrawingLocked ==
  ASSUME Flow, Locks, NEW t \in Tasks, Drawing(t)
  PROVE  Locks'
<1>1. /\ Then(t, <<>>) /\ client' = client /\ \E op : At(t, op)
      /\ prompt' = prompt /\ overrides' = overrides
  BY DEF Drawing, deadlock
<1>2. CASE t = "runtime"
  BY <1>1, <1>2, QuietFew, AnsweredLocked
<1>3. CASE t # "runtime"
  BY <1>1, <1>3, OthersLocked DEF Then
<1>. QED  BY <1>2, <1>3

LEMMA ThrowingLocked ==
  ASSUME Flow, Locks, NEW t \in Tasks, Throwing(t)
  PROVE  Locks'
<1>1. PICK x \in Turnouts, d \in Directions : \E q \in {<<>>, <<SetSwitch(x, d), UpdateSwitch(x, d)>>} :
             /\ Then(t, q) /\ At(t, "THROW") /\ client' = client
             /\ prompt' = prompt /\ overrides' = overrides
  BY Throws DEF deadlock
<1>2. PICK q \in {<<>>, <<SetSwitch(x, d), UpdateSwitch(x, d)>>} :
             /\ Then(t, q) /\ At(t, "THROW") /\ client' = client
             /\ prompt' = prompt /\ overrides' = overrides
  BY <1>1
<1>3. Fits("quiet", q)
  BY QuietFew
<1>4. CASE t = "runtime"
  BY <1>2, <1>3, <1>4, AnsweredLocked
<1>5. CASE t # "runtime"
  BY <1>2, <1>5, OthersLocked DEF Then
<1>. QED  BY <1>4, <1>5

LEMMA TrackLocked ==
  ASSUME Flow, Locks, NEW c \in Servers, Track(c)
  PROVE  Locks'
<1>1. /\ Asks(c, "track") /\ Then(c, <<>>) /\ client' = client
      /\ prompt' = prompt /\ overrides' = overrides
  BY DEF Track, TrackSetSpeed, TrackSetSwitch, TrackUpdateSwitch, TrackStartReverse,
         TrackCompleteReverse, TrackReset, Served, deadlock
<1>2. CASE c = "runtime"
  BY <1>1, <1>2, AnsweredLocked
<1>3. CASE c # "runtime"
  BY <1>1, <1>3, Ranks, OthersLocked DEF Then
<1>. QED  BY <1>2, <1>3

LEMMA PositionLocked ==
  ASSUME Flow, Locks, NEW c \in Servers, PositionServe(c)
  PROVE  Locks'
<1>. DEFINE q == todo["runtime"]
            e == Request(c)
<1>1. PICK steps : /\ Asks(c, "position") /\ Begin("position", c, steps)
                   /\ IF e.op = "ALLOW_SWITCH_OVERRIDE" THEN overrides' = overrides \cup {e.sw}
                      ELSE IF e.op \in {"CLEAR_SWITCH_OVERRIDES", "RESET_ALL"}
                           THEN overrides' = {} ELSE overrides' = overrides
                   /\ prompt' = prompt
  BY DEF PositionServe
<1>2. /\ c \in Tasks /\ "position" \in Tasks /\ "runtime" \in Tasks
      /\ todo'["runtime"] = q /\ client'["position"] = c
  BY <1>1, Ranks, RuntimeHead DEF Begin, Flow, Handlers
<1>3. Calls(e) /\ Fit(c, e) /\ e = Head(todo[c])
  BY <1>1, <1>2, Heads DEF Request
<1>4. c = "runtime" => q # <<>> /\ e = q[1] /\ 1 \in 1..Len(q) /\ Len(q) \in Nat
  BY <1>1, <1>3, RuntimeHead DEF Asks
<1>. HIDE DEF e
<1>5. CASE e.op = "ALLOW_SWITCH_OVERRIDE"
  <2>1. c = "runtime"
    <3>1. c \in {"runtime", "prompt", "still"}
      BY <1>3, <1>5 DEF Fit
    <3>. QED  BY <3>1 DEF Servers, Managers
  <2>2. prompt
    BY <1>3, <1>4, <1>5, <2>1 DEF Locks, Lifts
  \* a handler that lifts a lock first is not the one that locks them all
  <2>3. ASSUME NEW i \in 1..Len(q), Effect(q[i], "DEACTIVATE") PROVE FALSE
    <3>1. i = 1 \/ q[1] = Clear
      BY <2>3 DEF Locks, Ends
    <3>2. q[1] \in Requests
      BY <1>1, <1>2, <1>4, <2>1, Heads DEF e
    <3>3. ~Effect(q[1], "DEACTIVATE")
      BY <3>2, Kinds
    <3>4. Clear.op = "CLEAR_SWITCH_OVERRIDES"
      BY DEF Clear, Ask
    <3>. QED  BY <3>1, <3>3, <3>4, <2>1, <2>3, <1>4, <1>5
  <2>4. ~Closes(q)
    BY <2>3 DEF Closes
  <2>. HIDE DEF q
  <2>5. q = todo["runtime"]
    BY DEF q
  <2>. QED  BY <2>2, <2>4, <2>5, <1>1, <1>2 DEF Locks
<1>6. CASE e.op \in {"CLEAR_SWITCH_OVERRIDES", "RESET_ALL"}
  BY <1>1, <1>2, <1>6 DEF Locks
<1>7. CASE e.op \notin {"ALLOW_SWITCH_OVERRIDE", "CLEAR_SWITCH_OVERRIDES", "RESET_ALL"}
  <2>1. overrides' = overrides /\ prompt' = prompt
    BY <1>1, <1>7
  <2>2. ASSUME c = "runtime" PROVE ~Closes(q)
    <3>1. q[1] \in Requests /\ q[1] # Clear
      BY <1>1, <1>2, <1>4, <1>7, <2>2, Heads DEF e, Clear, Ask
    <3>2. ~Effect(q[1], "DEACTIVATE")
      BY <3>1, Kinds
    <3>. QED  BY <3>1, <3>2 DEF Locks, Ends, Closes
  <2>3. overrides # {} => (Closes(q) => Len(q) = 2 /\ client'["position"] # "runtime")
    BY <2>2, <1>2 DEF Locks
  <2>. HIDE DEF q
  <2>4. q = todo["runtime"]
    BY DEF q
  <2>. QED  BY <2>1, <2>3, <2>4, <1>2 DEF Locks
<1>. QED  BY <1>5, <1>6, <1>7

LEMMA EndsConcat ==
  ASSUME NEW p, NEW q, p \in Seq(Steps), q \in Seq(Steps), Len(q) <= 1,
         \A i \in 1..Len(p) : ~Effect(p[i], "REFRESH") /\ ~Effect(p[i], "DEACTIVATE"),
         \A i \in 1..Len(q) : ~Lifts(q[i]) /\ ~Effect(q[i], "DEACTIVATE")
  PROVE  /\ Ends(p \o q) /\ ~Closes(p \o q)
         /\ (\E i \in 1..Len(p \o q) : Lifts((p \o q)[i])) => \E i \in 1..Len(p) : Lifts(p[i])
<1>. DEFINE r == p \o q
<1>1. /\ Len(p) \in Nat /\ Len(q) \in Nat /\ Len(r) = Len(p) + Len(q)
      /\ \A i \in 1..(Len(p) + Len(q)) : r[i] = IF i <= Len(p) THEN p[i] ELSE q[i - Len(p)]
  BY LenProperties, ConcatProperties
<1>. HIDE DEF r
<1>2. ASSUME NEW i \in 1..Len(r)
      PROVE  /\ ~Effect(r[i], "DEACTIVATE")
             /\ Effect(r[i], "REFRESH") => i = Len(r)
             /\ Lifts(r[i]) => \E j \in 1..Len(p) : Lifts(p[j])
  <2>1. CASE i <= Len(p)
    <3>1. i \in 1..Len(p) /\ r[i] = p[i]
      BY <2>1, <1>1
    <3>. QED  BY <3>1
  <2>2. CASE i > Len(p)
    <3>1. i - Len(p) \in 1..Len(q) /\ r[i] = q[i - Len(p)]
      BY <2>2, <1>1
    <3>2. i = Len(r)
      BY <3>1, <1>1
    <3>. QED  BY <3>1, <3>2
  <2>3. i <= Len(p) \/ i > Len(p)
    BY <1>1
  <2>. QED  BY <2>1, <2>2, <2>3
<1>. QED  BY <1>2 DEF Ends, Closes, r

\* An event, or a tick.
LEMMA EventLocked ==
  ASSUME Flow, Locks, NEW m \in Mails, m.op # "RV_REQUEST", todo["runtime"] = <<>>,
         todo' = [todo EXCEPT !["runtime"] = EventSteps(m)], prompt' = prompt,
         overrides' = overrides
  PROVE  Locks'
<1>. DEFINE q == EventSteps(m)
<1>1. Ends(q) /\ ~Closes(q) /\ \A i \in 1..Len(q) : ~Lifts(q[i])
  <2>1. CASE m.op = "REPLAN"
    <3>. DEFINE a == Ask("position", "REPLAN_TICK")
                b == Do("REFRESH")
    <3>1. ~Lifts(a) /\ ~Lifts(b) /\ ~Effect(b, "DEACTIVATE")
          /\ ~Effect(a, "DEACTIVATE") /\ ~Effect(a, "REFRESH")
      BY DEF Ask, Do, Lifts, Calls, Effect
    <3>. HIDE DEF a, b
    <3>2. <<a, b>>[1] = a /\ <<a, b>>[2] = b /\ Len(<<a, b>>) = 2
      OBVIOUS
    <3>3. \A i \in 1..2 : i = 1 \/ i = 2
      OBVIOUS
    <3>4. Ends(<<a, b>>) /\ ~Closes(<<a, b>>) /\ \A i \in 1..2 : ~Lifts(<<a, b>>[i])
      BY <3>1, <3>2, <3>3 DEF Ends, Closes
    <3>5. q = <<a, b>>
      BY <2>1 DEF EventSteps, a, b
    <3>. QED  BY <3>2, <3>4, <3>5
  <2>2. CASE m.op # "REPLAN"
    <3>1. Fits("quiet", q)
      BY <2>2, EventFits DEF Acts
    <3>. QED  BY <3>1, QuietParts DEF Quiet, Ends, Closes
  <2>. QED  BY <2>1, <2>2
<1>2. todo["runtime"] = <<>> /\ todo'["runtime"] = q
  BY RuntimeHead
<1>. HIDE DEF q
<1>. QED  BY <1>1, <1>2, StartsAnew

LEMMA RuntimeLocked ==
  ASSUME Flow, Locks, Runtime
  PROVE  Locks'
<1>. USE RuntimeHead
<1>1. CASE RuntimeCommand
  <2>. DEFINE c == Request("control").cmd
              last == <<Do("REFRESH")>>
  <2>1. PICK steps \in CommandSteps(c) :
             /\ Idle("runtime") /\ Asks("control", "runtime")
             /\ Begin("runtime", "control", steps \o last)
             /\ prompt' = prompt /\ overrides' = overrides
    BY <1>1 DEF RuntimeCommand, deadlock
  <2>2. c \in CommandLines
    <3>1. "control" \in Tasks
      BY DEF Tasks
    <3>2. Calls(Request("control")) /\ Fit("control", Request("control"))
      BY <2>1, <3>1, Heads
    <3>3. Request("control") \in [to : Tasks, op : CallOps, cmd : Commands]
      BY <3>2 DEF Fit
    <3>. QED  BY <3>3, RuntimeAssumption
  <2>. HIDE DEF c
  <2>3. /\ steps \in Seq(Steps)
        /\ \A i \in 1..Len(steps) : ~Effect(steps[i], "REFRESH") /\ ~Effect(steps[i], "DEACTIVATE")
        /\ ~prompt => \A i \in 1..Len(steps) : ~Lifts(steps[i])
    <3>1. CASE prompt
      <4>1. Fits("prompt", steps)
        BY <2>2, <3>1, CommandFits DEF Acts
      <4>. QED  BY <3>1, <4>1, QuietParts DEF Fits
    <3>2. CASE ~prompt
      <4>1. Fits("quiet", steps)
        BY <2>2, <3>2, CommandFits DEF Acts
      <4>. QED  BY <3>2, <4>1, QuietParts DEF Fits, Quiet
    <3>. QED  BY <3>1, <3>2
  <2>4. last \in Seq(Steps) /\ Len(last) = 1 /\ last[1] = Do("REFRESH") /\ 1 <= 1
    BY DoFits DEF Fits
  <2>5. ~Lifts(last[1]) /\ ~Effect(last[1], "DEACTIVATE")
    BY <2>4 DEF Do, Lifts, Calls, Effect
  <2>6. \A i \in 1..Len(last) : i = 1
    BY <2>4
  <2>. HIDE DEF last
  <2>7. /\ Ends(steps \o last) /\ ~Closes(steps \o last)
        /\ (\E i \in 1..Len(steps \o last) : Lifts((steps \o last)[i])) => prompt
    <3>1. \A i \in 1..Len(last) : ~Lifts(last[i]) /\ ~Effect(last[i], "DEACTIVATE")
      BY <2>5, <2>6
    <3>2. Len(last) <= 1
      BY <2>4
    <3>3. /\ Ends(steps \o last) /\ ~Closes(steps \o last)
          /\ (\E i \in 1..Len(steps \o last) : Lifts((steps \o last)[i])) =>
               \E i \in 1..Len(steps) : Lifts(steps[i])
      BY <2>3, <2>4, <3>1, <3>2, EndsConcat
    <3>. QED  BY <2>3, <3>3
  <2>8. todo["runtime"] = <<>> /\ todo'["runtime"] = steps \o last
    BY <2>1 DEF Idle, Begin
  <2>. HIDE DEF last
  <2>. QED  BY <2>1, <2>7, <2>8, StartsAnew
<1>2. CASE RuntimeEvent
  <2>1. PICK m \in BagToSet(mail) : /\ Idle("runtime") /\ m.op # "RV_REQUEST"
                                    /\ todo' = [todo EXCEPT !["runtime"] = EventSteps(m)]
                                    /\ prompt' = prompt /\ overrides' = overrides
    BY <1>2 DEF RuntimeEvent, deadlock
  <2>2. m \in Mails
    BY DEF Flow
  <2>. QED  BY <2>1, <2>2, EventLocked DEF Idle
<1>3. CASE RuntimeRvRequest
  <2>1. todo' = todo /\ client' = client /\ prompt' = prompt /\ overrides' = overrides
    BY <1>3 DEF RuntimeRvRequest, kernel, deadlock
  <2>. QED  BY <2>1, StaysLocked
<1>4. CASE RuntimeReversing
  <2>1. PICK steps \in {<<>>, <<Ask("position", "REVERSE")>>} : Then("runtime", steps)
    BY <1>4 DEF RuntimeReversing
  <2>2. /\ At("runtime", "START_REVERSE_REPLY")
        /\ prompt' = prompt /\ overrides' = overrides
    BY <1>4 DEF RuntimeReversing, deadlock
  <2>. QED  BY <2>1, <2>2, QuietFew, AnsweredLocked
<1>5. CASE RuntimeReversed
  <2>1. /\ At("runtime", "RV_DONE") /\ Then("runtime", <<>>)
        /\ prompt' = prompt /\ overrides' = overrides
    BY <1>5 DEF RuntimeReversed, deadlock
  <2>. QED  BY <2>1, QuietFew, AnsweredLocked
<1>6. CASE RuntimeRetry
  <2>1. PICK steps \in {<<>>} \cup PositionCalls : Then("runtime", steps \o <<Do("RETRIED")>>)
    BY <1>6 DEF RuntimeRetry
  <2>2. At("runtime", "RETRY") /\ prompt' = prompt /\ overrides' = overrides
    BY <1>6 DEF RuntimeRetry, deadlock
  <2>3. Fits("quiet", steps \o <<Do("RETRIED")>>)
    BY QuietFew
  <2>. QED  BY <2>1, <2>2, <2>3, AnsweredLocked
<1>9. CASE RuntimeRetried
  <2>1. PICK steps \in {<<>>, LogLine} : Then("runtime", steps)
    BY <1>9 DEF RuntimeRetried
  <2>2. At("runtime", "RETRIED") /\ prompt' = prompt /\ overrides' = overrides
    BY <1>9 DEF RuntimeRetried
  <2>. QED  BY <2>1, <2>2, QuietFew, AnsweredLocked
<1>7. CASE RuntimeRefresh
  <2>. DEFINE b == Do("DEACTIVATE")
              q == <<Clear, b>>
  <2>1. /\ At("runtime", "REFRESH") /\ client' = client /\ overrides' = overrides
        /\ prompt' = (prompt \/ unresolved)
    BY <1>7 DEF RuntimeRefresh
  <2>2. CASE ~(~unresolved /\ prompt)
    <3>1. PICK steps \in {<<>>, LogLine} : Then("runtime", steps)
      BY <1>7, <2>2 DEF RuntimeRefresh
    <3>2. prompt => prompt'
      BY <2>1, <2>2
    <3>. QED  BY <2>1, <3>1, <3>2, QuietFew, AnsweredLocked
  <2>3. CASE ~unresolved /\ prompt
    <3>1. Then("runtime", q) /\ prompt' = TRUE
      BY <1>7, <2>1, <2>3 DEF RuntimeRefresh, Clear
    <3>2. Len(todo["runtime"]) = 1
      <4>1. todo["runtime"] # <<>> /\ Effect(todo["runtime"][1], "REFRESH")
        BY <2>1, Heads
      <4>2. 1 \in 1..Len(todo["runtime"])
        BY <4>1
      <4>. QED  BY <4>1, <4>2 DEF Locks, Ends
    <3>3. Tail(todo["runtime"]) = <<>>
      <4>1. todo["runtime"] # <<>>
        BY <2>1 DEF At
      <4>2. Tail(todo["runtime"]) \in Seq(Steps) /\ Len(Tail(todo["runtime"])) = 0
        BY <4>1, <3>2, HeadTailProperties
      <4>. QED  BY <4>2, EmptySeq
    <3>4. Clear \in Requests /\ b \in Effects
      BY DEF Clear, Ask, Requests, CallOps, Do, Effects, EffectOps
    <3>5. ~Lifts(Clear) /\ ~Lifts(b) /\ ~Effect(b, "REFRESH")
          /\ ~Effect(Clear, "DEACTIVATE") /\ ~Effect(Clear, "REFRESH")
      BY DEF Clear, Ask, Do, Lifts, Calls, Effect
    <3>6. client["position"] # "runtime"
      BY <2>1, Heads
    <3>7. /\ q \in Seq(Steps) /\ q[1] = Clear /\ q[2] = b /\ Len(q) = 2
      <4>. HIDE DEF b
      <4>. QED  BY <3>4 DEF Steps
    <3>8. todo'["runtime"] = q
      BY <3>1, <3>3, <3>7, ConcatEmptySeq DEF Then
    <3>. HIDE DEF q, b
    <3>9. \A i \in 1..Len(q) : i = 1 \/ i = 2
      BY <3>7
    <3>10. Ends(q) /\ \A i \in 1..Len(q) : ~Lifts(q[i])
      BY <3>5, <3>7, <3>9 DEF Ends
    <3>. QED  BY <2>1, <3>1, <3>6, <3>7, <3>8, <3>10 DEF Locks
  <2>. QED  BY <2>2, <2>3
<1>8. CASE RuntimeDeactivate
  <2>1. /\ At("runtime", "DEACTIVATE") /\ Then("runtime", <<>>)
        /\ client' = client /\ overrides' = overrides /\ prompt' = FALSE
    BY <1>8 DEF RuntimeDeactivate
  <2>2. todo["runtime"] # <<>> /\ Effect(todo["runtime"][1], "DEACTIVATE")
    BY <2>1, Heads
  <2>3. 1 \in 1..Len(todo["runtime"]) /\ Len(todo["runtime"]) = 1
    <3>1. 1 \in 1..Len(todo["runtime"])
      BY <2>2
    <3>2. 1 = Len(todo["runtime"])
      BY <2>2, <3>1 DEF Locks, Ends
    <3>. QED  BY <3>1, <3>2
  <2>4. overrides = {}
    <3>1. Closes(todo["runtime"])
      BY <2>2, <2>3 DEF Closes
    <3>. QED  BY <3>1, <2>3 DEF Locks
  <2>5. todo'["runtime"] = <<>>
    <3>1. Tail(todo["runtime"]) \in Seq(Steps) /\ Len(Tail(todo["runtime"])) = 0
      BY <2>2, <2>3, HeadTailProperties
    <3>2. Tail(todo["runtime"]) = <<>>
      BY <3>1, EmptySeq
    <3>. QED  BY <2>1, <3>2 DEF Then
  <2>. QED  BY <2>1, <2>4, <2>5 DEF Locks, Ends
<1>. QED  BY <1>1, <1>2, <1>3, <1>4, <1>5, <1>6, <1>7, <1>8, <1>9 DEF Runtime

LEMMA TickLocked ==
  ASSUME Flow, Locks, NEW k \in TickTasks, Tick(k)
  PROVE  Locks'
<1>1. /\ Idle("runtime") /\ todo' = [todo EXCEPT !["runtime"] = EventSteps(Ask("runtime", k))]
      /\ prompt' = prompt /\ overrides' = overrides
  BY DEF Tick, deadlock
<1>. QED  BY <1>1, TickMails, EventLocked DEF Idle

LEMMA OtherLocked ==
  ASSUME Flow, Locks,
         \/ TrackFrame \/ BoxFrame \/ SensorHit \/ ControlCommand \/ UITick
         \/ \E s \in Managers : ManagerServe(s, "runtime")
         \/ \E t \in Trains : DelayEnds(t)
         \/ \E c \in Commands : InputLine(c)
  PROVE  Locks'
<1>1. prompt' = prompt /\ overrides' = overrides
  BY DEF TrackFrame, BoxFrame, SensorHit, ControlCommand, UITick, ManagerServe, DelayEnds,
         InputLine, deadlock
<1>2. \/ todo' = todo
      \/ \E t \in Tasks \ {"runtime"} : \E q : todo' = [todo EXCEPT ![t] = q]
  <2>1. \A t \in Managers \cup {"control", "ui_tick", "input"} : t \in Tasks \ {"runtime"}
    BY DEF Tasks, Servers, Managers
  <2>. QED  BY <2>1 DEF TrackFrame, BoxFrame, SensorHit, ControlCommand, UITick, ManagerServe,
            DelayEnds, InputLine, Begin, NotifyRuntime, kernel
<1>3. \/ client' = client
      \/ \E s \in Tasks \ {"position"} : \E c : client' = [client EXCEPT ![s] = c]
  <2>1. \A t \in Managers \cup {"control"} : t \in Tasks \ {"position"}
    BY DEF Tasks, Servers, Managers
  <2>. QED  BY <2>1 DEF TrackFrame, BoxFrame, SensorHit, ControlCommand, UITick, ManagerServe,
            DelayEnds, InputLine, Begin, kernel
<1>. QED  BY <1>1, <1>2, <1>3, OthersLocked

LEMMA LocksInvariant == Spec => []Locks
<1>1. Init => Locks
  BY DEF Init, Locks, Ends, Tasks, Servers
<1>2. Flow /\ Locks /\ [Next]_vars => Locks'
  <2>. SUFFICES ASSUME Flow, Locks, [Next]_vars PROVE Locks'
    OBVIOUS
  <2>1. CASE UNCHANGED vars
    BY <2>1 DEF vars, kernel, deadlock, Locks
  <2>2. ASSUME NEW t \in Tasks, Answer(t) \/ Drawing(t) \/ Throwing(t)
        PROVE  Locks'
    BY <2>2, AnswerLocked, DrawingLocked, ThrowingLocked
  <2>3. ASSUME NEW c \in Servers, Track(c) \/ PositionServe(c) PROVE Locks'
    BY <2>3, TrackLocked, PositionLocked
  <2>. QED  BY <2>1, <2>2, <2>3, RuntimeLocked, TickLocked, OtherLocked DEF Next
<1>. QED  BY <1>1, <1>2, FlowInvariant, PTL DEF Spec

-----------------------------------------------------------------------------
(* The directions stored for turnouts *)

\* What a frame is for, and what it says of it.
Turnout(s) == <<"SWITCH", s>>
Train(t) == <<"SPEED", t>>
For(f, x) == x = IF f.frame = "SPEED" THEN Train(f.train)
                 ELSE IF f.frame = "SWITCH" THEN Turnout(f.sw) ELSE <<>>
Says(f) == IF f.frame = "SPEED" THEN f.speed ELSE f.dir

Silent(q, s) == \A i \in 1..Len(q) : ~For(q[i], s)
Final(q, s, d) ==
  \E i \in 1..Len(q) : /\ For(q[i], s) /\ Says(q[i]) = d
                       /\ \A j \in (i + 1)..Len(q) : ~For(q[j], s)
Framed(q, kinds) ==
  (\E S : q \in Seq(S)) /\ \A i \in 1..Len(q) : q[i].frame \in kinds

\* What the frames to the box, those from it, the turnout, the stored direction and the
\* directions routes are about to store have to do with each other: the last frame
\* acknowledges what the turnout is; without frames what is stored is right, unless excused;
\* and what is about to be stored has been sent or is what the turnout is.
Agree(b, r, s, actual, stored, storing, excused) ==
  /\ Silent(r, s) \/ Final(r, s, actual)
  /\ Silent(b, s) /\ Silent(r, s) => stored = actual \/ excused
  /\ \A d \in storing : Final(b, s, d) \/ (Silent(b, s) /\ actual = d)

\* A route stores a direction; it has sent this one.
Stores(e) == Calls(e) /\ e.to = "track" /\ e.op = "UPDATE_SWITCH" /\ "hit" \notin DOMAIN e
Sets(e, f) ==
  Calls(e) /\ e.to = "track" /\ e.op = "SET_SWITCH" /\ e.sw = f.sw /\ e.dir = f.dir

\* The rest of a handler stores a direction only at once or right behind its command; one
\* that does not store at once; one that stores none.
Rests(q) == \A i \in 1..Len(q) : Stores(q[i]) => i = 1 \/ (i = 2 /\ Sets(q[1], q[2]))
Calm(q) == \A i \in 1..Len(q) : Stores(q[i]) => i = 2 /\ Sets(q[1], q[2])
Bare(q) == \A i \in 1..Len(q) : ~Stores(q[i])

\* The directions of s that routes are about to store.
Storing(td, s) ==
  {td[t][1].dir : t \in {u \in Tasks : /\ 1 \in 1..Len(td[u]) /\ Stores(td[u][1])
                                     /\ td[u][1].sw = s}}

Stored ==
  /\ Framed(bus, {"SPEED", "SWITCH"}) /\ Framed(rx, {"HIT", "SWITCH"})
  /\ "sw" \in DOMAIN layout /\ DOMAIN layout.sw = Turnouts /\ DOMAIN switchState = Turnouts
  /\ \A t \in Tasks : Rests(todo[t])
  /\ \A s \in Turnouts : Partner[s] = s =>
       Agree(bus, rx, Turnout(s), layout.sw[s], switchState[s], Storing(todo, s), s \in corrected)

LEMMA Frames ==
  /\ \A f : f.frame = "SWITCH" => /\ \A s : For(f, Turnout(s)) <=> f.sw = s
                                  /\ \A t : ~For(f, Train(t))
                                  /\ Says(f) = f.dir
  /\ \A f : f.frame = "SPEED" => /\ \A t : For(f, Train(t)) <=> f.train = t
                                 /\ \A s : ~For(f, Turnout(s))
                                 /\ Says(f) = f.speed
  /\ \A f, s : For(f, Turnout(s)) => f.frame = "SWITCH" /\ Says(f) = f.dir
  /\ \A f, t : For(f, Train(t)) => f.frame = "SPEED" /\ Says(f) = f.speed
<1>1. /\ \A x, y : (Turnout(x) = Turnout(y) <=> x = y) /\ (Train(x) = Train(y) <=> x = y)
      /\ \A x, y : Turnout(x) # Train(y) /\ Turnout(x) # <<>> /\ Train(x) # <<>>
  <2>1. \A x : /\ Len(Turnout(x)) = 2 /\ Turnout(x)[1] = "SWITCH" /\ Turnout(x)[2] = x
               /\ Len(Train(x)) = 2 /\ Train(x)[1] = "SPEED" /\ Train(x)[2] = x
    BY DEF Turnout, Train
  <2>2. Len(<<>>) = 0
    OBVIOUS
  <2>. QED  BY <2>1, <2>2
<1>. QED  BY <1>1 DEF For, Says

LEMMA FramesTail ==
  ASSUME NEW q, NEW kinds, NEW s, Framed(q, kinds), q # <<>>
  PROVE  /\ Framed(Tail(q), kinds) /\ Head(q).frame \in kinds
         /\ For(Head(q), s) =>
              /\ ~Silent(q, s)
              /\ \A d : Final(q, s, d) =>
                   Final(Tail(q), s, d) \/ (Silent(Tail(q), s) /\ Says(Head(q)) = d)
         /\ ~For(Head(q), s) =>
              /\ Silent(Tail(q), s) <=> Silent(q, s)
              /\ \A d : Final(q, s, d) => Final(Tail(q), s, d)
<1>. DEFINE h == Head(q)
            t == Tail(q)
            n == Len(t)
<1>1. PICK S : q \in Seq(S)
  BY DEF Framed
<1>2. /\ n \in Nat /\ Len(q) = n + 1 /\ t \in Seq(S) /\ h = q[1]
      /\ \A i \in 1..n : t[i] = q[i + 1]
  <2>1. Len(q) \in Nat \ {0}
    BY <1>1, EmptySeq
  <2>2. /\ t \in Seq(S) /\ n = Len(q) - 1 /\ h = q[1]
        /\ \A i \in 1..n : t[i] = q[i + 1]
    BY <1>1, HeadTailProperties
  <2>. QED  BY <2>1, <2>2
<1>. HIDE DEF h, t, n
<1>3. /\ \A i \in 1..n : i + 1 \in 1..Len(q)
      /\ 1 \in 1..Len(q) /\ \A i \in 1..Len(q) : i = 1 \/ (i - 1 \in 1..n /\ i - 1 + 1 = i)
  BY <1>2
<1>4. Framed(t, kinds) /\ h.frame \in kinds
  <2>1. Len(t) = n
    BY DEF n
  <2>. QED  BY <1>2, <1>3, <2>1 DEF Framed
<1>5. For(h, s) => ~Silent(q, s)
  BY <1>2, <1>3 DEF Silent
<1>6. ~For(h, s) => (Silent(t, s) <=> Silent(q, s))
  <2>1. Len(t) = n
    BY DEF n
  <2>2. ASSUME ~For(h, s), Silent(t, s), NEW i \in 1..Len(q) PROVE ~For(q[i], s)
    <3>1. CASE i = 1
      BY <2>2, <3>1, <1>2
    <3>2. CASE i - 1 \in 1..n /\ i - 1 + 1 = i
      <4>1. t[i - 1] = q[i]
        BY <3>2, <1>2
      <4>. QED  BY <4>1, <3>2, <2>1, <2>2 DEF Silent
    <3>. QED  BY <3>1, <3>2, <1>3
  <2>3. ASSUME Silent(q, s), NEW i \in 1..n PROVE ~For(t[i], s)
    BY <2>3, <1>2, <1>3 DEF Silent
  <2>. QED  BY <2>1, <2>2, <2>3 DEF Silent
<1>7. ASSUME NEW d, Final(q, s, d)
      PROVE  Final(t, s, d) \/ (Silent(t, s) /\ For(h, s) /\ Says(h) = d)
  <2>0. Len(t) = n
    BY DEF n
  <2>1. PICK i \in 1..Len(q) : /\ For(q[i], s) /\ Says(q[i]) = d
                               /\ \A j \in (i + 1)..Len(q) : ~For(q[j], s)
    BY <1>7 DEF Final
  <2>2. \A j \in i..n : j \in Nat /\ j + 1 \in (i + 1)..Len(q) /\ j \in 1..n
    BY <1>2
  <2>3. \A j \in i..n : ~For(t[j], s)
    BY <2>1, <2>2, <1>2
  <2>4. CASE i = 1
    BY <2>0, <2>1, <2>3, <2>4, <1>2 DEF Silent
  <2>5. CASE i - 1 \in 1..n /\ i - 1 + 1 = i
    <3>1. t[i - 1] = q[i]
      BY <2>5, <1>2
    <3>. DEFINE k == i - 1
    <3>2. k \in 1..n /\ t[k] = q[i] /\ k + 1 = i
      BY <2>5, <3>1
    <3>. HIDE DEF k
    <3>. QED  BY <2>0, <2>1, <2>3, <3>2 DEF Final
  <2>. QED  BY <2>4, <2>5, <1>3
<1>. QED  BY <1>4, <1>5, <1>6, <1>7 DEF h, t

LEMMA FramesAppend ==
  ASSUME NEW q, NEW kinds, NEW s, Framed(q, kinds), NEW f
  PROVE  /\ f.frame \in kinds => Framed(Append(q, f), kinds)
         /\ For(f, s) => ~Silent(Append(q, f), s) /\ Final(Append(q, f), s, Says(f))
         /\ ~For(f, s) =>
              /\ Silent(Append(q, f), s) <=> Silent(q, s)
              /\ \A d : Final(q, s, d) => Final(Append(q, f), s, d)
<1>. DEFINE a == Append(q, f)
            n == Len(q)
<1>1. PICK S : q \in Seq(S)
  BY DEF Framed
<1>2. /\ a \in Seq(S \cup {f}) /\ n \in Nat /\ Len(a) = n + 1
      /\ \A i \in 1..n : a[i] = q[i]
      /\ a[n + 1] = f
  <2>1. q \in Seq(S \cup {f}) /\ n \in Nat
    BY <1>1, LenProperties
  <2>. QED  BY <2>1, AppendProperties
<1>. HIDE DEF a
<1>3. \A i \in 1..Len(a) : i \in 1..n \/ i = n + 1
  BY <1>2
<1>3a. /\ \A i \in 1..n : i \in 1..Len(a)
       /\ n + 1 \in 1..Len(a) /\ (n + 1 + 1)..Len(a) = {}
  BY <1>2
<1>4. f.frame \in kinds => Framed(a, kinds)
  BY <1>2, <1>3 DEF Framed
<1>5. For(f, s) => ~Silent(a, s) /\ Final(a, s, Says(f))
  BY <1>2, <1>3a DEF Silent, Final
<1>6. ~For(f, s) => (Silent(a, s) <=> Silent(q, s))
  BY <1>2, <1>3, <1>3a DEF Silent
<1>7. ASSUME ~For(f, s), NEW d, Final(q, s, d) PROVE Final(a, s, d)
  <2>1. PICK i \in 1..Len(q) : /\ For(q[i], s) /\ Says(q[i]) = d
                               /\ \A j \in (i + 1)..Len(q) : ~For(q[j], s)
    BY <1>7 DEF Final
  <2>2. \A j \in (i + 1)..Len(a) : (j \in 1..n /\ j \in (i + 1)..n) \/ j = n + 1
    BY <1>2
  <2>3. \A j \in (i + 1)..Len(a) : ~For(a[j], s)
    BY <2>1, <2>2, <1>2, <1>7
  <2>4. i \in 1..Len(a) /\ a[i] = q[i]
    BY <1>2, <1>3a
  <2>. QED  BY <2>1, <2>3, <2>4 DEF Final
<1>. QED  BY <1>4, <1>5, <1>6, <1>7 DEF a

LEMMA FramesConcat ==
  ASSUME NEW q, NEW p, NEW kinds, NEW s, Framed(q, kinds), Framed(p, kinds)
  PROVE  /\ Framed(q \o p, kinds)
         /\ ~Silent(p, s) => ~Silent(q \o p, s)
<1>. DEFINE c == q \o p
<1>1. PICK S, T : q \in Seq(S) /\ p \in Seq(T)
  BY DEF Framed
<1>2. /\ c \in Seq(S \cup T) /\ Len(q) \in Nat /\ Len(p) \in Nat /\ Len(c) = Len(q) + Len(p)
      /\ \A i \in 1..(Len(q) + Len(p)) : c[i] = IF i <= Len(q) THEN q[i] ELSE p[i - Len(q)]
  <2>1. q \in Seq(S \cup T) /\ p \in Seq(S \cup T) /\ Len(q) \in Nat /\ Len(p) \in Nat
    BY <1>1, LenProperties
  <2>. QED  BY <2>1, ConcatProperties
<1>. HIDE DEF c
<1>3. \A i \in 1..Len(c) : \/ i \in 1..Len(q) /\ c[i] = q[i]
                           \/ i - Len(q) \in 1..Len(p) /\ c[i] = p[i - Len(q)]
  BY <1>2
<1>4. \A i \in 1..Len(p) : i + Len(q) \in 1..Len(c) /\ c[i + Len(q)] = p[i]
  <2>. SUFFICES ASSUME NEW i \in 1..Len(p)
                PROVE  i + Len(q) \in 1..Len(c) /\ c[i + Len(q)] = p[i]
    OBVIOUS
  <2>1. /\ i + Len(q) \in 1..(Len(q) + Len(p)) /\ ~(i + Len(q) <= Len(q))
        /\ i + Len(q) - Len(q) = i
    BY <1>2
  <2>. QED  BY <2>1, <1>2
<1>5. Framed(c, kinds)
  BY <1>2, <1>3 DEF Framed
<1>6. ~Silent(p, s) => ~Silent(c, s)
  BY <1>4 DEF Silent
<1>. QED  BY <1>5, <1>6 DEF c

LEMMA FinalSpeaks == \A q, s, d : Final(q, s, d) => ~Silent(q, s)
BY DEF Final, Silent

\* The box executes a frame.
LEMMA AgreeExecuted ==
  ASSUME NEW b, NEW r, NEW s, NEW actual, NEW stored, NEW D, NEW x, NEW kb, NEW kr,
         Framed(b, kb), Framed(r, kr), b # <<>>, Agree(b, r, s, actual, stored, D, x)
  PROVE  /\ For(Head(b), s) =>
              Agree(Tail(b), Append(r, Head(b)), s, Says(Head(b)), stored, D, x)
         /\ ~For(Head(b), s) =>
              /\ Agree(Tail(b), r, s, actual, stored, D, x)
              /\ Agree(Tail(b), Append(r, Head(b)), s, actual, stored, D, x)
BY FramesTail, FramesAppend DEF Agree

\* A frame of the box is read.
LEMMA AgreeRead ==
  ASSUME NEW b, NEW r, NEW s, NEW actual, NEW stored, NEW D, NEW x, NEW kr,
         Framed(r, kr), r # <<>>, Agree(b, r, s, actual, stored, D, x)
  PROVE  /\ For(Head(r), s) => \A y : Agree(b, Tail(r), s, actual, Says(Head(r)), D, y)
         /\ ~For(Head(r), s) => Agree(b, Tail(r), s, actual, stored, D, x)
BY FramesTail, FinalSpeaks DEF Agree

\* A frame is sent to the box; a sensor is hit.
LEMMA AgreeSent ==
  ASSUME NEW b, NEW r, NEW s, NEW actual, NEW stored, NEW D, NEW x, NEW kb, NEW kr,
         Framed(b, kb), Framed(r, kr), Agree(b, r, s, actual, stored, D, x), NEW f
  PROVE  /\ For(f, s) =>
              \A e : \A E \in SUBSET {Says(f)} : Agree(Append(b, f), r, s, actual, e, E, x)
         /\ ~For(f, s) => /\ Agree(Append(b, f), r, s, actual, stored, D, x)
                          /\ Agree(b, Append(r, f), s, actual, stored, D, x)
<1>1. /\ For(f, s) => ~Silent(Append(b, f), s) /\ Final(Append(b, f), s, Says(f))
      /\ ~For(f, s) => /\ Silent(Append(b, f), s) <=> Silent(b, s)
                       /\ \A d : Final(b, s, d) => Final(Append(b, f), s, d)
                       /\ Silent(Append(r, f), s) <=> Silent(r, s)
                       /\ \A d : Final(r, s, d) => Final(Append(r, f), s, d)
  BY FramesAppend
<1>2. ASSUME For(f, s), NEW e, NEW E \in SUBSET {Says(f)}
      PROVE  Agree(Append(b, f), r, s, actual, e, E, x)
  BY <1>1, <1>2 DEF Agree
<1>3. ASSUME ~For(f, s)
      PROVE  /\ Agree(Append(b, f), r, s, actual, stored, D, x)
             /\ Agree(b, Append(r, f), s, actual, stored, D, x)
  BY <1>1, <1>3 DEF Agree
<1>. QED  BY <1>2, <1>3

\* Every frame of p is sent, some of which set the turnout.
LEMMA AgreeReset ==
  ASSUME NEW b, NEW r, NEW s, NEW actual, NEW stored, NEW D, NEW x, NEW k,
         Framed(b, k), Agree(b, r, s, actual, stored, D, x),
         NEW p, Framed(p, k), ~Silent(p, s), NEW e
  PROVE  Agree(b \o p, r, s, actual, e, {}, x)
BY FramesConcat DEF Agree

LEMMA StoringIs ==
  \A td, s, d : d \in Storing(td, s) <=>
    \E t \in Tasks : /\ 1 \in 1..Len(td[t]) /\ Stores(td[t][1]) /\ td[t][1].sw = s
                     /\ td[t][1].dir = d
BY DEF Storing

\* Handlers that store nothing.
LEMMA BareFits == \A s, q : s \notin Storers /\ Fits(s, q) => Bare(q)
BY DEF Fits, Fit, Bare, Stores

LEMMA BareConcat ==
  ASSUME NEW p, NEW q, p \in Seq(Steps), q \in Seq(Steps), Calm(p), Bare(q)
  PROVE  Calm(p \o q) /\ (Bare(p) => Bare(p \o q))
<1>. DEFINE r == p \o q
<1>1. /\ Len(p) \in Nat /\ Len(q) \in Nat /\ Len(r) = Len(p) + Len(q)
      /\ \A i \in 1..(Len(p) + Len(q)) : r[i] = IF i <= Len(p) THEN p[i] ELSE q[i - Len(p)]
  BY LenProperties, ConcatProperties
<1>. HIDE DEF r
<1>2. ASSUME NEW i \in 1..Len(r), Stores(r[i])
      PROVE  i \in 1..Len(p) /\ r[i] = p[i] /\ ~Bare(p) /\ i = 2 /\ Sets(r[1], r[2])
  <2>1. CASE i <= Len(p)
    <3>1. i \in 1..Len(p) /\ r[i] = p[i]
      BY <2>1, <1>1
    <3>2. ~Bare(p) /\ i = 2 /\ Sets(p[1], p[2])
      BY <3>1, <1>2 DEF Bare, Calm
    <3>3. r[1] = p[1] /\ r[2] = p[2]
      BY <3>1, <3>2, <1>1
    <3>. QED  BY <3>1, <3>2, <3>3
  <2>2. CASE i > Len(p)
    <3>1. i - Len(p) \in 1..Len(q) /\ r[i] = q[i - Len(p)]
      BY <2>2, <1>1
    <3>. QED  BY <3>1, <1>2 DEF Bare
  <2>3. i <= Len(p) \/ i > Len(p)
    BY <1>1
  <2>. QED  BY <2>1, <2>2, <2>3
<1>3. Calm(r)
  BY <1>2 DEF Calm
<1>4. Bare(p) => Bare(r)
  BY <1>2 DEF Bare
<1>. QED  BY <1>3, <1>4 DEF r

\* After its first step a handler stores a direction at once if that step was its command,
\* and nothing otherwise.
LEMMA RestsTail ==
  ASSUME NEW q, q \in Seq(Steps), q # <<>>, Rests(q)
  PROVE  /\ Tail(q) \in Seq(Steps)
         /\ \A i \in 1..Len(Tail(q)) : Stores(Tail(q)[i]) => i = 1 /\ Sets(q[1], Tail(q)[1])
<1>1. Len(q) \in Nat \ {0}
  BY EmptySeq
<1>2. /\ Tail(q) \in Seq(Steps) /\ Len(Tail(q)) = Len(q) - 1
      /\ \A i \in 1..Len(Tail(q)) : Tail(q)[i] = q[i + 1]
  BY HeadTailProperties
<1>3. ASSUME NEW i \in 1..Len(Tail(q)), Stores(Tail(q)[i])
      PROVE  i = 1 /\ Sets(q[1], Tail(q)[1])
  <2>1. i + 1 \in 1..Len(q) /\ Stores(q[i + 1]) /\ i + 1 # 1
    BY <1>1, <1>2, <1>3
  <2>2. i + 1 = 2 /\ Sets(q[1], q[2])
    BY <2>1 DEF Rests
  <2>3. i = 1
    BY <1>1, <1>2, <2>2
  <2>. QED  BY <1>2, <2>2, <2>3
<1>. QED  BY <1>2, <1>3

\* Of the servers only one at a time calls the track server: the client of the position
\* server waits for it, and so does who has a manager in a handler.
LEMMA OneCaller ==
  ASSUME Flow, NEW b \in Servers, NEW c \in Servers, Asks(b, "track"), Asks(c, "track")
  PROVE  b = c
<1>1. /\ \A s \in Tasks : client[s] # Nobody => Asks(client[s], s)
      /\ \A s \in {"position"} \cup Managers : todo[s] # <<>> => client[s] # Nobody
      /\ client["position"] \in Servers \cup {Nobody}
      /\ \A s \in Managers : client[s] \in {"runtime", Nobody}
      /\ \A s \in {"position"} \cup Managers : s \in Tasks /\ s # "track"
      /\ "position" \notin Managers
      /\ todo["track"] = <<>>
  BY DEF Flow, Clients, Handlers, Tasks, Servers, Managers
<1>2. /\ \A t, s1, s2 : Asks(t, s1) /\ Asks(t, s2) => s1 = s2
      /\ \A t, s : Asks(t, s) => todo[t] # <<>>
  BY DEF Asks
\* A manager that calls anyone has the runtime for a client.
<1>3. \A m \in Managers : \A s : Asks(m, s) => Asks("runtime", m)
  BY <1>1, <1>2
<1>4. b \in {"position", "runtime"} \cup Managers /\ c \in {"position", "runtime"} \cup Managers
  BY <1>1, <1>2 DEF Servers
<1>5. ASSUME Asks("position", "track")
      PROVE  \E a \in {"runtime"} \cup Managers : Asks(a, "position")
  <2>1. PICK a \in Servers : Asks(a, "position")
    BY <1>1, <1>2, <1>5
  <2>2. a # "position" /\ a # "track"
    <3>1. a \in Tasks
      BY Ranks
    <3>2. Rank("position") < Rank(a)
      BY <2>1, <3>1, Heads
    <3>. QED  BY <3>2, Ranks
  <2>. QED  BY <2>1, <2>2 DEF Servers
<1>6. ASSUME Asks("position", "track"), NEW e \in {"runtime"} \cup Managers, Asks(e, "track")
      PROVE  FALSE
  BY <1>1, <1>2, <1>3, <1>5, <1>6
<1>7. ASSUME b \in {"runtime"} \cup Managers, c \in {"runtime"} \cup Managers PROVE b = c
  BY <1>1, <1>2, <1>3, <1>7
<1>. QED  BY <1>4, <1>6, <1>7

\* Steps that send and execute no frames and store no direction, while no handler comes to
\* store one.
LEMMA StandsStored ==
  ASSUME Stored, UNCHANGED <<bus, rx, layout, switchState, corrected>>,
         \A t \in Tasks : todo'[t] = todo[t] \/ Calm(todo'[t])
  PROVE  Stored'
<1>1. \A t \in Tasks : Rests(todo'[t])
  BY DEF Stored, Rests, Calm
<1>2. ASSUME NEW s, NEW d \in Storing(todo', s) PROVE d \in Storing(todo, s)
  <2>1. PICK t \in Tasks : /\ 1 \in 1..Len(todo'[t]) /\ Stores(todo'[t][1])
                           /\ todo'[t][1].sw = s /\ todo'[t][1].dir = d
    BY <1>2, StoringIs
  <2>2. ~Calm(todo'[t])
    BY <2>1 DEF Calm
  <2>3. todo'[t] = todo[t]
    BY <2>2
  <2>. QED  BY <2>1, <2>3, StoringIs
<1>3. ASSUME NEW s \in Turnouts, Partner[s] = s
      PROVE  Agree(bus, rx, Turnout(s), layout.sw[s], switchState[s], Storing(todo', s), s \in corrected)
  <2>1. Agree(bus, rx, Turnout(s), layout.sw[s], switchState[s], Storing(todo, s), s \in corrected)
    BY <1>3 DEF Stored
  <2>. QED  BY <2>1, <1>2 DEF Agree
<1>. QED  BY <1>1, <1>3 DEF Stored

\* A handler starts.
LEMMA StartStored ==
  ASSUME Flow, Stored, UNCHANGED <<bus, rx, layout, switchState, corrected>>,
         NEW t \in Tasks, NEW q, todo' = [todo EXCEPT ![t] = q], Calm(q)
  PROVE  Stored'
<1>1. \A u \in Tasks : todo'[u] = todo[u] \/ Calm(todo'[u])
  BY DEF Flow, Handlers
<1>. QED  BY <1>1, StandsStored

\* A handler goes on, not with a call of the track server.
LEMMA GoesStored ==
  ASSUME Flow, Stored, UNCHANGED <<bus, rx, layout, switchState, corrected>>,
         NEW t \in Tasks, NEW steps \in Seq(Steps), Then(t, steps), Calm(steps),
         todo[t] # <<>>, ~Asks(t, "track")
  PROVE  Stored'
<1>. DEFINE q == todo[t]
<1>1. q \in Seq(Steps) /\ q # <<>> /\ Rests(q) /\ Head(q) = q[1]
  BY DEF Flow, Handlers, Stored
<1>2. \A f : ~Sets(q[1], f)
  BY <1>1 DEF Sets, Calls, Asks
<1>. HIDE DEF q
<1>3. Tail(q) \in Seq(Steps) /\ Bare(Tail(q))
  BY <1>1, <1>2, RestsTail DEF Bare
<1>4. Calm(steps \o Tail(q))
  BY <1>3, BareConcat
<1>5. todo' = [todo EXCEPT ![t] = steps \o Tail(q)]
  BY DEF Then, q
<1>. QED  BY <1>4, <1>5, StartStored

\* The box executes the frame at the head of the bus, and acknowledges it if it sets a turnout.
LEMMA BoxStored ==
  ASSUME Stored, BoxFrame
  PROVE  Stored'
<1>. DEFINE f == Head(bus)
            k == {"SPEED", "SWITCH"}
            l == {"HIT", "SWITCH"}
<1>1. /\ bus # <<>> /\ bus' = Tail(bus)
      /\ IF f.frame = "SPEED"
         THEN layout' = [layout EXCEPT !.speed[f.train] = f.speed] /\ rx' = rx
         ELSE layout' = [layout EXCEPT !.sw[f.sw] = f.dir] /\ rx' = Append(rx, f)
      /\ todo' = todo /\ switchState' = switchState /\ corrected' = corrected
  BY DEF BoxFrame, kernel
<1>2. /\ Framed(bus, k) /\ Framed(rx, l)
      /\ "sw" \in DOMAIN layout /\ DOMAIN layout.sw = Turnouts /\ DOMAIN switchState = Turnouts
      /\ \A t \in Tasks : Rests(todo[t])
      /\ \A s \in Turnouts : Partner[s] = s =>
           Agree(bus, rx, Turnout(s), layout.sw[s], switchState[s], Storing(todo, s),
                       s \in corrected)
  BY DEF Stored
<1>3. Framed(bus', k) /\ f.frame \in k
  BY <1>1, <1>2, FramesTail
<1>4. ASSUME NEW s \in Turnouts, Partner[s] = s
      PROVE  /\ For(f, Turnout(s)) =>
                  Agree(bus', Append(rx, f), Turnout(s), f.dir, switchState[s], Storing(todo, s),
                       s \in corrected)
             /\ ~For(f, Turnout(s)) =>
                  /\ Agree(bus', rx, Turnout(s), layout.sw[s], switchState[s], Storing(todo, s),
                       s \in corrected)
                  /\ Agree(bus', Append(rx, f), Turnout(s), layout.sw[s], switchState[s],
                           Storing(todo, s),
                       s \in corrected)
  BY <1>1, <1>2, <1>4, AgreeExecuted, Frames
<1>. HIDE DEF f
<1>5. CASE f.frame = "SPEED"
  <2>1. \A s : ~For(f, Turnout(s))
    BY <1>5, Frames
  <2>2. /\ "sw" \in DOMAIN layout' /\ layout'.sw = layout.sw /\ rx' = rx
    BY <1>1, <1>2, <1>5
  <2>. QED  BY <1>1, <1>2, <1>3, <1>4, <2>1, <2>2 DEF Stored
<1>6. CASE f.frame # "SPEED"
  <2>1. f.frame = "SWITCH" /\ \A s : For(f, Turnout(s)) <=> f.sw = s
    BY <1>3, <1>6, Frames
  <2>2. /\ "sw" \in DOMAIN layout' /\ DOMAIN layout'.sw = Turnouts /\ rx' = Append(rx, f)
        /\ \A s \in Turnouts : layout'.sw[s] = IF f.sw = s THEN f.dir ELSE layout.sw[s]
    BY <1>1, <1>2, <1>6
  <2>3. Framed(rx', l)
    BY <1>2, <2>1, <2>2, FramesAppend
  <2>4. ASSUME NEW s \in Turnouts, Partner[s] = s
        PROVE  Agree(bus', rx', Turnout(s), layout'.sw[s], switchState[s], Storing(todo, s),
                       s \in corrected)
    <3>1. CASE For(f, Turnout(s))
      BY <3>1, <1>4, <2>1, <2>2, <2>4
    <3>2. CASE ~For(f, Turnout(s))
      BY <3>2, <1>4, <2>1, <2>2, <2>4
    <3>. QED  BY <3>1, <3>2
  <2>. QED  BY <1>1, <1>2, <1>3, <2>2, <2>3, <2>4 DEF Stored
<1>. QED  BY <1>5, <1>6

LEMMA HitStored ==
  ASSUME Stored, SensorHit
  PROVE  Stored'
<1>1. /\ rx' = Append(rx, Hit)
      /\ UNCHANGED <<todo, bus, switchState, corrected, layout>>
  BY DEF SensorHit, kernel, track
<1>2. Hit.frame = "HIT" /\ \A s : ~For(Hit, Turnout(s))
  BY Frames DEF Hit
<1>3. Framed(rx', {"HIT", "SWITCH"})
  BY <1>1, <1>2, FramesAppend DEF Stored
<1>4. ASSUME NEW s \in Turnouts, Partner[s] = s
      PROVE  Agree(bus, rx', Turnout(s), layout.sw[s], switchState[s], Storing(todo, s),
                       s \in corrected)
  BY <1>1, <1>2, <1>4, AgreeSent DEF Stored
<1>. QED  BY <1>1, <1>3, <1>4 DEF Stored

\* An acknowledgement is stored.
LEMMA FrameStored ==
  ASSUME Stored, TrackFrame
  PROVE  Stored'
<1>. DEFINE f == Head(rx)
            l == {"HIT", "SWITCH"}
<1>1. /\ rx # <<>> /\ rx' = Tail(rx) /\ UNCHANGED <<todo, bus, layout>>
      /\ IF f.frame = "HIT" THEN switchState' = switchState /\ corrected' = corrected
         ELSE /\ switchState' = [switchState EXCEPT ![f.sw] = f.dir]
              /\ corrected' = corrected \ {f.sw}
  BY DEF TrackFrame, NotifyRuntime
<1>2. /\ Framed(rx, l) /\ DOMAIN switchState = Turnouts
      /\ \A s \in Turnouts : Partner[s] = s =>
           Agree(bus, rx, Turnout(s), layout.sw[s], switchState[s], Storing(todo, s),
                       s \in corrected)
  BY DEF Stored
<1>3. Framed(rx', l) /\ f.frame \in l
  BY <1>1, <1>2, FramesTail
<1>4. ASSUME NEW s \in Turnouts, Partner[s] = s
      PROVE  /\ For(f, Turnout(s)) =>
                  \A y : Agree(bus, rx', Turnout(s), layout.sw[s], f.dir, Storing(todo, s), y)
             /\ ~For(f, Turnout(s)) =>
                  Agree(bus, rx', Turnout(s), layout.sw[s], switchState[s], Storing(todo, s),
                       s \in corrected)
  <2>1. /\ For(f, Turnout(s)) =>
             \A y : Agree(bus, Tail(rx), Turnout(s), layout.sw[s], Says(f), Storing(todo, s), y)
        /\ ~For(f, Turnout(s)) =>
             Agree(bus, Tail(rx), Turnout(s), layout.sw[s], switchState[s], Storing(todo, s),
                   s \in corrected)
    <3>1. Agree(bus, rx, Turnout(s), layout.sw[s], switchState[s], Storing(todo, s),
                s \in corrected)
      BY <1>2, <1>4
    <3>2. Framed(rx, l) /\ rx # <<>>
      BY <1>1, <1>2
    <3>. HIDE DEF l
    <3>. QED  BY <3>1, <3>2, AgreeRead
  <2>2. For(f, Turnout(s)) => Says(f) = f.dir
    BY Frames
  <2>. QED  BY <1>1, <2>1, <2>2
<1>. HIDE DEF f
<1>5. /\ DOMAIN switchState' = Turnouts
      /\ \A s \in Turnouts : switchState'[s] = IF For(f, Turnout(s)) THEN f.dir ELSE switchState[s]
      /\ \A s \in Turnouts : ~For(f, Turnout(s)) => (s \in corrected' <=> s \in corrected)
  <2>1. CASE f.frame = "HIT"
    BY <1>1, <1>2, <2>1, Frames
  <2>2. CASE f.frame # "HIT"
    <3>1. f.frame = "SWITCH"
      BY <1>3, <2>2
    <3>. QED  BY <1>1, <1>2, <2>2, <3>1, Frames
  <2>. QED  BY <2>1, <2>2
<1>6. ASSUME NEW s \in Turnouts, Partner[s] = s
      PROVE  Agree(bus, rx', Turnout(s), layout.sw[s], switchState'[s], Storing(todo, s),
                       s \in corrected')
  <2>1. CASE For(f, Turnout(s))
    <3>1. switchState'[s] = f.dir
      BY <2>1, <1>5
    <3>. QED  BY <2>1, <3>1, <1>4, <1>6
  <2>2. CASE ~For(f, Turnout(s))
    <3>1. switchState'[s] = switchState[s] /\ (s \in corrected' <=> s \in corrected)
      BY <2>2, <1>5
    <3>. QED  BY <2>2, <3>1, <1>4, <1>6
  <2>. QED  BY <2>1, <2>2
<1>. QED  BY <1>1, <1>3, <1>5, <1>6 DEF Stored

\* Who is served is the only one who was about to store a direction, or is now.
LEMMA Serving ==
  ASSUME Flow, Stored, NEW c \in Servers, Asks(c, "track"), Then(c, <<>>)
  PROVE
  /\ \A t \in Tasks : Rests(todo'[t])
  /\ \A s, d : d \in Storing(todo, s) <=>
       Stores(Request(c)) /\ Request(c).sw = s /\ Request(c).dir = d
  /\ \A s, d : d \in Storing(todo', s) =>
       Request(c).op = "SET_SWITCH" /\ Request(c).sw = s /\ Request(c).dir = d
<1>1. /\ todo \in [Tasks -> Seq(Steps)] /\ c \in Tasks
      /\ \A t \in Tasks : Rests(todo[t]) /\ Fits(t, todo[t])
  BY Ranks DEF Flow, Handlers, Stored
<1>2. ASSUME NEW t \in Tasks, t # c, 1 \in 1..Len(todo[t]), Stores(todo[t][1]) PROVE FALSE
  <2>1. t \in Servers
    <3>1. t \in Storers
      BY <1>1, <1>2 DEF Fits, Fit, Stores
    <3>. QED  BY <3>1 DEF Storers, Servers, Managers, Tasks
  <2>2. Asks(t, "track")
    <3>1. todo[t] \in Seq(Steps) /\ todo[t] # <<>>
      BY <1>1, <1>2
    <3>2. Head(todo[t]) = todo[t][1]
      BY <3>1
    <3>. QED  BY <3>1, <3>2, <1>2 DEF Stores, Calls, Asks
  <2>. QED  BY <2>1, <2>2, <1>2, OneCaller
<1>. DEFINE q == todo[c]
<1>3. q # <<>> /\ q \in Seq(Steps) /\ Request(c) = q[1] /\ 1 \in 1..Len(q) /\ Rests(q)
  <2>1. q # <<>> /\ q \in Seq(Steps) /\ Rests(q)
    BY <1>1 DEF Asks
  <2>2. Len(q) \in Nat \ {0}
    BY <2>1, EmptySeq
  <2>. QED  BY <2>1, <2>2 DEF Request
<1>4. /\ todo'[c] = Tail(q) /\ \A t \in Tasks : t # c => todo'[t] = todo[t]
  <2>1. Tail(q) \in Seq(Steps)
    BY <1>3, RestsTail
  <2>2. <<>> \o Tail(q) = Tail(q)
    BY <2>1, ConcatEmptySeq
  <2>. QED  BY <2>2, <1>1 DEF Then
<1>5. \A i \in 1..Len(Tail(q)) : Stores(Tail(q)[i]) => i = 1 /\ Sets(q[1], Tail(q)[1])
  BY <1>3, RestsTail
<1>6. ASSUME NEW s, NEW d
      PROVE  d \in Storing(todo, s) <=>
               Stores(Request(c)) /\ Request(c).sw = s /\ Request(c).dir = d
  <2>1. d \in Storing(todo, s) <=>
          \E t \in Tasks : /\ 1 \in 1..Len(todo[t]) /\ Stores(todo[t][1]) /\ todo[t][1].sw = s
                           /\ todo[t][1].dir = d
    BY StoringIs
  <2>. QED  BY <2>1, <1>1, <1>2, <1>3
<1>7. ASSUME NEW s, NEW d \in Storing(todo', s)
      PROVE  Request(c).op = "SET_SWITCH" /\ Request(c).sw = s /\ Request(c).dir = d
  <2>1. PICK t \in Tasks : /\ 1 \in 1..Len(todo'[t]) /\ Stores(todo'[t][1])
                           /\ todo'[t][1].sw = s /\ todo'[t][1].dir = d
    BY <1>7, StoringIs
  <2>2. t = c
    BY <2>1, <1>2, <1>4
  <2>3. Sets(q[1], todo'[c][1])
    BY <2>1, <2>2, <1>4, <1>5
  <2>. QED  BY <2>1, <2>2, <2>3, <1>3 DEF Sets
<1>8. ASSUME NEW t \in Tasks PROVE Rests(todo'[t])
  <2>1. CASE t = c
    BY <2>1, <1>4, <1>5 DEF Rests
  <2>2. CASE t # c
    BY <2>2, <1>1, <1>4
  <2>. QED  BY <2>1, <2>2
<1>. QED  BY <1>6, <1>7, <1>8

\* The requests that set no turnout and store none.
LEMMA SpeedStored ==
  ASSUME Flow, Stored, NEW c \in Servers,
         TrackSetSpeed(c) \/ TrackStartReverse(c) \/ TrackCompleteReverse(c)
  PROVE  Stored'
<1>1. /\ Asks(c, "track") /\ Then(c, <<>>) /\ Request(c).op \notin {"SET_SWITCH", "UPDATE_SWITCH"}
      /\ UNCHANGED <<rx, layout, switchState, corrected>>
      /\ bus' = bus \/ \E t, v : bus' = Append(bus, SpeedFrame(t, v))
  BY DEF TrackSetSpeed, TrackStartReverse, TrackCompleteReverse, Served, box
<1>2. \A t, v : SpeedFrame(t, v).frame = "SPEED" /\ \A s : ~For(SpeedFrame(t, v), Turnout(s))
  BY Frames DEF SpeedFrame
<1>3. /\ \A t \in Tasks : Rests(todo'[t])
      /\ \A s : Storing(todo, s) = {} /\ Storing(todo', s) = {}
  <2>1. ~Stores(Request(c))
    BY <1>1 DEF Stores
  <2>2. /\ \A t \in Tasks : Rests(todo'[t])
        /\ \A s, d : d \notin Storing(todo, s) /\ d \notin Storing(todo', s)
    BY <1>1, <2>1, Serving
  <2>. QED  BY <2>2
<1>4. Framed(bus, {"SPEED", "SWITCH"}) /\ Framed(rx, {"HIT", "SWITCH"})
  BY DEF Stored
<1>5. Framed(bus', {"SPEED", "SWITCH"})
  <2>1. ASSUME NEW t, NEW v, bus' = Append(bus, SpeedFrame(t, v))
        PROVE  Framed(bus', {"SPEED", "SWITCH"})
    BY <2>1, <1>2, <1>4, FramesAppend
  <2>. QED  BY <1>1, <1>4, <2>1
<1>6. ASSUME NEW s \in Turnouts, Partner[s] = s
      PROVE  Agree(bus', rx, Turnout(s), layout.sw[s], switchState[s], {}, s \in corrected)
  <2>1. Agree(bus, rx, Turnout(s), layout.sw[s], switchState[s], {}, s \in corrected)
    BY <1>3, <1>6 DEF Stored
  <2>2. ASSUME NEW t, NEW v, bus' = Append(bus, SpeedFrame(t, v))
        PROVE  Agree(bus', rx, Turnout(s), layout.sw[s], switchState[s], {}, s \in corrected)
    BY <2>1, <2>2, <1>2, <1>4, AgreeSent
  <2>. QED  BY <1>1, <2>1, <2>2
<1>. QED  BY <1>1, <1>3, <1>5, <1>6 DEF Stored

LEMMA SetStored ==
  ASSUME Flow, Stored, NEW c \in Servers, TrackSetSwitch(c)
  PROVE  Stored'
<1>. DEFINE x == Request(c).sw
            d == Request(c).dir
            f == SwitchFrame(x, d)
<1>1. /\ Asks(c, "track") /\ Then(c, <<>>) /\ Request(c).op = "SET_SWITCH"
      /\ UNCHANGED <<rx, layout, corrected>>
      /\ IF Partner[x] # x /\ d = "S" THEN bus' = bus /\ switchState' = switchState
         ELSE /\ bus' = Append(bus, f)
              /\ switchState' = IF Partner[x] # x THEN [switchState EXCEPT ![Partner[x]] = "S"]
                                ELSE switchState
  BY DEF TrackSetSwitch, Served, box
<1>2. x \in Turnouts
  BY <1>1, Heads, Ranks DEF Fit
\* The partner of a turnout of a pair is no plain turnout.
<1>3. ASSUME NEW s \in Turnouts, Partner[s] = s
      PROVE  /\ s = x \/ ~For(f, Turnout(s))
             /\ switchState'[s] = switchState[s]
             /\ bus' = bus => s # x
             /\ For(f, Turnout(s)) => s = x /\ f.dir = d
  <2>1. Partner \in [Turnouts -> Turnouts] /\ Partner[Partner[x]] = x
    BY <1>2, RuntimeAssumption
  <2>2. Partner[x] # x => Partner[x] # s
    BY <2>1, <1>3
  <2>3. f.frame = "SWITCH" /\ f.sw = x /\ f.dir = d
    BY DEF SwitchFrame
  <2>. HIDE DEF f, x, d
  <2>4. switchState'[s] = switchState[s]
    BY <1>1, <2>2, <1>3 DEF Stored
  <2>5. bus' = bus => s # x
    <3>1. bus # Append(bus, f)
      <4>1. PICK S : bus \in Seq(S)
        BY DEF Stored, Framed
      <4>2. bus \in Seq(S \cup {f}) /\ Len(bus) \in Nat
        BY <4>1, LenProperties
      <4>3. Len(Append(bus, f)) = Len(bus) + 1
        BY <4>2, AppendProperties
      <4>. QED  BY <4>2, <4>3
    <3>. QED  BY <3>1, <1>1, <1>3
  <2>. QED  BY <2>3, <2>4, <2>5, Frames
<1>4. f.frame = "SWITCH" /\ f.dir = d /\ f.sw = x
  BY DEF SwitchFrame
\* Nobody was about to store a direction; now a route may store this one next.
<1>5. /\ \A t \in Tasks : Rests(todo'[t])
      /\ \A s : Storing(todo, s) = {}
      /\ \A s : Storing(todo', s) \in SUBSET {d}
      /\ \A s : s # x => Storing(todo', s) = {}
  <2>1. ~Stores(Request(c))
    BY <1>1 DEF Stores
  <2>2. /\ \A t \in Tasks : Rests(todo'[t])
        /\ \A s, e : e \notin Storing(todo, s)
        /\ \A s, e : e \in Storing(todo', s) => x = s /\ d = e
    BY <1>1, <2>1, Serving
  <2>. HIDE DEF x, d
  <2>. QED  BY <2>2
<1>6. Framed(bus, {"SPEED", "SWITCH"}) /\ Framed(rx, {"HIT", "SWITCH"})
  BY DEF Stored
<1>. HIDE DEF f, x, d
<1>7. Framed(bus', {"SPEED", "SWITCH"})
  <2>1. bus' = bus \/ bus' = Append(bus, f)
    BY <1>1
  <2>2. Framed(Append(bus, f), {"SPEED", "SWITCH"})
    BY <1>4, <1>6, FramesAppend
  <2>. QED  BY <2>1, <2>2, <1>6
<1>8. ASSUME NEW s \in Turnouts, Partner[s] = s
      PROVE  Agree(bus', rx, Turnout(s), layout.sw[s], switchState'[s], Storing(todo', s), s \in corrected)
  <2>1. /\ Agree(bus, rx, Turnout(s), layout.sw[s], switchState[s], {}, s \in corrected)
        /\ switchState'[s] = switchState[s]
    BY <1>3, <1>5, <1>8 DEF Stored
  <2>2. CASE s = x
    <3>1. bus' = Append(bus, f) /\ For(f, Turnout(s))
      BY <1>1, <1>3, <1>4, <1>8, <2>2, Frames
    <3>2. Says(f) = f.dir
      BY <3>1, Frames
    <3>3. Storing(todo', s) \in SUBSET {Says(f)}
      BY <1>4, <1>5, <3>2
    <3>. QED  BY <2>1, <3>1, <3>3, <1>6, AgreeSent
  <2>3. CASE s # x
    <3>1. Storing(todo', s) = {} /\ ~For(f, Turnout(s))
      BY <1>3, <1>5, <1>8, <2>3
    <3>2. Agree(Append(bus, f), rx, Turnout(s), layout.sw[s], switchState[s], {}, s \in corrected)
      BY <2>1, <3>1, <1>6, AgreeSent
    <3>3. bus' = bus \/ bus' = Append(bus, f)
      BY <1>1
    <3>. QED  BY <2>1, <3>1, <3>2, <3>3
  <2>. QED  BY <2>2, <2>3
<1>9. DOMAIN switchState' = Turnouts
  BY <1>1 DEF Stored
<1>. QED  BY <1>1, <1>5, <1>7, <1>8, <1>9 DEF Stored

LEMMA SeqOfSet ==
  ASSUME NEW S, IsFiniteSet(S)
  PROVE  /\ SetToSeq(S) \in Seq(S)
         /\ \A x \in S : \E i \in 1..Len(SetToSeq(S)) : SetToSeq(S)[i] = x
         /\ \A i, j \in 1..Len(SetToSeq(S)) : SetToSeq(S)[i] = SetToSeq(S)[j] => i = j
<1>. DEFINE n == Cardinality(S)
            q == SetToSeq(S)
<1>1. n \in Nat /\ ExistsBijection(1..n, S)
  BY FS_CardinalityType
<1>2. \E f \in [1..n -> S] : IsInjective(f)
  <2>1. PICK f \in Bijection(1..n, S) : TRUE
    BY <1>1 DEF ExistsBijection
  <2>2. f \in [1..n -> S] /\ IsInjective(f)
    BY <2>1 DEF Bijection, Injection
  <2>. QED  BY <2>2
<1>3. q \in [1..n -> S] /\ IsInjective(q)
  BY <1>2 DEF SetToSeq
<1>. HIDE DEF q, n
<1>4. q \in Injection(1..n, S)
  BY <1>3 DEF Injection
<1>5. Cardinality(1..n) = Cardinality(S)
  <2>1. Cardinality(1..n) = n
    BY <1>1, FS_Interval
  <2>. QED  BY <2>1 DEF n
<1>6. q \in Surjection(1..n, S)
  BY <1>4, <1>5, FS_Injection
<1>7. \A x \in S : \E i \in 1..n : q[i] = x
  BY <1>6 DEF Surjection
<1>8. q \in Seq(S) /\ Len(q) = n
  BY <1>1, <1>3
<1>9. \A i, j \in 1..n : q[i] = q[j] => i = j
  BY <1>3 DEF IsInjective
<1>. QED  BY <1>7, <1>8, <1>9 DEF q

\* A forced stop of the demo sets every plain turnout.
LEMMA StartupSets ==
  /\ Framed(StartupFrames, {"SPEED", "SWITCH"})
  /\ \A s \in Turnouts : Partner[s] = s => ~Silent(StartupFrames, Turnout(s))
<1>. DEFINE T == {s \in Turnouts : Partner[s] = s \/ Curved(s)}
            thrown == SetToSeq(T)
            stopped == SetToSeq(StartupTrains)
            F(i) == SwitchFrame(thrown[i], IF Curved(thrown[i]) THEN "C" ELSE "S")
            G(i) == SpeedFrame(stopped[i], 0)
            a == [i \in 1..Len(thrown) |-> F(i)]
            b == [i \in 1..Len(stopped) |-> G(i)]
<1>1. IsFiniteSet(T) /\ IsFiniteSet(StartupTrains)
  <2>1. T \in SUBSET Turnouts /\ StartupTrains \in SUBSET Trains
    BY RuntimeAssumption
  <2>. QED  BY <2>1, RuntimeAssumption, FS_Subset
<1>2. /\ Len(thrown) \in Nat /\ Len(stopped) \in Nat
      /\ \A x \in T : \E i \in 1..Len(thrown) : thrown[i] = x
  <2>. HIDE DEF T
  <2>1. /\ thrown \in Seq(T) /\ stopped \in Seq(StartupTrains)
        /\ \A x \in T : \E i \in 1..Len(thrown) : thrown[i] = x
    BY <1>1, SeqOfSet
  <2>. QED  BY <2>1, LenProperties
<1>3. /\ \A i : F(i).frame = "SWITCH" /\ F(i).sw = thrown[i]
      /\ \A i : G(i).frame = "SPEED"
  BY DEF SwitchFrame, SpeedFrame
<1>4. StartupFrames = a \o b
  BY DEF StartupFrames
<1>. HIDE DEF thrown, stopped, F, G
<1>5. /\ a \in Seq({F(i) : i \in Nat}) /\ Len(a) = Len(thrown) /\ \A i \in 1..Len(thrown) : a[i] = F(i)
      /\ b \in Seq({G(i) : i \in Nat}) /\ Len(b) = Len(stopped) /\ \A i \in 1..Len(stopped) : b[i] = G(i)
  BY <1>2
<1>. HIDE DEF a, b
<1>6. Framed(a, {"SPEED", "SWITCH"}) /\ Framed(b, {"SPEED", "SWITCH"})
  BY <1>2, <1>3, <1>5 DEF Framed
<1>7. Framed(a \o b, {"SPEED", "SWITCH"})
  BY <1>6, FramesConcat
<1>8. ASSUME NEW s \in Turnouts, Partner[s] = s PROVE ~Silent(a \o b, Turnout(s))
  <2>1. s \in T
    BY <1>8
  <2>2. PICK i \in 1..Len(thrown) : thrown[i] = s
    BY <1>2, <2>1
  <2>. HIDE DEF T
  <2>. SUFFICES Silent(a \o b, Turnout(s)) => FALSE
    OBVIOUS
  <2>. DEFINE c == a \o b
  <2>3. /\ Len(a) \in Nat /\ Len(b) \in Nat /\ Len(c) = Len(a) + Len(b)
        /\ \A j \in 1..(Len(a) + Len(b)) : c[j] = IF j <= Len(a) THEN a[j] ELSE b[j - Len(a)]
    <3>1. a \in Seq({F(j) : j \in Nat} \cup {G(j) : j \in Nat})
          /\ b \in Seq({F(j) : j \in Nat} \cup {G(j) : j \in Nat})
      BY <1>5
    <3>. QED  BY <3>1, ConcatProperties, LenProperties
  <2>. HIDE DEF c
  <2>4. i \in 1..Len(c) /\ c[i] = F(i)
    BY <1>2, <1>5, <2>2, <2>3
  <2>5. For(F(i), Turnout(s))
    BY <1>3, <2>2 DEF For
  <2>. QED  BY <2>4, <2>5 DEF Silent, c
<1>. QED  BY <1>4, <1>7, <1>8

\* A route stores the direction it has asked for; a hit corrects one, and that is excused.
LEMMA UpdateStored ==
  ASSUME Flow, Stored, NEW c \in Servers, TrackUpdateSwitch(c)
  PROVE  Stored'
<1>. DEFINE x == Request(c).sw
            d == Request(c).dir
            hit == "hit" \in DOMAIN Request(c)
<1>1. /\ Asks(c, "track") /\ Then(c, <<>>) /\ Request(c).op = "UPDATE_SWITCH"
      /\ UNCHANGED <<rx, layout, bus>>
      /\ switchState' = [switchState EXCEPT ![x] = d]
      /\ corrected' = IF hit THEN corrected \cup {x} ELSE corrected
  BY DEF TrackUpdateSwitch, Served, box
<1>2. Stores(Request(c)) <=> ~hit
  <2>1. Calls(Request(c)) /\ Request(c).to = "track"
    BY <1>1, Heads, Ranks
  <2>. QED  BY <1>1, <2>1 DEF Stores
<1>3. /\ \A t \in Tasks : Rests(todo'[t])
      /\ \A s : Storing(todo', s) = {}
      /\ ~hit => d \in Storing(todo, x)
  <2>1. /\ \A t \in Tasks : Rests(todo'[t])
        /\ \A s, e : e \notin Storing(todo', s)
        /\ ~hit => d \in Storing(todo, x)
    BY <1>1, <1>2, Serving
  <2>. HIDE DEF x, d, hit
  <2>. QED  BY <2>1
<1>. HIDE DEF x, d, hit
<1>4. ASSUME NEW s \in Turnouts, Partner[s] = s
      PROVE  Agree(bus, rx, Turnout(s), layout.sw[s], switchState'[s], {}, s \in corrected')
  <2>1. Agree(bus, rx, Turnout(s), layout.sw[s], switchState[s], Storing(todo, s), s \in corrected)
    BY <1>4 DEF Stored
  <2>2. switchState'[s] = IF x = s THEN d ELSE switchState[s]
    BY <1>1, <1>4 DEF Stored
  <2>3. \A e : Final(bus, Turnout(s), e) => ~Silent(bus, Turnout(s))
    BY FinalSpeaks
  <2>4. s \in corrected \/ (hit /\ x = s) => s \in corrected'
    BY <1>1
  <2>5. CASE x = s /\ ~hit
    <3>1. d \in Storing(todo, s)
      BY <1>3, <2>5
    <3>2. Final(bus, Turnout(s), d) \/ (Silent(bus, Turnout(s)) /\ layout.sw[s] = d)
      BY <3>1, <2>1 DEF Agree
    <3>. QED  BY <3>2, <2>1, <2>2, <2>3, <2>5 DEF Agree
  <2>6. CASE x = s /\ hit
    BY <2>1, <2>4, <2>6 DEF Agree
  <2>7. CASE x # s
    BY <2>1, <2>2, <2>4, <2>7 DEF Agree
  <2>. QED  BY <2>5, <2>6, <2>7
<1>5. DOMAIN switchState' = Turnouts
  BY <1>1 DEF Stored
<1>. QED  BY <1>1, <1>3, <1>4, <1>5 DEF Stored

LEMMA ResetStored ==
  ASSUME Flow, Stored, NEW c \in Servers, TrackReset(c)
  PROVE  Stored'
<1>1. /\ Asks(c, "track") /\ Then(c, <<>>) /\ Request(c).op = "RESET_STARTUP"
      /\ UNCHANGED <<rx, layout, corrected>>
      /\ bus' = bus \o StartupFrames /\ switchState' = StartupSwitches
  BY DEF TrackReset, Served, box
<1>2. (\A t \in Tasks : Rests(todo'[t])) /\ \A s : Storing(todo', s) = {}
  <2>1. /\ \A t \in Tasks : Rests(todo'[t])
        /\ \A s, d : d \notin Storing(todo', s)
    BY <1>1, Serving
  <2>. QED  BY <2>1
<1>3. Framed(bus, {"SPEED", "SWITCH"})
  BY DEF Stored
<1>4. Framed(bus', {"SPEED", "SWITCH"})
  BY <1>1, <1>3, StartupSets, FramesConcat
<1>5. ASSUME NEW s \in Turnouts, Partner[s] = s
      PROVE  Agree(bus', rx, Turnout(s), layout.sw[s], switchState'[s], {}, s \in corrected)
  <2>1. Agree(bus, rx, Turnout(s), layout.sw[s], switchState[s], Storing(todo, s), s \in corrected)
    BY <1>5 DEF Stored
  <2>. DEFINE e == switchState'[s]
  <2>. HIDE DEF e
  <2>2. Agree(bus \o StartupFrames, rx, Turnout(s), layout.sw[s], e, {}, s \in corrected)
    BY <1>3, <1>5, <2>1, StartupSets, AgreeReset
  <2>. QED  BY <1>1, <2>2 DEF e
<1>6. DOMAIN switchState' = Turnouts
  BY <1>1 DEF StartupSwitches
<1>. QED  BY <1>1, <1>2, <1>4, <1>5, <1>6 DEF Stored

LEMMA TrackStored ==
  ASSUME Flow, Stored, NEW c \in Servers, Track(c)
  PROVE  Stored'
BY SpeedStored, SetStored, UpdateStored, ResetStored DEF Track

\* A speed or a turnout to be thrown: nothing is stored at once, nor is it by a correction's
\* handler; a turnout thrown stores its direction behind the command.
LEMMA BareFew ==
  /\ <<>> \in Seq(Steps) /\ Bare(<<>>) /\ LogLine \in Seq(Steps) /\ Bare(LogLine)
  /\ \A q \in {<<>>} \cup PositionCalls : q \in Seq(Steps) /\ Bare(q)
  /\ \A q \in {<<>>} \cup Corrections : q \in Seq(Steps) /\ Bare(q)
  /\ \A x \in Turnouts, d \in Directions :
       LET q == <<SetSwitch(x, d), UpdateSwitch(x, d)>> IN q \in Seq(Steps) /\ Calm(q)
<1>1. /\ <<>> \in Seq(Steps) /\ Bare(<<>>) /\ LogLine \in Seq(Steps) /\ Bare(LogLine)
  <2>1. Fits("prompt", <<>>) /\ Fits("prompt", LogLine) /\ "prompt" \notin Storers
    BY FitsFew DEF LogLine, Modes, Storers
  <2>. QED  BY <2>1, BareFits DEF Fits
<1>2. \A e \in Steps : ~Stores(e) => <<e>> \in Seq(Steps) /\ Bare(<<e>>)
  <2>. SUFFICES ASSUME NEW e \in Steps, ~Stores(e)
                PROVE  <<e>> \in Seq(Steps) /\ Bare(<<e>>)
    OBVIOUS
  <2>1. <<e>> \in Seq(Steps) /\ Len(<<e>>) = 1 /\ <<e>>[1] = e /\ \A i \in 1..1 : i = 1
    OBVIOUS
  <2>. QED  BY <2>1 DEF Bare
<1>3. "quiet" \in Storers /\ Rank("quiet") > 0 /\ Serves("quiet")
  BY DEF Storers, Rank, Managers, Serves
<1>4. ASSUME NEW t \in Trains, NEW v \in Speeds
      PROVE  <<SetSpeed(t, v)>> \in Seq(Steps) /\ Bare(<<SetSpeed(t, v)>>)
  <2>1. SetSpeed(t, v) \in Steps /\ ~Stores(SetSpeed(t, v))
    BY DEF SetSpeed, Steps, Requests, CallOps, Stores
  <2>. QED  BY <2>1, <1>2
<1>5. ASSUME NEW x \in Turnouts, NEW d \in Directions
      PROVE  <<Throw(x, d)>> \in Seq(Steps) /\ Bare(<<Throw(x, d)>>)
  <2>1. Throw(x, d) \in Steps /\ ~Stores(Throw(x, d))
    BY DEF Throw, Steps, Effects, Stores, Calls
  <2>. QED  BY <2>1, <1>2
<1>6. ASSUME NEW x \in Turnouts, NEW d \in Directions
      PROVE  <<Correction(x, d)>> \in Seq(Steps) /\ Bare(<<Correction(x, d)>>)
  <2>1. Correction(x, d) \in Steps /\ ~Stores(Correction(x, d))
    BY DEF Correction, Steps, Requests, CallOps, Stores
  <2>. QED  BY <2>1, <1>2
<1>7. ASSUME NEW q \in PositionCalls PROVE q \in Seq(Steps) /\ Bare(q)
  <2>1. \/ \E t \in Trains, v \in Speeds : q = <<SetSpeed(t, v)>>
        \/ \E x \in Turnouts, d \in Directions : q = <<Throw(x, d)>>
    BY <1>7 DEF PositionCalls
  <2>. QED  BY <2>1, <1>4, <1>5
<1>8. ASSUME NEW q \in Corrections PROVE q \in Seq(Steps) /\ Bare(q)
  <2>1. \E x \in Turnouts, d \in Directions : q = <<Correction(x, d)>>
    BY <1>8 DEF Corrections, Directions
  <2>. QED  BY <2>1, <1>6
<1>9. ASSUME NEW x \in Turnouts, NEW d \in Directions
      PROVE  LET q == <<SetSwitch(x, d), UpdateSwitch(x, d)>> IN q \in Seq(Steps) /\ Calm(q)
  <2>. DEFINE a == SetSwitch(x, d)
              b == UpdateSwitch(x, d)
  <2>1. <<a, b>> \in Seq(Steps)
    BY <1>3, DriveFits DEF Fits
  <2>2. ~Stores(a) /\ Sets(a, b)
    BY DEF SetSwitch, UpdateSwitch, Stores, Sets, Calls
  <2>. HIDE DEF a, b
  <2>3. /\ Len(<<a, b>>) = 2 /\ <<a, b>>[1] = a /\ <<a, b>>[2] = b
        /\ \A i \in 1..2 : i = 1 \/ i = 2
    OBVIOUS
  <2>4. Calm(<<a, b>>)
    BY <2>2, <2>3 DEF Calm
  <2>. QED  BY <2>1, <2>4 DEF a, b
<1>. QED  BY <1>1, <1>7, <1>8, <1>9

LEMMA BareCalm == \A q : Bare(q) => Calm(q)
BY DEF Bare, Calm

LEMMA PositionStored ==
  ASSUME Flow, Stored, NEW c \in Servers, PositionServe(c)
  PROVE  Stored'
<1>1. PICK q \in DriveSteps(Request(c).op) : Begin("position", c, q)
  BY DEF PositionServe
<1>2. Bare(q)
  <2>1. ASSUME NEW fix \in {<<>>} \cup Corrections, NEW drive \in {<<>>} \cup PositionCalls
        PROVE  Bare(fix \o drive)
    BY BareFew, BareConcat, BareCalm
  <2>2. ASSUME NEW drive \in PositionCalls PROVE Bare(drive \o LogLine)
    BY BareFew, BareConcat, BareCalm
  <2>. HIDE DEF Corrections, PositionCalls, LogLine
  <2>. QED  BY <2>1, <2>2, BareFew, DriveCases
<1>3. todo' = [todo EXCEPT !["position"] = q] /\ UNCHANGED <<bus, rx, layout, switchState, corrected>>
  BY <1>1 DEF Begin, track, box
<1>. QED  BY <1>2, <1>3, BareCalm, StartStored DEF Tasks, Servers

LEMMA ManagerStored ==
  ASSUME Flow, Stored, NEW s \in Managers, ManagerServe(s, "runtime")
  PROVE  Stored'
<1>1. PICK q \in ManagerCalls(s, Request("runtime").op) : Begin(s, "runtime", q)
  BY DEF ManagerServe
<1>. DEFINE op == Request("runtime").op
            reset == <<Ask("position", "RESET_ALL"), Ask("track", "RESET_STARTUP")>>
<1>2. "game" \in Managers /\ "game" \notin Storers /\ Rank("game") > 1 /\ Serves("game")
  BY DEF Managers, Storers, Rank, Serves
<1>3. Bare(q)
  <2>1. CASE s = "game"
    BY <2>1, <1>2, ManagerFits, BareFits
  <2>2. CASE s = "demo" /\ op = "FORCE_STOP"
    <3>1. q = StopAll \o reset
      BY <2>2 DEF ManagerCalls
    <3>2. StopAll \in Seq(Steps) /\ Bare(StopAll)
      BY <1>2, StopFits, BareFits DEF Fits
    <3>3. reset \in Seq(Steps) /\ Bare(reset)
      <4>. DEFINE a == Ask("position", "RESET_ALL")
                  b == Ask("track", "RESET_STARTUP")
      <4>1. a \in Steps /\ b \in Steps /\ ~Stores(a) /\ ~Stores(b)
        BY DEF Ask, Steps, Requests, CallOps, Tasks, Servers, Stores
      <4>. HIDE DEF a, b
      <4>2. /\ <<a, b>> \in Seq(Steps) /\ Len(<<a, b>>) = 2 /\ <<a, b>>[1] = a /\ <<a, b>>[2] = b
            /\ \A i \in 1..2 : i = 1 \/ i = 2
        BY <4>1
      <4>. QED  BY <4>1, <4>2 DEF Bare, a, b
    <3>. HIDE DEF reset
    <3>. QED  BY <3>1, <3>2, <3>3, BareConcat, BareCalm
  <2>3. CASE s = "demo" /\ op # "FORCE_STOP"
    <3>1. \A t \in Trains : Bare(StopTrain(t))
      BY <1>2, StopFits, BareFits
    <3>2. Bare(<<Ask("position", "GOTO")>>)
      <4>1. "position" \in Tasks /\ Rank("position") < Rank("game")
        BY Ranks DEF Tasks, Servers
      <4>2. "GOTO" \in CallOps \ LimitedOps
        BY DEF CallOps, LimitedOps
      <4>3. Fits("game", <<Ask("position", "GOTO")>>)
        BY <1>2, <4>1, <4>2, AskFits
      <4>. QED  BY <1>2, <4>3, BareFits
    <3>. HIDE DEF PositionCalls, LogLine
    <3>3. q \in {<<>>, LogLine} \cup {StopTrain(t) : t \in Trains} \cup {<<Ask("position", "GOTO")>>}
               \cup PositionCalls
      BY <2>3 DEF ManagerCalls
    <3>. QED  BY <3>1, <3>2, <3>3, BareFew
  <2>. QED  BY <2>1, <2>2, <2>3 DEF Managers
<1>4. /\ todo' = [todo EXCEPT ![s] = q] /\ s \in Tasks
      /\ UNCHANGED <<bus, rx, layout, switchState, corrected>>
  BY <1>1, Ranks DEF Begin, track, box
<1>. QED  BY <1>3, <1>4, BareCalm, StartStored

\* A new handler of the runtime.
LEMMA EventStored ==
  ASSUME Flow, Stored, NEW m \in Mails, m.op # "RV_REQUEST",
         todo' = [todo EXCEPT !["runtime"] = EventSteps(m)],
         UNCHANGED <<bus, rx, layout, switchState, corrected>>
  PROVE  Stored'
<1>1. CASE m.op = "REPLAN"
  <2>. DEFINE a == Ask("position", "REPLAN_TICK")
              b == Do("REFRESH")
  <2>1. ~Stores(a) /\ ~Stores(b)
    BY DEF Ask, Do, Stores, Calls
  <2>2. EventSteps(m) = <<a, b>>
    BY <1>1 DEF EventSteps
  <2>. HIDE DEF a, b
  <2>3. Len(<<a, b>>) = 2 /\ <<a, b>>[1] = a /\ <<a, b>>[2] = b /\ \A i \in 1..2 : i = 1 \/ i = 2
    OBVIOUS
  <2>4. Bare(EventSteps(m))
    BY <2>1, <2>2, <2>3 DEF Bare
  <2>. QED  BY <2>4, BareCalm, StartStored DEF Tasks, Servers
<1>2. CASE m.op # "REPLAN"
  <2>1. Fits("prompt", EventSteps(m)) /\ "prompt" \notin Storers
    BY <1>2, EventFits DEF Acts, Storers
  <2>. QED  BY <2>1, BareFits, BareCalm, StartStored DEF Tasks, Servers
<1>. QED  BY <1>1, <1>2

LEMMA RuntimeStored ==
  ASSUME Flow, Stored, Runtime
  PROVE  Stored'
<1>1. UNCHANGED <<bus, rx, layout, switchState, corrected>>
  BY DEF Runtime, RuntimeCommand, RuntimeEvent, RuntimeRvRequest, RuntimeReversing,
         RuntimeReversed, RuntimeRetry, RuntimeRetried, RuntimeRefresh, RuntimeDeactivate, Begin,
         track, box
<1>2. "runtime" \in Tasks
  BY DEF Tasks, Servers
<1>3. CASE RuntimeCommand
  <2>. DEFINE c == Request("control").cmd
              last == <<Do("REFRESH")>>
  <2>1. PICK steps \in CommandSteps(c) :
             Asks("control", "runtime") /\ Begin("runtime", "control", steps \o last)
    BY <1>3 DEF RuntimeCommand
  <2>2. c \in CommandLines
    <3>1. "control" \in Tasks
      BY DEF Tasks
    <3>2. Calls(Request("control")) /\ Fit("control", Request("control"))
      BY <2>1, <3>1, Heads
    <3>3. Request("control") \in [to : Tasks, op : CallOps, cmd : Commands]
      BY <3>2 DEF Fit
    <3>. QED  BY <3>3, RuntimeAssumption
  <2>. HIDE DEF c
  <2>3. steps \in Seq(Steps) /\ Bare(steps)
    <3>1. Fits("prompt", steps) /\ "prompt" \notin Storers
      BY <2>2, CommandFits DEF Acts, Storers
    <3>. QED  BY <3>1, BareFits DEF Fits
  <2>4. last \in Seq(Steps) /\ Bare(last)
    <3>1. Do("REFRESH") \in Steps /\ ~Stores(Do("REFRESH"))
      BY DEF Do, Steps, Effects, EffectOps, Stores, Calls
    <3>2. last \in Seq(Steps) /\ Len(last) = 1 /\ last[1] = Do("REFRESH") /\ \A i \in 1..1 : i = 1
      BY <3>1
    <3>. QED  BY <3>1, <3>2 DEF Bare
  <2>. HIDE DEF last
  <2>5. Calm(steps \o last)
    BY <2>3, <2>4, BareConcat, BareCalm
  <2>. QED  BY <2>1, <2>5, <1>1, <1>2, StartStored DEF Begin
<1>4. CASE RuntimeEvent
  <2>1. PICK m \in BagToSet(mail) : /\ m.op # "RV_REQUEST"
                                    /\ todo' = [todo EXCEPT !["runtime"] = EventSteps(m)]
    BY <1>4 DEF RuntimeEvent
  <2>2. m \in Mails
    BY DEF Flow
  <2>. QED  BY <2>1, <2>2, <1>1, EventStored
<1>5. CASE RuntimeRvRequest
  <2>1. todo' = todo
    BY <1>5 DEF RuntimeRvRequest, kernel
  <2>. QED  BY <2>1, <1>1, StandsStored
<1>6. ASSUME NEW op, At("runtime", op), NEW steps, Then("runtime", steps),
             steps \in Seq(Steps), Bare(steps)
      PROVE  Stored'
  <2>1. todo["runtime"] # <<>> /\ ~Asks("runtime", "track")
    BY <1>2, <1>6, Heads
  <2>. QED  BY <1>1, <1>2, <1>6, <2>1, BareCalm, GoesStored
<1>7. /\ \A q \in {<<>>, LogLine, <<Ask("position", "REVERSE")>>} : q \in Seq(Steps) /\ Bare(q)
      /\ <<Do("RETRIED")>> \in Seq(Steps) /\ Bare(<<Do("RETRIED")>>)
      /\ <<Clear, Do("DEACTIVATE")>> \in Seq(Steps) /\ Bare(<<Clear, Do("DEACTIVATE")>>)
  <2>1. Fits("prompt", <<Ask("position", "REVERSE")>>) /\ "prompt" \notin Storers
    BY RuntimeAsks DEF Acts, CallOps, LimitedOps, Storers
  <2>2. Fits("prompt", <<Do("RETRIED")>>)
    BY DoFits
  <2>3. <<Clear, Do("DEACTIVATE")>> \in Seq(Steps) /\ Bare(<<Clear, Do("DEACTIVATE")>>)
    <3>. DEFINE a == Clear
                b == Do("DEACTIVATE")
    <3>1. a \in Steps /\ b \in Steps /\ ~Stores(a) /\ ~Stores(b)
      BY DEF Clear, Ask, Do, Steps, Requests, Effects, EffectOps, CallOps, Tasks, Servers, Stores, Calls
    <3>. HIDE DEF a, b
    <3>2. /\ <<a, b>> \in Seq(Steps) /\ Len(<<a, b>>) = 2 /\ <<a, b>>[1] = a /\ <<a, b>>[2] = b
          /\ \A i \in 1..2 : i = 1 \/ i = 2
      BY <3>1
    <3>. QED  BY <3>1, <3>2 DEF Bare, a, b
  <2>. QED  BY <2>1, <2>2, <2>3, BareFits, BareFew DEF Fits
<1>8. CASE RuntimeReversing
  <2>1. At("runtime", "START_REVERSE_REPLY")
        /\ \E q \in {<<>>, <<Ask("position", "REVERSE")>>} : Then("runtime", q)
    BY <1>8 DEF RuntimeReversing
  <2>. QED  BY <2>1, <1>6, <1>7
<1>9. CASE RuntimeReversed
  <2>1. At("runtime", "RV_DONE") /\ Then("runtime", <<>>)
    BY <1>9 DEF RuntimeReversed
  <2>. QED  BY <2>1, <1>6, <1>7
<1>10. CASE RuntimeRetry
  <2>1. PICK q \in {<<>>} \cup PositionCalls :
             At("runtime", "RETRY") /\ Then("runtime", q \o <<Do("RETRIED")>>)
    BY <1>10 DEF RuntimeRetry
  <2>2. q \o <<Do("RETRIED")>> \in Seq(Steps) /\ Bare(q \o <<Do("RETRIED")>>)
    <3>1. q \in Seq(Steps) /\ Bare(q)
      BY BareFew
    <3>. QED  BY <3>1, <1>7, BareConcat, BareCalm, ConcatProperties
  <2>. QED  BY <2>1, <2>2, <1>6
<1>11. CASE RuntimeRetried
  <2>1. At("runtime", "RETRIED") /\ \E q \in {<<>>, LogLine} : Then("runtime", q)
    BY <1>11 DEF RuntimeRetried
  <2>. QED  BY <2>1, <1>6, <1>7
<1>12. CASE RuntimeRefresh
  <2>1. At("runtime", "REFRESH")
        /\ \E q \in {<<>>, LogLine, <<Clear, Do("DEACTIVATE")>>} : Then("runtime", q)
    BY <1>12 DEF RuntimeRefresh, Clear
  <2>. QED  BY <2>1, <1>6, <1>7
<1>13. CASE RuntimeDeactivate
  <2>1. At("runtime", "DEACTIVATE") /\ Then("runtime", <<>>)
    BY <1>13 DEF RuntimeDeactivate
  <2>. QED  BY <2>1, <1>6, <1>7
<1>. QED  BY <1>3, <1>4, <1>5, <1>8, <1>9, <1>10, <1>11, <1>12, <1>13 DEF Runtime

\* The other steps that touch no frame and no turnout.
LEMMA AsideStored ==
  ASSUME Flow, Stored,
         \/ \E t \in Tasks : Answer(t) \/ Drawing(t) \/ Throwing(t)
         \/ ControlCommand \/ UITick
         \/ \E k \in TickTasks : Tick(k)
         \/ \E t \in Trains : DelayEnds(t)
         \/ \E c \in Commands : InputLine(c)
  PROVE  Stored'
<1>1. UNCHANGED <<bus, rx, layout, switchState, corrected>>
  BY DEF Answer, Drawing, Throwing, ControlCommand, UITick, Tick, DelayEnds, InputLine, Begin,
         track, box
<1>2. ASSUME NEW t \in Tasks, Answer(t) PROVE Stored'
  <2>1. /\ client[t] # Nobody /\ client[t] \in Tasks /\ Asks(client[t], t) /\ t # "track"
        /\ Then(client[t], <<>>)
    BY <1>2 DEF Answer, Flow, Handlers, Clients
  <2>2. todo[client[t]] # <<>> /\ ~Asks(client[t], "track")
    BY <2>1 DEF Asks
  <2>. QED  BY <1>1, <2>1, <2>2, BareFew, BareCalm, GoesStored
<1>3. ASSUME NEW t \in Tasks, Drawing(t) PROVE Stored'
  <2>1. Then(t, <<>>) /\ \E op : At(t, op)
    BY <1>3 DEF Drawing
  <2>2. todo[t] # <<>> /\ ~Asks(t, "track")
    BY <2>1, Heads
  <2>. QED  BY <1>1, <2>1, <2>2, BareFew, BareCalm, GoesStored
<1>4. ASSUME NEW t \in Tasks, Throwing(t) PROVE Stored'
  <2>1. PICK x \in Turnouts, d \in Directions :
             \E q \in {<<>>, <<SetSwitch(x, d), UpdateSwitch(x, d)>>} :
               Then(t, q) /\ At(t, "THROW") /\ todo[t] # <<>>
    BY <1>4, Throws
  <2>2. PICK q \in {<<>>, <<SetSwitch(x, d), UpdateSwitch(x, d)>>} :
             Then(t, q) /\ At(t, "THROW") /\ todo[t] # <<>>
    BY <2>1
  <2>3. q \in Seq(Steps) /\ Calm(q)
    BY BareFew, BareCalm
  <2>4. ~Asks(t, "track")
    BY <2>2, Heads
  <2>. QED  BY <1>1, <2>2, <2>3, <2>4, GoesStored
<1>5. ASSUME NEW k \in TickTasks, Tick(k) PROVE Stored'
  <2>1. todo' = [todo EXCEPT !["runtime"] = EventSteps(Ask("runtime", k))]
    BY <1>5 DEF Tick
  <2>. QED  BY <1>1, <2>1, TickMails, EventStored
<1>6. ASSUME NEW t \in Trains, DelayEnds(t) PROVE Stored'
  <2>1. todo' = todo
    BY <1>6 DEF DelayEnds, kernel
  <2>. QED  BY <1>1, <2>1, StandsStored
<1>7. CASE ControlCommand \/ UITick \/ \E c \in Commands : InputLine(c)
  <2>1. PICK t \in {"control", "ui_tick", "input"} : \E q : todo' = [todo EXCEPT ![t] = q]
    BY <1>7 DEF ControlCommand, UITick, InputLine, Begin
  <2>2. PICK q : todo' = [todo EXCEPT ![t] = q]
    BY <2>1
  <2>3. t \in Tasks /\ t \notin Storers
    BY DEF Tasks, Storers
  <2>4. Fits(t, q)
    <3>1. Flow'
      BY <1>7, OtherFlow
    <3>2. todo'[t] = q
      BY <2>2, <2>3 DEF Flow, Handlers
    <3>. QED  BY <2>3, <3>1, <3>2 DEF Flow, Handlers
  <2>. QED  BY <1>1, <2>2, <2>3, <2>4, BareFits, BareCalm, StartStored
<1>. QED  BY <1>2, <1>3, <1>4, <1>5, <1>6, <1>7

LEMMA InitStored == Init => Stored
<1>. SUFFICES ASSUME Init PROVE Stored
  OBVIOUS
<1>1. /\ todo = [t \in Tasks |-> <<>>] /\ bus = <<>> /\ rx = <<>>
      /\ "sw" \in DOMAIN layout /\ layout.sw = switchState /\ DOMAIN switchState = Turnouts
  BY DEF Init
<1>2. Len(<<>>) = 0 /\ <<>> \in Seq({}) /\ \A s : Silent(<<>>, s)
  BY DEF Silent
<1>3. Framed(<<>>, {"SPEED", "SWITCH"}) /\ Framed(<<>>, {"HIT", "SWITCH"})
  BY <1>2 DEF Framed
<1>4. \A t \in Tasks : Rests(todo[t]) /\ Len(todo[t]) = 0
  BY <1>1, <1>2 DEF Rests
<1>5. \A s : Storing(todo, s) = {}
  <2>1. \A s, d : d \notin Storing(todo, s)
    BY <1>4, StoringIs
  <2>. QED  BY <2>1
<1>. QED  BY <1>1, <1>2, <1>3, <1>4, <1>5 DEF Stored, Agree

LEMMA StoredInvariant == Spec => []Stored
<1>1. Flow /\ Stored /\ [Next]_vars => Stored'
  <2>. SUFFICES ASSUME Flow, Stored, [Next]_vars PROVE Stored'
    OBVIOUS
  <2>1. CASE UNCHANGED vars
    <3>1. UNCHANGED <<bus, rx, layout, switchState, corrected, todo>>
      BY <2>1 DEF vars, kernel, track, box
    <3>. QED  BY <3>1, StandsStored
  <2>2. ASSUME NEW c \in Servers, Track(c) \/ PositionServe(c) PROVE Stored'
    BY <2>2, TrackStored, PositionStored
  <2>. QED  BY <2>1, <2>2, BoxStored, HitStored, FrameStored, ManagerStored, RuntimeStored,
            AsideStored DEF Next
<1>. QED  BY <1>1, InitStored, FlowInvariant, PTL DEF Spec

-----------------------------------------------------------------------------
(* Bags counted *)

\* The copies of members of S in a bag, told apart by a number.
Copies(b, S) == UNION {{<<e, n>> : n \in 1..b[e]} : e \in DOMAIN b \cap S}
Counted(b, S) == IsABag(b) /\ IsFiniteSet(Copies(b, S))
Number(b, S) == Cardinality(Copies(b, S))

LEMMA CopiesAre ==
  ASSUME NEW b, NEW S, NEW c
  PROVE  c \in Copies(b, S) <=> \E e \in DOMAIN b \cap S : \E n \in 1..b[e] : c = <<e, n>>
BY DEF Copies

\* One element more.
LEMMA NumberMore ==
  ASSUME NEW b, NEW S, NEW x, Counted(b, S)
  PROVE  LET more == b (+) SetToBag({x})
         IN  /\ Counted(more, S) /\ DOMAIN more = DOMAIN b \cup {x}
             /\ Number(more, S) = Number(b, S) + IF x \in S THEN 1 ELSE 0
<1>. DEFINE more == b (+) SetToBag({x})
            n == IF x \in DOMAIN b THEN b[x] ELSE 0
<1>1. b \in [DOMAIN b -> {i \in Nat : i > 0}] /\ IsFiniteSet(Copies(b, S))
  BY DEF Counted, IsABag
<1>2. n \in Nat
  BY <1>1
<1>3. more = [e \in DOMAIN b \cup {x} |-> IF e = x THEN n + 1 ELSE b[e]]
  <2>. DEFINE one == SetToBag({x})
  <2>1. DOMAIN one = {x} /\ one[x] = 1
    BY DEF SetToBag
  <2>. HIDE DEF one
  <2>2. more = [e \in DOMAIN b \cup DOMAIN one |->
                  (IF e \in DOMAIN b THEN b[e] ELSE 0) + (IF e \in DOMAIN one THEN one[e] ELSE 0)]
    BY DEF (+), one
  <2>3. \A e \in DOMAIN b \cup {x} :
          (IF e \in DOMAIN b THEN b[e] ELSE 0) + (IF e \in DOMAIN one THEN one[e] ELSE 0)
            = IF e = x THEN n + 1 ELSE b[e]
    BY <1>1, <2>1
  <2>. QED  BY <2>1, <2>2, <2>3
<1>. HIDE DEF more, n
<1>4. IsABag(more) /\ DOMAIN more = DOMAIN b \cup {x}
  <2>1. \A e \in DOMAIN b \cup {x} : (IF e = x THEN n + 1 ELSE b[e]) \in {i \in Nat : i > 0}
    BY <1>1, <1>2
  <2>2. DOMAIN more = DOMAIN b \cup {x}
    BY <1>3
  <2>. QED  BY <1>3, <2>1, <2>2 DEF IsABag
<1>5. CASE x \notin S
  <2>1. DOMAIN more \cap S = DOMAIN b \cap S /\ \A e \in DOMAIN b \cap S : more[e] = b[e]
    BY <1>3, <1>5
  <2>2. \A c : c \in Copies(more, S) <=> c \in Copies(b, S)
    BY <2>1, CopiesAre
  <2>3. Copies(more, S) = Copies(b, S)
    BY <2>2
  <2>4. Number(b, S) \in Nat
    BY <1>1, FS_CardinalityType DEF Number
  <2>. QED  BY <1>1, <1>4, <1>5, <2>3, <2>4 DEF Counted, Number, more
<1>6. CASE x \in S
  <2>1. <<x, n + 1>> \notin Copies(b, S)
    <3>1. ASSUME NEW e \in DOMAIN b, NEW i \in 1..b[e], <<x, n + 1>> = <<e, i>> PROVE FALSE
      <4>1. e = x /\ i = n + 1 /\ n = b[e] /\ b[e] \in Nat
        BY <3>1, <1>1 DEF n
      <4>. QED  BY <4>1, <1>2
    <3>. QED  BY <3>1, CopiesAre
  <2>2. Copies(more, S) = Copies(b, S) \cup {<<x, n + 1>>}
    <3>1. ASSUME NEW c \in Copies(more, S) PROVE c \in Copies(b, S) \cup {<<x, n + 1>>}
      <4>1. PICK e \in DOMAIN more \cap S : \E i \in 1..more[e] : c = <<e, i>>
        BY CopiesAre
      <4>2. PICK i \in 1..more[e] : c = <<e, i>>
        BY <4>1
      <4>3. CASE e # x
        <5>1. e \in DOMAIN b \cap S /\ more[e] = b[e]
          BY <1>3, <4>3
        <5>. QED  BY <4>2, <5>1, CopiesAre
      <4>4. CASE e = x /\ i # n + 1
        <5>1. i \in 1..n
          BY <1>2, <1>3, <4>4
        <5>2. x \in DOMAIN b /\ i \in 1..b[x]
          BY <5>1 DEF n
        <5>. QED  BY <1>6, <4>2, <4>4, <5>2, CopiesAre
      <4>. QED  BY <4>2, <4>3, <4>4
    <3>2. ASSUME NEW c \in Copies(b, S) PROVE c \in Copies(more, S)
      <4>1. PICK e \in DOMAIN b \cap S : \E i \in 1..b[e] : c = <<e, i>>
        BY CopiesAre
      <4>2. PICK i \in 1..b[e] : c = <<e, i>>
        BY <4>1
      <4>3. e \in DOMAIN more \cap S /\ i \in 1..more[e]
        <5>1. b[e] \in Nat /\ more[e] \in Nat /\ more[e] >= b[e]
          BY <1>1, <1>2, <1>3 DEF n
        <5>. QED  BY <5>1, <1>4
      <4>. QED  BY <4>2, <4>3, CopiesAre
    <3>3. <<x, n + 1>> \in Copies(more, S)
      <4>1. x \in DOMAIN more \cap S /\ more[x] = n + 1 /\ n + 1 \in 1..(n + 1)
        BY <1>2, <1>3, <1>6
      <4>. QED  BY <4>1, CopiesAre
    <3>. QED  BY <3>1, <3>2, <3>3
  <2>3. IsFiniteSet(Copies(more, S)) /\ Number(more, S) = Number(b, S) + 1
    BY <1>1, <2>1, <2>2, FS_AddElement DEF Number
  <2>. QED  BY <1>4, <1>6, <2>3 DEF Counted, more
<1>. QED  BY <1>5, <1>6

\* One element less.
LEMMA NumberLess ==
  ASSUME NEW b, NEW S, NEW x, Counted(b, S), BagIn(x, b)
  PROVE  LET less == b (-) SetToBag({x})
         IN  /\ Counted(less, S) /\ DOMAIN b \ {x} \subseteq DOMAIN less
             /\ DOMAIN less \subseteq DOMAIN b
             /\ Number(b, S) = Number(less, S) + IF x \in S THEN 1 ELSE 0
<1>. DEFINE less == b (-) SetToBag({x})
            n == b[x]
<1>1. b \in [DOMAIN b -> {i \in Nat : i > 0}] /\ IsFiniteSet(Copies(b, S)) /\ x \in DOMAIN b
  BY DEF Counted, IsABag, BagIn, BagToSet
<1>2. n \in Nat /\ n > 0
  BY <1>1
<1>. DEFINE D == IF n = 1 THEN DOMAIN b \ {x} ELSE DOMAIN b
<1>3. less = [e \in D |-> IF e = x THEN n - 1 ELSE b[e]]
  <2>. DEFINE one == SetToBag({x})
              B == [e \in DOMAIN b |-> IF e \in DOMAIN one THEN b[e] - one[e] ELSE b[e]]
  <2>1. DOMAIN one = {x} /\ one[x] = 1
    BY DEF SetToBag
  <2>2. less = [e \in {d \in DOMAIN B : B[d] > 0} |-> B[e]]
    BY DEF (-)
  <2>. HIDE DEF one
  <2>3. DOMAIN B = DOMAIN b /\ \A e \in DOMAIN b : B[e] = IF e = x THEN n - 1 ELSE b[e]
    BY <2>1
  <2>. HIDE DEF B
  <2>4. {d \in DOMAIN B : B[d] > 0} = D
    BY <1>1, <1>2, <2>3
  <2>. QED  BY <2>2, <2>3, <2>4
<1>. HIDE DEF less, n
<1>4. IsABag(less) /\ DOMAIN less = D
  <2>1. \A e \in D : (IF e = x THEN n - 1 ELSE b[e]) \in {i \in Nat : i > 0}
    BY <1>1, <1>2
  <2>2. DOMAIN less = D
    BY <1>3
  <2>. QED  BY <1>3, <2>1, <2>2 DEF IsABag
<1>5. D \subseteq DOMAIN b /\ DOMAIN b \ {x} \subseteq D
  OBVIOUS
<1>. DEFINE Settled == /\ Counted(less, S)
                       /\ Number(b, S) = Number(less, S) + IF x \in S THEN 1 ELSE 0
<1>. HIDE DEF Settled
<1>6. ASSUME x \notin S PROVE Settled
  <2>1. DOMAIN less \cap S = DOMAIN b \cap S /\ \A e \in DOMAIN b \cap S : less[e] = b[e]
    BY <1>3, <1>6
  <2>2. \A c : c \in Copies(less, S) <=> c \in Copies(b, S)
    BY <2>1, CopiesAre
  <2>3. Copies(less, S) = Copies(b, S)
    BY <2>2
  <2>4. Number(b, S) \in Nat
    BY <1>1, FS_CardinalityType DEF Number
  <2>5. Counted(less, S)
    BY <1>1, <1>4, <2>3 DEF Counted
  <2>6. Number(b, S) = Number(less, S)
    BY <2>3 DEF Number
  <2>. QED  BY <1>6, <2>4, <2>5, <2>6 DEF Settled
<1>7. ASSUME x \in S PROVE Settled
  <2>1. <<x, n>> \in Copies(b, S)
    BY <1>1, <1>2, <1>7, CopiesAre DEF n
  <2>2. Copies(less, S) = Copies(b, S) \ {<<x, n>>}
    <3>1. ASSUME NEW c \in Copies(less, S) PROVE c \in Copies(b, S) /\ c # <<x, n>>
      <4>1. PICK e \in DOMAIN less \cap S : \E i \in 1..less[e] : c = <<e, i>>
        BY CopiesAre
      <4>2. PICK i \in 1..less[e] : c = <<e, i>>
        BY <4>1
      <4>3. e \in DOMAIN b \cap S /\ i \in 1..b[e] /\ (e = x => i # n)
        <5>1. e \in D /\ less[e] = IF e = x THEN n - 1 ELSE b[e]
          BY <1>3, <1>4
        <5>2. e \in DOMAIN b /\ b[e] \in Nat
          BY <1>1, <5>1
        <5>3. e = x => b[e] = n
          BY DEF n
        <5>. QED  BY <1>2, <5>1, <5>2, <5>3
      <4>. QED  BY <4>2, <4>3, CopiesAre
    <3>2. ASSUME NEW c \in Copies(b, S), c # <<x, n>> PROVE c \in Copies(less, S)
      <4>1. PICK e \in DOMAIN b \cap S : \E i \in 1..b[e] : c = <<e, i>>
        BY CopiesAre
      <4>2. PICK i \in 1..b[e] : c = <<e, i>>
        BY <4>1
      <4>3. e = x => i # n /\ b[e] = n
        BY <3>2, <4>2 DEF n
      <4>4. e \in D
        BY <1>2, <4>3
      <4>5. e \in DOMAIN less \cap S /\ i \in 1..less[e]
        <5>1. less[e] = IF e = x THEN n - 1 ELSE b[e]
          BY <1>3, <4>4
        <5>. QED  BY <1>1, <1>2, <1>4, <4>3, <4>4, <5>1
      <4>. QED  BY <4>2, <4>5, CopiesAre
    <3>. QED  BY <3>1, <3>2
  <2>3. /\ IsFiniteSet(Copies(less, S)) /\ Number(less, S) = Number(b, S) - 1
        /\ Number(b, S) \in Nat
    BY <1>1, <2>1, <2>2, FS_RemoveElement, FS_CardinalityType DEF Number
  <2>4. Counted(less, S)
    BY <1>4, <2>3 DEF Counted
  <2>5. Number(b, S) = Number(less, S) + 1
    BY <2>3
  <2>. QED  BY <1>7, <2>4, <2>5 DEF Settled
<1>8. /\ Counted(less, S) /\ DOMAIN b \ {x} \subseteq DOMAIN less
      /\ DOMAIN less \subseteq DOMAIN b
      /\ Number(b, S) = Number(less, S) + IF x \in S THEN 1 ELSE 0
  <2>1. DOMAIN b \ {x} \subseteq DOMAIN less /\ DOMAIN less \subseteq DOMAIN b
    BY <1>4, <1>5
  <2>2. Settled
    BY <1>6, <1>7
  <2>. QED  BY <2>1, <2>2 DEF Settled
<1>. QED  BY <1>8 DEF less

LEMMA Numbers ==
  ASSUME NEW b, NEW S, Counted(b, S)
  PROVE  /\ Number(b, S) \in Nat
         /\ \A x \in S : BagIn(x, b) => Number(b, S) > 0
<1>1. IsFiniteSet(Copies(b, S)) /\ b \in [DOMAIN b -> {i \in Nat : i > 0}]
  BY DEF Counted, IsABag
<1>2. Number(b, S) \in Nat
  BY <1>1, FS_CardinalityType DEF Number
<1>3. ASSUME NEW x \in S, BagIn(x, b) PROVE Number(b, S) > 0
  <2>1. x \in DOMAIN b /\ 1 \in 1..b[x]
    BY <1>1, <1>3 DEF BagIn, BagToSet
  <2>2. <<x, 1>> \in Copies(b, S)
    BY <2>1, CopiesAre
  <2>3. Number(b, S) # 0
    BY <1>1, <2>2, FS_EmptySet DEF Number
  <2>. QED  BY <1>2, <2>3
<1>. QED  BY <1>2, <1>3

LEMMA NumberNone ==
  ASSUME NEW S
  PROVE  Counted(EmptyBag, S) /\ Number(EmptyBag, S) = 0 /\ DOMAIN EmptyBag = {}
<1>1. DOMAIN EmptyBag = {} /\ IsABag(EmptyBag)
  BY DEF EmptyBag, SetToBag, IsABag
<1>2. Copies(EmptyBag, S) = {}
  BY <1>1 DEF Copies
<1>. QED  BY <1>1, <1>2, FS_EmptySet DEF Counted, Number

-----------------------------------------------------------------------------
(* The speeds that come *)

\* The speed a train will have once the frames on the bus have been executed.
Coming(b, x, actual, v) == Final(b, x, v) \/ (Silent(b, x) /\ actual = v)

LEMMA ComingExecuted ==
  ASSUME NEW b, NEW x, NEW actual, NEW v, NEW k, Framed(b, k), b # <<>>, Coming(b, x, actual, v)
  PROVE  Coming(Tail(b), x, IF For(Head(b), x) THEN Says(Head(b)) ELSE actual, v)
BY FramesTail DEF Coming

LEMMA ComingSent ==
  ASSUME NEW b, NEW x, NEW k, Framed(b, k), NEW f
  PROVE  /\ For(f, x) => \A actual : Coming(Append(b, f), x, actual, Says(f))
         /\ ~For(f, x) => \A actual, v : Coming(b, x, actual, v) =>
                                           Coming(Append(b, f), x, actual, v)
BY FramesAppend DEF Coming

LEMMA ComingConcat ==
  ASSUME NEW b, NEW p, NEW x, NEW k, Framed(b, k), Framed(p, k)
  PROVE  /\ \A v : Final(p, x, v) => Final(b \o p, x, v)
         /\ Silent(p, x) => \A actual, v : Coming(b, x, actual, v) =>
                                             Coming(b \o p, x, actual, v)
         /\ Silent(b, x) /\ Silent(p, x) => Silent(b \o p, x)
<1>. DEFINE c == b \o p
<1>1. PICK S, T : b \in Seq(S) /\ p \in Seq(T)
  BY DEF Framed
<1>2. /\ Len(b) \in Nat /\ Len(p) \in Nat /\ Len(c) = Len(b) + Len(p)
      /\ \A i \in 1..(Len(b) + Len(p)) : c[i] = IF i <= Len(b) THEN b[i] ELSE p[i - Len(b)]
  <2>1. b \in Seq(S \cup T) /\ p \in Seq(S \cup T) /\ Len(b) \in Nat /\ Len(p) \in Nat
    BY <1>1, LenProperties
  <2>. QED  BY <2>1, ConcatProperties
<1>. HIDE DEF c
<1>3. \A i \in 1..Len(p) : i + Len(b) \in 1..Len(c) /\ c[i + Len(b)] = p[i]
  <2>. SUFFICES ASSUME NEW i \in 1..Len(p)
                PROVE  i + Len(b) \in 1..Len(c) /\ c[i + Len(b)] = p[i]
    OBVIOUS
  <2>1. /\ i + Len(b) \in 1..(Len(b) + Len(p)) /\ ~(i + Len(b) <= Len(b))
        /\ i + Len(b) - Len(b) = i
    BY <1>2
  <2>. QED  BY <2>1, <1>2
<1>4. \A i \in 1..Len(b) : i \in 1..Len(c) /\ c[i] = b[i]
  BY <1>2
<1>5. \A i \in 1..Len(c) : i > Len(b) => i - Len(b) \in 1..Len(p) /\ c[i] = p[i - Len(b)]
  BY <1>2
<1>6. \A i \in 1..Len(c) : i <= Len(b) => i \in 1..Len(b)
  BY <1>2
<1>7. ASSUME NEW v, Final(p, x, v) PROVE Final(c, x, v)
  <2>1. PICK i \in 1..Len(p) : /\ For(p[i], x) /\ Says(p[i]) = v
                               /\ \A j \in (i + 1)..Len(p) : ~For(p[j], x)
    BY <1>7 DEF Final
  <2>2. ASSUME NEW j \in (i + Len(b) + 1)..Len(c) PROVE ~For(c[j], x)
    <3>1. j \in 1..Len(c) /\ j > Len(b) /\ j - Len(b) \in (i + 1)..Len(p)
      BY <1>2
    <3>. QED  BY <3>1, <2>1, <1>5
  <2>. QED  BY <1>3, <2>1, <2>2 DEF Final
<1>8. Silent(b, x) /\ Silent(p, x) => Silent(c, x)
  BY <1>2, <1>4, <1>5, <1>6 DEF Silent
<1>9. ASSUME Silent(p, x), NEW actual, NEW v, Coming(b, x, actual, v)
      PROVE  Coming(c, x, actual, v)
  <2>1. CASE Silent(b, x)
    <3>1. Silent(c, x)
      BY <2>1, <1>8, <1>9
    <3>2. ~Final(b, x, v)
      BY <2>1, FinalSpeaks
    <3>. QED  BY <1>9, <3>1, <3>2 DEF Coming
  <2>2. CASE ~Silent(b, x)
    <3>1. PICK i \in 1..Len(b) : /\ For(b[i], x) /\ Says(b[i]) = v
                                 /\ \A j \in (i + 1)..Len(b) : ~For(b[j], x)
      BY <1>9, <2>2 DEF Coming, Final
    <3>2. ASSUME NEW j \in (i + 1)..Len(c) PROVE ~For(c[j], x)
      <4>1. j \in 1..Len(c)
        BY <1>2
      <4>2. CASE j <= Len(b)
        <5>1. j \in (i + 1)..Len(b)
          BY <1>2, <4>2
        <5>. QED  BY <5>1, <3>1, <1>4, <1>6, <4>1, <4>2
      <4>3. CASE j > Len(b)
        BY <1>5, <1>9, <4>1, <4>3 DEF Silent
      <4>. QED  BY <1>2, <4>2, <4>3
    <3>. QED  BY <3>1, <3>2, <1>4 DEF Coming, Final
  <2>. QED  BY <2>1, <2>2
<1>. QED  BY <1>7, <1>8, <1>9 DEF c

\* A forced stop of the demo stops the start-up trains, and no other train.
LEMMA StartupStops ==
  ASSUME NEW t \in Trains
  PROVE  IF t \in StartupTrains THEN Final(StartupFrames, Train(t), 0)
         ELSE Silent(StartupFrames, Train(t))
<1>. DEFINE T == {s \in Turnouts : Partner[s] = s \/ Curved(s)}
            thrown == SetToSeq(T)
            stopped == SetToSeq(StartupTrains)
            F(i) == SwitchFrame(thrown[i], IF Curved(thrown[i]) THEN "C" ELSE "S")
            G(i) == SpeedFrame(stopped[i], 0)
            a == [i \in 1..Len(thrown) |-> F(i)]
            b == [i \in 1..Len(stopped) |-> G(i)]
            c == a \o b
            x == Train(t)
<1>1. IsFiniteSet(T) /\ IsFiniteSet(StartupTrains)
  <2>1. T \in SUBSET Turnouts /\ StartupTrains \in SUBSET Trains
    BY RuntimeAssumption
  <2>. QED  BY <2>1, RuntimeAssumption, FS_Subset
<1>2. /\ Len(thrown) \in Nat /\ Len(stopped) \in Nat
      /\ \A i \in 1..Len(stopped) : stopped[i] \in StartupTrains
      /\ \A y \in StartupTrains : \E i \in 1..Len(stopped) : stopped[i] = y
      /\ \A i, j \in 1..Len(stopped) : stopped[i] = stopped[j] => i = j
  <2>. HIDE DEF T
  <2>1. thrown \in Seq(T) /\ stopped \in Seq(StartupTrains)
        /\ (\A y \in StartupTrains : \E i \in 1..Len(stopped) : stopped[i] = y)
        /\ \A i, j \in 1..Len(stopped) : stopped[i] = stopped[j] => i = j
    BY <1>1, SeqOfSet
  <2>. HIDE DEF thrown, stopped
  <2>2. \A i \in 1..Len(stopped) : stopped[i] \in StartupTrains
    BY <2>1, ElementOfSeq
  <2>. QED  BY <2>1, <2>2, LenProperties
<1>3. /\ \A i : F(i).frame = "SWITCH"
      /\ \A i : G(i).frame = "SPEED" /\ G(i).train = stopped[i] /\ G(i).speed = 0
  BY DEF SwitchFrame, SpeedFrame
<1>4. StartupFrames = c
  BY DEF StartupFrames
<1>. HIDE DEF thrown, stopped, F, G
<1>5. /\ a \in Seq({F(i) : i \in Nat}) /\ Len(a) = Len(thrown) /\ \A i \in 1..Len(thrown) : a[i] = F(i)
      /\ b \in Seq({G(i) : i \in Nat}) /\ Len(b) = Len(stopped) /\ \A i \in 1..Len(stopped) : b[i] = G(i)
  BY <1>2
<1>. HIDE DEF a, b, T
<1>6. Framed(a, {"SPEED", "SWITCH"}) /\ Framed(b, {"SPEED", "SWITCH"})
  BY <1>2, <1>3, <1>5 DEF Framed
<1>7. /\ \A i : ~For(F(i), x)
      /\ \A i : Says(G(i)) = 0 /\ (For(G(i), x) <=> stopped[i] = t)
  BY <1>3, Frames
<1>. HIDE DEF x, c
<1>8. Silent(a, x)
  BY <1>5, <1>7 DEF Silent
<1>9. CASE t \in StartupTrains
  <2>1. PICK i \in 1..Len(b) : stopped[i] = t
    BY <1>2, <1>5, <1>9
  <2>2. ASSUME NEW j \in (i + 1)..Len(b) PROVE ~For(b[j], x)
    <3>1. j \in 1..Len(stopped) /\ i \in 1..Len(stopped) /\ i # j
      BY <1>2, <1>5
    <3>. QED  BY <3>1, <2>1, <1>2, <1>5, <1>7
  <2>3. For(b[i], x) /\ Says(b[i]) = 0
    BY <2>1, <1>5, <1>7
  <2>4. Final(b, x, 0)
    BY <2>2, <2>3 DEF Final
  <2>5. Final(c, x, 0)
    BY <2>4, <1>6, ComingConcat DEF c
  <2>. QED  BY <2>5, <1>4, <1>9 DEF x
<1>10. CASE t \notin StartupTrains
  <2>1. ASSUME NEW i \in 1..Len(b) PROVE ~For(b[i], x)
    <3>1. b[i] = G(i) /\ stopped[i] \in StartupTrains
      BY <1>2, <1>5
    <3>. QED  BY <3>1, <1>7, <1>10
  <2>2. Silent(c, x)
    <3>1. Silent(b, x)
      BY <2>1 DEF Silent
    <3>. QED  BY <3>1, <1>6, <1>8, ComingConcat DEF c
  <2>. QED  BY <2>2, <1>4, <1>10 DEF x
<1>. QED  BY <1>9, <1>10

-----------------------------------------------------------------------------
(* A forced stop of the demo *)

Halting(q) == \E i \in 1..Len(q) : Calls(q[i]) /\ q[i].op = "RESET_STARTUP"
Stop(t) == SetSpeed(t, 0)

\* The steps of a forced stop.
HaltSteps ==
  {Ask("position", "SPEED_CHANGE"), Ask("position", "RESET_ALL"), Ask("track", "RESET_STARTUP")}
    \cup {Stop(t) : t \in Trains}

\* From the first call of a forced stop of the demo to its last, which empties the table of
\* trains, each train has been stopped or is about to be, and nobody sets another speed.
Halts ==
  /\ DOMAIN asked = Trains
  /\ LET q == todo["demo"]
     IN  Halting(q) =>
           /\ todo["position"] = <<>>
           /\ \A i \in 1..Len(q) : /\ q[i] \in HaltSteps
                                   /\ q[i].op = "RESET_STARTUP" => i = Len(q)
           /\ \A t \in Trains : asked[t] = 0 \/ \E i \in 1..Len(q) : q[i] = Stop(t)

LEMMA HaltKinds ==
  \A e \in HaltSteps :
    /\ Calls(e) /\ (\A op : ~Effect(e, op)) /\ e.to \in {"position", "track"}
    /\ e.to = "position" => e.op \in {"SPEED_CHANGE", "RESET_ALL"}
    /\ e.to = "track" => \/ e.op = "RESET_STARTUP"
                         \/ \E t \in Trains : e = Stop(t) /\ e.op = "SET_SPEED"
                                              /\ e.train = t /\ e.speed = 0
    /\ \A t : e = Stop(t) => e.to = "track" /\ e.op = "SET_SPEED"
<1>. USE DEF HaltSteps, Stop, SetSpeed, Ask, Calls, Effect
<1>1. \A e \in {Ask("position", "SPEED_CHANGE"), Ask("position", "RESET_ALL")} :
        /\ Calls(e) /\ (\A op : ~Effect(e, op)) /\ e.to = "position"
        /\ e.op \in {"SPEED_CHANGE", "RESET_ALL"}
  OBVIOUS
<1>2. LET e == Ask("track", "RESET_STARTUP")
      IN  Calls(e) /\ (\A op : ~Effect(e, op)) /\ e.to = "track" /\ e.op = "RESET_STARTUP"
  OBVIOUS
<1>3. \A t : LET e == Stop(t)
             IN  /\ Calls(e) /\ (\A op : ~Effect(e, op)) /\ e.to = "track" /\ e.op = "SET_SPEED"
                 /\ e.train = t /\ e.speed = 0
  OBVIOUS
<1>. QED  BY <1>1, <1>2, <1>3

\* While the demo is stopped by force, the runtime waits for it and the game manager is idle.
LEMMA HaltAlone ==
  ASSUME Flow, Halts, Halting(todo["demo"])
  PROVE  /\ client["demo"] = "runtime" /\ Asks("runtime", "demo")
         /\ \A c \in Servers : \A s : Asks(c, s) /\ s # "demo" => c = "demo"
         /\ \A s \in Tasks : client[s] = "demo" => s = "position"
<1>1. /\ \A s \in Tasks : client[s] # Nobody => Asks(client[s], s)
      /\ \A s \in {"position"} \cup Managers : todo[s] # <<>> => client[s] # Nobody
      /\ \A s \in Managers : client[s] \in {"runtime", Nobody}
      /\ "demo" \in Managers /\ "game" \in Managers /\ "runtime" \in Tasks
      /\ \A s \in Managers : s \in Tasks
      /\ todo["track"] = <<>> /\ client["track"] = Nobody /\ todo["position"] = <<>>
      /\ Nobody # "demo"
  BY RuntimeAssumption DEF Flow, Clients, Handlers, Tasks, Servers, Managers, Halts
<1>2. todo["demo"] # <<>>
  BY DEF Halting
<1>3. client["demo"] = "runtime" /\ Asks("runtime", "demo")
  BY <1>1, <1>2
<1>4. /\ \A t, s1, s2 : Asks(t, s1) /\ Asks(t, s2) => s1 = s2
      /\ \A t, s : Asks(t, s) => todo[t] # <<>>
  BY DEF Asks
<1>5. \A s : ~Asks("game", s)
  BY <1>1, <1>3, <1>4
<1>6. \A c \in Servers : \A s : Asks(c, s) /\ s # "demo" => c = "demo"
  BY <1>1, <1>3, <1>4, <1>5 DEF Servers, Managers
<1>7. ASSUME NEW s \in Tasks, client[s] = "demo" PROVE s = "position"
  <2>1. Asks("demo", s)
    BY <1>1, <1>7
  <2>2. Rank(s) < Rank("demo")
    BY <1>1, <2>1, Heads
  <2>. QED  BY <1>1, <1>7, <2>2 DEF Rank, Tasks, Servers, Managers
<1>. QED  BY <1>3, <1>6, <1>7

\* Steps of which the demo takes no notice.
LEMMA StaysHalted ==
  ASSUME Halts, todo'["demo"] = todo["demo"], todo'["position"] = todo["position"], asked' = asked
  PROVE  Halts'
BY DEF Halts

LEMMA OthersHalted ==
  ASSUME Flow, Halts, asked' = asked,
         \/ \E t \in Tasks \ {"demo"} : /\ \E q : todo' = [todo EXCEPT ![t] = q]
                                        /\ t = "position" => todo[t] # <<>>
         \/ todo' = todo
  PROVE  Halts'
<1>1. "demo" \in Tasks /\ "position" \in Tasks
  BY DEF Tasks, Servers, Managers
<1>2. /\ todo'["demo"] = todo["demo"]
      /\ todo'["position"] = todo["position"] \/ todo["position"] # <<>>
  <2>1. CASE todo' = todo
    BY <2>1
  <2>2. CASE \E t \in Tasks \ {"demo"} : /\ \E q : todo' = [todo EXCEPT ![t] = q]
                                         /\ t = "position" => todo[t] # <<>>
    <3>1. PICK t \in Tasks \ {"demo"} : /\ \E q : todo' = [todo EXCEPT ![t] = q]
                                        /\ t = "position" => todo[t] # <<>>
      BY <2>2
    <3>2. /\ todo'["demo"] = todo["demo"]
          /\ t = "position" \/ todo'["position"] = todo["position"]
      BY <1>1, <3>1 DEF Flow, Handlers
    <3>. QED  BY <3>1, <3>2
  <2>. QED  BY <2>1, <2>2
<1>3. CASE todo'["position"] = todo["position"]
  BY <1>2, <1>3, StaysHalted
\* The position server is at work: no forced stop of the demo goes on.
<1>4. CASE todo["position"] # <<>>
  BY <1>2, <1>4 DEF Halts
<1>. QED  BY <1>2, <1>3, <1>4

\* A step of a forced stop is done: it goes on with the rest, or was the last.
LEMMA HaltTail ==
  ASSUME NEW q \in Seq(Steps), q # <<>>
  PROVE  /\ Head(q) = q[1] /\ 1 \in 1..Len(q)
         /\ Len(Tail(q)) = Len(q) - 1 /\ Len(q) \in Nat
         /\ \A i \in 1..Len(Tail(q)) : i + 1 \in 1..Len(q) /\ Tail(q)[i] = q[i + 1]
         /\ \A i \in 1..Len(q) : i = 1 \/ (i - 1 \in 1..Len(Tail(q)) /\ q[i] = Tail(q)[i - 1])
<1>1. Len(q) \in Nat \ {0}
  BY EmptySeq
<1>2. /\ Tail(q) \in Seq(Steps) /\ Len(Tail(q)) = Len(q) - 1
      /\ \A i \in 1..Len(Tail(q)) : Tail(q)[i] = q[i + 1]
      /\ Head(q) = q[1]
  BY <1>1, HeadTailProperties
<1>3. \A i \in 1..Len(Tail(q)) : i + 1 \in 1..Len(q)
  BY <1>1, <1>2
<1>4. ASSUME NEW i \in 1..Len(q), i # 1
      PROVE  i - 1 \in 1..Len(Tail(q)) /\ q[i] = Tail(q)[i - 1]
  <2>1. i - 1 \in 1..Len(Tail(q)) /\ (i - 1) + 1 = i
    BY <1>1, <1>2, <1>4
  <2>. QED  BY <2>1, <1>2
<1>. QED  BY <1>1, <1>2, <1>3, <1>4

LEMMA HaltGoesOn ==
  ASSUME Flow, Halts, todo["demo"] # <<>>, todo'["demo"] = Tail(todo["demo"]),
         DOMAIN asked' = Trains,
         Halting(todo["demo"]) =>
           /\ todo'["position"] = <<>>
           /\ \A t \in Trains : asked[t] = 0 \/ todo["demo"][1] = Stop(t) => asked'[t] = 0
  PROVE  Halts'
<1>. DEFINE q == todo["demo"]
            r == Tail(q)
<1>1. q \in Seq(Steps)
  BY DEF Flow, Handlers, Tasks, Servers, Managers
<1>. HIDE DEF q
<1>2. /\ q = todo["demo"] /\ todo'["demo"] = r /\ q # <<>>
      /\ Len(r) = Len(q) - 1 /\ Len(q) \in Nat
      /\ \A i \in 1..Len(r) : i + 1 \in 1..Len(q) /\ r[i] = q[i + 1]
      /\ \A i \in 1..Len(q) : i = 1 \/ (i - 1 \in 1..Len(r) /\ q[i] = r[i - 1])
  BY <1>1, HaltTail DEF q
<1>. HIDE DEF r
<1>. SUFFICES ASSUME Halting(r)
              PROVE  /\ todo'["position"] = <<>>
                     /\ \A i \in 1..Len(r) : /\ r[i] \in HaltSteps
                                             /\ r[i].op = "RESET_STARTUP" => i = Len(r)
                     /\ \A t \in Trains : asked'[t] = 0 \/ \E i \in 1..Len(r) : r[i] = Stop(t)
  BY <1>2 DEF Halts
<1>3. Halting(q)
  <2>1. PICK i \in 1..Len(r) : Calls(r[i]) /\ r[i].op = "RESET_STARTUP"
    BY DEF Halting
  <2>2. i + 1 \in 1..Len(q) /\ q[i + 1] = r[i]
    BY <1>2
  <2>. QED  BY <2>1, <2>2 DEF Halting
<1>4. /\ \A i \in 1..Len(q) : q[i] \in HaltSteps /\ (q[i].op = "RESET_STARTUP" => i = Len(q))
      /\ \A t \in Trains : asked[t] = 0 \/ \E i \in 1..Len(q) : q[i] = Stop(t)
  BY <1>2, <1>3 DEF Halts
<1>5. \A i \in 1..Len(r) : r[i] \in HaltSteps /\ (r[i].op = "RESET_STARTUP" => i = Len(r))
  <2>. SUFFICES ASSUME NEW i \in 1..Len(r)
                PROVE  r[i] \in HaltSteps /\ (r[i].op = "RESET_STARTUP" => i = Len(r))
    OBVIOUS
  <2>1. i + 1 \in 1..Len(q) /\ r[i] = q[i + 1] /\ (i + 1 = Len(q) => i = Len(r))
    BY <1>2
  <2>. QED  BY <2>1, <1>4
<1>6. ASSUME NEW t \in Trains PROVE asked'[t] = 0 \/ \E i \in 1..Len(r) : r[i] = Stop(t)
  <2>1. CASE asked[t] = 0 \/ q[1] = Stop(t)
    BY <1>2, <1>3, <2>1
  <2>2. CASE ~(asked[t] = 0 \/ q[1] = Stop(t))
    <3>1. PICK i \in 1..Len(q) : q[i] = Stop(t)
      BY <1>4, <2>2
    <3>. QED  BY <3>1, <2>2, <1>2
  <2>. QED  BY <2>1, <2>2
<1>. QED  BY <1>2, <1>3, <1>5, <1>6

\* The calls of a forced stop: every train is stopped among them.
LEMMA StopAllSteps ==
  /\ StopAll \in Seq(Steps)
  /\ \A i \in 1..Len(StopAll) : \/ StopAll[i] = Ask("position", "SPEED_CHANGE")
                                \/ \E t \in Trains : StopAll[i] = Stop(t)
  /\ \A t \in Trains : \E i \in 1..Len(StopAll) : StopAll[i] = Stop(t)
<1>. DEFINE order == SetToSeq(Trains)
            n == Len(order)
<1>1. /\ n \in Nat /\ \A i \in 1..n : order[i] \in Trains
      /\ \A t \in Trains : \E i \in 1..n : order[i] = t
  <2>1. order \in Seq(Trains) /\ \A t \in Trains : \E i \in 1..n : order[i] = t
    BY RuntimeAssumption, SeqOfSet
  <2>. HIDE DEF order
  <2>. QED  BY <2>1, ElementOfSeq, LenProperties
<1>2. StopAll \in Seq(Steps)
  BY StopFits DEF Fits, Managers
<1>3. StopAll = [i \in 1..(2 * n) |-> StopTrain(order[(i + 1) \div 2])[2 - (i % 2)]]
  BY DEF StopAll
<1>. HIDE DEF n, order
<1>4. \A t : StopTrain(t)[1] = Ask("position", "SPEED_CHANGE") /\ StopTrain(t)[2] = Stop(t)
  BY DEF StopTrain, Stop
<1>5. /\ Len(StopAll) = 2 * n
      /\ \A i \in 1..(2 * n) : StopAll[i] = StopTrain(order[(i + 1) \div 2])[2 - (i % 2)]
  <2>1. DOMAIN StopAll = 1..(2 * n)
    BY <1>3
  <2>2. DOMAIN StopAll = 1..Len(StopAll) /\ Len(StopAll) \in Nat
    BY <1>2, LenProperties
  <2>3. Len(StopAll) = 2 * n
    BY <1>1, <2>1, <2>2
  <2>. QED  BY <1>3, <2>3
<1>6. ASSUME NEW i \in 1..(2 * n)
      PROVE  \/ StopAll[i] = Ask("position", "SPEED_CHANGE")
             \/ \E t \in Trains : StopAll[i] = Stop(t)
  <2>1. (i + 1) \div 2 \in 1..n /\ 2 - (i % 2) \in {1, 2}
    BY <1>1
  <2>. DEFINE j == (i + 1) \div 2
              k == 2 - (i % 2)
  <2>2. j \in 1..n /\ k \in {1, 2} /\ StopAll[i] = StopTrain(order[j])[k]
    BY <2>1, <1>5
  <2>. HIDE DEF j, k
  <2>. QED  BY <2>2, <1>1, <1>4
<1>7. ASSUME NEW t \in Trains PROVE \E i \in 1..(2 * n) : StopAll[i] = Stop(t)
  <2>1. PICK j \in 1..n : order[j] = t
    BY <1>1
  <2>2. 2 * j \in 1..(2 * n) /\ (2 * j + 1) \div 2 = j /\ 2 - ((2 * j) % 2) = 2
    BY <1>1
  <2>. QED  BY <2>1, <2>2, <1>4, <1>5
<1>. QED  BY <1>2, <1>5, <1>6, <1>7

LEMMA HaltCalls ==
  ASSUME NEW op, NEW q \in ManagerCalls("demo", op), Halting(q)
  PROVE  /\ \A i \in 1..Len(q) : q[i] \in HaltSteps /\ (q[i].op = "RESET_STARTUP" => i = Len(q))
         /\ \A t \in Trains : \E i \in 1..Len(q) : q[i] = Stop(t)
<1>. DEFINE a == Ask("position", "RESET_ALL")
            b == Ask("track", "RESET_STARTUP")
            last == <<a, b>>
<1>1. op = "FORCE_STOP"
  <2>1. ASSUME op # "FORCE_STOP" PROVE FALSE
    <3>1. q \in ManagerCalls("game", op) \cup PositionCalls
      <4>. HIDE DEF PositionCalls, LogLine, GameStops, StopTrain
      <4>. QED  BY <2>1 DEF ManagerCalls
    <3>2. Fits("game", q) \/ Fits("quiet", q)
      <4>1. "quiet" \in Storers /\ Rank("quiet") > 0
        BY DEF Storers, Rank, Managers
      <4>2. \A p \in PositionCalls : Fits("quiet", p)
        BY <4>1, DriveFits
      <4>. HIDE DEF PositionCalls
      <4>. QED  BY <3>1, <4>2, ManagerFits DEF Managers
    <3>. QED  BY <3>2 DEF Halting, Fits, Fit
  <2>. QED  BY <2>1
<1>2. q = StopAll \o last
  BY <1>1 DEF ManagerCalls
<1>3. a \in HaltSteps /\ b \in HaltSteps /\ a.op = "RESET_ALL"
  BY DEF HaltSteps, Ask
<1>4. a \in Steps /\ b \in Steps
  BY DEF Steps, Requests, Ask, Tasks, Servers, CallOps
<1>. HIDE DEF a, b
<1>5. last \in Seq(Steps) /\ Len(last) = 2 /\ last[1] = a /\ last[2] = b
  BY <1>4
<1>. DEFINE m == Len(StopAll)
<1>6. /\ m \in Nat /\ Len(q) = m + 2
      /\ \A i \in 1..(m + 2) : q[i] = IF i <= m THEN StopAll[i] ELSE last[i - m]
  <2>. HIDE DEF last
  <2>1. StopAll \in Seq(Steps) /\ last \in Seq(Steps) /\ m \in Nat
    BY <1>5, StopAllSteps, LenProperties
  <2>2. /\ Len(StopAll \o last) = Len(StopAll) + Len(last)
        /\ \A i \in 1..(Len(StopAll) + Len(last)) :
             (StopAll \o last)[i] = IF i <= Len(StopAll) THEN StopAll[i] ELSE last[i - Len(StopAll)]
    BY <2>1, ConcatProperties
  <2>. QED  BY <1>2, <1>5, <2>1, <2>2
<1>. HIDE DEF last, m
<1>7. ASSUME NEW i \in 1..Len(q)
      PROVE  q[i] \in HaltSteps /\ (q[i].op = "RESET_STARTUP" => i = Len(q))
  <2>1. CASE i <= m
    <3>1. q[i] = StopAll[i] /\ i \in 1..m
      BY <1>6, <2>1
    <3>2. q[i] = Ask("position", "SPEED_CHANGE") \/ \E t \in Trains : q[i] = Stop(t)
      BY <3>1, StopAllSteps DEF m
    <3>3. q[i] \in HaltSteps
      BY <3>2 DEF HaltSteps
    <3>4. q[i].op # "RESET_STARTUP"
      <4>1. /\ Ask("position", "SPEED_CHANGE").op # "RESET_STARTUP"
            /\ \A t : Stop(t).op # "RESET_STARTUP"
        BY DEF Ask, Stop, SetSpeed
      <4>. QED  BY <3>2, <4>1
    <3>. QED  BY <3>3, <3>4
  <2>2. CASE i = m + 1
    <3>1. q[i] = a
      BY <1>5, <1>6, <2>2
    <3>. QED  BY <3>1, <1>3
  <2>3. CASE i = m + 2
    <3>1. q[i] = b
      BY <1>5, <1>6, <2>3
    <3>. QED  BY <3>1, <1>3, <1>6, <2>3
  <2>. QED  BY <1>6, <2>1, <2>2, <2>3
<1>8. ASSUME NEW t \in Trains PROVE \E i \in 1..Len(q) : q[i] = Stop(t)
  <2>1. PICK i \in 1..m : StopAll[i] = Stop(t)
    BY StopAllSteps DEF m
  <2>2. i \in 1..Len(q) /\ q[i] = StopAll[i]
    BY <1>6
  <2>. QED  BY <2>1, <2>2
<1>. QED  BY <1>7, <1>8

LEMMA AnswerHalted ==
  ASSUME Flow, Halts, NEW s \in Tasks, Answer(s)
  PROVE  Halts'
<1>1. /\ client[s] # Nobody /\ todo' = [todo EXCEPT ![client[s]] = <<>> \o Tail(@)]
      /\ asked' = asked
  BY DEF Answer, Then, track
<1>2. client[s] \in Tasks /\ Asks(client[s], s) /\ todo[client[s]] # <<>>
  BY <1>1 DEF Flow, Handlers, Clients, Asks
<1>3. CASE client[s] = "demo"
  <2>1. /\ "demo" \in Tasks /\ "position" \in Tasks /\ todo \in [Tasks -> Seq(Steps)]
    BY DEF Tasks, Servers, Managers, Flow, Handlers
  <2>2. todo["demo"] # <<>> /\ Head(todo["demo"]).to = s /\ todo["demo"] \in Seq(Steps)
    BY <1>2, <1>3, <2>1 DEF Asks
  <2>3. todo'["demo"] = Tail(todo["demo"]) /\ todo'["position"] = todo["position"]
    BY <1>1, <1>3, <2>1, <2>2, HeadTailProperties, ConcatEmptySeq
  <2>4. Halting(todo["demo"]) => \A t \in Trains : todo["demo"][1] # Stop(t)
    <3>1. Halting(todo["demo"]) => s = "position"
      BY <1>3, HaltAlone
    <3>2. Head(todo["demo"]) = todo["demo"][1]
      BY <2>2
    <3>. QED  BY <2>2, <3>1, <3>2 DEF Stop, SetSpeed
  <2>5. Halting(todo["demo"]) => todo["position"] = <<>>
    BY DEF Halts
  <2>6. DOMAIN asked' = Trains
    BY <1>1 DEF Halts
  <2>. QED  BY <1>1, <2>2, <2>3, <2>4, <2>5, <2>6, HaltGoesOn
<1>4. CASE client[s] # "demo"
  BY <1>1, <1>2, <1>4, OthersHalted
<1>. QED  BY <1>3, <1>4

LEMMA DrawingHalted ==
  ASSUME Flow, Halts, NEW t \in Tasks, Drawing(t)
  PROVE  Halts'
<1>1. /\ todo' = [todo EXCEPT ![t] = <<>> \o Tail(@)] /\ \E op : At(t, op)
      /\ asked' = asked
  BY DEF Drawing, Then, track
<1>2. todo[t] # <<>>
  BY <1>1 DEF At
<1>3. CASE t = "demo"
  <2>1. /\ "position" \in Tasks /\ todo \in [Tasks -> Seq(Steps)]
    BY DEF Tasks, Servers, Flow, Handlers
  <2>2. /\ todo["demo"] # <<>> /\ todo["demo"] \in Seq(Steps)
        /\ \E op : Effect(Head(todo["demo"]), op)
    BY <1>1, <1>3, <2>1 DEF At, Effect
  <2>3. todo'["demo"] = Tail(todo["demo"])
    BY <1>1, <1>3, <2>1, <2>2, HeadTailProperties, ConcatEmptySeq
  <2>4. ~Halting(todo["demo"])
    <3>1. Head(todo["demo"]) = todo["demo"][1] /\ 1 \in 1..Len(todo["demo"])
      BY <2>2, HaltTail
    <3>. QED  BY <2>2, <3>1, HaltKinds DEF Halts
  <2>5. DOMAIN asked' = Trains
    BY <1>1 DEF Halts
  <2>. QED  BY <2>2, <2>3, <2>4, <2>5, HaltGoesOn
<1>4. CASE t # "demo"
  BY <1>1, <1>2, <1>4, OthersHalted
<1>. QED  BY <1>3, <1>4

\* A turnout is thrown: if by the demo, then not in a forced stop.
LEMMA ThrowingHalted ==
  ASSUME Flow, Halts, NEW t \in Tasks, Throwing(t)
  PROVE  Halts'
<1>1. PICK x \in Turnouts, d \in Directions :
           \E q \in {<<>>, <<SetSwitch(x, d), UpdateSwitch(x, d)>>} :
             /\ Then(t, q) /\ At(t, "THROW") /\ todo[t] # <<>>
             /\ t \in Storers /\ Rank(t) > 0 /\ asked' = asked
  BY Throws DEF track
<1>2. PICK q \in {<<>>, <<SetSwitch(x, d), UpdateSwitch(x, d)>>} :
             /\ Then(t, q) /\ At(t, "THROW") /\ todo[t] # <<>>
             /\ t \in Storers /\ Rank(t) > 0 /\ asked' = asked
  BY <1>1
<1>3. CASE t # "demo"
  BY <1>2, <1>3, OthersHalted DEF Then
<1>4. CASE t = "demo"
  <2>. DEFINE r == todo["demo"]
  <2>1. "demo" \in Tasks /\ todo \in [Tasks -> Seq(Steps)]
    BY DEF Tasks, Servers, Managers, Flow, Handlers
  <2>2. r # <<>> /\ r \in Seq(Steps) /\ Effect(Head(r), "THROW") /\ todo'["demo"] = q \o Tail(r)
    BY <1>2, <1>4, <2>1 DEF At, Effect, Then
  <2>. HIDE DEF r
  <2>3. q \in Seq(Steps) /\ ~Halting(q)
    <3>1. "quiet" \in Storers /\ Rank("quiet") > 0
      BY DEF Storers, Rank, Managers
    <3>2. Fits("quiet", q)
      BY <3>1, DriveFits
    <3>. QED  BY <3>2 DEF Halting, Fits, Fit
  <2>4. ~Halting(r)
    <3>1. Head(r) = r[1] /\ 1 \in 1..Len(r)
      BY <2>2, HaltTail
    <3>. QED  BY <2>2, <3>1, HaltKinds DEF Halts, r
  <2>5. ~Halting(Tail(r))
    <3>1. \A i \in 1..Len(Tail(r)) : i + 1 \in 1..Len(r) /\ Tail(r)[i] = r[i + 1]
      BY <2>2, HaltTail
    <3>. QED  BY <2>4, <3>1 DEF Halting
  <2>6. ~Halting(q \o Tail(r))
    <3>1. Tail(r) \in Seq(Steps) /\ Len(q) \in Nat /\ Len(Tail(r)) \in Nat
      BY <2>2, <2>3, HeadTailProperties, LenProperties
    <3>2. /\ Len(q \o Tail(r)) = Len(q) + Len(Tail(r))
          /\ \A i \in 1..(Len(q) + Len(Tail(r))) :
               (q \o Tail(r))[i] = IF i <= Len(q) THEN q[i] ELSE Tail(r)[i - Len(q)]
      BY <2>3, <3>1, ConcatProperties
    <3>3. ASSUME NEW i \in 1..(Len(q) + Len(Tail(r)))
          PROVE  \/ i \in 1..Len(q) /\ (q \o Tail(r))[i] = q[i]
                 \/ i - Len(q) \in 1..Len(Tail(r)) /\ (q \o Tail(r))[i] = Tail(r)[i - Len(q)]
      BY <3>1, <3>2
    <3>. QED  BY <2>3, <2>5, <3>2, <3>3 DEF Halting
  <2>. QED  BY <1>2, <2>2, <2>6 DEF Halts
<1>. QED  BY <1>3, <1>4

LEMMA TrackHalted ==
  ASSUME Flow, Halts, NEW c \in Servers, Track(c)
  PROVE  Halts'
<1>1. Asks(c, "track") /\ todo' = [todo EXCEPT ![c] = <<>> \o Tail(@)]
  BY DEF Track, TrackSetSpeed, TrackSetSwitch, TrackUpdateSwitch, TrackStartReverse,
         TrackCompleteReverse, TrackReset, Served, Then
<1>2. "demo" \in Tasks /\ "position" \in Tasks /\ todo \in [Tasks -> Seq(Steps)]
  BY DEF Tasks, Servers, Managers, Flow, Handlers
<1>3. DOMAIN asked' = Trains
  BY DEF Track, TrackSetSpeed, TrackSetSwitch, TrackUpdateSwitch, TrackStartReverse,
         TrackCompleteReverse, TrackReset, Halts
<1>4. CASE c # "demo"
  <2>1. ~Halting(todo["demo"])
    BY <1>1, <1>4, HaltAlone
  <2>2. todo'["demo"] = todo["demo"]
    BY <1>1, <1>2, <1>4
  <2>. QED  BY <2>1, <2>2, <1>3 DEF Halts
<1>5. CASE c = "demo"
  <2>. DEFINE q == todo["demo"]
  <2>1. /\ q # <<>> /\ q \in Seq(Steps) /\ Head(q) = Request(c) /\ Head(q).to = "track"
        /\ Head(q) = q[1] /\ 1 \in 1..Len(q)
    BY <1>1, <1>2, <1>5, HaltTail DEF Asks, Request
  <2>2. todo'["demo"] = Tail(q) /\ todo'["position"] = todo["position"]
    BY <1>1, <1>2, <1>5, <2>1, HeadTailProperties, ConcatEmptySeq
  <2>. HIDE DEF q
  <2>3. ASSUME Halting(q), NEW t \in Trains, asked[t] = 0 \/ q[1] = Stop(t) PROVE asked'[t] = 0
    <3>1. q[1] \in HaltSteps
      BY <2>1, <2>3 DEF Halts, q
    <3>2. CASE TrackSetSpeed(c)
      <4>1. /\ asked' = [asked EXCEPT ![Request(c).train] = Request(c).speed]
            /\ Request(c).op = "SET_SPEED"
        BY <3>2 DEF TrackSetSpeed, Served
      <4>2. PICK u \in Trains : q[1] = Stop(u) /\ q[1].train = u /\ q[1].speed = 0
        BY <2>1, <3>1, <4>1, HaltKinds
      <4>3. asked' = [asked EXCEPT ![u] = 0]
        BY <2>1, <4>1, <4>2
      <4>4. CASE t = u
        BY <4>3, <4>4 DEF Halts
      <4>5. CASE t # u
        <5>1. Stop(t) # Stop(u)
          BY <4>5 DEF Stop, SetSpeed
        <5>. QED  BY <2>3, <4>2, <4>3, <4>5, <5>1
      <4>. QED  BY <4>3, <4>4, <4>5
    <3>3. CASE ~TrackSetSpeed(c)
      <4>1. Request(c).op # "SET_SPEED"
        BY <3>3 DEF Track, TrackSetSwitch, TrackUpdateSwitch, TrackStartReverse,
             TrackCompleteReverse, TrackReset, Served
      <4>2. asked[t] = 0
        BY <2>1, <2>3, <4>1, HaltKinds, <3>1
      <4>3. asked' = asked \/ asked' = [u \in Trains |-> IF u \in StartupTrains THEN 0 ELSE asked[u]]
        BY <3>3 DEF Track, TrackSetSwitch, TrackUpdateSwitch, TrackStartReverse,
             TrackCompleteReverse, TrackReset
      <4>. QED  BY <4>2, <4>3
    <3>. QED  BY <3>2, <3>3
  <2>4. Halting(q) => todo["position"] = <<>>
    BY DEF Halts, q
  <2>. QED  BY <2>1, <2>2, <2>3, <2>4, <1>3, HaltGoesOn DEF q
<1>. QED  BY <1>4, <1>5

LEMMA PositionHalted ==
  ASSUME Flow, Halts, NEW c \in Servers, PositionServe(c)
  PROVE  Halts'
<1>1. "demo" \in Tasks /\ "position" \in Tasks /\ todo \in [Tasks -> Seq(Steps)]
  BY DEF Tasks, Servers, Managers, Flow, Handlers
<1>2. PICK steps \in DriveSteps(Request(c).op) :
           todo' = [todo EXCEPT !["position"] = steps] /\ asked' = asked /\ Asks(c, "position")
  BY DEF PositionServe, Begin, track
<1>3. todo'["demo"] = todo["demo"] /\ todo'["position"] = steps
  BY <1>1, <1>2
<1>4. ASSUME Halting(todo["demo"]) PROVE steps = <<>>
  <2>1. c = "demo"
    BY <1>2, <1>4, HaltAlone
  <2>2. /\ todo["demo"] # <<>> /\ todo["demo"] \in Seq(Steps) /\ Request(c).to = "position"
        /\ Request(c) = todo["demo"][1] /\ 1 \in 1..Len(todo["demo"])
    BY <1>1, <1>2, <2>1, HaltTail DEF Asks, Request
  <2>3. Request(c).op \in {"SPEED_CHANGE", "RESET_ALL"}
    <3>1. Request(c) \in HaltSteps
      BY <1>4, <2>2 DEF Halts
    <3>. QED  BY <2>2, <3>1, HaltKinds
  <2>4. Request(c).op \notin Drives
    BY <2>3 DEF Drives
  <2>. QED  BY <1>2, <2>4 DEF DriveSteps
<1>. QED  BY <1>2, <1>3, <1>4 DEF Halts

LEMMA ManagerHalted ==
  ASSUME Flow, Halts, NEW s \in Managers, ManagerServe(s, "runtime")
  PROVE  Halts'
<1>1. /\ "demo" \in Tasks /\ "position" \in Tasks /\ "game" \in Tasks
      /\ todo \in [Tasks -> Seq(Steps)]
  BY DEF Tasks, Servers, Managers, Flow, Handlers
<1>2. PICK q \in ManagerCalls(s, Request("runtime").op) :
           todo' = [todo EXCEPT ![s] = q] /\ asked' = asked /\ Asks("runtime", s) /\ Idle(s)
  BY DEF ManagerServe, Begin, track
<1>3. CASE s = "game"
  BY <1>1, <1>2, <1>3, OthersHalted
<1>4. CASE s = "demo"
  <2>1. todo'["demo"] = q /\ todo'["position"] = todo["position"]
    BY <1>1, <1>2, <1>4
  <2>2. todo["position"] = <<>>
    <3>1. /\ \A r \in Tasks : client[r] # Nobody => Asks(client[r], r)
          /\ \A r \in {"position"} \cup Managers : todo[r] # <<>> => client[r] # Nobody
          /\ client["position"] \in Servers \cup {Nobody}
          /\ \A r \in Managers : client[r] \in {"runtime", Nobody}
          /\ todo["track"] = <<>> /\ todo["demo"] = <<>>
      BY <1>2, <1>4 DEF Flow, Clients, Handlers, Idle
    <3>2. /\ \A t, s1, s2 : Asks(t, s1) /\ Asks(t, s2) => s1 = s2
          /\ \A t, r : Asks(t, r) => todo[t] # <<>>
      BY DEF Asks
    <3>3. ~Asks("game", "position")
      BY <1>1, <1>2, <1>4, <3>1, <3>2 DEF Managers
    <3>4. ~Asks("position", "position")
      <4>1. Asks("position", "position") => Rank("position") < Rank("position")
        BY <1>1, Heads
      <4>. QED  BY <4>1, Ranks
    <3>5. \A a \in Servers : ~Asks(a, "position")
      BY <1>2, <1>4, <3>1, <3>2, <3>3, <3>4 DEF Servers, Managers
    <3>. QED  BY <1>1, <3>1, <3>5
  <2>3. Halting(q) =>
          /\ \A i \in 1..Len(q) : q[i] \in HaltSteps /\ (q[i].op = "RESET_STARTUP" => i = Len(q))
          /\ \A t \in Trains : \E i \in 1..Len(q) : q[i] = Stop(t)
    BY <1>4, HaltCalls
  <2>. QED  BY <1>2, <2>1, <2>2, <2>3 DEF Halts
<1>. QED  BY <1>3, <1>4 DEF Managers

\* The steps of the tasks that take no part in a forced stop.
LEMMA AsideHalted ==
  ASSUME Flow, Halts,
         \/ Runtime \/ TrackFrame \/ BoxFrame \/ SensorHit \/ ControlCommand \/ UITick
         \/ \E k \in TickTasks : Tick(k)
         \/ \E t \in Trains : DelayEnds(t)
         \/ \E c \in Commands : InputLine(c)
  PROVE  Halts'
<1>1. asked' = asked
  BY DEF Runtime, RuntimeCommand, RuntimeEvent, RuntimeRvRequest, RuntimeReversing,
         RuntimeReversed, RuntimeRetry, RuntimeRetried, RuntimeRefresh, RuntimeDeactivate,
         TrackFrame, BoxFrame, SensorHit, ControlCommand, UITick, Tick, DelayEnds, InputLine,
         Begin, track
<1>2. \/ todo' = todo
      \/ \E t \in Tasks \ {"demo", "position"} : \E q : todo' = [todo EXCEPT ![t] = q]
  <2>1. \A t \in {"runtime", "control", "ui_tick", "input"} : t \in Tasks \ {"demo", "position"}
    BY DEF Tasks, Servers, Managers
  <2>. QED  BY <2>1 DEF Runtime, RuntimeCommand, RuntimeEvent, RuntimeRvRequest, RuntimeReversing,
         RuntimeReversed, RuntimeRetry, RuntimeRetried, RuntimeRefresh, RuntimeDeactivate,
         TrackFrame, BoxFrame, SensorHit, ControlCommand, UITick, Tick, DelayEnds, InputLine,
         Begin, Then, NotifyRuntime, kernel
<1>. QED  BY <1>1, <1>2, OthersHalted

LEMMA HaltsInvariant == Spec => []Halts
<1>1. Init => Halts
  BY DEF Init, Halts, Halting, Tasks, Servers, Managers
<1>2. Flow /\ Halts /\ [Next]_vars => Halts'
  <2>. SUFFICES ASSUME Flow, Halts, [Next]_vars PROVE Halts'
    OBVIOUS
  <2>1. CASE UNCHANGED vars
    BY <2>1, StaysHalted DEF vars, kernel, track
  <2>2. ASSUME NEW t \in Tasks, Answer(t) \/ Drawing(t) \/ Throwing(t) PROVE Halts'
    BY <2>2, AnswerHalted, DrawingHalted, ThrowingHalted
  <2>3. ASSUME NEW c \in Servers, Track(c) \/ PositionServe(c) PROVE Halts'
    BY <2>3, TrackHalted, PositionHalted
  <2>4. ASSUME NEW s \in Managers, ManagerServe(s, "runtime") PROVE Halts'
    BY <2>4, ManagerHalted
  <2>. QED  BY <2>1, <2>2, <2>3, <2>4, AsideHalted DEF Next
<1>. QED  BY <1>1, <1>2, FlowInvariant, PTL DEF Spec

-----------------------------------------------------------------------------
(* The table of trains *)

Records == [entry : BOOLEAN, speed : Speeds, rv : BOOLEAN, prev : Speeds]
Table ==
  /\ trains \in [Trains -> Records] /\ asked \in [Trains -> Speeds]
  /\ \A t \in Trains : ~trains[t].entry => trains[t].speed = 0 /\ ~trains[t].rv

LEMMA NoteSpeedIs ==
  ASSUME NEW tr \in [Trains -> Records], NEW t \in Trains, NEW v \in Speeds
  PROVE  LET after == NoteSpeed(tr, t, v)
         IN  /\ after \in [Trains -> Records]
             /\ \A u \in Trains \ {t} : after[u] = tr[u]
             /\ after[t].rv = tr[t].rv
             /\ HasEntry(tr, t) => /\ after[t].entry /\ after[t].speed = v
                                   /\ after[t].prev = IF tr[t].rv THEN v ELSE tr[t].prev
             /\ ~HasEntry(tr, t) => after = tr /\ ~tr[t].entry
<1>. DEFINE p == IF tr[t].rv THEN v ELSE tr[t].prev
            a == [tr EXCEPT ![t].entry = TRUE]
            b == [a EXCEPT ![t].speed = v]
            n == [b EXCEPT ![t].prev = p]
<1>1. tr[t] \in Records /\ p \in Speeds
  BY DEF Records
<1>2. CASE ~HasEntry(tr, t)
  BY <1>2 DEF NoteSpeed, HasEntry
<1>3. CASE HasEntry(tr, t)
  <2>1. NoteSpeed(tr, t, v) = n
    BY <1>3 DEF NoteSpeed
  <2>. HIDE DEF p
  <2>2. /\ a \in [Trains -> Records] /\ \A u \in Trains \ {t} : a[u] = tr[u]
        /\ a[t].entry /\ a[t].rv = tr[t].rv
    BY <1>1 DEF Records
  <2>. HIDE DEF a
  <2>3. /\ b \in [Trains -> Records] /\ \A u \in Trains \ {t} : b[u] = tr[u]
        /\ b[t].entry /\ b[t].rv = tr[t].rv /\ b[t].speed = v
    BY <2>2 DEF Records
  <2>. HIDE DEF b
  <2>4. /\ n \in [Trains -> Records] /\ \A u \in Trains \ {t} : n[u] = tr[u]
        /\ n[t].entry /\ n[t].rv = tr[t].rv /\ n[t].speed = v /\ n[t].prev = p
    BY <1>1, <2>3 DEF Records
  <2>. HIDE DEF n
  <2>. QED  BY <1>3, <2>1, <2>4 DEF p
<1>. QED  BY <1>2, <1>3

LEMMA SetSpeedTable ==
  ASSUME Table, NEW c, TrackSetSpeed(c), NEW t \in Trains, NEW v \in Speeds,
         Request(c).train = t, Request(c).speed = v
  PROVE  /\ Table' /\ bus' = Append(bus, SpeedFrame(t, v)) /\ asked'[t] = v
         /\ \A u \in Trains \ {t} : trains'[u] = trains[u] /\ asked'[u] = asked[u]
         /\ trains'[t].rv = trains[t].rv /\ trains'[t].speed \in {0, v}
         /\ trains[t].rv => trains'[t].prev = v
<1>1. /\ bus' = Append(bus, SpeedFrame(t, v)) /\ trains' = NoteSpeed(trains, t, v)
      /\ asked' = [asked EXCEPT ![t] = v]
  BY DEF TrackSetSpeed
<1>2. LET after == NoteSpeed(trains, t, v)
      IN  /\ after \in [Trains -> Records]
          /\ \A u \in Trains \ {t} : after[u] = trains[u]
          /\ after[t].rv = trains[t].rv
          /\ HasEntry(trains, t) => /\ after[t].entry /\ after[t].speed = v
                                   /\ after[t].prev = IF trains[t].rv THEN v ELSE trains[t].prev
          /\ ~HasEntry(trains, t) => after = trains /\ ~trains[t].entry
  BY NoteSpeedIs DEF Table
<1>3. Table'
  <2>1. trains' \in [Trains -> Records] /\ asked' \in [Trains -> Speeds]
    BY <1>1, <1>2 DEF Table
  <2>2. ASSUME NEW u \in Trains, ~trains'[u].entry PROVE trains'[u].speed = 0 /\ ~trains'[u].rv
    <3>1. CASE u # t
      BY <1>1, <1>2, <2>2, <3>1 DEF Table
    <3>2. CASE u = t
      BY <1>1, <1>2, <2>2, <3>2 DEF Table
    <3>. QED  BY <3>1, <3>2
  <2>. QED  BY <2>1, <2>2 DEF Table
<1>. QED  BY <1>1, <1>2, <1>3 DEF Table

LEMMA StartReverseTable ==
  ASSUME Table, NEW c, TrackStartReverse(c), NEW t \in Trains, Request(c).train = t
  PROVE  /\ Table' /\ asked' = asked
         /\ \A u \in Trains \ {t} : trains'[u] = trains[u]
         /\ trains'[t].entry
         /\ \/ /\ reversed' # 1 /\ bus' = bus
               /\ trains'[t].speed = trains[t].speed /\ trains'[t].rv = trains[t].rv
               /\ trains'[t].prev = trains[t].prev
            \/ /\ reversed' = 1 /\ bus' = Append(bus, SpeedFrame(t, 0))
               /\ ~trains[t].rv /\ trains[t].speed # 0
               /\ trains'[t].speed = 0 /\ trains'[t].rv /\ trains'[t].prev = trains[t].speed
<1>. DEFINE tr == [trains EXCEPT ![t].entry = TRUE]
            kept == [tr EXCEPT ![t].prev = trains[t].speed]
            stopped == NoteSpeed(kept, t, 0)
<1>1. trains \in [Trains -> Records] /\ asked \in [Trains -> Speeds] /\ trains[t] \in Records
  BY DEF Table
<1>2. /\ tr \in [Trains -> Records] /\ \A u \in Trains \ {t} : tr[u] = trains[u]
      /\ tr[t].entry /\ tr[t].speed = trains[t].speed /\ tr[t].rv = trains[t].rv
      /\ tr[t].prev = trains[t].prev
  BY <1>1 DEF Records
<1>3. /\ kept \in [Trains -> Records] /\ \A u \in Trains \ {t} : kept[u] = trains[u]
      /\ kept[t].entry /\ kept[t].rv = trains[t].rv /\ kept[t].prev = trains[t].speed
  <2>. HIDE DEF tr
  <2>1. tr[t] \in Records /\ trains[t].speed \in Speeds
    BY <1>1, <1>2 DEF Records
  <2>. QED  BY <1>2, <2>1 DEF Records
<1>4. HasEntry(kept, t)
  <2>. HIDE DEF kept
  <2>. QED  BY <1>3 DEF HasEntry
<1>5. /\ stopped \in [Trains -> Records] /\ \A u \in Trains \ {t} : stopped[u] = trains[u]
      /\ stopped[t].entry /\ stopped[t].speed = 0 /\ stopped[t].rv = trains[t].rv
      /\ ~trains[t].rv => stopped[t].prev = trains[t].speed
  <2>. HIDE DEF kept
  <2>. QED  BY <1>3, <1>4, NoteSpeedIs, RuntimeAssumption
<1>6. /\ CASE trains[t].rv -> reversed' = 0 /\ trains' = tr /\ UNCHANGED bus
           [] ~trains[t].rv /\ trains[t].speed = 0 ->
                reversed' = 2 /\ trains' = tr /\ UNCHANGED bus
           [] OTHER -> /\ reversed' = 1 /\ bus' = Append(bus, SpeedFrame(t, 0))
                       /\ trains' = [stopped EXCEPT ![t].rv = TRUE]
      /\ asked' = asked
  BY DEF TrackStartReverse
<1>. HIDE DEF tr, stopped
<1>7. CASE trains[t].rv \/ trains[t].speed = 0
  BY <1>1, <1>2, <1>6, <1>7 DEF Table
<1>8. CASE ~(trains[t].rv \/ trains[t].speed = 0)
  <2>1. reversed' = 1 /\ bus' = Append(bus, SpeedFrame(t, 0)) /\ trains' = [stopped EXCEPT ![t].rv = TRUE]
    BY <1>6, <1>8
  <2>2. /\ trains' \in [Trains -> Records] /\ \A u \in Trains \ {t} : trains'[u] = stopped[u]
        /\ trains'[t].entry = stopped[t].entry /\ trains'[t].speed = stopped[t].speed
        /\ trains'[t].rv /\ trains'[t].prev = stopped[t].prev
    <3>1. stopped[t] \in Records
      BY <1>5
    <3>. QED  BY <1>5, <2>1, <3>1 DEF Records
  <2>. QED  BY <1>1, <1>5, <1>6, <1>8, <2>1, <2>2 DEF Table
<1>. QED  BY <1>7, <1>8

LEMMA CompleteReverseTable ==
  ASSUME Table, NEW c, TrackCompleteReverse(c), NEW t \in Trains, Request(c).train = t
  PROVE  /\ Table' /\ asked' = asked /\ ~trains'[t].rv
         /\ \A u \in Trains \ {t} : trains'[u] = trains[u]
         /\ \/ ~trains[t].rv /\ bus' = bus /\ trains' = trains
            \/ /\ trains[t].rv /\ bus' = Append(bus, SpeedFrame(t, trains[t].prev))
               /\ trains'[t].entry /\ trains'[t].speed = trains[t].prev
<1>. DEFINE back == [trains EXCEPT ![t].rv = FALSE]
            v == trains[t].prev
<1>1. trains \in [Trains -> Records] /\ asked \in [Trains -> Speeds] /\ trains[t] \in Records
      /\ v \in Speeds
  BY DEF Table, Records
<1>2. IF trains[t].rv
      THEN bus' = Append(bus, SpeedFrame(t, v)) /\ trains' = NoteSpeed(back, t, v)
      ELSE bus' = bus /\ trains' = trains
  BY DEF TrackCompleteReverse
<1>3. asked' = asked
  BY DEF TrackCompleteReverse
<1>4. /\ back \in [Trains -> Records] /\ \A u \in Trains \ {t} : back[u] = trains[u]
      /\ back[t].entry = trains[t].entry /\ ~back[t].rv
  BY <1>1 DEF Records
<1>. HIDE DEF back, v
<1>5. CASE ~trains[t].rv
  BY <1>1, <1>2, <1>3, <1>5 DEF Table
<1>6. CASE trains[t].rv
  <2>1. HasEntry(back, t)
    BY <1>4, <1>6 DEF HasEntry, Table
  <2>2. LET after == NoteSpeed(back, t, v)
        IN  /\ after \in [Trains -> Records]
            /\ \A u \in Trains \ {t} : after[u] = back[u]
            /\ after[t].rv = back[t].rv /\ after[t].entry /\ after[t].speed = v
    BY <1>1, <1>4, <2>1, NoteSpeedIs
  <2>. QED  BY <1>1, <1>2, <1>3, <1>4, <1>6, <2>2 DEF Table, v
<1>. QED  BY <1>5, <1>6

LEMMA ResetTable ==
  ASSUME Table, NEW c, TrackReset(c)
  PROVE  /\ Table'
         /\ \A t \in Trains : /\ trains'[t].speed = 0 /\ ~trains'[t].rv
                              /\ asked'[t] = IF t \in StartupTrains THEN 0 ELSE asked[t]
<1>1. /\ trains' = [t \in Trains |-> [entry |-> t \in StartupTrains, speed |-> 0, rv |-> FALSE,
                                      prev |-> 0]]
      /\ asked' = [t \in Trains |-> IF t \in StartupTrains THEN 0 ELSE asked[t]]
  BY DEF TrackReset, StartupEntries
<1>2. \A t \in Trains : [entry |-> t \in StartupTrains, speed |-> 0, rv |-> FALSE, prev |-> 0] \in Records
  BY RuntimeAssumption DEF Records
<1>3. \A t \in Trains : (IF t \in StartupTrains THEN 0 ELSE asked[t]) \in Speeds
  BY RuntimeAssumption DEF Table
<1>. QED  BY <1>1, <1>2, <1>3 DEF Table

-----------------------------------------------------------------------------
(* The reverses under way *)

RvRequest == Ask("runtime", "RV_REQUEST")
RvComplete(t) == [to |-> "runtime", op |-> "RV_COMPLETE", train |-> t]
Completes == {RvComplete(t) : t \in Trains}
Delayed == Ask("position", "REVERSE")

\* The handlers of the runtime that reverse a train, and their rests; any other does nothing
\* that belongs to a reverse.
Beginning(t) == <<StartReverse(t), Started(t), Do("REFRESH")>>
Begun(t) == <<Started(t), Do("REFRESH")>>
Completion(t) == <<CompleteReverse(t), Delayed, Do("RV_DONE")>>
Closing == {<<Delayed, Do("RV_DONE")>>, <<Do("RV_DONE")>>}
Plain(q) == \A i \in 1..Len(q) : ~Reverses(q[i])
Shape(q) ==
  Plain(q) \/ q \in Closing \/ \E t \in Trains : q \in {Beginning(t), Begun(t), Completion(t)}
Finishes(q) == q \in Closing \/ \E t \in Trains : q = Completion(t)

\* Where the reverse of a train is on its way.
Pending(t) ==
  \/ \E i \in 1..Len(rvQueue) : rvQueue[i] = t
  \/ BagIn(t, delaying) \/ BagIn(RvComplete(t), mail)
  \/ todo["runtime"] = Completion(t)
  \/ reversed = 1 /\ todo["runtime"] = Begun(t)

\* The runtime counts each reverse exactly once, wherever it is on its way, and a train that
\* waits to be reversed has one on its way.
Reversing ==
  /\ Shape(todo["runtime"])
  /\ rvQueue \in Seq(Trains) /\ rvPending \in Nat /\ DOMAIN delaying \subseteq Trains
  /\ Counted(delaying, Trains) /\ Counted(mail, Completes) /\ Counted(mail, {RvRequest})
  /\ Number(mail, {RvRequest}) = Len(rvQueue)
  /\ rvPending = Len(rvQueue) + Number(delaying, Trains) + Number(mail, Completes)
                   + IF Finishes(todo["runtime"]) THEN 1 ELSE 0
  /\ \A t \in Trains : trains[t].rv => Pending(t)

LEMMA ReverseKinds ==
  /\ \A t : /\ Reverses(StartReverse(t)) /\ Reverses(Started(t)) /\ Reverses(CompleteReverse(t))
            /\ Calls(StartReverse(t)) /\ StartReverse(t).to = "track"
            /\ StartReverse(t).op = "START_REVERSE" /\ StartReverse(t).train = t
            /\ Calls(CompleteReverse(t)) /\ CompleteReverse(t).to = "track"
            /\ CompleteReverse(t).op = "COMPLETE_REVERSE" /\ CompleteReverse(t).train = t
            /\ Effect(Started(t), "START_REVERSE_REPLY") /\ ~Calls(Started(t)) /\ Started(t).train = t
            /\ \A op : ~Effect(StartReverse(t), op) /\ ~Effect(CompleteReverse(t), op)
            /\ \A op : Effect(Started(t), op) => op = "START_REVERSE_REPLY"
  /\ Reverses(Do("RV_DONE")) /\ ~Calls(Do("RV_DONE"))
  /\ \A op : Effect(Do("RV_DONE"), op) => op = "RV_DONE"
  /\ ~Reverses(Do("REFRESH"))
  /\ Calls(Delayed) /\ Delayed.to = "position" /\ ~Reverses(Delayed) /\ \A op : ~Effect(Delayed, op)
BY DEF StartReverse, Started, CompleteReverse, Do, Delayed, Ask, Reverses, Calls, Effect

LEMMA Shapes ==
  /\ \A t : /\ ~Plain(Beginning(t)) /\ ~Plain(Begun(t)) /\ ~Plain(Completion(t))
            /\ Head(Beginning(t)) = StartReverse(t) /\ Tail(Beginning(t)) = Begun(t)
            /\ Head(Begun(t)) = Started(t) /\ Tail(Begun(t)) = <<Do("REFRESH")>>
            /\ Head(Completion(t)) = CompleteReverse(t)
            /\ Tail(Completion(t)) = <<Delayed, Do("RV_DONE")>>
  /\ \A q \in Closing : ~Plain(q)
  /\ Head(<<Delayed, Do("RV_DONE")>>) = Delayed
  /\ Tail(<<Delayed, Do("RV_DONE")>>) = <<Do("RV_DONE")>>
  /\ Head(<<Do("RV_DONE")>>) = Do("RV_DONE") /\ Tail(<<Do("RV_DONE")>>) = <<>>
  /\ Plain(<<>>) /\ Plain(<<Do("REFRESH")>>)
<1>1. ASSUME NEW a, NEW b, NEW c, Reverses(a) \/ Reverses(c)
      PROVE  /\ ~Plain(<<a, b, c>>) /\ Head(<<a, b, c>>) = a /\ Tail(<<a, b, c>>) = <<b, c>>
  <2>1. Len(<<a, b, c>>) = 3 /\ <<a, b, c>>[1] = a /\ <<a, b, c>>[3] = c /\ 1 \in 1..3 /\ 3 \in 1..3
    OBVIOUS
  <2>. QED  BY <1>1, <2>1 DEF Plain
<1>2. ASSUME NEW a, NEW b, Reverses(a) \/ Reverses(b)
      PROVE  /\ ~Plain(<<a, b>>) /\ Head(<<a, b>>) = a /\ Tail(<<a, b>>) = <<b>>
  <2>1. Len(<<a, b>>) = 2 /\ <<a, b>>[1] = a /\ <<a, b>>[2] = b /\ 1 \in 1..2 /\ 2 \in 1..2
    OBVIOUS
  <2>. QED  BY <1>2, <2>1 DEF Plain
<1>3. ASSUME NEW a
      PROVE  /\ Plain(<<a>>) <=> ~Reverses(a)
             /\ Head(<<a>>) = a /\ Tail(<<a>>) = <<>>
  <2>1. Len(<<a>>) = 1 /\ <<a>>[1] = a /\ 1 \in 1..1 /\ \A i \in 1..1 : i = 1
    OBVIOUS
  <2>. QED  BY <2>1 DEF Plain
<1>4. Plain(<<>>)
  BY DEF Plain
<1>. QED  BY <1>1, <1>2, <1>3, <1>4, ReverseKinds DEF Beginning, Begun, Completion, Closing

\* No two of the shapes are the same.
LEMMA Distinct ==
  /\ \A q : Plain(q) => ~Finishes(q) /\ \A t : q # Completion(t) /\ q # Begun(t)
  /\ \A t : ~Finishes(Beginning(t)) /\ ~Finishes(Begun(t))
  /\ \A t, u : /\ Beginning(t) # Completion(u) /\ Beginning(t) # Begun(u) /\ Begun(t) # Completion(u)
               /\ Begun(t) = Begun(u) => t = u
               /\ Completion(t) = Completion(u) => t = u
  /\ \A q \in Closing : \A t : q # Completion(t) /\ q # Begun(t)
<1>1. /\ \A t, u : StartReverse(t) # CompleteReverse(u)
      /\ \A t, u : StartReverse(t) # Started(u)
      /\ \A t, u : Started(t) # CompleteReverse(u)
      /\ \A t : StartReverse(t) # Delayed /\ CompleteReverse(t) # Delayed /\ Started(t) # Delayed
      /\ \A t : StartReverse(t) # Do("RV_DONE") /\ CompleteReverse(t) # Do("RV_DONE")
      /\ \A t : Started(t) # Do("RV_DONE")
      /\ \A t, u : Started(t) = Started(u) => t = u
      /\ \A t, u : CompleteReverse(t) = CompleteReverse(u) => t = u
  <2>1. \A t : /\ Calls(StartReverse(t)) /\ StartReverse(t).op = "START_REVERSE"
               /\ Calls(CompleteReverse(t)) /\ CompleteReverse(t).op = "COMPLETE_REVERSE"
               /\ ~Calls(Started(t)) /\ Effect(Started(t), "START_REVERSE_REPLY")
               /\ Started(t).train = t /\ CompleteReverse(t).train = t
    BY ReverseKinds
  <2>2. Calls(Delayed) /\ Delayed.op = "REVERSE"
    BY ReverseKinds DEF Delayed, Ask
  <2>3. ~Calls(Do("RV_DONE")) /\ ~Effect(Do("RV_DONE"), "START_REVERSE_REPLY")
    BY ReverseKinds
  <2>. QED  BY <2>1, <2>2, <2>3
<1>2. \A q \in Closing : Head(q) = Delayed \/ Head(q) = Do("RV_DONE")
  BY Shapes DEF Closing
<1>3. \A t : /\ Head(Beginning(t)) = StartReverse(t) /\ Head(Begun(t)) = Started(t)
             /\ Head(Completion(t)) = CompleteReverse(t)
  BY Shapes
<1>4. \A t : /\ Beginning(t) \notin Closing /\ Begun(t) \notin Closing
             /\ \A q \in Closing : q # Completion(t) /\ q # Begun(t)
  BY <1>1, <1>2, <1>3
<1>5. \A t, u : /\ Beginning(t) # Completion(u) /\ Beginning(t) # Begun(u) /\ Begun(t) # Completion(u)
                /\ Begun(t) = Begun(u) => t = u
                /\ Completion(t) = Completion(u) => t = u
  BY <1>1, <1>3
<1>6. ASSUME NEW q, Plain(q) PROVE ~Finishes(q) /\ \A t : q # Completion(t) /\ q # Begun(t)
  BY <1>6, Shapes DEF Finishes
<1>7. ASSUME NEW t PROVE ~Finishes(Beginning(t)) /\ ~Finishes(Begun(t))
  <2>1. \A u : Beginning(t) # Completion(u) /\ Begun(t) # Completion(u)
    BY <1>5
  <2>2. Beginning(t) \notin Closing /\ Begun(t) \notin Closing
    BY <1>4
  <2>. QED  BY <2>1, <2>2 DEF Finishes
<1>8. \A q \in Closing : \A t : q # Completion(t) /\ q # Begun(t)
  BY <1>4
<1>9. /\ \A q : Plain(q) => ~Finishes(q) /\ \A t : q # Completion(t) /\ q # Begun(t)
      /\ \A t : ~Finishes(Beginning(t)) /\ ~Finishes(Begun(t))
  BY <1>6, <1>7
<1>. QED  BY <1>5, <1>8, <1>9

LEMMA PlainParts ==
  /\ \A s, q : Fits(s, q) /\ s \in {"still", "position", "demo", "game"} => Plain(q)
  /\ \A q \in Seq(Steps) : Plain(q) /\ q # <<>> => Plain(Tail(q)) /\ ~Reverses(Head(q))
  /\ \A p, q \in Seq(Steps) : Plain(p) /\ Plain(q) => Plain(p \o q)
<1>1. ASSUME NEW s, NEW q, Fits(s, q), s \in {"still", "position", "demo", "game"} PROVE Plain(q)
  BY <1>1 DEF Fits, Fit, Plain
<1>2. ASSUME NEW q \in Seq(Steps), Plain(q), q # <<>> PROVE Plain(Tail(q)) /\ ~Reverses(Head(q))
  BY <1>2, HaltTail DEF Plain
<1>3. ASSUME NEW p \in Seq(Steps), NEW q \in Seq(Steps), Plain(p), Plain(q) PROVE Plain(p \o q)
  <2>1. /\ Len(p) \in Nat /\ Len(q) \in Nat /\ Len(p \o q) = Len(p) + Len(q)
        /\ \A i \in 1..(Len(p) + Len(q)) : (p \o q)[i] = IF i <= Len(p) THEN p[i] ELSE q[i - Len(p)]
    BY ConcatProperties, LenProperties
  <2>2. ASSUME NEW i \in 1..(Len(p) + Len(q)) PROVE ~Reverses((p \o q)[i])
    <3>1. CASE i <= Len(p)
      BY <1>3, <2>1, <3>1 DEF Plain
    <3>2. CASE ~(i <= Len(p))
      <4>1. i - Len(p) \in 1..Len(q) /\ (p \o q)[i] = q[i - Len(p)]
        BY <2>1, <3>2
      <4>. QED  BY <1>3, <4>1 DEF Plain
    <3>. QED  BY <3>1, <3>2
  <2>. QED  BY <2>1, <2>2 DEF Plain
<1>. QED  BY <1>1, <1>2, <1>3

\* The mail that has to do with reverses, counted.
Mailed ==
  /\ Counted(mail, Completes) /\ Counted(mail, {RvRequest})
SameMail ==
  /\ Mailed' /\ Number(mail', Completes) = Number(mail, Completes)
  /\ Number(mail', {RvRequest}) = Number(mail, {RvRequest})
  /\ \A t \in Trains : BagIn(RvComplete(t), mail) => BagIn(RvComplete(t), mail')

LEMMA MailKept ==
  ASSUME Mailed
  PROVE  /\ mail' = mail => SameMail
         /\ \A m : m \notin Completes /\ m # RvRequest =>
              /\ mail' = mail (+) SetToBag({m}) => SameMail
              /\ BagIn(m, mail) /\ mail' = mail (-) SetToBag({m}) => SameMail
<1>1. mail' = mail => SameMail
  BY DEF SameMail, Mailed
<1>2. ASSUME NEW m, m \notin Completes, m # RvRequest, mail' = mail (+) SetToBag({m})
      PROVE  SameMail
  <2>1. /\ Counted(mail', Completes) /\ Number(mail', Completes) = Number(mail, Completes) + 0
        /\ DOMAIN mail' = DOMAIN mail \cup {m}
    BY <1>2, NumberMore DEF Mailed
  <2>2. /\ Counted(mail', {RvRequest})
        /\ Number(mail', {RvRequest}) = Number(mail, {RvRequest}) + 0
    BY <1>2, NumberMore DEF Mailed
  <2>. QED  BY <2>1, <2>2, Numbers DEF Mailed, SameMail, BagIn, BagToSet
<1>3. ASSUME NEW m, m \notin Completes, m # RvRequest, BagIn(m, mail),
             mail' = mail (-) SetToBag({m})
      PROVE  SameMail
  <2>1. /\ Counted(mail', Completes) /\ Number(mail, Completes) = Number(mail', Completes) + 0
        /\ DOMAIN mail \ {m} \subseteq DOMAIN mail'
    BY <1>3, NumberLess DEF Mailed
  <2>2. /\ Counted(mail', {RvRequest})
        /\ Number(mail, {RvRequest}) = Number(mail', {RvRequest}) + 0
    BY <1>3, NumberLess DEF Mailed
  <2>3. Number(mail', Completes) \in Nat /\ Number(mail', {RvRequest}) \in Nat
    BY <2>1, <2>2, Numbers
  <2>4. \A t \in Trains : RvComplete(t) \in Completes
    BY DEF Completes
  <2>5. \A t \in Trains : BagIn(RvComplete(t), mail) => BagIn(RvComplete(t), mail')
    BY <1>3, <2>1, <2>4 DEF BagIn, BagToSet
  <2>. QED  BY <2>1, <2>2, <2>3, <2>5 DEF Mailed, SameMail
<1>. QED  BY <1>1, <1>2, <1>3

\* Steps that neither begin nor end a reverse, nor take it further.
LEMMA KeepsReversing ==
  ASSUME Reversing, SameMail, UNCHANGED <<rvQueue, rvPending, delaying>>,
         \/ todo'["runtime"] = todo["runtime"] /\ reversed' = reversed
         \/ Plain(todo["runtime"]) /\ Plain(todo'["runtime"]),
         \A t \in Trains : trains'[t].rv => trains[t].rv
  PROVE  Reversing'
<1>. DEFINE q == todo["runtime"]
            r == todo'["runtime"]
<1>1. Shape(r) /\ (Finishes(r) <=> Finishes(q))
  BY Distinct DEF Reversing, Shape
<1>2. ASSUME NEW t \in Trains, Pending(t) PROVE Pending(t)'
  <2>1. CASE r = q /\ reversed' = reversed
    BY <1>2, <2>1 DEF Pending, SameMail
  <2>2. CASE Plain(q) /\ Plain(r)
    <3>1. q # Completion(t) /\ q # Begun(t)
      BY <2>2, Distinct
    <3>. QED  BY <1>2, <3>1 DEF Pending, SameMail
  <2>. QED  BY <2>1, <2>2
<1>. HIDE DEF q, r
<1>3. /\ rvPending = Len(rvQueue) + Number(delaying, Trains) + Number(mail, Completes)
                       + IF Finishes(q) THEN 1 ELSE 0
      /\ q = todo["runtime"] /\ r = todo'["runtime"]
  BY DEF Reversing, q, r
<1>4. rvPending' = Len(rvQueue') + Number(delaying', Trains) + Number(mail', Completes)
                     + IF Finishes(r) THEN 1 ELSE 0
  BY <1>1, <1>3 DEF SameMail
<1>. QED  BY <1>1, <1>2, <1>3, <1>4 DEF Reversing, SameMail, Mailed

\* A step that is no part of a reverse tells that none of the handler is.
LEMMA PlainByHead ==
  ASSUME Flow, Reversing, todo["runtime"] # <<>>,
         ~Reverses(Head(todo["runtime"])), Head(todo["runtime"]) # Delayed
  PROVE  Plain(todo["runtime"])
<1>. DEFINE q == todo["runtime"]
<1>1. Shape(q) /\ ~Reverses(Head(q)) /\ Head(q) # Delayed
  BY DEF Reversing
<1>. HIDE DEF q
<1>2. Plain(q)
  BY <1>1, Shapes, ReverseKinds DEF Shape, Closing
<1>. QED  BY <1>2 DEF q

\* A task goes on, some steps put in: if the runtime, then in a handler that is no part of a
\* reverse.
LEMMA StepsAside ==
  ASSUME Flow, reversed' = reversed,
         NEW c \in Tasks, NEW steps, Then(c, steps), todo[c] # <<>>,
         c = "runtime" => steps \in Seq(Steps) /\ Plain(steps) /\ Plain(todo["runtime"])
  PROVE  \/ todo'["runtime"] = todo["runtime"] /\ reversed' = reversed
         \/ Plain(todo["runtime"]) /\ Plain(todo'["runtime"])
<1>1. CASE c = "runtime"
  <2>. DEFINE q == todo["runtime"]
  <2>1. q \in Seq(Steps) /\ todo \in [Tasks -> Seq(Steps)] /\ "runtime" \in Tasks /\ q # <<>>
    BY <1>1, RuntimeHead
  <2>2. todo'["runtime"] = steps \o Tail(q) /\ Tail(q) \in Seq(Steps)
    BY <1>1, <2>1, HeadTailProperties DEF Then
  <2>3. Plain(q)
    BY <1>1
  <2>. HIDE DEF q
  <2>. QED  BY <1>1, <2>1, <2>2, <2>3, PlainParts
<1>2. CASE c # "runtime"
  BY <1>2, RuntimeHead DEF Then
<1>. QED  BY <1>1, <1>2

\* What the next step of the runtime says of the rest of its handler.
LEMMA ReverseHeads ==
  ASSUME Flow, Reversing, todo["runtime"] # <<>>
  PROVE  LET q == todo["runtime"]
             e == Head(q)
         IN  /\ Calls(e) /\ e.op = "START_REVERSE" =>
                  \E t \in Trains : q = Beginning(t) /\ e = StartReverse(t)
             /\ Calls(e) /\ e.op = "COMPLETE_REVERSE" =>
                  \E t \in Trains : q = Completion(t) /\ e = CompleteReverse(t)
             /\ Effect(e, "START_REVERSE_REPLY") =>
                  \E t \in Trains : q = Begun(t) /\ e = Started(t)
             /\ Effect(e, "RV_DONE") => q = <<Do("RV_DONE")>>
             /\ e = Delayed => Plain(q) \/ q = <<Delayed, Do("RV_DONE")>>
             /\ Calls(e) /\ Reverses(e) => e.to = "track"
<1>. DEFINE q == todo["runtime"]
            e == Head(q)
<1>1. q \in Seq(Steps) /\ q # <<>> /\ Shape(q)
  BY RuntimeHead DEF Reversing
<1>. HIDE DEF q
<1>2. Plain(q) => ~Reverses(e)
  BY <1>1, PlainParts
<1>3. Reverses(e) <=> \/ Calls(e) /\ e.op \in {"START_REVERSE", "COMPLETE_REVERSE"}
                      \/ Effect(e, "START_REVERSE_REPLY") \/ Effect(e, "RV_DONE")
  BY DEF Reverses
<1>. HIDE DEF e
<1>4. CASE Plain(q)
  <2>1. ~Reverses(e)
    BY <1>2, <1>4
  <2>. QED  BY <1>3, <1>4, <2>1 DEF q, e
<1>5. ASSUME NEW t \in Trains, q = Beginning(t) PROVE e = StartReverse(t)
  BY <1>5, Shapes DEF e
<1>6. ASSUME NEW t \in Trains, q = Begun(t) PROVE e = Started(t)
  BY <1>6, Shapes DEF e
<1>7. ASSUME NEW t \in Trains, q = Completion(t) PROVE e = CompleteReverse(t)
  BY <1>7, Shapes DEF e
<1>8. q \in Closing => \/ q = <<Delayed, Do("RV_DONE")>> /\ e = Delayed
                       \/ q = <<Do("RV_DONE")>> /\ e = Do("RV_DONE")
  BY Shapes DEF e, Closing
<1>9. \/ \E t \in Trains : q = Beginning(t) /\ e = StartReverse(t)
      \/ \E t \in Trains : q = Begun(t) /\ e = Started(t)
      \/ \E t \in Trains : q = Completion(t) /\ e = CompleteReverse(t)
      \/ q = <<Delayed, Do("RV_DONE")>> /\ e = Delayed
      \/ q = <<Do("RV_DONE")>> /\ e = Do("RV_DONE")
      \/ Plain(q)
  BY <1>1, <1>5, <1>6, <1>7, <1>8 DEF Shape
<1>10. Delayed.op = "REVERSE"
  BY DEF Delayed, Ask
<1>. QED  BY <1>4, <1>9, <1>10, ReverseKinds DEF q, e

LEMMA AnswerReversing ==
  ASSUME Flow, Reversing, NEW s \in Tasks, Answer(s)
  PROVE  Reversing'
<1>1. /\ client[s] # Nobody /\ Then(client[s], <<>>)
      /\ UNCHANGED <<mail, trains, reversed, rvQueue, rvPending, delaying>>
  BY DEF Answer, track, rv
<1>2. client[s] \in Tasks /\ Asks(client[s], s)
  BY <1>1 DEF Flow, Handlers, Clients
<1>3. SameMail
  BY <1>1, MailKept DEF Reversing, Mailed
<1>4. CASE client[s] = "runtime" /\ Head(todo["runtime"]) = Delayed /\ ~Plain(todo["runtime"])
  <2>1. todo["runtime"] = <<Delayed, Do("RV_DONE")>>
    BY <1>2, <1>4, ReverseHeads DEF Asks
  <2>2. todo'["runtime"] = <<Do("RV_DONE")>>
    BY <1>1, <1>4, <2>1, RuntimeHead, Shapes DEF Then
  <2>3. Shape(todo'["runtime"]) /\ Finishes(todo["runtime"]) /\ Finishes(todo'["runtime"])
    BY <2>1, <2>2 DEF Shape, Finishes, Closing
  <2>4. ASSUME NEW t \in Trains, Pending(t) PROVE Pending(t)'
    <3>1. todo["runtime"] # Completion(t) /\ todo["runtime"] # Begun(t)
      BY <2>1, Distinct DEF Closing
    <3>. QED  BY <1>1, <2>4, <3>1 DEF Pending
  <2>. QED  BY <1>1, <2>3, <2>4 DEF Reversing
<1>5. CASE ~(client[s] = "runtime" /\ Head(todo["runtime"]) = Delayed /\ ~Plain(todo["runtime"]))
  <2>1. todo[client[s]] # <<>>
    BY <1>2 DEF Asks
  <2>2. <<>> \in Seq(Steps) /\ Plain(<<>>)
    BY DEF Plain
  <2>3. ASSUME client[s] = "runtime" PROVE Plain(todo["runtime"])
    <3>1. Asks("runtime", s) /\ todo["runtime"] # <<>>
      BY <1>2, <2>1, <2>3
    <3>2. Calls(Head(todo["runtime"])) /\ Head(todo["runtime"]).to = s
      BY <3>1 DEF Asks, Calls
    <3>3. s # "track"
      BY <1>1 DEF Flow, Handlers
    <3>4. ~Reverses(Head(todo["runtime"]))
      BY <3>1, <3>2, <3>3, ReverseHeads
    <3>. QED  BY <1>5, <2>3, <3>1, <3>4, PlainByHead
  <2>4. \/ todo'["runtime"] = todo["runtime"] /\ reversed' = reversed
        \/ Plain(todo["runtime"]) /\ Plain(todo'["runtime"])
    BY <1>1, <1>2, <2>1, <2>2, <2>3, StepsAside
  <2>. QED  BY <1>1, <1>3, <2>4, KeepsReversing
<1>. QED  BY <1>4, <1>5

LEMMA DrawingReversing ==
  ASSUME Flow, Reversing, NEW t \in Tasks, Drawing(t)
  PROVE  Reversing'
<1>1. /\ Then(t, <<>>) /\ UNCHANGED <<mail, trains, reversed, rvQueue, rvPending, delaying>>
  BY DEF Drawing, track, rv
<1>2. SameMail
  BY <1>1, MailKept DEF Reversing, Mailed
<1>3. \E op \in {"ACQUIRE", "DRAW"} : At(t, op)
  BY DEF Drawing
<1>4. todo[t] # <<>>
  BY <1>3 DEF At
<1>5. ~Reverses(Head(todo[t])) /\ Head(todo[t]) # Delayed
  <2>1. Head(todo[t]) \in Steps
    BY <1>4, FitsTail DEF Flow, Handlers
  <2>2. \E op \in {"ACQUIRE", "DRAW"} : Effect(Head(todo[t]), op)
    BY <1>3 DEF At, Effect
  <2>3. ~Calls(Head(todo[t]))
    BY <2>1, <2>2, Kinds DEF Steps
  <2>. QED  BY <2>2, <2>3, ReverseKinds DEF Reverses, Effect
<1>6. <<>> \in Seq(Steps) /\ Plain(<<>>)
  BY DEF Plain
<1>7. \/ todo'["runtime"] = todo["runtime"] /\ reversed' = reversed
      \/ Plain(todo["runtime"]) /\ Plain(todo'["runtime"])
  BY <1>1, <1>4, <1>5, <1>6, PlainByHead, StepsAside
<1>. QED  BY <1>1, <1>2, <1>7, KeepsReversing

LEMMA ThrowingReversing ==
  ASSUME Flow, Reversing, NEW t \in Tasks, Throwing(t)
  PROVE  Reversing'
<1>1. PICK x \in Turnouts, d \in Directions :
           \E q \in {<<>>, <<SetSwitch(x, d), UpdateSwitch(x, d)>>} :
             /\ Then(t, q) /\ At(t, "THROW") /\ todo[t] # <<>>
             /\ UNCHANGED <<mail, trains, reversed, rvQueue, rvPending, delaying>>
  BY Throws DEF track, rv
<1>2. PICK q \in {<<>>, <<SetSwitch(x, d), UpdateSwitch(x, d)>>} :
             /\ Then(t, q) /\ At(t, "THROW") /\ todo[t] # <<>>
             /\ UNCHANGED <<mail, trains, reversed, rvQueue, rvPending, delaying>>
  BY <1>1
<1>3. SameMail
  BY <1>2, MailKept DEF Reversing, Mailed
<1>4. ~Reverses(Head(todo[t])) /\ Head(todo[t]) # Delayed
  <2>1. Head(todo[t]) \in Steps
    BY <1>2, FitsTail DEF Flow, Handlers
  <2>2. Effect(Head(todo[t]), "THROW")
    BY <1>2 DEF At, Effect
  <2>3. ~Calls(Head(todo[t]))
    BY <2>1, <2>2, Kinds DEF Steps
  <2>. QED  BY <2>2, <2>3, ReverseKinds DEF Reverses, Effect
<1>5. q \in Seq(Steps) /\ Plain(q)
  <2>1. "still" \in Storers /\ Rank("still") > 0
    BY DEF Storers, Rank, Managers
  <2>2. Fits("still", q)
    BY <2>1, DriveFits
  <2>. QED  BY <2>2, PlainParts DEF Fits
<1>6. \/ todo'["runtime"] = todo["runtime"] /\ reversed' = reversed
      \/ Plain(todo["runtime"]) /\ Plain(todo'["runtime"])
  BY <1>2, <1>4, <1>5, PlainByHead, StepsAside
<1>. QED  BY <1>2, <1>3, <1>6, KeepsReversing

\* The requests of a server that belong to no reverse.
LEMMA AsideReversing ==
  ASSUME Flow, Reversing, NEW c \in Servers, Asks(c, "track"), Then(c, <<>>),
         Request(c).op \notin {"START_REVERSE", "COMPLETE_REVERSE"},
         UNCHANGED <<mail, reversed, rvQueue, rvPending, delaying>>,
         \A t \in Trains : trains'[t].rv => trains[t].rv
  PROVE  Reversing'
<1>1. c \in Tasks /\ todo[c] # <<>> /\ Calls(Request(c)) /\ Request(c) \in Requests
      /\ Request(c).to = "track" /\ Request(c) = Head(todo[c])
  BY Ranks, Heads DEF Request
<1>2. c = "runtime" => ~Reverses(Head(todo[c])) /\ Head(todo[c]) # Delayed
  <2>1. ~Reverses(Request(c))
    BY <1>1, Kinds DEF Reverses
  <2>. QED  BY <1>1, <2>1, ReverseKinds
<1>3. <<>> \in Seq(Steps) /\ Plain(<<>>)
  BY DEF Plain
<1>4. \/ todo'["runtime"] = todo["runtime"] /\ reversed' = reversed
      \/ Plain(todo["runtime"]) /\ Plain(todo'["runtime"])
  BY <1>1, <1>2, <1>3, PlainByHead, StepsAside
<1>. QED  BY <1>4, MailKept, KeepsReversing DEF Reversing, Mailed

\* Who asks the track server to begin or to end a reverse.
LEMMA Reverser ==
  ASSUME Flow, Reversing, NEW c \in Servers, Asks(c, "track"),
         Request(c).op \in {"START_REVERSE", "COMPLETE_REVERSE"}
  PROVE  /\ c = "runtime"
         /\ \E t \in Trains :
              /\ Request(c).train = t
              /\ Request(c).op = "START_REVERSE" => todo["runtime"] = Beginning(t)
              /\ Request(c).op = "COMPLETE_REVERSE" => todo["runtime"] = Completion(t)
<1>1. c \in Tasks /\ todo[c] # <<>> /\ Calls(Request(c)) /\ Fit(c, Request(c))
      /\ Request(c) = Head(todo[c])
  BY Ranks, Heads DEF Request
<1>2. c = "runtime"
  <2>1. Reverses(Request(c))
    BY <1>1 DEF Reverses
  <2>. QED  BY <1>1, <2>1 DEF Fit, Servers, Managers
<1>. QED  BY <1>1, <1>2, ReverseHeads, ReverseKinds

LEMMA StartReversing ==
  ASSUME Flow, Table, Reversing, NEW c \in Servers, TrackStartReverse(c)
  PROVE  Reversing'
<1>1. /\ Asks(c, "track") /\ Request(c).op = "START_REVERSE" /\ Then(c, <<>>)
      /\ UNCHANGED <<mail, rvQueue, rvPending, delaying>>
  BY DEF TrackStartReverse, Served
<1>2. PICK t \in Trains : Request(c).train = t /\ todo["runtime"] = Beginning(t)
  BY <1>1, Reverser
<1>3. c = "runtime"
  BY <1>1, Reverser
<1>4. todo'["runtime"] = Begun(t)
  <2>1. todo'["runtime"] = <<>> \o Begun(t)
    BY <1>1, <1>2, <1>3, RuntimeHead, Shapes DEF Then
  <2>2. Begun(t) \in Seq({Started(t), Do("REFRESH")})
    BY DEF Begun
  <2>. QED  BY <2>1, <2>2, ConcatEmptySeq
<1>5. /\ \A u \in Trains \ {t} : trains'[u] = trains[u]
      /\ reversed' = 1 \/ trains'[t].rv = trains[t].rv
  BY <1>2, StartReverseTable
<1>6. ASSUME NEW u \in Trains, trains'[u].rv PROVE Pending(u)'
  <2>1. CASE u = t /\ reversed' = 1
    BY <1>4, <2>1 DEF Pending
  <2>2. CASE trains[u].rv
    <3>1. Pending(u)
      BY <2>2 DEF Reversing
    <3>2. todo["runtime"] # Completion(u) /\ todo["runtime"] # Begun(u)
      BY <1>2, Distinct
    <3>. QED  BY <1>1, <3>1, <3>2 DEF Pending
  <2>. QED  BY <1>5, <1>6, <2>1, <2>2
<1>7. Shape(todo'["runtime"]) /\ ~Finishes(todo'["runtime"]) /\ ~Finishes(todo["runtime"])
  BY <1>2, <1>4, Distinct DEF Shape
<1>. QED  BY <1>1, <1>6, <1>7 DEF Reversing

LEMMA CompleteReversing ==
  ASSUME Flow, Table, Reversing, NEW c \in Servers, TrackCompleteReverse(c)
  PROVE  Reversing'
<1>1. /\ Asks(c, "track") /\ Request(c).op = "COMPLETE_REVERSE" /\ Then(c, <<>>)
      /\ UNCHANGED <<mail, reversed, rvQueue, rvPending, delaying>>
  BY DEF TrackCompleteReverse, Served
<1>2. PICK t \in Trains : Request(c).train = t /\ todo["runtime"] = Completion(t)
  BY <1>1, Reverser
<1>3. c = "runtime"
  BY <1>1, Reverser
<1>. DEFINE r == <<Delayed, Do("RV_DONE")>>
<1>4. todo'["runtime"] = r
  <2>1. todo'["runtime"] = <<>> \o r
    BY <1>1, <1>2, <1>3, RuntimeHead, Shapes DEF Then
  <2>2. r \in Seq({Delayed, Do("RV_DONE")})
    OBVIOUS
  <2>. HIDE DEF r
  <2>. QED  BY <2>1, <2>2, ConcatEmptySeq
<1>5. r \in Closing
  BY DEF Closing
<1>. HIDE DEF r
<1>6. ASSUME NEW u \in Trains, trains'[u].rv PROVE Pending(u)'
  <2>1. u # t /\ trains[u].rv
    BY <1>2, <1>6, CompleteReverseTable
  <2>2. Pending(u)
    BY <2>1 DEF Reversing
  <2>3. todo["runtime"] # Completion(u) /\ todo["runtime"] # Begun(u)
    BY <1>2, <2>1, Distinct
  <2>. QED  BY <1>1, <2>2, <2>3 DEF Pending
<1>7. Shape(todo'["runtime"]) /\ Finishes(todo'["runtime"]) /\ Finishes(todo["runtime"])
  BY <1>2, <1>4, <1>5 DEF Shape, Finishes
<1>. QED  BY <1>1, <1>6, <1>7 DEF Reversing

LEMMA TrackReversing ==
  ASSUME Flow, Table, Reversing, NEW c \in Servers, Track(c)
  PROVE  Reversing' /\ Table'
<1>1. CASE TrackStartReverse(c)
  <2>1. Asks(c, "track") /\ Request(c).op = "START_REVERSE"
    BY <1>1 DEF TrackStartReverse, Served
  <2>2. PICK t \in Trains : Request(c).train = t
    BY <2>1, Reverser
  <2>. QED  BY <1>1, <2>2, StartReverseTable, StartReversing
<1>2. CASE TrackCompleteReverse(c)
  <2>1. Asks(c, "track") /\ Request(c).op = "COMPLETE_REVERSE"
    BY <1>2 DEF TrackCompleteReverse, Served
  <2>2. PICK t \in Trains : Request(c).train = t
    BY <2>1, Reverser
  <2>. QED  BY <1>2, <2>2, CompleteReverseTable, CompleteReversing
<1>3. CASE TrackSetSpeed(c)
  <2>1. /\ Asks(c, "track") /\ Request(c).op = "SET_SPEED" /\ Then(c, <<>>)
        /\ UNCHANGED <<mail, reversed, rvQueue, rvPending, delaying>>
    BY <1>3 DEF TrackSetSpeed, Served
  <2>2. Request(c).train \in Trains /\ Request(c).speed \in Speeds
    <3>1. Fit(c, Request(c)) /\ Calls(Request(c))
      BY <2>1, Ranks, Heads
    <3>. QED  BY <2>1, <3>1 DEF Fit
  <2>3. Table' /\ \A t \in Trains : trains'[t].rv = trains[t].rv
    BY <1>3, <2>2, SetSpeedTable
  <2>. QED  BY <2>1, <2>3, AsideReversing
<1>4. CASE TrackReset(c)
  <2>1. /\ Asks(c, "track") /\ Request(c).op = "RESET_STARTUP" /\ Then(c, <<>>)
        /\ UNCHANGED <<mail, reversed, rvQueue, rvPending, delaying>>
    BY <1>4 DEF TrackReset, Served
  <2>2. Table' /\ \A t \in Trains : ~trains'[t].rv
    BY <1>4, ResetTable
  <2>. QED  BY <2>1, <2>2, AsideReversing
<1>5. CASE TrackSetSwitch(c) \/ TrackUpdateSwitch(c)
  <2>1. /\ Asks(c, "track") /\ Request(c).op \in {"SET_SWITCH", "UPDATE_SWITCH"} /\ Then(c, <<>>)
        /\ UNCHANGED <<mail, reversed, rvQueue, rvPending, delaying, trains, asked>>
    BY <1>5 DEF TrackSetSwitch, TrackUpdateSwitch, Served
  <2>2. Table'
    BY <2>1 DEF Table
  <2>. QED  BY <2>1, <2>2, AsideReversing
<1>. QED  BY <1>1, <1>2, <1>3, <1>4, <1>5 DEF Track

\* A message more or less that belongs to no reverse.
LEMMA Trivia ==
  \A op : op # "RV_REQUEST" /\ op # "RV_COMPLETE" =>
    Ask("runtime", op) \notin Completes /\ Ask("runtime", op) # RvRequest
<1>1. \A op : Ask("runtime", op).op = op
  BY DEF Ask
<1>2. \A m \in Completes : m.op = "RV_COMPLETE"
  BY DEF Completes, RvComplete
<1>3. RvRequest.op = "RV_REQUEST"
  BY DEF RvRequest, Ask
<1>. QED  BY <1>1, <1>2, <1>3

LEMMA EventKinds ==
  ASSUME NEW m \in Mails
  PROVE  /\ m.op = "RV_REQUEST" => m = RvRequest
         /\ m.op = "RV_COMPLETE" => \E t \in Trains : m = RvComplete(t) /\ m.train = t
         /\ m.op # "RV_REQUEST" /\ m.op # "RV_COMPLETE" => m \notin Completes /\ m # RvRequest
<1>1. \A n \in Completes : n.op = "RV_COMPLETE"
  BY DEF Completes, RvComplete
<1>2. RvRequest.op = "RV_REQUEST"
  BY DEF RvRequest, Ask
<1>3. m.op = "RV_REQUEST" => m = RvRequest
  BY DEF Mails, RvRequest, Ask
<1>4. m.op = "RV_COMPLETE" => \E t \in Trains : m = RvComplete(t) /\ m.train = t
  BY DEF Mails, RvComplete
<1>. QED  BY <1>1, <1>2, <1>3, <1>4

\* The handlers of the other tasks.
LEMMA OthersReversing ==
  ASSUME Flow, Reversing,
         \/ TrackFrame \/ BoxFrame \/ SensorHit \/ ControlCommand \/ UITick
         \/ \E c \in Servers : PositionServe(c)
         \/ \E s \in Managers : ManagerServe(s, "runtime")
         \/ \E c \in Commands : InputLine(c)
  PROVE  Reversing'
<1>1. UNCHANGED <<trains, reversed, rvQueue, rvPending, delaying>>
  BY DEF TrackFrame, BoxFrame, SensorHit, ControlCommand, UITick, PositionServe, ManagerServe,
         InputLine, Begin, track, rv
<1>2. \/ todo' = todo
      \/ \E t \in Tasks \ {"runtime"} : \E q : todo' = [todo EXCEPT ![t] = q]
  <2>1. \A t \in Managers \cup {"control", "ui_tick", "input", "position"} : t \in Tasks \ {"runtime"}
    BY DEF Tasks, Servers, Managers
  <2>. QED  BY <2>1 DEF TrackFrame, BoxFrame, SensorHit, ControlCommand, UITick, ManagerServe,
            PositionServe, InputLine, Begin, NotifyRuntime, kernel
<1>3. todo'["runtime"] = todo["runtime"]
  BY <1>2, RuntimeHead
<1>4. \/ mail' = mail
      \/ \E op : op # "RV_REQUEST" /\ op # "RV_COMPLETE" /\ mail' = mail (+) SetToBag({Ask("runtime", op)})
  BY DEF TrackFrame, BoxFrame, SensorHit, ControlCommand, UITick, ManagerServe, PositionServe,
         InputLine, Begin, NotifyRuntime, kernel
<1>5. SameMail
  BY <1>4, Trivia, MailKept DEF Reversing, Mailed
<1>. QED  BY <1>1, <1>3, <1>5, KeepsReversing

LEMMA DelayReversing ==
  ASSUME Flow, Reversing, NEW t \in Trains, DelayEnds(t)
  PROVE  Reversing'
<1>1. /\ BagIn(t, delaying) /\ delaying' = delaying (-) SetToBag({t})
      /\ mail' = mail (+) SetToBag({RvComplete(t)})
      /\ UNCHANGED <<trains, reversed, rvQueue, rvPending>> /\ todo' = todo
  BY DEF DelayEnds, track, kernel, RvComplete
<1>2. RvComplete(t) \in Completes /\ RvComplete(t) # RvRequest
  BY DEF Completes, RvComplete, RvRequest, Ask
<1>3. /\ Counted(delaying', Trains) /\ DOMAIN delaying \ {t} \subseteq DOMAIN delaying'
      /\ DOMAIN delaying' \subseteq DOMAIN delaying
      /\ Number(delaying, Trains) = Number(delaying', Trains) + 1
  BY <1>1, NumberLess DEF Reversing
<1>4. /\ Counted(mail', Completes) /\ DOMAIN mail' = DOMAIN mail \cup {RvComplete(t)}
      /\ Number(mail', Completes) = Number(mail, Completes) + 1
  BY <1>1, <1>2, NumberMore DEF Reversing
<1>5. /\ Counted(mail', {RvRequest}) /\ Number(mail', {RvRequest}) = Number(mail, {RvRequest}) + 0
  BY <1>1, <1>2, NumberMore DEF Reversing
<1>6. ASSUME NEW u \in Trains, Pending(u) PROVE Pending(u)'
  BY <1>1, <1>3, <1>4, <1>6 DEF Pending, BagIn, BagToSet
<1>7. /\ Len(rvQueue) \in Nat /\ Number(delaying', Trains) \in Nat /\ Number(mail, Completes) \in Nat
      /\ Number(mail, {RvRequest}) \in Nat
  BY <1>3, Numbers DEF Reversing
<1>. DEFINE last == IF Finishes(todo["runtime"]) THEN 1 ELSE 0
<1>8. rvPending = Len(rvQueue) + Number(delaying, Trains) + Number(mail, Completes) + last
  BY DEF Reversing
<1>9. last \in Nat
  OBVIOUS
<1>10. last' = last
  BY <1>1
<1>. HIDE DEF last
<1>11. rvPending' = Len(rvQueue') + Number(delaying', Trains) + Number(mail', Completes) + last'
  BY <1>1, <1>3, <1>4, <1>7, <1>8, <1>9, <1>10
<1>12. Number(mail', {RvRequest}) = Len(rvQueue')
  BY <1>1, <1>5, <1>7 DEF Reversing
<1>. QED  BY <1>1, <1>3, <1>4, <1>5, <1>6, <1>11, <1>12 DEF Reversing, last

LEMMA CommandReversing ==
  ASSUME Flow, Reversing, RuntimeCommand
  PROVE  Reversing'
<1>. DEFINE c == Request("control").cmd
            last == <<Do("REFRESH")>>
<1>1. PICK steps \in CommandSteps(c) :
           /\ Idle("runtime") /\ Asks("control", "runtime")
           /\ Begin("runtime", "control", steps \o last)
  BY DEF RuntimeCommand
<1>2. c \in CommandLines
  <2>1. "control" \in Tasks
    BY DEF Tasks
  <2>2. Calls(Request("control")) /\ Fit("control", Request("control"))
    BY <1>1, <2>1, Heads
  <2>3. Request("control") \in [to : Tasks, op : CallOps, cmd : Commands]
    BY <2>2 DEF Fit
  <2>. QED  BY <2>3, RuntimeAssumption
<1>. HIDE DEF c
<1>3. UNCHANGED <<mail, trains, reversed, rvQueue, rvPending, delaying>>
  BY <1>1 DEF Begin, track, rv
<1>4. todo["runtime"] = <<>> /\ todo'["runtime"] = steps \o last
  BY <1>1, RuntimeHead DEF Idle, Begin
<1>5. last \in Seq(Steps) /\ Plain(last) /\ Plain(<<>>)
  BY DoFits, Shapes DEF Fits
<1>6. SameMail
  BY <1>3, MailKept DEF Reversing, Mailed
<1>7. CASE c.type # "RV" \/ prompt \/ steps = LogLine
  <2>1. Fits("still", steps)
    BY <1>2, <1>7, CommandFits, FitsFew DEF Acts, LogLine, Modes
  <2>2. Plain(steps) /\ steps \in Seq(Steps)
    BY <2>1, PlainParts DEF Fits
  <2>3. Plain(steps \o last)
    BY <1>5, <2>2, PlainParts
  <2>. HIDE DEF last
  <2>. QED  BY <1>3, <1>4, <1>5, <1>6, <2>3, KeepsReversing
<1>8. CASE c.type = "RV" /\ ~prompt /\ steps # LogLine
  <2>1. PICK t \in Trains : steps = <<StartReverse(t), Started(t)>>
    BY <1>2, <1>8 DEF CommandSteps, CommandLines
  <2>2. todo'["runtime"] = Beginning(t)
    <3>. DEFINE S == {StartReverse(t), Started(t), Do("REFRESH")}
    <3>1. steps \in Seq(S) /\ last \in Seq(S) /\ Beginning(t) \in Seq(S)
      BY <2>1 DEF Beginning
    <3>2. Len(steps) = 2 /\ Len(last) = 1 /\ Len(Beginning(t)) = 3
      BY <2>1 DEF Beginning
    <3>3. /\ Beginning(t)[1] = StartReverse(t) /\ Beginning(t)[2] = Started(t)
          /\ Beginning(t)[3] = Do("REFRESH") /\ steps[1] = StartReverse(t) /\ steps[2] = Started(t)
          /\ last[1] = Do("REFRESH")
      BY <2>1 DEF Beginning
    <3>. HIDE DEF S, last
    <3>4. /\ steps \o last \in Seq(S) /\ Len(steps \o last) = 3
          /\ (steps \o last)[1] = steps[1] /\ (steps \o last)[2] = steps[2]
          /\ (steps \o last)[3] = last[1]
      <4>1. /\ steps \o last \in Seq(S) /\ Len(steps \o last) = Len(steps) + Len(last)
            /\ \A i \in 1..(Len(steps) + Len(last)) :
                 (steps \o last)[i] = IF i <= Len(steps) THEN steps[i] ELSE last[i - Len(steps)]
        BY <3>1, ConcatProperties
      <4>. QED  BY <3>2, <4>1
    <3>5. \A i \in 1..3 : i = 1 \/ i = 2 \/ i = 3
      OBVIOUS
    <3>6. steps \o last = Beginning(t)
      BY <3>1, <3>2, <3>3, <3>4, <3>5, SeqEqual
    <3>. QED  BY <1>4, <3>6
  <2>3. Shape(todo'["runtime"]) /\ ~Finishes(todo'["runtime"]) /\ ~Finishes(todo["runtime"])
    BY <1>4, <1>5, <2>2, Distinct DEF Shape
  <2>4. ASSUME NEW u \in Trains, Pending(u) PROVE Pending(u)'
    <3>1. todo["runtime"] # Completion(u) /\ todo["runtime"] # Begun(u)
      BY <1>4, <1>5, Distinct
    <3>. QED  BY <1>3, <2>4, <3>1 DEF Pending
  <2>. QED  BY <1>3, <2>3, <2>4 DEF Reversing
<1>. QED  BY <1>7, <1>8

\* The handler of an event that is no part of a reverse.
LEMMA EventPlain ==
  ASSUME NEW m \in Mails, m.op # "RV_REQUEST", m.op # "RV_COMPLETE"
  PROVE  Plain(EventSteps(m))
<1>1. CASE m.op = "REPLAN"
  <2>. DEFINE a == Ask("position", "REPLAN_TICK")
              b == Do("REFRESH")
  <2>1. ~Reverses(a) /\ ~Reverses(b)
    BY DEF Ask, Do, Reverses, Calls, Effect
  <2>2. EventSteps(m) = <<a, b>>
    BY <1>1 DEF EventSteps
  <2>. HIDE DEF a, b
  <2>3. Len(<<a, b>>) = 2 /\ <<a, b>>[1] = a /\ <<a, b>>[2] = b /\ \A i \in 1..2 : i = 1 \/ i = 2
    OBVIOUS
  <2>. QED  BY <2>1, <2>2, <2>3 DEF Plain
<1>2. CASE m.op # "REPLAN"
  BY <1>2, EventFits, PlainParts DEF Acts
<1>. QED  BY <1>1, <1>2

\* A tick.
LEMMA TickReversing ==
  ASSUME Flow, Reversing, NEW k \in TickTasks, Tick(k)
  PROVE  Reversing'
<1>. DEFINE m == Ask("runtime", k)
<1>1. /\ Idle("runtime") /\ todo' = [todo EXCEPT !["runtime"] = EventSteps(m)]
      /\ UNCHANGED <<mail, trains, reversed, rvQueue, rvPending, delaying>>
  BY DEF Tick, track, rv
<1>2. m \in Mails /\ m.op # "RV_REQUEST" /\ m.op # "RV_COMPLETE"
  BY TickMails
<1>. HIDE DEF m
<1>3. todo["runtime"] = <<>> /\ todo'["runtime"] = EventSteps(m)
  BY <1>1, RuntimeHead DEF Idle
<1>4. Plain(<<>>) /\ Plain(EventSteps(m))
  BY <1>2, Shapes, EventPlain
<1>5. SameMail
  BY <1>1, MailKept DEF Reversing, Mailed
<1>. QED  BY <1>1, <1>3, <1>4, <1>5, KeepsReversing

LEMMA EventReversing ==
  ASSUME Flow, Reversing, RuntimeEvent
  PROVE  Reversing'
<1>1. PICK m \in BagToSet(mail) : /\ Idle("runtime") /\ m.op # "RV_REQUEST"
                                  /\ mail' = mail (-) SetToBag({m})
                                  /\ todo' = [todo EXCEPT !["runtime"] = EventSteps(m)]
                                  /\ UNCHANGED <<trains, reversed, rvQueue, rvPending, delaying>>
  BY DEF RuntimeEvent, track, rv
<1>2. m \in Mails /\ BagIn(m, mail)
  BY DEF Flow, BagIn
<1>3. todo["runtime"] = <<>> /\ todo'["runtime"] = EventSteps(m)
  BY <1>1, RuntimeHead DEF Idle
<1>4. Plain(<<>>)
  BY Shapes
<1>5. CASE m.op # "RV_COMPLETE"
  <2>1. SameMail
    BY <1>1, <1>2, <1>5, EventKinds, MailKept DEF Reversing, Mailed
  <2>2. Plain(EventSteps(m))
    BY <1>1, <1>2, <1>5, EventPlain
  <2>. QED  BY <1>1, <1>3, <1>4, <2>1, <2>2, KeepsReversing
<1>6. CASE m.op = "RV_COMPLETE"
  <2>1. PICK t \in Trains : m = RvComplete(t) /\ m.train = t
    BY <1>2, <1>6, EventKinds
  <2>2. todo'["runtime"] = Completion(t)
    BY <1>3, <1>6, <2>1 DEF EventSteps, Completion, Delayed
  <2>3. m \in Completes /\ m # RvRequest
    BY <2>1 DEF Completes, RvComplete, RvRequest, Ask
  <2>4. /\ Counted(mail', Completes) /\ DOMAIN mail \ {m} \subseteq DOMAIN mail'
        /\ Number(mail, Completes) = Number(mail', Completes) + 1
    BY <1>1, <1>2, <2>3, NumberLess DEF Reversing
  <2>5. Counted(mail', {RvRequest}) /\ Number(mail, {RvRequest}) = Number(mail', {RvRequest}) + 0
    BY <1>1, <1>2, <2>3, NumberLess DEF Reversing
  <2>6. /\ Len(rvQueue) \in Nat /\ Number(delaying, Trains) \in Nat
        /\ Number(mail', Completes) \in Nat /\ Number(mail', {RvRequest}) \in Nat
    BY <2>4, <2>5, Numbers DEF Reversing
  <2>7. Shape(todo'["runtime"]) /\ Finishes(todo'["runtime"]) /\ ~Finishes(todo["runtime"])
    BY <1>3, <1>4, <2>2, Distinct DEF Shape, Finishes
  <2>8. rvPending = Len(rvQueue) + Number(delaying, Trains) + Number(mail, Completes) + 0
    BY <2>7 DEF Reversing
  <2>9. rvPending' = Len(rvQueue') + Number(delaying', Trains) + Number(mail', Completes) + 1
    BY <1>1, <2>4, <2>6, <2>8
  <2>10. ASSUME NEW u \in Trains, Pending(u) PROVE Pending(u)'
    <3>1. todo["runtime"] # Completion(u) /\ todo["runtime"] # Begun(u)
      BY <1>3, <1>4, Distinct
    <3>2. u # t => RvComplete(u) # m
      BY <2>1 DEF RvComplete
    <3>3. BagIn(RvComplete(u), mail) /\ u # t => BagIn(RvComplete(u), mail')
      BY <2>4, <3>2 DEF BagIn, BagToSet
    <3>. QED  BY <1>1, <2>2, <2>10, <3>1, <3>3 DEF Pending
  <2>11. Number(mail', {RvRequest}) = Len(rvQueue')
    BY <1>1, <2>5, <2>6 DEF Reversing
  <2>. QED  BY <1>1, <2>4, <2>5, <2>7, <2>9, <2>10, <2>11 DEF Reversing
<1>. QED  BY <1>5, <1>6

LEMMA RequestReversing ==
  ASSUME Flow, Reversing, RuntimeRvRequest
  PROVE  Reversing'
<1>. DEFINE t == Head(rvQueue)
<1>1. /\ BagIn(RvRequest, mail) /\ mail' = mail (-) SetToBag({RvRequest})
      /\ rvQueue' = Tail(rvQueue) /\ delaying' = delaying (+) SetToBag({t})
      /\ UNCHANGED <<trains, reversed, rvPending>> /\ todo' = todo
  BY DEF RuntimeRvRequest, track, kernel, RvRequest
<1>2. RvRequest \notin Completes
  BY DEF Completes, RvComplete, RvRequest, Ask
<1>3. /\ Counted(mail', {RvRequest})
      /\ Number(mail, {RvRequest}) = Number(mail', {RvRequest}) + 1
      /\ DOMAIN mail \ {RvRequest} \subseteq DOMAIN mail'
  BY <1>1, NumberLess DEF Reversing
<1>4. Counted(mail', Completes) /\ Number(mail, Completes) = Number(mail', Completes) + 0
  BY <1>1, <1>2, NumberLess DEF Reversing
<1>5. /\ Number(mail, Completes) \in Nat /\ Number(mail', Completes) \in Nat
      /\ Number(mail', {RvRequest}) \in Nat /\ Number(delaying, Trains) \in Nat
  BY <1>3, <1>4, Numbers DEF Reversing
<1>6. rvQueue \in Seq(Trains) /\ Len(rvQueue) \in Nat /\ Len(rvQueue) # 0 /\ rvQueue # <<>>
  <2>1. rvQueue \in Seq(Trains) /\ Len(rvQueue) = Number(mail', {RvRequest}) + 1
    BY <1>3 DEF Reversing
  <2>. QED  BY <2>1, <1>5, EmptySeq
<1>7. /\ t \in Trains /\ t = rvQueue[1] /\ rvQueue' \in Seq(Trains)
      /\ Len(rvQueue') = Len(rvQueue) - 1
      /\ \A i \in 1..Len(rvQueue') : rvQueue'[i] = rvQueue[i + 1]
  BY <1>1, <1>6, HeadTailProperties
<1>. HIDE DEF t
<1>8. /\ Counted(delaying', Trains) /\ DOMAIN delaying' = DOMAIN delaying \cup {t}
      /\ Number(delaying', Trains) = Number(delaying, Trains) + 1
  BY <1>1, <1>7, NumberMore DEF Reversing
<1>9. ASSUME NEW u \in Trains, Pending(u) PROVE Pending(u)'
  <2>1. ASSUME NEW i \in 1..Len(rvQueue), rvQueue[i] = u
        PROVE  BagIn(u, delaying') \/ \E j \in 1..Len(rvQueue') : rvQueue'[j] = u
    <3>1. CASE i = 1
      BY <1>7, <1>8, <2>1, <3>1 DEF BagIn, BagToSet
    <3>2. CASE i # 1
      <4>1. i - 1 \in 1..Len(rvQueue') /\ rvQueue'[i - 1] = rvQueue[i]
        BY <1>6, <1>7, <3>2
      <4>. QED  BY <2>1, <4>1
    <3>. QED  BY <3>1, <3>2
  <2>2. BagIn(u, delaying) => BagIn(u, delaying')
    BY <1>8 DEF BagIn, BagToSet
  <2>3. RvComplete(u) # RvRequest
    BY DEF RvComplete, RvRequest, Ask
  <2>4. BagIn(RvComplete(u), mail) => BagIn(RvComplete(u), mail')
    BY <1>3, <2>3 DEF BagIn, BagToSet
  <2>. QED  BY <1>1, <1>9, <2>1, <2>2, <2>4 DEF Pending
<1>. DEFINE last == IF Finishes(todo["runtime"]) THEN 1 ELSE 0
<1>10. rvPending = Len(rvQueue) + Number(delaying, Trains) + Number(mail, Completes) + last
  BY DEF Reversing
<1>11. last \in Nat /\ last' = last
  BY <1>1
<1>. HIDE DEF last
<1>12. rvPending' = Len(rvQueue') + Number(delaying', Trains) + Number(mail', Completes) + last'
  BY <1>1, <1>4, <1>5, <1>6, <1>7, <1>8, <1>10, <1>11
<1>13. Number(mail', {RvRequest}) = Len(rvQueue')
  <2>1. Number(mail, {RvRequest}) = Len(rvQueue)
    BY DEF Reversing
  <2>. QED  BY <2>1, <1>3, <1>5, <1>6, <1>7
<1>14. DOMAIN delaying' \subseteq Trains
  BY <1>7, <1>8 DEF Reversing
<1>. QED  BY <1>1, <1>3, <1>4, <1>7, <1>8, <1>9, <1>12, <1>13, <1>14 DEF Reversing, last

\* The reply to the start of a reverse.
LEMMA ReplyReversing ==
  ASSUME Flow, Reversing, RuntimeReversing
  PROVE  Reversing'
<1>. DEFINE steps == IF reversed = 2 THEN <<Delayed>> ELSE <<>>
            q == todo["runtime"]
<1>1. /\ At("runtime", "START_REVERSE_REPLY") /\ Then("runtime", steps)
      /\ IF reversed = 1 THEN /\ rvQueue' = Append(rvQueue, Head(q).train)
                              /\ rvPending' = rvPending + 1
                              /\ mail' = mail (+) SetToBag({RvRequest})
         ELSE UNCHANGED <<rvQueue, rvPending, mail>>
      /\ UNCHANGED <<trains, delaying>>
  BY DEF RuntimeReversing, track, RvRequest, Delayed
<1>2. q # <<>> /\ Effect(Head(q), "START_REVERSE_REPLY")
  BY <1>1 DEF At, Effect
<1>3. PICK t \in Trains : q = Begun(t) /\ Head(q) = Started(t)
  BY <1>2, ReverseHeads
<1>4. Head(q).train = t
  BY <1>3, ReverseKinds
<1>5. Tail(q) = <<Do("REFRESH")>> /\ Plain(<<Do("REFRESH")>>) /\ <<Do("REFRESH")>> \in Seq(Steps)
  BY <1>3, Shapes, DoFits DEF Fits
<1>6. steps \in Seq(Steps) /\ Plain(steps)
  <2>1. <<Delayed>> \in Seq(Steps)
    <3>1. Fits("quiet", <<Delayed>>)
      BY QuietFew DEF Delayed
    <3>. QED  BY <3>1 DEF Fits
  <2>2. Len(<<Delayed>>) = 1 /\ <<Delayed>>[1] = Delayed /\ \A i \in 1..1 : i = 1
    OBVIOUS
  <2>3. Plain(<<Delayed>>)
    BY <2>2, ReverseKinds DEF Plain
  <2>. QED  BY <2>1, <2>3, Shapes
<1>. HIDE DEF steps
<1>7. todo'["runtime"] = steps \o <<Do("REFRESH")>>
  BY <1>1, <1>5, RuntimeHead DEF Then
<1>8. Plain(todo'["runtime"])
  BY <1>5, <1>6, <1>7, PlainParts
<1>9. /\ Shape(todo'["runtime"]) /\ ~Finishes(todo'["runtime"]) /\ ~Finishes(q)
  BY <1>3, <1>8, Distinct DEF Shape
<1>10. /\ Len(rvQueue) \in Nat /\ Number(delaying, Trains) \in Nat /\ Number(mail, Completes) \in Nat
       /\ rvPending = Len(rvQueue) + Number(delaying, Trains) + Number(mail, Completes) + 0
       /\ rvQueue \in Seq(Trains) /\ rvPending \in Nat
  BY <1>9, Numbers DEF Reversing
<1>11. CASE reversed = 1
  <2>1. /\ rvQueue' = Append(rvQueue, t) /\ rvPending' = rvPending + 1
        /\ mail' = mail (+) SetToBag({RvRequest})
    BY <1>1, <1>4, <1>11
  <2>2. RvRequest \notin Completes
    BY DEF Completes, RvComplete, RvRequest, Ask
  <2>3. /\ Counted(mail', {RvRequest}) /\ DOMAIN mail' = DOMAIN mail \cup {RvRequest}
        /\ Number(mail', {RvRequest}) = Number(mail, {RvRequest}) + 1
    BY <2>1, NumberMore DEF Reversing
  <2>4. Counted(mail', Completes) /\ Number(mail', Completes) = Number(mail, Completes) + 0
    BY <2>1, <2>2, NumberMore DEF Reversing
  <2>5. /\ rvQueue' \in Seq(Trains) /\ Len(rvQueue') = Len(rvQueue) + 1
        /\ \A i \in 1..Len(rvQueue) : rvQueue'[i] = rvQueue[i]
        /\ rvQueue'[Len(rvQueue) + 1] = t
    BY <1>10, <2>1, AppendProperties
  <2>6. ASSUME NEW u \in Trains, Pending(u) PROVE Pending(u)'
    <3>1. q # Completion(u) /\ (q = Begun(u) => u = t)
      BY <1>3, Distinct
    <3>2. \A i \in 1..Len(rvQueue) : i \in 1..Len(rvQueue')
      BY <1>10, <2>5
    <3>3. Len(rvQueue) + 1 \in 1..Len(rvQueue')
      BY <1>10, <2>5
    <3>4. BagIn(RvComplete(u), mail) => BagIn(RvComplete(u), mail')
      BY <2>3 DEF BagIn, BagToSet
    <3>. QED  BY <1>1, <2>5, <2>6, <3>1, <3>2, <3>3, <3>4 DEF Pending
  <2>7. /\ Number(mail', {RvRequest}) = Len(rvQueue') /\ rvPending' \in Nat
        /\ rvPending' = Len(rvQueue') + Number(delaying', Trains) + Number(mail', Completes) + 0
    <3>1. Number(mail, {RvRequest}) = Len(rvQueue)
      BY DEF Reversing
    <3>2. Number(delaying', Trains) = Number(delaying, Trains)
      BY <1>1
    <3>. QED  BY <1>10, <2>1, <2>3, <2>4, <2>5, <3>1, <3>2
  <2>. QED  BY <1>1, <1>9, <2>3, <2>4, <2>5, <2>6, <2>7 DEF Reversing
<1>12. CASE reversed # 1
  <2>1. UNCHANGED <<rvQueue, rvPending, mail>>
    BY <1>1, <1>12
  <2>2. ASSUME NEW u \in Trains, Pending(u) PROVE Pending(u)'
    <3>1. q # Completion(u)
      BY <1>3, Distinct
    <3>. QED  BY <1>1, <1>12, <2>1, <2>2, <3>1 DEF Pending
  <2>. QED  BY <1>1, <1>9, <2>1, <2>2 DEF Reversing
<1>. QED  BY <1>11, <1>12

LEMMA DoneReversing ==
  ASSUME Flow, Reversing, RuntimeReversed
  PROVE  Reversing'
<1>1. /\ At("runtime", "RV_DONE") /\ Then("runtime", <<>>)
      /\ rvPending' = IF rvPending > 0 THEN rvPending - 1 ELSE 0
      /\ UNCHANGED <<mail, trains, reversed, rvQueue, delaying>>
  BY DEF RuntimeReversed, track
<1>2. todo["runtime"] # <<>> /\ Effect(Head(todo["runtime"]), "RV_DONE")
  BY <1>1 DEF At, Effect
<1>3. todo["runtime"] = <<Do("RV_DONE")>>
  BY <1>2, ReverseHeads
<1>4. todo'["runtime"] = <<>>
  <2>1. todo'["runtime"] = <<>> \o <<>>
    BY <1>1, <1>3, Shapes, RuntimeHead DEF Then
  <2>. QED  BY <2>1, ConcatEmptySeq
<1>5. /\ Shape(todo'["runtime"]) /\ ~Finishes(todo'["runtime"]) /\ Finishes(todo["runtime"])
      /\ todo["runtime"] \in Closing
  BY <1>3, <1>4, Shapes, Distinct DEF Shape, Finishes, Closing
<1>6. /\ Len(rvQueue) \in Nat /\ Number(delaying, Trains) \in Nat /\ Number(mail, Completes) \in Nat
      /\ rvPending = Len(rvQueue) + Number(delaying, Trains) + Number(mail, Completes) + 1
  BY <1>5, Numbers DEF Reversing
<1>7. /\ rvPending' \in Nat
      /\ rvPending' = Len(rvQueue') + Number(delaying', Trains) + Number(mail', Completes) + 0
  BY <1>1, <1>6
<1>8. ASSUME NEW u \in Trains, Pending(u) PROVE Pending(u)'
  <2>1. todo["runtime"] # Completion(u) /\ todo["runtime"] # Begun(u)
    BY <1>5, Distinct
  <2>. QED  BY <1>1, <1>8, <2>1 DEF Pending
<1>. QED  BY <1>1, <1>5, <1>7, <1>8 DEF Reversing

\* The effects of the prompt.
LEMMA PromptReversing ==
  ASSUME Flow, Reversing,
         RuntimeRetry \/ RuntimeRetried \/ RuntimeRefresh \/ RuntimeDeactivate
  PROVE  Reversing'
<1>. DEFINE clear == <<Clear, Do("DEACTIVATE")>>
            Retries == {q \o <<Do("RETRIED")>> : q \in {<<>>} \cup PositionCalls}
<1>1. UNCHANGED <<mail, trains, reversed, rvQueue, rvPending, delaying>>
  BY DEF RuntimeRetry, RuntimeRetried, RuntimeRefresh, RuntimeDeactivate, track, rv
<1>2. PICK steps \in {<<>>, LogLine, clear} \cup Retries : Then("runtime", steps)
  <2>1. RuntimeRetry => \E steps \in Retries : Then("runtime", steps)
    <3>1. ASSUME RuntimeRetry
          PROVE  \E q \in {<<>>} \cup PositionCalls : Then("runtime", q \o <<Do("RETRIED")>>)
      <4>. HIDE DEF PositionCalls
      <4>. QED  BY <3>1 DEF RuntimeRetry
    <3>. HIDE DEF PositionCalls
    <3>. QED  BY <3>1
  <2>2. RuntimeRetried \/ RuntimeRefresh \/ RuntimeDeactivate =>
          \E steps \in {<<>>, LogLine, clear} : Then("runtime", steps)
    <3>. HIDE DEF Retries, LogLine
    <3>. QED  BY DEF RuntimeRetried, RuntimeRefresh, RuntimeDeactivate, Clear
  <2>. HIDE DEF Retries, clear
  <2>. QED  BY <2>1, <2>2
<1>3. \E op \in {"RETRY", "RETRIED", "REFRESH", "DEACTIVATE"} : At("runtime", op)
  BY DEF RuntimeRetry, RuntimeRetried, RuntimeRefresh, RuntimeDeactivate
<1>4. /\ todo["runtime"] # <<>>
      /\ \E op \in {"RETRY", "RETRIED", "REFRESH", "DEACTIVATE"} : Effect(Head(todo["runtime"]), op)
  BY <1>3 DEF At, Effect
<1>5. ~Reverses(Head(todo["runtime"])) /\ Head(todo["runtime"]) # Delayed
  <2>1. Head(todo["runtime"]) \in Steps
    BY <1>4, RuntimeHead, FitsTail DEF Flow, Handlers
  <2>2. ~Calls(Head(todo["runtime"]))
    BY <1>4, <2>1, Kinds DEF Steps
  <2>. QED  BY <1>4, <2>2, ReverseKinds DEF Reverses, Effect
<1>6. Plain(todo["runtime"])
  BY <1>4, <1>5, PlainByHead
<1>7. steps \in Seq(Steps) /\ Plain(steps)
  <2>1. Fits("still", <<>>) /\ Fits("still", LogLine)
    BY FitsFew DEF LogLine, Modes
  <2>2. clear \in Seq(Steps) /\ Plain(clear)
    <3>1. Fits("runtime", <<Clear>>)
      BY RuntimeAsks DEF CallOps, LimitedOps, Acts, Clear
    <3>2. Fits("runtime", clear)
      BY <3>1, DoFits, FitsPair
    <3>. DEFINE b == Do("DEACTIVATE")
    <3>3. ~Reverses(Clear) /\ ~Reverses(b)
      BY DEF Clear, Ask, Do, Reverses, Calls, Effect
    <3>. HIDE DEF b
    <3>4. Len(<<Clear, b>>) = 2 /\ <<Clear, b>>[1] = Clear /\ <<Clear, b>>[2] = b
          /\ \A i \in 1..2 : i = 1 \/ i = 2
      OBVIOUS
    <3>5. Plain(<<Clear, b>>)
      BY <3>3, <3>4 DEF Plain
    <3>. QED  BY <3>2, <3>5 DEF Fits, b
  <2>3. ASSUME NEW q \in {<<>>} \cup PositionCalls
        PROVE  LET r == q \o <<Do("RETRIED")>> IN r \in Seq(Steps) /\ Plain(r)
    <3>1. "still" \in Storers /\ Rank("still") > 0
      BY DEF Storers, Rank, Managers
    <3>2. Fits("still", q) /\ Fits("still", <<Do("RETRIED")>>)
      BY <3>1, DriveFits, DoFits
    <3>3. Fits("still", q \o <<Do("RETRIED")>>)
      BY <3>2, FitsConcat
    <3>. QED  BY <3>3, PlainParts DEF Fits
  <2>4. \A r \in Retries : r \in Seq(Steps) /\ Plain(r)
    <3>. HIDE DEF PositionCalls
    <3>. QED  BY <2>3
  <2>. HIDE DEF clear, Retries
  <2>. QED  BY <2>1, <2>2, <2>4, PlainParts DEF Fits
<1>8. \/ todo'["runtime"] = todo["runtime"] /\ reversed' = reversed
      \/ Plain(todo["runtime"]) /\ Plain(todo'["runtime"])
  <2>. HIDE DEF clear, Retries
  <2>. QED  BY <1>1, <1>2, <1>4, <1>6, <1>7, RuntimeHead, StepsAside
<1>9. SameMail
  BY <1>1, MailKept DEF Reversing, Mailed
<1>. QED  BY <1>1, <1>8, <1>9, KeepsReversing

LEMMA InitReversing == Init => Table /\ Reversing
<1>. SUFFICES ASSUME Init PROVE Table /\ Reversing
  OBVIOUS
<1>1. /\ trains = [t \in Trains |-> [entry |-> t \in StartupTrains, speed |-> 0, rv |-> FALSE,
                                     prev |-> 0]]
      /\ asked = [t \in Trains |-> 0]
      /\ todo["runtime"] = <<>> /\ mail = EmptyBag /\ delaying = EmptyBag
      /\ rvQueue = <<>> /\ rvPending = 0
  BY DEF Init, StartupEntries, Tasks, Servers
<1>2. \A t \in Trains : [entry |-> t \in StartupTrains, speed |-> 0, rv |-> FALSE, prev |-> 0] \in Records
  BY RuntimeAssumption DEF Records
<1>3. Table
  BY <1>1, <1>2, RuntimeAssumption DEF Table
<1>4. \A t \in Trains : ~trains[t].rv
  BY <1>1
<1>5. <<>> \in Seq(Trains) /\ Len(<<>>) = 0
  OBVIOUS
<1>6. Shape(<<>>) /\ ~Finishes(<<>>)
  BY Shapes, Distinct DEF Shape
<1>. QED  BY <1>1, <1>3, <1>4, <1>5, <1>6, NumberNone DEF Reversing

-----------------------------------------------------------------------------
(* The speeds asked for *)

\* What the frames to the box, the train, its entry and the speed last asked for it have to do
\* with each other: a train that waits to be reversed is stopped, or has been given a new
\* speed, and its entry keeps the speed asked for; any other gets the speed asked for.
Right(b, t, r, v, actual) ==
  /\ r.rv => /\ r.prev = v
             /\ Coming(b, Train(t), actual, 0) \/ Coming(b, Train(t), actual, v)
  /\ ~r.rv => Coming(b, Train(t), actual, v) /\ r.speed \in {0, v}

Speeding ==
  /\ "speed" \in DOMAIN layout /\ DOMAIN layout.speed = Trains
  /\ \A t \in Trains : Right(bus, t, trains[t], asked[t], layout.speed[t])

LEMMA StandsSpeeding ==
  ASSUME Speeding, UNCHANGED <<bus, trains, asked, layout>>
  PROVE  Speeding'
BY DEF Speeding

\* A frame for another train or a turnout, and the record of this one is kept.
LEMMA RightKept ==
  ASSUME NEW b, NEW k, Framed(b, k), NEW t, NEW r, NEW v, NEW actual,
         Right(b, t, r, v, actual), NEW f, ~For(f, Train(t))
  PROVE  Right(Append(b, f), t, r, v, actual)
BY ComingSent DEF Right

LEMMA SpeedFrames ==
  \A t, v : /\ \A u : For(SpeedFrame(t, v), Train(u)) <=> t = u
            /\ Says(SpeedFrame(t, v)) = v
<1>1. \A t, v : /\ SpeedFrame(t, v).frame = "SPEED" /\ SpeedFrame(t, v).train = t
                /\ SpeedFrame(t, v).speed = v
  BY DEF SpeedFrame
<1>. QED  BY <1>1, Frames

LEMMA SetSpeeding ==
  ASSUME Flow, Table, Stored, Speeding, NEW c \in Servers, TrackSetSpeed(c)
  PROVE  Speeding'
<1>1. Asks(c, "track") /\ Request(c).op = "SET_SPEED" /\ layout' = layout
  BY DEF TrackSetSpeed, Served, box
<1>2. PICK t \in Trains, v \in Speeds : Request(c).train = t /\ Request(c).speed = v
  <2>1. Fit(c, Request(c)) /\ Calls(Request(c))
    BY <1>1, Ranks, Heads
  <2>. QED  BY <1>1, <2>1 DEF Fit
<1>3. /\ bus' = Append(bus, SpeedFrame(t, v)) /\ asked'[t] = v
      /\ \A u \in Trains \ {t} : trains'[u] = trains[u] /\ asked'[u] = asked[u]
      /\ trains'[t].rv = trains[t].rv /\ trains'[t].speed \in {0, v}
      /\ trains[t].rv => trains'[t].prev = v
  BY <1>2, SetSpeedTable
<1>4. Framed(bus, {"SPEED", "SWITCH"})
  BY DEF Stored
<1>5. Right(bus', t, trains'[t], asked'[t], layout.speed[t])
  <2>1. Coming(bus', Train(t), layout.speed[t], v)
    BY <1>3, <1>4, SpeedFrames, ComingSent
  <2>. QED  BY <1>3, <2>1 DEF Right
<1>6. ASSUME NEW u \in Trains \ {t} PROVE Right(bus', u, trains'[u], asked'[u], layout.speed[u])
  <2>1. ~For(SpeedFrame(t, v), Train(u))
    BY SpeedFrames
  <2>2. Right(bus, u, trains[u], asked[u], layout.speed[u])
    BY DEF Speeding
  <2>. QED  BY <1>3, <1>4, <2>1, <2>2, RightKept
<1>. QED  BY <1>1, <1>5, <1>6 DEF Speeding

LEMMA StartSpeeding ==
  ASSUME Flow, Table, Stored, Reversing, Speeding, NEW c \in Servers, TrackStartReverse(c)
  PROVE  Speeding'
<1>1. Asks(c, "track") /\ Request(c).op = "START_REVERSE" /\ layout' = layout
  BY DEF TrackStartReverse, Served, box
<1>2. PICK t \in Trains : Request(c).train = t
  BY <1>1, Reverser
<1>3. /\ asked' = asked /\ \A u \in Trains \ {t} : trains'[u] = trains[u]
      /\ \/ /\ bus' = bus /\ trains'[t].speed = trains[t].speed /\ trains'[t].rv = trains[t].rv
            /\ trains'[t].prev = trains[t].prev
         \/ /\ bus' = Append(bus, SpeedFrame(t, 0)) /\ ~trains[t].rv /\ trains[t].speed # 0
            /\ trains'[t].rv /\ trains'[t].prev = trains[t].speed
  BY <1>2, StartReverseTable
<1>4. Framed(bus, {"SPEED", "SWITCH"}) /\ Right(bus, t, trains[t], asked[t], layout.speed[t])
  BY DEF Stored, Speeding
<1>5. Right(bus', t, trains'[t], asked'[t], layout.speed[t])
  <2>1. CASE /\ bus' = bus /\ trains'[t].speed = trains[t].speed /\ trains'[t].rv = trains[t].rv
             /\ trains'[t].prev = trains[t].prev
    BY <1>3, <1>4, <2>1 DEF Right
  <2>2. CASE /\ bus' = Append(bus, SpeedFrame(t, 0)) /\ ~trains[t].rv /\ trains[t].speed # 0
             /\ trains'[t].rv /\ trains'[t].prev = trains[t].speed
    <3>1. Coming(bus', Train(t), layout.speed[t], 0)
      BY <1>4, <2>2, SpeedFrames, ComingSent
    <3>. QED  BY <1>3, <1>4, <2>2, <3>1 DEF Right
  <2>. QED  BY <1>3, <2>1, <2>2
<1>6. ASSUME NEW u \in Trains \ {t} PROVE Right(bus', u, trains'[u], asked'[u], layout.speed[u])
  <2>1. ~For(SpeedFrame(t, 0), Train(u))
    BY SpeedFrames
  <2>2. Right(bus, u, trains[u], asked[u], layout.speed[u])
    BY DEF Speeding
  <2>. QED  BY <1>3, <1>4, <2>1, <2>2, RightKept
<1>. QED  BY <1>1, <1>5, <1>6 DEF Speeding

LEMMA CompleteSpeeding ==
  ASSUME Flow, Table, Stored, Reversing, Speeding, NEW c \in Servers, TrackCompleteReverse(c)
  PROVE  Speeding'
<1>1. Asks(c, "track") /\ Request(c).op = "COMPLETE_REVERSE" /\ layout' = layout
  BY DEF TrackCompleteReverse, Served, box
<1>2. PICK t \in Trains : Request(c).train = t
  BY <1>1, Reverser
<1>. DEFINE v == trains[t].prev
<1>3. /\ asked' = asked /\ ~trains'[t].rv /\ \A u \in Trains \ {t} : trains'[u] = trains[u]
      /\ \/ ~trains[t].rv /\ bus' = bus /\ trains' = trains
         \/ trains[t].rv /\ bus' = Append(bus, SpeedFrame(t, v)) /\ trains'[t].speed = v
  BY <1>2, CompleteReverseTable
<1>4. Framed(bus, {"SPEED", "SWITCH"}) /\ Right(bus, t, trains[t], asked[t], layout.speed[t])
  BY DEF Stored, Speeding
<1>5. Right(bus', t, trains'[t], asked'[t], layout.speed[t])
  <2>1. CASE ~trains[t].rv /\ bus' = bus /\ trains' = trains
    BY <1>3, <1>4, <2>1
  <2>2. CASE trains[t].rv /\ bus' = Append(bus, SpeedFrame(t, v)) /\ trains'[t].speed = v
    <3>1. v = asked[t]
      BY <1>4, <2>2 DEF Right
    <3>. HIDE DEF v
    <3>2. Coming(bus', Train(t), layout.speed[t], v)
      BY <1>4, <2>2, SpeedFrames, ComingSent
    <3>. QED  BY <1>3, <2>2, <3>1, <3>2 DEF Right
  <2>. QED  BY <1>3, <2>1, <2>2
<1>. HIDE DEF v
<1>6. ASSUME NEW u \in Trains \ {t} PROVE Right(bus', u, trains'[u], asked'[u], layout.speed[u])
  <2>1. ~For(SpeedFrame(t, v), Train(u))
    BY SpeedFrames
  <2>2. Right(bus, u, trains[u], asked[u], layout.speed[u])
    BY DEF Speeding
  <2>. QED  BY <1>3, <1>4, <2>1, <2>2, RightKept
<1>. QED  BY <1>1, <1>5, <1>6 DEF Speeding

\* The table is emptied only at the end of a forced stop of the demo, after every train has
\* been stopped: those that waited to be reversed are to stand still.
LEMMA ResetStopped ==
  ASSUME Flow, Halts, NEW c \in Servers, TrackReset(c)
  PROVE  \A t \in Trains : asked[t] = 0
<1>1. Asks(c, "track") /\ Request(c).op = "RESET_STARTUP"
  BY DEF TrackReset, Served
<1>2. c = "demo" /\ Calls(Request(c)) /\ Request(c) = Head(todo[c]) /\ todo[c] # <<>>
  BY <1>1, Ranks, Heads DEF Fit, Request, Asks
<1>3. todo["demo"] \in Seq(Steps)
  BY <1>2, Ranks DEF Flow, Handlers
<1>. DEFINE q == todo["demo"]
<1>4. q[1] = Request(c) /\ 1 \in 1..Len(q) /\ Len(q) \in Nat
  BY <1>2, <1>3, HaltTail
<1>5. Halting(q)
  BY <1>1, <1>2, <1>4 DEF Halting
<1>6. Len(q) = 1
  BY <1>1, <1>4, <1>5 DEF Halts
<1>7. \A t \in Trains : q[1] # Stop(t)
  <2>1. \A t : Stop(t).op = "SET_SPEED"
    BY DEF Stop, SetSpeed
  <2>. QED  BY <1>1, <1>4, <2>1
<1>8. \A i \in 1..Len(q) : i = 1
  BY <1>6
<1>. QED  BY <1>5, <1>7, <1>8 DEF Halts

LEMMA ResetSpeeding ==
  ASSUME Flow, Halts, Table, Stored, Speeding, NEW c \in Servers, TrackReset(c)
  PROVE  Speeding'
<1>1. bus' = bus \o StartupFrames /\ layout' = layout
  BY DEF TrackReset, Served, box
<1>2. /\ \A t \in Trains : trains'[t].speed = 0 /\ ~trains'[t].rv
      /\ \A t \in Trains : asked[t] = 0 /\ asked'[t] = 0
  BY ResetTable, ResetStopped
<1>3. Framed(bus, {"SPEED", "SWITCH"}) /\ Framed(StartupFrames, {"SPEED", "SWITCH"})
  BY StartupSets DEF Stored
<1>4. ASSUME NEW t \in Trains PROVE Right(bus', t, trains'[t], asked'[t], layout.speed[t])
  <2>1. Coming(bus, Train(t), layout.speed[t], 0)
    BY <1>2 DEF Speeding, Right
  <2>2. Coming(bus', Train(t), layout.speed[t], 0)
    <3>1. CASE t \in StartupTrains
      BY <1>1, <1>3, <3>1, StartupStops, ComingConcat DEF Coming
    <3>2. CASE t \notin StartupTrains
      BY <1>1, <1>3, <2>1, <3>2, StartupStops, ComingConcat
    <3>. QED  BY <3>1, <3>2
  <2>. QED  BY <1>2, <2>2 DEF Right
<1>. QED  BY <1>1, <1>4 DEF Speeding

LEMMA TrackSpeeding ==
  ASSUME Flow, Halts, Table, Stored, Reversing, Speeding, NEW c \in Servers, Track(c)
  PROVE  Speeding'
<1>1. CASE TrackSetSwitch(c) \/ TrackUpdateSwitch(c)
  <2>1. /\ UNCHANGED <<trains, asked, layout>>
        /\ bus' = bus \/ \E s, d : bus' = Append(bus, SwitchFrame(s, d))
    BY <1>1 DEF TrackSetSwitch, TrackUpdateSwitch, Served, box
  <2>2. ASSUME NEW s, NEW d, bus' = Append(bus, SwitchFrame(s, d)) PROVE Speeding'
    <3>1. SwitchFrame(s, d).frame = "SWITCH"
      BY DEF SwitchFrame
    <3>2. \A t : ~For(SwitchFrame(s, d), Train(t))
      BY <3>1, Frames
    <3>3. Framed(bus, {"SPEED", "SWITCH"})
      BY DEF Stored
    <3>4. \A t \in Trains : Right(bus', t, trains[t], asked[t], layout.speed[t])
      BY <2>2, <3>2, <3>3, RightKept DEF Speeding
    <3>. QED  BY <2>1, <3>4 DEF Speeding
  <2>. QED  BY <2>1, <2>2, StandsSpeeding
<1>. QED  BY <1>1, SetSpeeding, StartSpeeding, CompleteSpeeding, ResetSpeeding DEF Track

LEMMA BoxSpeeding ==
  ASSUME Stored, Speeding, BoxFrame
  PROVE  Speeding'
<1>. DEFINE f == Head(bus)
<1>1. /\ bus # <<>> /\ bus' = Tail(bus) /\ UNCHANGED <<trains, asked>>
      /\ IF f.frame = "SPEED" THEN layout' = [layout EXCEPT !.speed[f.train] = f.speed]
         ELSE layout' = [layout EXCEPT !.sw[f.sw] = f.dir]
  BY DEF BoxFrame
<1>2. /\ Framed(bus, {"SPEED", "SWITCH"})
      /\ "speed" \in DOMAIN layout /\ DOMAIN layout.speed = Trains
  BY DEF Stored, Speeding
<1>3. f.frame \in {"SPEED", "SWITCH"}
  BY <1>1, <1>2, FramesTail
<1>. HIDE DEF f
<1>4. /\ "speed" \in DOMAIN layout' /\ DOMAIN layout'.speed = Trains
      /\ \A t \in Trains : layout'.speed[t] = IF For(f, Train(t)) THEN Says(f) ELSE layout.speed[t]
  <2>1. CASE f.frame = "SPEED"
    <3>1. \A t : For(f, Train(t)) <=> f.train = t
      BY <2>1, Frames
    <3>2. Says(f) = f.speed
      BY <2>1, Frames
    <3>. QED  BY <1>1, <1>2, <2>1, <3>1, <3>2
  <2>2. CASE f.frame = "SWITCH"
    <3>1. \A t : ~For(f, Train(t))
      BY <2>2, Frames
    <3>. QED  BY <1>1, <1>2, <2>2, <3>1
  <2>. QED  BY <1>3, <2>1, <2>2
<1>5. ASSUME NEW t \in Trains PROVE Right(bus', t, trains'[t], asked'[t], layout'.speed[t])
  <2>1. \A v : Coming(bus, Train(t), layout.speed[t], v) =>
                 Coming(bus', Train(t), layout'.speed[t], v)
    BY <1>1, <1>2, <1>4, ComingExecuted DEF f
  <2>2. Right(bus, t, trains[t], asked[t], layout.speed[t])
    BY DEF Speeding
  <2>. QED  BY <1>1, <2>1, <2>2 DEF Right
<1>. QED  BY <1>4, <1>5 DEF Speeding

LEMMA InitSpeeding == Init => Speeding
<1>. SUFFICES ASSUME Init PROVE Speeding
  OBVIOUS
<1>1. /\ trains = [t \in Trains |-> [entry |-> t \in StartupTrains, speed |-> 0, rv |-> FALSE,
                                     prev |-> 0]]
      /\ asked = [t \in Trains |-> 0] /\ bus = <<>>
      /\ layout = [speed |-> [t \in Trains |-> 0], sw |-> switchState]
  BY DEF Init, StartupEntries
<1>2. \A t : Silent(<<>>, Train(t))
  BY DEF Silent
<1>3. "speed" \in DOMAIN layout /\ layout.speed = [t \in Trains |-> 0]
  BY <1>1
<1>. QED  BY <1>1, <1>2, <1>3 DEF Speeding, Right, Coming

\* The steps of the rest that touch no record of a train.
LEMMA RestSpeeding ==
  ASSUME Flow, Table, Reversing, Speeding,
         \/ \E t \in Tasks : Answer(t) \/ Drawing(t) \/ Throwing(t)
         \/ \E c \in Servers : PositionServe(c)
         \/ \E s \in Managers : ManagerServe(s, "runtime")
         \/ Runtime \/ TrackFrame \/ SensorHit \/ ControlCommand \/ UITick
         \/ \E k \in TickTasks : Tick(k)
         \/ \E t \in Trains : DelayEnds(t)
         \/ \E c \in Commands : InputLine(c)
  PROVE  Table' /\ Reversing' /\ Speeding'
<1>1. UNCHANGED <<trains, asked, bus>> /\ layout' = layout
  BY DEF Answer, Drawing, Throwing, PositionServe, ManagerServe, Runtime, RuntimeCommand,
         RuntimeEvent, RuntimeRvRequest, RuntimeReversing, RuntimeReversed, RuntimeRetry,
         RuntimeRetried, RuntimeRefresh, RuntimeDeactivate, TrackFrame, SensorHit, ControlCommand,
         UITick, Tick, DelayEnds, InputLine, Begin, track, box
<1>2. Table' /\ Speeding'
  BY <1>1, StandsSpeeding DEF Table
<1>3. Runtime => Reversing'
  BY CommandReversing, EventReversing, RequestReversing, ReplyReversing, DoneReversing,
     PromptReversing DEF Runtime
<1>. QED  BY <1>2, <1>3, AnswerReversing, DrawingReversing, ThrowingReversing, OthersReversing,
             TickReversing, DelayReversing

LEMMA SpeedingInvariant == Spec => [](Table /\ Reversing /\ Speeding)
<1>. DEFINE I == Table /\ Reversing /\ Speeding
<1>1. Flow /\ Stored /\ Halts /\ I /\ [Next]_vars => I'
  <2>. SUFFICES ASSUME Flow, Stored, Halts, I, [Next]_vars PROVE I'
    OBVIOUS
  <2>1. CASE UNCHANGED vars
    <3>1. UNCHANGED <<todo, mail, trains, asked, bus, layout, reversed, rvQueue, rvPending, delaying>>
      BY <2>1 DEF vars, kernel, track, box, rv
    <3>2. SameMail
      BY <3>1, MailKept DEF Reversing, Mailed
    <3>. QED  BY <3>1, <3>2, StandsSpeeding, KeepsReversing DEF Table
  <2>2. ASSUME NEW c \in Servers, Track(c) PROVE I'
    BY <2>2, TrackReversing, TrackSpeeding
  <2>3. CASE BoxFrame
    <3>1. UNCHANGED <<trains, asked>>
      BY <2>3 DEF BoxFrame
    <3>. QED  BY <2>3, <3>1, OthersReversing, BoxSpeeding DEF Table
  <2>. HIDE DEF I
  <2>4. \/ BoxFrame \/ \E c \in Servers : Track(c)
        \/ \E t \in Tasks : Answer(t) \/ Drawing(t) \/ Throwing(t)
        \/ \E c \in Servers : PositionServe(c)
        \/ \E s \in Managers : ManagerServe(s, "runtime")
        \/ Runtime \/ TrackFrame \/ SensorHit \/ ControlCommand \/ UITick
        \/ \E k \in TickTasks : Tick(k)
        \/ \E t \in Trains : DelayEnds(t)
        \/ \E c \in Commands : InputLine(c)
        \/ UNCHANGED vars
    BY DEF Next
  <2>. QED  BY <2>1, <2>2, <2>3, <2>4, RestSpeeding DEF I
<1>2. Init => I
  BY InitReversing, InitSpeeding
<1>. QED  BY <1>1, <1>2, FlowInvariant, StoredInvariant, HaltsInvariant, PTL DEF Spec

-----------------------------------------------------------------------------
(* What it gives *)

LEMMA FlowNoRing == Flow => NoCircularWait
<1>. SUFFICES ASSUME Flow PROVE NoCircularWait
  OBVIOUS
<1>. DEFINE waits == [t \in Tasks |-> WaitsFor(t)]
<1>0. \A t \in Tasks : Waiting(t) <=> t \in Waiters
  <2>1. ui.waiters \in Seq([task : Tasks, mode : Modes])
    BY DEF Flow, Console
  <2>2. DOMAIN ui.waiters = 1..Len(ui.waiters)
    BY <2>1, LenProperties
  <2>. QED  BY <2>2 DEF Waiting, Waiters
\* The one who draws waits for nobody.
<1>1. ASSUME NEW t \in Tasks, Waiting(t)
      PROVE  WaitsFor(t) \in Tasks => WaitsFor(WaitsFor(t)) = Nobody
  <2>. DEFINE o == ui.owner
  <2>1. WaitsFor(t) = o
    BY <1>1 DEF WaitsFor
  <2>2. ASSUME o \in Tasks PROVE WaitsFor(o) = Nobody
    <3>1. o # Nobody /\ o \in Drawers /\ ~Waiting(o)
      BY <2>2, <1>0, RuntimeAssumption DEF Flow, Console
    <3>2. \A s : ~Asks(o, s)
      BY <3>1, <2>2, Heads
    <3>. QED  BY <3>1, <3>2 DEF WaitsFor, Blocked
  <2>. HIDE DEF o
  <2>. QED  BY <2>1, <2>2
\* Who is blocked in a call waits for a task of lower rank.
<1>2. ASSUME NEW t \in Tasks, ~Waiting(t), WaitsFor(t) # Nobody
      PROVE  WaitsFor(t) \in Tasks /\ Rank(WaitsFor(t)) < Rank(t)
  <2>1. PICK s \in Tasks : Asks(t, s)
    BY <1>2 DEF WaitsFor, Blocked
  <2>2. Blocked(t) /\ WaitsFor(t) = Request(t).to
    BY <1>2 DEF WaitsFor
  <2>. QED  BY <2>1, <2>2, Heads
<1>3. \A t \in Tasks : Rank(t) \in 0..5
  BY DEF Rank, Managers
<1>4. ASSUME NEW W \in SUBSET {t \in Tasks : waits[t] # Nobody}, W # {}
      PROVE  \E t \in W : waits[t] \notin W
  <2>1. /\ W \subseteq Tasks
        /\ \A t \in W : t \in Tasks /\ waits[t] = WaitsFor(t) /\ WaitsFor(t) # Nobody
    OBVIOUS
  <2>. HIDE DEF waits
  <2>2. CASE \E t \in W : Waiting(t)
    BY <1>1, <2>1, <2>2
  <2>3. CASE \A t \in W : ~Waiting(t)
    <3>1. \E t \in W : \A r \in W : Rank(t) <= Rank(r)
      <4>. DEFINE Some(n) == \E t \in W : Rank(t) = n
      <4>1. Some(0) \/ Some(1) \/ Some(2) \/ Some(3) \/ Some(4) \/ Some(5)
        <5>1. PICK t : t \in W
          BY <1>4
        <5>2. Rank(t) \in {0, 1, 2, 3, 4, 5}
          BY <5>1, <1>3, <2>1
        <5>. QED  BY <5>1, <5>2
      <4>2. PICK n \in 0..5 : Some(n) /\ \A m \in 0..5 : Some(m) => n <= m
        <5>. HIDE DEF Some
        <5>. QED  BY <4>1
      <4>. QED  BY <4>2, <1>3, <2>1
    <3>2. PICK t \in W : \A r \in W : Rank(t) <= Rank(r)
      BY <3>1
    <3>3. waits[t] \in Tasks /\ Rank(waits[t]) < Rank(t)
      BY <1>2, <2>1, <2>3
    <3>4. waits[t] \notin W
      BY <3>2, <3>3, <1>3, <2>1
    <3>. QED  BY <3>4
  <2>. QED  BY <2>2, <2>3
<1>. QED  BY <1>4 DEF NoCircularWait

LEMMA FlowOneWriter == Flow => OnePositionWriter
<1>. SUFFICES ASSUME Flow PROVE OnePositionWriter
  OBVIOUS
<1>. DEFINE Users == {"runtime", "position"} \cup Managers
            AtWork == {t \in Users : Works(t)}
<1>1. /\ \A s \in Tasks : client[s] # Nobody => Asks(client[s], s)
      /\ \A s \in {"position"} \cup Managers : todo[s] # <<>> => client[s] # Nobody
      /\ client["position"] \in Servers \cup {Nobody}
      /\ \A s \in Managers : client[s] \in {"runtime", Nobody}
      /\ Users \subseteq Tasks /\ Servers \subseteq Tasks /\ todo["track"] = <<>>
  BY DEF Flow, Clients, Handlers, Tasks, Servers
<1>2. \A t \in Tasks : \A s \in Tasks : Asks(t, s) => todo[t] # <<>> /\ ~Works(t)
  BY DEF Works, Blocked, Asks
<1>3. \A t, s1, s2 : Asks(t, s1) /\ Asks(t, s2) => s1 = s2
  BY DEF Asks
\* A manager in a handler has the runtime for a client, which therefore does not work and
\* waits for that manager alone.
<1>4. ASSUME NEW m \in Managers, ~Idle(m)
      PROVE  Asks("runtime", m) /\ ~Works("runtime")
  BY <1>1, <1>2, <1>4 DEF Idle, Servers
<1>5. ASSUME ~Idle("position")
      PROVE  \E c \in {"runtime"} \cup Managers : Asks(c, "position")
  <2>1. PICK c \in Servers : client["position"] = c /\ c # Nobody
    BY <1>1, <1>5 DEF Idle
  <2>2. Asks(c, "position")
    BY <1>1, <2>1
  <2>3. "position" \in Tasks /\ c \in Tasks
    BY <1>1
  <2>4. c # "position" /\ c # "track"
    BY <2>2, <2>3, Heads, Ranks, <1>1 DEF Asks
  <2>. QED  BY <2>2, <2>4 DEF Servers
<1>6. ASSUME NEW t \in AtWork, NEW u \in AtWork PROVE t = u
  <2>0. /\ ~Idle(t) /\ ~Idle(u) /\ Works(t) /\ Works(u)
        /\ "position" \notin Managers /\ "runtime" \notin Managers
        /\ "position" \in Tasks
    BY <1>1 DEF Works, Managers
  <2>1. \A m \in Managers : ~Idle(m) => t # "runtime" /\ u # "runtime"
    BY <1>4, <2>0
  <2>2. \A m1, m2 \in Managers : ~Idle(m1) /\ ~Idle(m2) => m1 = m2
    BY <1>3, <1>4
  <2>3. ASSUME ~Idle("position")
        PROVE  t = "position" /\ u = "position"
    <3>1. PICK c \in {"runtime"} \cup Managers : Asks(c, "position")
      BY <1>5, <2>3
    <3>2. ~Works(c) /\ todo[c] # <<>> /\ ~Idle(c)
      BY <1>1, <1>2, <2>0, <3>1 DEF Idle
    <3>3. CASE c = "runtime"
      <4>1. \A m \in Managers : Idle(m)
        BY <1>3, <1>4, <3>1, <3>3, <2>0
      <4>. QED  BY <4>1, <3>2, <3>3, <2>0
    <3>4. CASE c \in Managers
      BY <3>2, <3>4, <2>0, <2>1, <2>2
    <3>. QED  BY <3>3, <3>4
  <2>. QED  BY <2>0, <2>1, <2>2, <2>3
<1>7. Cardinality(AtWork) <= 1
  <2>1. CASE AtWork = {}
    BY <2>1, FS_EmptySet
  <2>2. CASE AtWork # {}
    <3>1. PICK t : t \in AtWork
      BY <2>2
    <3>2. AtWork = {t}
      BY <3>1, <1>6
    <3>3. Cardinality({t}) = 1
      BY FS_Singleton
    <3>. QED  BY <3>2, <3>3
  <2>. QED  BY <2>1, <2>2
<1>. QED  BY <1>7 DEF OnePositionWriter

\* No ring of waiting tasks, for any trains, turnouts, commands and interleaving: every
\* call goes to a task of lower rank, and who holds the drawing lock calls nobody.
THEOREM RuntimeNoCircularWait == Spec => []NoCircularWait
BY FlowInvariant, FlowNoRing, PTL

\* Of the runtime, the position server and the managers at most one works at a time: the
\* others are idle or blocked in a call that leads to it.
THEOREM RuntimeOnePositionWriter == Spec => []OnePositionWriter
BY FlowInvariant, FlowOneWriter, PTL

\* However the deadlock ends and whatever is typed, the locks of switches the user has lifted
\* are back before the prompt goes: the call that locks them comes before the prompt is left,
\* and nobody but the runtime in a line of the prompt lifts one.
THEOREM RuntimeOverridesOnlyInPrompt == Spec => []OverridesOnlyInPrompt
<1>1. Locks => OverridesOnlyInPrompt
  BY DEF Locks, OverridesOnlyInPrompt
<1>. QED  BY <1>1, LocksInvariant, PTL

\* Whatever the user, the routes and a forced stop ask for, and although a route stores its
\* direction before the box has it: once all frames are executed and acknowledged, what is
\* stored for a plain turnout is what it is, unless a hit has turned it over since its last
\* acknowledgement.  The position server, the demo and the runtime apply routes; it takes
\* that none of them, nor anybody else, calls the track server between the two calls of
\* another for one turnout, and that the acknowledgement ends what a hit has excused.
THEOREM RuntimeSwitchesAgree == Spec => []SwitchesAgree
<1>1. Stored => SwitchesAgree
  <2>. SUFFICES ASSUME Stored, bus = <<>>, rx = <<>>, NEW s \in Turnouts \ corrected,
                       Partner[s] = s
                PROVE  switchState[s] = layout.sw[s]
    BY DEF SwitchesAgree
  <2>1. Agree(bus, rx, Turnout(s), layout.sw[s], switchState[s], Storing(todo, s), s \in corrected)
    BY DEF Stored
  <2>2. Silent(bus, Turnout(s)) /\ Silent(rx, Turnout(s))
    BY DEF Silent
  <2>. QED  BY <2>1, <2>2 DEF Agree
<1>. QED  BY <1>1, StoredInvariant, PTL

\* Whatever is commanded, stopped by force or set by the position server in any order while
\* trains wait to be reversed: once no reverse is counted and the bus is empty, every train has
\* the speed last asked for it.  It takes that every reverse is counted where it is on its way,
\* that a record of a waiting train keeps the speed asked for, and that the table of trains is
\* emptied only when a forced stop has asked speed 0 of every train.
THEOREM RuntimeSpeedRestored == Spec => []SpeedRestored
<1>1. Table /\ Reversing /\ Speeding => SpeedRestored
  <2>. SUFFICES ASSUME Table, Reversing, Speeding, bus = <<>>, todo["runtime"] = <<>>, rvPending = 0,
                       NEW t \in Trains
                PROVE  layout.speed[t] = asked[t]
    BY DEF SpeedRestored, Idle
  <2>1. /\ Len(rvQueue) = 0 /\ Number(delaying, Trains) = 0 /\ Number(mail, Completes) = 0
    <3>1. /\ Len(rvQueue) \in Nat /\ Number(delaying, Trains) \in Nat /\ Number(mail, Completes) \in Nat
      BY Numbers DEF Reversing
    <3>2. ~Finishes(<<>>)
      BY Shapes, Distinct
    <3>3. 0 = Len(rvQueue) + Number(delaying, Trains) + Number(mail, Completes) + 0
      BY <3>2 DEF Reversing
    <3>. QED  BY <3>1, <3>3
  <2>2. ~Pending(t)
    <3>1. <<>> # Completion(t) /\ <<>> # Begun(t)
      BY Shapes, Distinct
    <3>2. RvComplete(t) \in Completes
      BY DEF Completes
    <3>3. ~BagIn(t, delaying) /\ ~BagIn(RvComplete(t), mail)
      BY <2>1, <3>2, Numbers DEF Reversing
    <3>. QED  BY <2>1, <3>1, <3>3 DEF Pending
  <2>3. ~trains[t].rv
    BY <2>2 DEF Reversing
  <2>4. Coming(bus, Train(t), layout.speed[t], asked[t])
    BY <2>3 DEF Speeding, Right
  <2>5. Silent(bus, Train(t))
    BY DEF Silent
  <2>. QED  BY <2>4, <2>5, FinalSpeaks DEF Coming
<1>. QED  BY <1>1, SpeedingInvariant, PTL
===============================================================================
