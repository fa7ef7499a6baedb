---------------------------- MODULE MCGameManager ----------------------------
(* A loop of four places; trains run one way, at most half round it.  a2 is the other direction of a1, *)
(* which a train reaches by reversing behind it.                                         *)
EXTENDS GameManager

CONSTANTS a1, a2, b, c, d, t1, t2, t3

MCSensors == {a1, a2, b, c, d}
MCRev == [s \in MCSensors |-> IF s = a1 THEN a2 ELSE IF s = a2 THEN a1 ELSE s]
PlaceOf(s) == CASE s \in {a1, a2} -> 0 [] s = b -> 1 [] s = c -> 2 [] s = d -> 3
Along(x, y) == (PlaceOf(y) - PlaceOf(x)) % 4
\* the sensors after x up to y
MCWay == [x \in MCSensors |-> [y \in MCSensors |->
           IF Along(x, y) = 3 THEN {}
           ELSE {s \in MCSensors : 0 < Along(x, s) /\ Along(x, s) <= Along(x, y)}
                  \ (IF y = a2 THEN {a1} ELSE {a2})]]
\* nearest first, the twins of a place next to each other
MCNear == [x \in MCSensors |->
            LET Walk == <<a1, a2, b, c, d>>
                Farther(y, z) == Along(x, y) < Along(x, z)
            IN  SortSeq(Walk, Farther)]
MCFar == {<<x, y>> \in MCSensors \X MCSensors : Along(x, y) >= 2}
MCPlan == [r \in Roles |-> [x \in MCSensors |->
            CASE r = AI /\ x = b -> {c, d} [] r = Neutral /\ x = d -> {b, c} [] OTHER -> {}]]
Train(st, s, resume) ==
  [st |-> st, at |-> s, goal |-> s, fin |-> resume # None, queued |-> None,
   yield |-> IF resume = None THEN None ELSE s, resume |-> resume, parked |-> resume # None,
   yielded |-> {}]
\* the neutral's train may still be parked where it has yielded to another
MCStarts == {(t1 :> Train("unknown", None, None) @@ t2 :> Train("stopped", b, None)
                @@ t3 :> Train("stopped", d, r)) : r \in {None, c}}
\* t2 has been sent to c, and from there to b
MCOldEvents == {<<>>, <<[type |-> "stop", train |-> t2, sensor |-> c],
                       [type |-> "hit", train |-> t2, sensor |-> b],
                       [type |-> "stop", train |-> t2, sensor |-> b]>>}
MCEntry == <<{t1}, {t1, t2}, {t3}>>
=============================================================================
