-------------------------- MODULE MCRouteAuthority --------------------------
(***************************************************************************)
(* A loop with a passing siding: A, the branch B, the two tracks S1 S2 and *)
(* C1 C2, the merge M, and D and E, which lead back to A.  Every node n    *)
(* has its reverse Rn; RM is the branch of the other direction, RB its     *)
(* merge.                                                                  *)
(***************************************************************************)
EXTENDS RouteAuthority

CONSTANTS A, B, S1, S2, C1, C2, M, D, E,
          RA, RB, RS1, RS2, RC1, RC2, RM, RD, RE, t1, t2

InLoop == {A, B, S1, S2, C1, C2, M, D, E, RA, RB, RS1, RS2, RC1, RC2, RM, RD, RE}
LoopSensors == InLoop \ {B, M, RB, RM}
LoopRev ==
    A :> RA @@ B :> RB @@ S1 :> RS1 @@ S2 :> RS2 @@ C1 :> RC1 @@ C2 :> RC2 @@ M :> RM @@
    D :> RD @@ E :> RE @@ RA :> A @@ RB :> B @@ RS1 :> S1 @@ RS2 :> S2 @@ RC1 :> C1 @@
    RC2 :> C2 @@ RM :> M @@ RD :> D @@ RE :> E
LoopAhead ==
    A :> B @@ S1 :> S2 @@ S2 :> M @@ C1 :> C2 @@ C2 :> M @@ M :> D @@ D :> E @@ E :> A @@
    RA :> RE @@ RE :> RD @@ RD :> RM @@ RS2 :> RS1 @@ RS1 :> RB @@ RC2 :> RC1 @@
    RC1 :> RB @@ RB :> RA
LoopLeg == B :> ("S" :> S1 @@ "C" :> C1) @@ RM :> ("S" :> RS2 @@ "C" :> RC2)
LoopDist == Table([n \in InLoop |-> 1])
LoopGoals == t1 :> {D} @@ t2 :> {A}
LoopStart == t1 :> E @@ t2 :> S1
=============================================================================
