---------------------------- MODULE MCTrainRuntime ----------------------------
(* One train and one plain turnout; commands of each kind. *)
EXTENDS TrainRuntime

MCPartner == [s \in Turnouts |-> CASE s = 153 -> 154 [] s = 154 -> 153 [] OTHER -> s]
Tr(t, v) == [type |-> "TR", train |-> t, speed |-> v]
Sw(s, d) == [type |-> "SW", sw |-> s, dir |-> d]
Manager(k, s, f) == [type |-> k, server |-> s, force |-> f]
MCCommands ==
  {Tr(13, 1), Sw(1, "C"), [type |-> "RV", train |-> 13],
   [type |-> "GOTO"], Manager("DEMO", "demo", TRUE), Manager("GAME", "game", FALSE)}
===============================================================================
