---------------------------- MODULE MCTaskManager ----------------------------
(* Values of the constants that are sets, for the runs of TaskManager. *)
EXTENDS TaskManager

NoEvents == {}
OneEvent == {0}
LastEvent == {1}
TwoEvents == {0, 1}
=============================================================================
