----------------------------- MODULE MCDeadlock -----------------------------
(* Two trains on a loop of four places with a siding, sent past each other *)
(* and to each other's places.                                             *)
EXTENDS Deadlock

MCOrder == <<13, 14>>
MCPlaces == <<"a", "b", "c", "d", "e">>
MCLinks == {<<"a", "b">>, <<"b", "c">>, <<"c", "d">>, <<"d", "a">>, <<"d", "e">>}
MCStart == (13 :> "a") @@ (14 :> "b")
MCGoals == (13 :> {"b", "e"}) @@ (14 :> {"a", "b"})
MCRank == (13 :> 2) @@ (14 :> 0)

=============================================================================
