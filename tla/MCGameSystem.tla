---------------------------- MODULE MCGameSystem ----------------------------
(* An instance of GameSystem: two users, each with one session.             *)
EXTENDS GameSystem
CONSTANTS s1, s2, user1, user2

MCTwo == {s1, s2}
MCUsers == {user1, user2}
MCUserOf == [s \in Sessions |-> IF s = s2 THEN user2 ELSE user1]
MCZone == {<<2, 1>>}
MCSpawn == {<<1, 1>>, <<3, 1>>}
=============================================================================
