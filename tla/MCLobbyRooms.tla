---------------------------- MODULE MCLobbyRooms ----------------------------
(* Instances of LobbyRooms for TLC.                                         *)
EXTENDS LobbyRooms

CONSTANTS a, b, c

MCTwo == {a, b}
MCThree == {a, b, c}
=============================================================================
