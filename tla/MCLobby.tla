------------------------------- MODULE MCLobby -------------------------------
(***************************************************************************)
(* Instances of Lobby for TLC.                                             *)
(***************************************************************************)
EXTENDS Lobby, TLC

CONSTANTS c1, c2, a

TwoClients == {c1, c2}
TwoRooms == {NoName, a}
TwoAndOne == (c1 :> 2) @@ (c2 :> 1)
=============================================================================
