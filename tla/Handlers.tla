------------------------------ MODULE Handlers ------------------------------
(***************************************************************************)
(* What each registered RMI handler of the three services does with the    *)
(* server: the sequence of its calls of Conn.Send ("send") and             *)
(* Server.Broadcast ("broadcast"), arguments left out, once it has read    *)
(* its own arguments.  A handler that fails to read them returns before    *)
(* the first call: ProudNetServer has the frame "ignored" for that.  Every *)
(* handler goes on, or has nothing left to do, when a Send fails.          *)
(***************************************************************************)
EXTENDS Naturals, Sequences

Sends(n) == [i \in 1..n |-> "send"]

EntryPlan ==
    [ RequestLogin      |-> Sends(1),
      RequestFirstLogon |-> Sends(2),
      RequestHeroSlots  |-> Sends(3) ]

\* With no rooms yet; the contents of the list and JoinGameRoom, which can
\* end the process, are in module Lobby.
LobbyPlan ==
    [ RequestNextLogon      |-> Sends(1),
      Chat                  |-> << "broadcast" >>,
      RequestCreateGameRoom |-> << "broadcast", "send" >>,
      RequestLobbyList      |-> Sends(2) ]

BattlePlan == [ RequestNextLogon |-> Sends(1) ]
=============================================================================
