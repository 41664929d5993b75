------------------------------ MODULE MCServer ------------------------------
(***************************************************************************)
(* Instances of ProudNetServer for TLC.  Each takes a few handlers of one  *)
(* service and a few connections; MaxReq bounds what each client sends.    *)
(***************************************************************************)
EXTENDS ProudNetServer, Handlers, TLC

CONSTANTS c1, c2

Some(plan, rmis) == [r \in rmis |-> plan[r]]

\* Two clients of the entry server, whose first logons are answered with two
\* replies each; a message of the first may be one that nobody handles.
TwoConns == {c1, c2}
LoginRmi == {"RequestFirstLogon"}
LoginInputs == (c1 :> LoginRmi \cup {"ignored"}) @@ (c2 :> LoginRmi)
LoginPlan == Some(EntryPlan, LoginRmi)
TwoAndOne == (c1 :> 2) @@ (c2 :> 1)
TwoConnsSym == Permutations(TwoConns)
OneEach == (c1 :> 1) @@ (c2 :> 1)

\* Two clients of the lobby: a broadcast, and a broadcast before a reply.
ChatRmi == {"Chat"}
ChatPlan == Some(LobbyPlan, ChatRmi)
ChatInputs == [c \in TwoConns |-> ChatRmi]
RoomRmi == {"RequestCreateGameRoom"}
RoomInputs == [c \in TwoConns |-> RoomRmi \cup {"broken"}]
RoomPlan == Some(LobbyPlan, RoomRmi)
OnlyFirst == (c1 :> 1) @@ (c2 :> 0)
=============================================================================
