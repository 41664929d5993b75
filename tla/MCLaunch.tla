------------------------------ MODULE MCLaunch ------------------------------
(***************************************************************************)
(* Instances of GameLaunch for TLC.                                        *)
(***************************************************************************)
EXTENDS GameLaunch, TLC

CONSTANTS t1, t2

OneTool == {t1}
TwoTools == {t1, t2}
TwoCommands == t1 :> 2
OneEach == (t1 :> 1) @@ (t2 :> 1)
=============================================================================
