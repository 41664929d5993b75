------------------------------- MODULE MCRelay -------------------------------
(***************************************************************************)
(* Instances of UDPRelay for TLC.                                          *)
(***************************************************************************)
EXTENDS UDPRelay, TLC

CONSTANTS h1, h2

TwoHosts == {h1, h2}
OnlyFirst == (h1 :> 1) @@ (h2 :> 0)
TwoAndOne == (h1 :> 2) @@ (h2 :> 1)
=============================================================================
