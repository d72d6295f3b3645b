---------------------------- MODULE MCWorkLease ----------------------------
(***************************************************************************)
(* Small hosts for TLC: four units and the weights policy.go derives for   *)
(* them (defaultWorkLimits: full work 3, a test 2, an express build 2, an  *)
(* express test 1).                                                        *)
(***************************************************************************)
EXTENDS WorkLease, TLC

CONSTANTS heavy, test, expressBuild, expressTest

MCWeight  == [o \in Ops |-> CASE o = heavy -> 3 [] o = expressTest -> 1 [] OTHER -> 2]
MCExpress == Ops \cap {expressBuild, expressTest}
MCSequences == {<<expressTest, expressBuild>>}
=============================================================================
