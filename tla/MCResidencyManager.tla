------------------------- MODULE MCResidencyManager -------------------------
(* Instances of ResidencyManager for TLC.                                  *)
EXTENDS ResidencyManager, TLC

CONSTANTS c1, c2, c3

AnyClient == Permutations(Clients)
=============================================================================
