--------------------------- MODULE MCContentMemory ---------------------------
(* Two embedders of the same dimensions that name themselves, for TLC.       *)
EXTENDS ContentMemory, TLC
CONSTANTS city, e1, e2

MCTag == e1 :> e1 @@ e2 :> e2
MCSymmetry == Permutations({e1, e2})
MCDims == e1 :> 4 @@ e2 :> 4
==============================================================================
