---------------------------- MODULE MCWriterLease ----------------------------
(* Two processes, one of them with two openers, and inodes to spare.        *)
EXTENDS WriterLease, TLC
CONSTANTS a1, a2, b1, pa, pb

MCHost == a1 :> pa @@ a2 :> pa @@ b1 :> pb
==============================================================================
