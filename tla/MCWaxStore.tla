----------------------------- MODULE MCWaxStore ------------------------------
(* A ring that does not wrap, with every fault, and one that wraps.        *)
EXTENDS WaxStore

MCMaxSequence == (4 :> 3) @@ (2 :> 4)
MCMaxCells == (4 :> 8) @@ (2 :> 5)
MCCrashAt ==
  (4 :> {"closed", "idle", "append"} \cup CommitStages)
  @@ (2 :> {"idle", "append", "footer", "pageB"})
MCFailAt == (4 :> CommitStages \ {"finish"}) @@ (2 :> {"toc", "payload", "append"})

\* For a store that is opened late: one ring, and two places to die.
LateMaxSequence == (2 :> 4)
LateMaxCells == (2 :> 8)
LateCrashAt == (2 :> {"resize", "pageA"})
LateFailAt == (2 :> {})
==============================================================================
