---------------------------- MODULE MCWalRecovery ----------------------------
(* Small rings for TLC: three payload sizes, one of them undecodable.       *)
EXTENDS WalRecovery, TLC
CONSTANTS small, medium, opaque

MCPayload == {small, medium, opaque}
MCPayloadLen == small :> 1 @@ medium :> 2 @@ opaque :> 3
==============================================================================
