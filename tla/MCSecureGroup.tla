--------------------------- MODULE MCSecureGroup ----------------------------
(***************************************************************************)
(* SecureGroup with two members whose hosts' clocks differ by the latency  *)
(* tolerance; the member that is behind may stop and connect again.        *)
(***************************************************************************)
EXTENDS SecureGroup, TLC

CONSTANTS a, b

MCMembers == {a, b}
MCMaxStarts == a :> 2 @@ b :> 1
MCHostClock == a :> 0 @@ b :> 2
=============================================================================
