------------------------------- MODULE MCRpc -------------------------------
(***************************************************************************)
(* Bounds of Rpc for TLC, as <<calls, connections, server instances>>.     *)
(* The first call is bind(), so that calls overlap from three on; a lossy  *)
(* client sends an old request again from the fourth on.                   *)
(***************************************************************************)
EXTENDS Rpc

CrashOrLossy == {<<3, 2, 2>>, <<4, 1, 1>>}
OverlapOrCrash == {<<3, 1, 1>>, <<2, 2, 2>>}
Short == {<<2, 1, 1>>}
=============================================================================
