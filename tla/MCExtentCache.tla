--------------------------- MODULE MCExtentCache ---------------------------
(***************************************************************************)
(* Instances of ExtentCache for TLC: three contents of different lengths.  *)
(***************************************************************************)
EXTENDS ExtentCache, TLC

CONSTANTS empty, x, y

Lengths == empty :> 0 @@ x :> 1 @@ y :> 2
=============================================================================
