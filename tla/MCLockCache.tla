---------------------------- MODULE MCLockCache ----------------------------
(***************************************************************************)
(* Instances of LockCache for TLC.                                         *)
(***************************************************************************)
EXTENDS LockCache, TLC

CONSTANTS t1, t2, t3, t4, l1

OneThreadEach == t1 :> 1 @@ t2 :> 2 @@ t3 :> 3
ThreeAndOne == t1 :> 1 @@ t2 :> 1 @@ t3 :> 1 @@ t4 :> 2
=============================================================================
