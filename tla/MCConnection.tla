---------------------------- MODULE MCConnection ----------------------------
(***************************************************************************)
(* Connection for TLC.  The bounds are <<connections, requests, workers    *)
(* busy at a time, what else may happen>>: two workers with one connection *)
(* or two, a descriptor that is used again, and ~rpcs.                     *)
(***************************************************************************)
EXTENDS Connection, TLC

Endpoints == {<<1, 2, 2, {"in pieces", "in part", "destroy"}>>, <<2, 2, 2, {}>>,
              <<3, 1, 1, {}>>, <<2, 1, 1, {"destroy"}>>}

\* The workers are alike.
Symmetry == Permutations(Worker)
=============================================================================
