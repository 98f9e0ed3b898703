------------------------------- MODULE MCYfs -------------------------------
(***************************************************************************)
(* Instances of Yfs for TLC.                                               *)
(***************************************************************************)
EXTENDS Yfs, TLC

\* Clients, files and names that are no i-numbers are interchangeable.
Symmetry == Permutations(Client) \cup Permutations(FileInum) \cup Permutations(Name)
=============================================================================
