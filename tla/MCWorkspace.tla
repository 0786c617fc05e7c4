----------------------------- MODULE MCWorkspace -----------------------------
(***************************************************************************)
(* A small instance of Workspace for TLC.                                  *)
(***************************************************************************)
EXTENDS Workspace, TLC

Symmetry == Permutations(Users) \cup Permutations(Clients)
=============================================================================
