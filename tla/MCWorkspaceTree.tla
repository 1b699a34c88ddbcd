-------------------------- MODULE MCWorkspaceTree ---------------------------
(* A small instance of module WorkspaceTree for TLC.                         *)
EXTENDS WorkspaceTree, TLC

Symmetry == Permutations(Panes)
=============================================================================
