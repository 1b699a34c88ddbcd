---------------------------- MODULE MCWorkspace ----------------------------
(* Small instances of module Workspace for TLC.                              *)
EXTENDS Workspace

Symmetry == Permutations(Clients) \cup Permutations(Panes)
=============================================================================
