--------------------------- MODULE MCSerialization ---------------------------
(* A small instance of module Serialization for TLC.                          *)
EXTENDS Serialization, TLC

Symmetry == Permutations(Workspaces) \cup Permutations(Panes)
==============================================================================
