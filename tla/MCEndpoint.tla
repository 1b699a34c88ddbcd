----------------------------- MODULE MCEndpoint -----------------------------
(* A small instance of module Endpoint for TLC.                               *)
EXTENDS Endpoint, TLC

Symmetry == Permutations(Workspaces)
=============================================================================
