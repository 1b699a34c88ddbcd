------------------------------ MODULE MCClients ------------------------------
(* Small instances of module Clients for TLC.                               *)
EXTENDS Clients, TLC

CONSTANTS c1, c2, c3, w1, w2

ReportedSizes == {<<1, 2>>, <<2, 1>>, <<2, 0>>}
Spawned == <<2, 2>>
Symmetry == Permutations(Connections) \cup Permutations(Workspaces)
=============================================================================
