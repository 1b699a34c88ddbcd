----------------------------- MODULE TreeOrder ------------------------------
(***************************************************************************)
(* What module Workspace assumes of a workspace's tree: its panes have an  *)
(* order, a new pane comes right after the one it splits, closing a pane   *)
(* leaves the others in place, and the default-active pane moves to the    *)
(* first leaf when its own is closed. Module WorkspaceTree implements it.  *)
(***************************************************************************)
EXTENDS LeafOrder

CONSTANTS Panes, NoPane

VARIABLES leaves, defaultActive

Init == leaves = <<>> /\ defaultActive = NoPane

Seed(p) ==
  /\ leaves = <<>>
  /\ leaves' = <<p>>
  /\ defaultActive' = p

Insert(target, p) ==
  /\ target \in ToSet(leaves)
  /\ p \notin ToSet(leaves)
  /\ leaves' = SplitLeaf(leaves, target, p)
  /\ UNCHANGED defaultActive

Close(p) ==
  /\ p \in ToSet(leaves)
  /\ leaves' = CloseLeaf(leaves, p)
  /\ defaultActive' = IF leaves' = <<>> THEN NoPane
                      ELSE IF defaultActive = p THEN FirstLeaf(leaves') ELSE defaultActive

Focus(p) ==
  /\ p \in ToSet(leaves)
  /\ defaultActive' = p
  /\ UNCHANGED leaves

Next == \E p \in Panes : Seed(p) \/ Close(p) \/ Focus(p) \/ \E target \in Panes : Insert(target, p)

Spec == Init /\ [][Next]_<<leaves, defaultActive>>
=============================================================================
