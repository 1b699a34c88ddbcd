------------------------------ MODULE PaneTree ------------------------------
(***************************************************************************)
(* The recursive operations of services/rttx-server/src/pane_tree.rs on a  *)
(* tree of panes. A tree is a record as PaneTree::Leaf or PaneTree::Split  *)
(* declares it; Empty stands for WorkspaceTree::root being None.           *)
(***************************************************************************)
EXTENDS Sequences, SequencesExt

Leaf(pane) == [node |-> "leaf", pane |-> pane]
Split(axis, ratio, first, second) ==
  [node |-> "split", axis |-> axis, ratio |-> ratio, first |-> first, second |-> second]
Empty == [node |-> "empty"]

IsLeaf(tree) == tree.node = "leaf"
IsSplit(tree) == tree.node = "split"

\* PaneTree::collect, the panes from left to right.
RECURSIVE Collect(_)
Collect(tree) ==
  IF IsSplit(tree) THEN Collect(tree.first) \o Collect(tree.second)
  ELSE IF IsLeaf(tree) THEN <<tree.pane>> ELSE <<>>

Holds(tree, pane) == pane \in ToSet(Collect(tree))

\* PaneTree::first_leaf
RECURSIVE Leftmost(_)
Leftmost(tree) == IF IsLeaf(tree) THEN tree.pane ELSE Leftmost(tree.first)

\* Faulty variant of SplitLeafOf: the new pane becomes the first child.
RECURSIVE SplitLeafBefore(_, _, _, _, _)
SplitLeafBefore(tree, target, pane, axis, ratio) ==
  IF IsLeaf(tree)
  THEN IF tree.pane = target THEN Split(axis, ratio, Leaf(pane), Leaf(target)) ELSE tree
  ELSE [tree EXCEPT !.first = SplitLeafBefore(@, target, pane, axis, ratio),
                    !.second = SplitLeafBefore(@, target, pane, axis, ratio)]

\* PaneTree::split_leaf: depth first, the first leaf that holds the target.
RECURSIVE SplitLeafOf(_, _, _, _, _)
SplitLeafOf(tree, target, pane, axis, ratio) ==
  IF IsLeaf(tree)
  THEN IF tree.pane = target THEN Split(axis, ratio, Leaf(target), Leaf(pane)) ELSE tree
  ELSE LET first == SplitLeafOf(tree.first, target, pane, axis, ratio) IN
       IF first # tree.first THEN [tree EXCEPT !.first = first]
       ELSE [tree EXCEPT !.second = SplitLeafOf(@, target, pane, axis, ratio)]

\* Faulty variant of Removed: the child that takes the place of a collapsing split
\* takes over its ratio.
RECURSIVE RemovedMergingRatio(_, _)
RemovedMergingRatio(tree, target) ==
  LET promoted(child) == IF IsSplit(child) THEN [child EXCEPT !.ratio = tree.ratio] ELSE child IN
  IF IsLeaf(tree) THEN IF tree.pane = target THEN Empty ELSE tree
  ELSE LET first == RemovedMergingRatio(tree.first, target)
           second == RemovedMergingRatio(tree.second, target)
       IN IF first = Empty THEN promoted(tree.second)
          ELSE IF second = Empty THEN promoted(tree.first)
          ELSE [tree EXCEPT !.first = first, !.second = second]

\* remove_from: the tree without the target's leaf, Empty when nothing is left.
\* The split above that leaf collapses into its other child.
RECURSIVE Removed(_, _)
Removed(tree, target) ==
  IF IsLeaf(tree) THEN IF tree.pane = target THEN Empty ELSE tree
  ELSE LET first == Removed(tree.first, target) IN
       IF first = Empty THEN tree.second
       ELSE IF first # tree.first THEN [tree EXCEPT !.first = first]
       ELSE LET second == Removed(tree.second, target) IN
            IF second = Empty THEN tree.first ELSE [tree EXCEPT !.second = second]

\* PaneTree::node_at_mut, for a path of "first" and "second"; Empty when the path
\* leaves the tree.
RECURSIVE NodeAt(_, _)
NodeAt(tree, path) ==
  IF path = <<>> THEN tree
  ELSE IF IsSplit(tree) THEN NodeAt(tree[Head(path)], Tail(path)) ELSE Empty

\* The assignment through node_at_mut that WorkspaceTree::resize_split makes.
RECURSIVE WithRatio(_, _, _)
WithRatio(tree, path, ratio) ==
  IF path = <<>> THEN [tree EXCEPT !.ratio = ratio]
  ELSE [tree EXCEPT ![Head(path)] = WithRatio(@, Tail(path), ratio)]

\* Every split of the tree carries a ratio of the given set (validate_node).
RECURSIVE RatiosWithin(_, _)
RatiosWithin(tree, ratios) ==
  IsSplit(tree) =>
    tree.ratio \in ratios /\ RatiosWithin(tree.first, ratios) /\ RatiosWithin(tree.second, ratios)

-----------------------------------------------------------------------------
\* The part of the window a pane of the tree gets: the dividers between the root
\* and its leaf, and the side of each the pane is on.
RECURSIVE Region(_, _)
Region(tree, pane) ==
  IF ~IsSplit(tree) THEN <<>>
  ELSE LET side == IF Holds(tree.first, pane) THEN "first" ELSE "second" IN
       <<[axis |-> tree.axis, ratio |-> tree.ratio, side |-> side]>> \o Region(tree[side], pane)
=============================================================================
