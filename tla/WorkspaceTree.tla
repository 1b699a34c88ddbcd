--------------------------- MODULE WorkspaceTree ----------------------------
(***************************************************************************)
(* The authoritative tree of a workspace (pane_tree.rs, WorkspaceTree) with *)
(* its axes and ratios, under the structural commands of server.rs. Module *)
(* Workspace has the concurrency; here one operation follows another.      *)
(***************************************************************************)
EXTENDS PaneTree, FiniteSets

CONSTANTS
  Panes,          \* pane ids; a closed pane's id stands for a fresh one later
  NoPane,         \* Option::None
  Axes,           \* SplitAxis; DefaultAxis is one of them
  DefaultAxis,
  ValidRatios,    \* ratios strictly between 0 and 1; DefaultRatio is one of them
  DefaultRatio,
  InvalidRatios,  \* 0, 1, negative, infinite or NaN
  MaxDepth        \* length of the longest path a ResizeSplit request carries

ASSUME DefaultsAssumption == DefaultAxis \in Axes /\ DefaultRatio \in ValidRatios
ASSUME NoPaneAssumption == NoPane \notin Panes

VARIABLES
  root,           \* WorkspaceTree::root
  defaultActive   \* WorkspaceTree::default_active, which is also live focus

vars == <<root, defaultActive>>

Init == root = Empty /\ defaultActive = NoPane

RatioIsValid(ratio) == ratio \in ValidRatios

\* Workspace::add_pane, for CreatePane: insert_root, or an even split of the pane
\* that has focus.
AddPane(pane) ==
  /\ ~Holds(root, pane)
  /\ IF root = Empty
     THEN root' = Leaf(pane) /\ defaultActive' = pane
     ELSE /\ root' = SplitLeafOf(root, defaultActive, pane, DefaultAxis, DefaultRatio)
          /\ UNCHANGED defaultActive

\* Faulty variant of SplitPane: the ratio of the request is taken as it is.
SplitPaneUnchecked(target, pane, axis, ratio) ==
  /\ Holds(root, target)
  /\ ~Holds(root, pane)
  /\ root' = SplitLeafOf(root, target, pane, axis, ratio)
  /\ UNCHANGED defaultActive

\* WorkspaceTree::split. handle_v3_split_pane has replaced an invalid ratio by an
\* even one.
SplitPane(target, pane, axis, ratio) ==
  /\ Holds(root, target)
  /\ ~Holds(root, pane)
  /\ root' = SplitLeafOf(root, target, pane, axis,
                         IF RatioIsValid(ratio) THEN ratio ELSE DefaultRatio)
  /\ UNCHANGED defaultActive

\* Faulty variant of ClosePane: default-active moves to the last leaf.
ClosePaneToLast(pane) ==
  /\ Holds(root, pane)
  /\ root' = Removed(root, pane)
  /\ defaultActive' = IF root' = Empty THEN NoPane
                      ELSE IF defaultActive = pane THEN Last(Collect(root')) ELSE defaultActive

\* WorkspaceTree::close
ClosePane(pane) ==
  /\ Holds(root, pane)
  /\ root' = Removed(root, pane)
  /\ defaultActive' = IF root' = Empty THEN NoPane
                      ELSE IF defaultActive = pane THEN Leftmost(root') ELSE defaultActive

\* WorkspaceTree::resize_split refuses an invalid ratio and a path that does not
\* lead to a split.
ResizeSplit(path, ratio) ==
  /\ RatioIsValid(ratio)
  /\ IsSplit(NodeAt(root, path))
  /\ root' = WithRatio(root, path, ratio)
  /\ UNCHANGED defaultActive

\* WorkspaceTree::set_default_active
SetFocus(pane) ==
  /\ Holds(root, pane)
  /\ defaultActive' = pane
  /\ UNCHANGED root

Ratios == ValidRatios \cup InvalidRatios
Paths == UNION {[1..n -> {"first", "second"}] : n \in 0..MaxDepth}

Next ==
  \/ \E pane \in Panes : AddPane(pane) \/ ClosePane(pane) \/ SetFocus(pane)
  \/ \E target, pane \in Panes, axis \in Axes, ratio \in Ratios : SplitPane(target, pane, axis, ratio)
  \/ \E path \in Paths, ratio \in Ratios : ResizeSplit(path, ratio)

Spec == Init /\ [][Next]_vars

-----------------------------------------------------------------------------
\* WorkspaceTree::validate, which the daemon never calls: whatever the requests,
\* ratios are legal, no pane has two leaves, and default-active names a pane of
\* the tree exactly when there is one.
TreeIsValid ==
  /\ RatiosWithin(root, ValidRatios)
  /\ IsInjective(Collect(root))
  /\ IF root = Empty THEN defaultActive = NoPane ELSE Holds(root, defaultActive)

\* "collapsing its parent split into the sibling subtree" (WorkspaceTree::close):
\* when a pane goes, the panes that shared its parent split lose that divider and
\* no other; all other panes keep their regions.
CloseCollapsesParent ==
  [][\A pane \in Panes :
       Holds(root, pane) /\ ~Holds(root', pane) =>
         LET depth == Len(Region(root, pane))
             parent == SubSeq(Region(root, pane), 1, depth - 1)
             Sibling(other) == LET r == Region(root, other) IN
               depth > 0 /\ Len(r) >= depth /\ SubSeq(r, 1, depth - 1) = parent
                 /\ r[depth].side # Region(root, pane)[depth].side
         IN \A other \in ToSet(Collect(root)) \ {pane} :
              /\ Holds(root', other)
              /\ Region(root', other) = IF Sibling(other) THEN RemoveAt(Region(root, other), depth)
                                        ELSE Region(root, other)]_vars

\* "Split the leaf holding target, adding new_pane as the second child"
\* (WorkspaceTree::split): the target's region is divided between the two, and
\* no other pane notices.
SplitDividesTarget ==
  [][\A pane \in Panes :
       root # Empty /\ ~Holds(root, pane) /\ Holds(root', pane) =>
         \E target \in ToSet(Collect(root)), axis \in Axes, ratio \in ValidRatios :
           LET on(side) == [axis |-> axis, ratio |-> ratio, side |-> side] IN
           /\ Region(root', target) = Append(Region(root, target), on("first"))
           /\ Region(root', pane) = Append(Region(root, target), on("second"))
           /\ \A other \in ToSet(Collect(root)) \ {target} :
                Region(root', other) = Region(root, other)]_vars

\* The order of the leaves changes as module Workspace takes it to.
Order == INSTANCE TreeOrder WITH leaves <- Collect(root)
OrderSpec == Order!Spec
=============================================================================
