--------------------------- MODULE WorkspaceProofs ---------------------------
(****************************************************************************)
(* Safety of a workspace under concurrent requests, for every set of        *)
(* clients and panes and every bound on the revision.                       *)
(*                                                                          *)
(* TypeOK, TreeHoldsPanes, FocusCoherent and NoStrayShell are not inductive *)
(* on their own: a commit adds the pane its handler carries, so one has to  *)
(* know that the pane is new. WorkspaceInv adds that.                       *)
(****************************************************************************)
EXTENDS Workspace

Creating(c) == handler[c].op \in {"create", "split"}

\* A request between its two phases carries a pane id that no other request
\* carries and no tree holds.
CarriedPanesAreNew ==
  /\ \A c \in Clients : Creating(c) => handler[c].pane \in Panes
  /\ \A c, d \in Clients :
       Creating(c) /\ Creating(d) /\ handler[c].pane = handler[d].pane => c = d
  /\ \A p \in panes : shell[p] \notin {"unborn", "spawned"}

WorkspaceInv ==
  TypeOK /\ TreeHoldsPanes /\ FocusCoherent /\ NoStrayShell /\ CarriedPanesAreNew

\* A request in progress is a record of the declared type.
LEMMA RequestType ==
  /\ Idle \in Request
  /\ \A op \in {"idle", "attach", "detach", "disconnect", "terminate", "create", "split"},
        mode \in AttachModes, target, pane \in Panes \cup {NoPane} :
       Carrying(op, mode, target, pane) \in Request
BY DEF Idle, Carrying, Request, AttachModes

\* The invariant holds of a new, empty workspace.
LEMMA InitInv == Init => WorkspaceInv
<1> SUFFICES ASSUME Init PROVE WorkspaceInv
  OBVIOUS
<1>1. TypeOK
  BY RequestType DEF Init, TypeOK, Policies, Roles, ShellStates, SwitchStates, Reading
<1>2. TreeHoldsPanes
  BY DEF Init, TreeHoldsPanes, NoDuplicates, ToSet
<1>3. FocusCoherent
  BY DEF Init, FocusCoherent
<1>4. NoStrayShell
  BY DEF Init, NoStrayShell, Reading, Idle, Carrying
<1>5. CarriedPanesAreNew
  BY DEF Init, CarriedPanesAreNew, Creating, Idle, Carrying
<1> QED BY <1>1, <1>2, <1>3, <1>4, <1>5 DEF WorkspaceInv

\* Requests that do not touch the tree or a PTY keep the invariant.
LEMMA QuietStepInv ==
  ASSUME WorkspaceInv, NEW c \in Clients, NEW request \in Request,
         ~Creating(c), request.op \notin {"create", "split"},
         handler' = [handler EXCEPT ![c] = request],
         role' \in [Clients -> Roles], revision' \in Nat, told' \subseteq Clients,
         UNCHANGED <<policy, inMap, tree, exited, ptys>>
  PROVE  WorkspaceInv'
<1> USE DEF WorkspaceInv, tree, ptys
<1>1. TypeOK'
  BY DEF TypeOK
<1>2. TreeHoldsPanes' /\ FocusCoherent'
  BY DEF TreeHoldsPanes, FocusCoherent
<1>3. \A d \in Clients :
        /\ Creating(d)' <=> Creating(d)
        /\ Creating(d) => handler'[d] = handler[d]
  BY DEF TypeOK, Creating
<1>4. NoStrayShell'
  BY <1>3 DEF NoStrayShell, Creating
<1>5. CarriedPanesAreNew'
  BY <1>3 DEF CarriedPanesAreNew, Creating
<1> QED BY <1>1, <1>2, <1>4, <1>5

\* So do steps that leave the handlers alone.
LEMMA SameHandlersInv ==
  ASSUME WorkspaceInv, role' \in [Clients -> Roles], revision' \in Nat, told' \subseteq Clients,
         UNCHANGED <<policy, inMap, tree, exited, handler, ptys>>
  PROVE  WorkspaceInv'
BY DEF WorkspaceInv, tree, ptys, TypeOK, TreeHoldsPanes, FocusCoherent, NoStrayShell,
       CarriedPanesAreNew, Creating

\* terminate_workspace signals every shell it can reach, so that none is stray
\* although the workspace has left the map.
LEMMA TerminateInv ==
  ASSUME WorkspaceInv, NEW c \in Clients, Contended(c) \/ Ended(c),
         handler' = [handler EXCEPT ![c] = Idle], ~Creating(c),
         UNCHANGED <<policy, role, tree, exited, revision, shell>>
  PROVE  WorkspaceInv'
<1> USE DEF WorkspaceInv, tree, ptys
<1>1. TypeOK'
  BY RequestType DEF TypeOK, Contended, Ended, SwitchStates, Attached
<1>2. TreeHoldsPanes' /\ FocusCoherent'
  BY DEF TreeHoldsPanes, FocusCoherent
<1>3. \A d \in Clients :
        /\ Creating(d)' <=> Creating(d)
        /\ Creating(d) => handler'[d] = handler[d]
  BY DEF TypeOK, Creating, Idle, Carrying
<1>4. NoStrayShell'
  BY <1>3 DEF NoStrayShell, Creating, Contended, Ended, TypeOK
<1>5. CarriedPanesAreNew'
  BY <1>3 DEF CarriedPanesAreNew, Creating
<1> QED BY <1>1, <1>2, <1>4, <1>5

\* Phase one of CreatePane and SplitPane puts a new pane id in one handler.
LEMMA SpawnInv ==
  ASSUME WorkspaceInv, NEW c \in Clients, NEW p \in Panes, NEW request \in Request,
         handler[c] = Idle, shell[p] = "unborn",
         request.op \in {"create", "split"}, request.pane = p,
         handler' = [handler EXCEPT ![c] = request],
         shell' = [shell EXCEPT ![p] = "spawned"],
         UNCHANGED <<policy, inMap, role, tree, exited, revision, killSwitch, told>>
  PROVE  WorkspaceInv'
<1> USE DEF WorkspaceInv, tree, ptys
<1>1. TypeOK'
  BY DEF TypeOK, ShellStates
<1>2. TreeHoldsPanes' /\ FocusCoherent'
  BY DEF TreeHoldsPanes, FocusCoherent
<1>3. /\ ~Creating(c)
      /\ Creating(c)' /\ handler'[c].pane = p
      /\ \A d \in Clients \ {c} : (Creating(d)' <=> Creating(d)) /\ handler'[d] = handler[d]
  BY DEF TypeOK, Creating, Idle, Carrying
<1>4. \A d \in Clients : Creating(d) => handler[d].pane # p
  BY DEF NoStrayShell, Creating
<1>5. shell'[p] = "spawned" /\ \A q \in Panes \ {p} : shell'[q] = shell[q]
  BY DEF TypeOK
<1>6. NoStrayShell'
  <2> SUFFICES ASSUME NEW q \in Panes
               PROVE  /\ shell'[q] \in Reading =>
                           killSwitch'[q] = "fired"
                             \/ (killSwitch'[q] = "armed" /\ inMap' /\ q \in panes')
                      /\ shell'[q] = "spawned" <=>
                           \E d \in Clients : Creating(d)' /\ handler'[d].pane = q
    BY DEF NoStrayShell, Creating
  <2>1. CASE q = p
    BY <1>3, <1>5, <2>1 DEF Reading
  <2>2. CASE q # p
    BY <1>3, <1>5, <2>2 DEF NoStrayShell, Creating
  <2> QED BY <2>1, <2>2
<1>7. CarriedPanesAreNew'
  <2>1. \A q \in panes : q # p
    BY DEF CarriedPanesAreNew
  <2>2. \A q \in panes' : shell'[q] \notin {"unborn", "spawned"}
    BY <1>5, <2>1 DEF CarriedPanesAreNew, TypeOK
  <2>3. \A d \in Clients : Creating(d)' => handler'[d].pane \in Panes
    BY <1>3 DEF CarriedPanesAreNew
  <2>4. \A d, e \in Clients :
          Creating(d)' /\ Creating(e)' /\ handler'[d].pane = handler'[e].pane => d = e
    BY <1>3, <1>4 DEF CarriedPanesAreNew
  <2> QED BY <2>2, <2>3, <2>4 DEF CarriedPanesAreNew, Creating
<1> QED BY <1>1, <1>2, <1>6, <1>7

\* Phase two lets go of the pane its handler carried: either the pane is in the
\* tree with its read loop starting, or its shell is killed.
LEMMA CommitInv ==
  ASSUME WorkspaceInv, NEW c \in Clients, Creating(c),
         leaves' \in Seq(Panes), TreeHoldsPanes', FocusCoherent', revision' \in Nat,
         \/ inMap /\ Adopt(handler[c].pane) /\ panes' = panes \cup {handler[c].pane}
         \/ Abandon(handler[c].pane),
         handler' = [handler EXCEPT ![c] = Idle],
         UNCHANGED <<policy, inMap, role, exited, told>>
  PROVE  WorkspaceInv'
<1> USE DEF WorkspaceInv, tree, ptys
<1> DEFINE p == handler[c].pane
<1>1. p \in Panes /\ p \notin panes /\ shell[p] = "spawned"
  BY DEF CarriedPanesAreNew, NoStrayShell, Creating
<1> HIDE DEF p
<1>2. \/ Adopt(p) /\ inMap /\ panes' = panes \cup {p}
      \/ Abandon(p) /\ panes' = panes
  BY DEF p, Abandon
<1>3. TypeOK'
  <2>1. panes' \subseteq Panes /\ exited' \subseteq panes'
    BY <1>1, <1>2 DEF TypeOK
  <2>2. defaultActive' \in Panes \cup {NoPane} /\ activePane' \in Panes \cup {NoPane}
    BY <2>1 DEF FocusCoherent
  <2>3. shell' \in [Panes -> ShellStates] /\ killSwitch' \in [Panes -> SwitchStates]
    BY <1>1, <1>2 DEF TypeOK, Adopt, Abandon, ShellStates, SwitchStates, Reading
  <2> QED BY <2>1, <2>2, <2>3, RequestType DEF TypeOK
<1>4. \A q \in Panes \ {p} : shell'[q] = shell[q] /\ killSwitch'[q] = killSwitch[q]
  BY <1>1, <1>2 DEF TypeOK, Adopt, Abandon
<1>5. shell'[p] \in {"starting", "dead"}
  BY <1>1, <1>2 DEF TypeOK, Adopt, Abandon
<1>6. shell'[p] \in Reading => killSwitch'[p] = "armed" /\ inMap /\ p \in panes'
  BY <1>1, <1>2 DEF TypeOK, Adopt, Abandon, Reading
<1>7. /\ ~Creating(c)'
      /\ \A d \in Clients \ {c} : (Creating(d)' <=> Creating(d)) /\ handler'[d] = handler[d]
  BY DEF TypeOK, Creating, Idle, Carrying
<1>8. \A d \in Clients \ {c} : Creating(d) => handler[d].pane # p
  BY DEF CarriedPanesAreNew, p
<1>9. NoStrayShell'
  <2> SUFFICES ASSUME NEW q \in Panes
               PROVE  /\ shell'[q] \in Reading =>
                           killSwitch'[q] = "fired"
                             \/ (killSwitch'[q] = "armed" /\ inMap' /\ q \in panes')
                      /\ shell'[q] = "spawned" <=>
                           \E d \in Clients : Creating(d)' /\ handler'[d].pane = q
    BY DEF NoStrayShell, Creating
  <2>1. CASE q = p
    BY <1>5, <1>6, <1>7, <1>8, <2>1
  <2>2. CASE q # p
    <3>1. shell[q] = "spawned" <=> \E d \in Clients \ {c} : Creating(d) /\ handler[d].pane = q
      BY <2>2 DEF NoStrayShell, Creating, p
    <3> QED BY <1>2, <1>4, <1>7, <2>2, <3>1 DEF NoStrayShell
  <2> QED BY <2>1, <2>2
<1>10. CarriedPanesAreNew'
  <2>1. \A d \in Clients : Creating(d)' => handler'[d].pane \in Panes
    BY <1>7 DEF CarriedPanesAreNew
  <2>2. \A d, e \in Clients :
          Creating(d)' /\ Creating(e)' /\ handler'[d].pane = handler'[e].pane => d = e
    BY <1>7 DEF CarriedPanesAreNew
  <2>3. \A q \in panes' : shell'[q] \notin {"unborn", "spawned"}
    BY <1>2, <1>4, <1>5 DEF CarriedPanesAreNew, TypeOK
  <2> QED BY <2>1, <2>2, <2>3 DEF CarriedPanesAreNew, Creating
<1> QED BY <1>3, <1>9, <1>10

\* A read loop moves its own shell forward and touches nothing else of the PTYs
\* but its kill switch, once it has stopped reading.
LEMMA LoopInv ==
  ASSUME WorkspaceInv, NEW p \in Panes, NEW state \in ShellStates \ {"unborn", "spawned"},
         shell[p] \notin {"unborn", "spawned"},
         state \in Reading => shell[p] \in Reading,
         shell' = [shell EXCEPT ![p] = state],
         NEW switch \in SwitchStates,
         killSwitch' = [killSwitch EXCEPT ![p] = switch],
         state \in Reading => switch = killSwitch[p],
         exited' \subseteq panes, revision' \in Nat,
         UNCHANGED <<policy, inMap, role, tree, handler, told>>
  PROVE  WorkspaceInv'
<1> USE DEF WorkspaceInv, tree
<1>1. TypeOK'
  BY DEF TypeOK
<1>2. TreeHoldsPanes' /\ FocusCoherent'
  BY DEF TreeHoldsPanes, FocusCoherent
<1>3. /\ shell'[p] = state /\ killSwitch'[p] = switch
      /\ \A q \in Panes \ {p} : shell'[q] = shell[q] /\ killSwitch'[q] = killSwitch[q]
  BY DEF TypeOK
<1>4. NoStrayShell'
  <2> SUFFICES ASSUME NEW q \in Panes
               PROVE  /\ shell'[q] \in Reading =>
                           killSwitch'[q] = "fired"
                             \/ (killSwitch'[q] = "armed" /\ inMap' /\ q \in panes')
                      /\ shell'[q] = "spawned" <=>
                           \E d \in Clients : handler'[d].op \in {"create", "split"}
                                                /\ handler'[d].pane = q
    BY DEF NoStrayShell
  <2>1. CASE q = p
    BY <1>3, <2>1 DEF NoStrayShell
  <2>2. CASE q # p
    BY <1>3, <2>2 DEF NoStrayShell
  <2> QED BY <2>1, <2>2
<1>5. CarriedPanesAreNew'
  BY <1>3 DEF CarriedPanesAreNew, Creating, TypeOK
<1> QED BY <1>1, <1>2, <1>4, <1>5

\* remove_pane keeps map, tree and focus together, and the kill signal is sent
\* in the same critical section.
LEMMA ClosePaneInv ==
  ASSUME WorkspaceInv, NEW c \in Clients, NEW p \in Panes, ClosePane(c, p)
  PROVE  WorkspaceInv'
<1> USE DEF WorkspaceInv, tree
<1> DEFINE rest == CloseLeaf(leaves, p)
<1>1. leaves \in Seq(Panes) /\ p \in ToSet(leaves) /\ NoDuplicates(leaves)
  BY DEF ClosePane, TypeOK, TreeHoldsPanes
<1>2. rest \in Seq(Panes) /\ NoDuplicates(rest) /\ ToSet(rest) = panes \ {p}
  BY <1>1, CloseLeafRemoves DEF TreeHoldsPanes
<1> HIDE DEF rest
<1>3. leaves' = rest /\ panes' = panes \ {p} /\ exited' = exited \ {p}
  BY DEF ClosePane, rest
<1>4. TreeHoldsPanes'
  BY <1>2, <1>3 DEF TreeHoldsPanes
<1>5. FocusCoherent'
  <2>1. rest = <<>> <=> panes \ {p} = {}
    BY <1>2, FirstLeafIs
  <2>2. rest # <<>> => FirstLeaf(rest) \in panes \ {p}
    BY <1>2, FirstLeafIs
  <2>3. activePane = defaultActive /\ activePane \in panes
    BY <1>1 DEF FocusCoherent, ClosePane
  <2>4. /\ defaultActive' = IF rest = <<>> THEN NoPane
                            ELSE IF defaultActive = p THEN FirstLeaf(rest) ELSE defaultActive
        /\ activePane' = IF activePane = p THEN defaultActive' ELSE activePane
    BY DEF ClosePane, rest
  <2>5. CASE rest = <<>>
    BY <1>3, <2>1, <2>3, <2>4, <2>5 DEF FocusCoherent
  <2>6. CASE rest # <<>>
    BY <1>3, <2>1, <2>2, <2>3, <2>4, <2>6 DEF FocusCoherent
  <2> QED BY <2>5, <2>6
<1>6. TypeOK'
  <2>1. killSwitch' \in [Panes -> SwitchStates]
    BY DEF ClosePane, TypeOK, SwitchStates
  <2>2. defaultActive' \in Panes \cup {NoPane} /\ activePane' \in Panes \cup {NoPane}
    BY <1>3, <1>5 DEF FocusCoherent, TypeOK
  <2> QED BY <1>2, <1>3, <2>1, <2>2 DEF ClosePane, TypeOK, Bump
<1>7. NoStrayShell'
  <2>1. \A q \in Panes : killSwitch'[q] = IF q = p /\ killSwitch[q] = "armed" THEN "fired"
                                          ELSE killSwitch[q]
    BY DEF ClosePane, TypeOK
  <2> QED BY <1>3, <2>1 DEF ClosePane, NoStrayShell
<1>8. CarriedPanesAreNew'
  BY <1>3 DEF ClosePane, CarriedPanesAreNew, Creating
<1> QED BY <1>4, <1>5, <1>6, <1>7, <1>8

\* add_pane splits the leaf that has focus, or seeds an empty tree.
LEMMA CreateCommitInv ==
  ASSUME WorkspaceInv, NEW c \in Clients, CreateCommit(c)
  PROVE  WorkspaceInv'
<1> USE DEF WorkspaceInv
<1> DEFINE p == handler[c].pane
<1>1. Creating(c) /\ p \in Panes /\ p \notin panes
  BY DEF CreateCommit, Creating, CarriedPanesAreNew, NoStrayShell
<1>2. handler' = [handler EXCEPT ![c] = Idle]
  BY DEF CreateCommit, Finish, Continue
<1>3. CASE inMap /\ AddPane(p) /\ Adopt(p)
  <2> DEFINE target == IF activePane \in ToSet(leaves) THEN activePane ELSE FirstLeaf(leaves)
  <2>1. leaves \in Seq(Panes) /\ NoDuplicates(leaves) /\ ToSet(leaves) = panes
    BY DEF TypeOK, TreeHoldsPanes
  <2>2. leaves' \in Seq(Panes) /\ NoDuplicates(leaves') /\ ToSet(leaves') = panes \cup {p}
    <3>1. CASE leaves = <<>>
      <4>1. leaves' = <<p>> /\ panes = {}
        BY <1>3, <2>1, <3>1, FirstLeafIs DEF AddPane
      <4> QED BY <1>1, <4>1, SingleLeaf
    <3>2. CASE leaves # <<>>
      <4>1. target \in ToSet(leaves)
        BY <2>1, <3>2, FirstLeafIs
      <4>2. leaves' = SplitLeaf(leaves, target, p)
        BY <1>3, <3>2 DEF AddPane
      <4> QED BY <1>1, <2>1, <4>1, <4>2, SplitLeafAdds
    <3> QED BY <3>1, <3>2
  <2>3. panes' = panes \cup {p} /\ revision' = revision + 1
    BY <1>3 DEF AddPane, Bump
  <2>4. FocusCoherent'
    <3>1. leaves = <<>> <=> panes = {}
      BY <2>1, FirstLeafIs
    <3>2. activePane' = IF activePane = NoPane THEN p ELSE activePane
      BY <1>3 DEF AddPane, FocusIfNone
    <3>3. defaultActive' = IF leaves = <<>> THEN p ELSE defaultActive
      BY <1>3 DEF AddPane
    <3>4. panes # {} => activePane # NoPane
      BY NoPaneAssumption DEF FocusCoherent, TypeOK
    <3> QED BY <2>3, <3>1, <3>2, <3>3, <3>4 DEF FocusCoherent
  <2>5. TreeHoldsPanes' /\ revision' \in Nat
    BY <2>2, <2>3 DEF TreeHoldsPanes, TypeOK
  <2>6. UNCHANGED <<policy, inMap, role, exited, told>>
    BY DEF CreateCommit
  <2> QED BY <1>1, <1>2, <1>3, <2>2, <2>3, <2>4, <2>5, <2>6, CommitInv
<1>4. CASE ~inMap /\ Abandon(p)
  BY <1>1, <1>2, <1>4, CommitInv
     DEF CreateCommit, Abandon, tree, TreeHoldsPanes, FocusCoherent, TypeOK
<1> QED BY <1>3, <1>4 DEF CreateCommit

\* split_pane puts the new pane beside its target, if that is still there.
LEMMA SplitCommitInv ==
  ASSUME WorkspaceInv, NEW c \in Clients, SplitCommit(c)
  PROVE  WorkspaceInv'
<1> USE DEF WorkspaceInv
<1> DEFINE p == handler[c].pane  target == handler[c].target
<1>1. Creating(c) /\ p \in Panes /\ p \notin panes
  BY DEF SplitCommit, Creating, CarriedPanesAreNew, NoStrayShell
<1>2. handler' = [handler EXCEPT ![c] = Idle]
  BY DEF SplitCommit, Finish, Continue
<1>3. CASE inMap /\ target \in ToSet(leaves) /\ SplitPane(target, p) /\ Adopt(p)
  <2>1. leaves \in Seq(Panes) /\ NoDuplicates(leaves) /\ ToSet(leaves) = panes
    BY DEF TypeOK, TreeHoldsPanes
  <2>2. leaves' \in Seq(Panes) /\ NoDuplicates(leaves') /\ ToSet(leaves') = panes \cup {p}
    BY <1>1, <1>3, <2>1, SplitLeafAdds DEF SplitPane
  <2>3. panes' = panes \cup {p} /\ revision' = revision + 1
    BY <1>3 DEF SplitPane, Bump
  <2>4. FocusCoherent'
    <3>1. activePane \in panes /\ activePane # NoPane /\ activePane = defaultActive
      BY <1>3, <2>1, NoPaneAssumption DEF FocusCoherent, TypeOK
    <3> QED BY <1>3, <2>3, <3>1 DEF SplitPane, FocusIfNone, FocusCoherent
  <2>5. TreeHoldsPanes' /\ revision' \in Nat
    BY <2>2, <2>3 DEF TreeHoldsPanes, TypeOK
  <2>6. UNCHANGED <<policy, inMap, role, exited, told>>
    BY DEF SplitCommit
  <2> QED BY <1>1, <1>2, <1>3, <2>2, <2>3, <2>4, <2>5, <2>6, CommitInv
<1>4. CASE Abandon(p)
  BY <1>1, <1>2, <1>4, CommitInv
     DEF SplitCommit, Abandon, tree, TreeHoldsPanes, FocusCoherent, TypeOK
<1> QED BY <1>3, <1>4 DEF SplitCommit

\* Every step of a handler or of a read loop keeps the invariant.
LEMMA NextInv == WorkspaceInv /\ [Next]_vars => WorkspaceInv'
<1> SUFFICES ASSUME WorkspaceInv, [Next]_vars PROVE WorkspaceInv'
  OBVIOUS
<1>0. /\ TypeOK
      /\ revision \in Nat /\ role \in [Clients -> Roles] /\ told \subseteq Clients
      /\ Attached \subseteq Clients /\ exited \subseteq panes
      /\ \A c \in Clients : handler[c] = Idle => ~Creating(c)
  BY DEF WorkspaceInv, TypeOK, Attached, Creating, Idle, Carrying
<1>1. CASE UNCHANGED vars
  BY <1>0, <1>1, SameHandlersInv DEF vars
<1>2. ASSUME NEW c \in Clients, NEW mode \in AttachModes, AttachLookup(c, mode)
      PROVE  WorkspaceInv'
  <2>1. Carrying("attach", mode, NoPane, NoPane) \in Request
    BY RequestType
  <2>2. Carrying("attach", mode, NoPane, NoPane).op = "attach"
    BY DEF Carrying
  <2> QED BY <1>0, <1>2, <2>1, <2>2, QuietStepInv DEF AttachLookup, Dispatch, Continue
<1>3. ASSUME NEW c \in Clients, Attach(c) PROVE WorkspaceInv'
  <2>1. Idle \in Request /\ Idle.op = "idle" /\ ~Creating(c)
    BY <1>3, RequestType DEF Attach, Creating, Idle, Carrying
  <2>2. role' \in [Clients -> Roles] /\ revision' \in Nat
    BY <1>0, <1>3 DEF Attach, Roles
  <2> QED BY <1>0, <1>3, <2>1, <2>2, QuietStepInv DEF Attach, Finish, Continue
<1>4. ASSUME NEW c \in Clients, Takeover(c) PROVE WorkspaceInv'
  <2>1. role' \in [Clients -> Roles] /\ revision' \in Nat
    BY <1>0, <1>4 DEF Takeover, Bump, Roles
  <2> QED BY <1>0, <1>4, <2>1, SameHandlersInv DEF Takeover
<1>5. ASSUME NEW c \in Clients, DetachLookup(c) PROVE WorkspaceInv'
  <2>1. Carrying("detach", "ReadOnly", NoPane, NoPane) \in Request
    BY RequestType DEF AttachModes
  <2>2. Carrying("detach", "ReadOnly", NoPane, NoPane).op = "detach"
    BY DEF Carrying
  <2> QED BY <1>0, <1>5, <2>1, <2>2, QuietStepInv DEF DetachLookup, Dispatch, Continue
<1>6. ASSUME NEW c \in Clients, Detach(c) PROVE WorkspaceInv'
  <2> DEFINE next == IF policy = "Ephemeral" /\ Attached = {c}
                     THEN Carrying("terminate", "ReadOnly", NoPane, NoPane) ELSE Idle
  <2>1. next \in Request /\ next.op \notin {"create", "split"} /\ ~Creating(c)
    BY <1>6, RequestType DEF Detach, Creating, Idle, Carrying, AttachModes
  <2>2. role' \in [Clients -> Roles] /\ revision' \in Nat
    BY <1>0, <1>6 DEF Detach, Roles
  <2> QED BY <1>0, <1>6, <2>1, <2>2, QuietStepInv DEF Detach, Continue
<1>7. ASSUME NEW c \in Clients, DisconnectLookup(c) PROVE WorkspaceInv'
  <2>1. Carrying("disconnect", "ReadOnly", NoPane, NoPane) \in Request
    BY RequestType DEF AttachModes
  <2>2. Carrying("disconnect", "ReadOnly", NoPane, NoPane).op = "disconnect"
    BY DEF Carrying
  <2> QED BY <1>0, <1>7, <2>1, <2>2, QuietStepInv DEF DisconnectLookup, Dispatch, Continue
<1>8. ASSUME NEW c \in Clients, Disconnect(c) PROVE WorkspaceInv'
  <2>1. Idle \in Request /\ Idle.op = "idle" /\ ~Creating(c)
    BY <1>8, RequestType DEF Disconnect, Creating, Idle, Carrying
  <2>2. role' \in [Clients -> Roles] /\ revision' \in Nat /\ told' \subseteq Clients
    BY <1>0, <1>8 DEF Disconnect, Roles
  <2> QED BY <1>0, <1>8, <2>1, <2>2, QuietStepInv DEF Disconnect, Finish, Continue
<1>9. ASSUME NEW c \in Clients, TerminateDetached(c) PROVE WorkspaceInv'
  <2>1. ~Creating(c)
    BY <1>9 DEF TerminateDetached, Creating
  <2> QED BY <1>9, <2>1, TerminateInv DEF TerminateDetached, Finish, Continue
<1>10. ASSUME NEW c \in Clients, Terminate(c) PROVE WorkspaceInv'
  <2>1. ~Creating(c) /\ handler' = [handler EXCEPT ![c] = Idle]
    BY <1>0, <1>10 DEF Terminate, Dispatch, TypeOK
  <2> QED BY <1>10, <2>1, TerminateInv DEF Terminate
<1>11. ASSUME NEW c \in Clients, NEW p \in Panes, CreateCheck(c, p) PROVE WorkspaceInv'
  <2> DEFINE request == Carrying("create", "ReadOnly", NoPane, p)
  <2>1. request \in Request
    BY RequestType DEF AttachModes
  <2>2. request.op = "create" /\ request.pane = p
    BY DEF Carrying
  <2> QED BY <1>11, <2>1, <2>2, SpawnInv DEF CreateCheck, Dispatch, Continue
<1>12. ASSUME NEW c \in Clients, NEW target \in Panes, NEW p \in Panes, SplitCheck(c, target, p)
       PROVE  WorkspaceInv'
  <2> DEFINE request == Carrying("split", "ReadOnly", target, p)
  <2>1. request \in Request
    BY RequestType DEF AttachModes
  <2>2. request.op = "split" /\ request.pane = p
    BY DEF Carrying
  <2> QED BY <1>12, <2>1, <2>2, SpawnInv DEF SplitCheck, Dispatch, Continue
<1>13. ASSUME NEW c \in Clients, ResizeSplit(c) PROVE WorkspaceInv'
  BY <1>0, <1>13, SameHandlersInv DEF ResizeSplit, Bump
<1>14. ASSUME NEW c \in Clients, NEW p \in Panes, SetFocus(c, p) PROVE WorkspaceInv'
  BY <1>14 DEF SetFocus, Bump, ptys, WorkspaceInv, TypeOK, TreeHoldsPanes, FocusCoherent,
               NoStrayShell, CarriedPanesAreNew, Creating
<1>15. ASSUME NEW p \in Panes, LoopContinues(p) \/ PtyHangsUp(p) \/ ShellExits(p)
       PROVE  WorkspaceInv'
  <2>1. shell \in [Panes -> ShellStates] /\ killSwitch \in [Panes -> SwitchStates]
    BY <1>0 DEF TypeOK
  <2>2. killSwitch = [killSwitch EXCEPT ![p] = killSwitch[p]] /\ killSwitch[p] \in SwitchStates
    BY <2>1
  <2>3. /\ {"running", "draining", "reaping", "reaped", "dead"}
             \subseteq ShellStates \ {"unborn", "spawned"}
        /\ Reading = {"starting", "running"}
    BY DEF ShellStates, Reading
  <2>4. CASE LoopStarts(p)
    BY <1>0, <2>2, <2>3, <2>4, LoopInv DEF LoopStarts
  <2>5. CASE LoopKilled(p)
    BY <1>0, <2>2, <2>3, <2>5, LoopInv DEF LoopKilled
  <2>6. CASE RecordExit(p)
    <3>1. exited' \subseteq panes /\ revision' \in Nat
      BY <1>0, <2>6 DEF RecordExit, Bump
    <3> QED BY <2>2, <2>3, <2>6, <3>1, LoopInv DEF RecordExit
  <2>7. CASE ReleasePty(p)
    <3> DEFINE switch == IF killSwitch[p] = "armed" THEN "none" ELSE killSwitch[p]
    <3>1. switch \in SwitchStates
      BY <2>2 DEF SwitchStates
    <3>2. killSwitch' = [killSwitch EXCEPT ![p] = switch]
      BY <2>1, <2>7 DEF ReleasePty
    <3> QED BY <1>0, <2>3, <2>7, <3>1, <3>2, LoopInv DEF ReleasePty
  <2>8. CASE PtyHangsUp(p)
    BY <1>0, <2>2, <2>3, <2>8, LoopInv DEF PtyHangsUp
  <2>9. CASE ShellExits(p)
    BY <1>0, <2>2, <2>3, <2>9, LoopInv DEF ShellExits
  <2> QED BY <1>15, <2>4, <2>5, <2>6, <2>7, <2>8, <2>9 DEF LoopContinues
<1> QED
  BY <1>1, <1>2, <1>3, <1>4, <1>5, <1>6, <1>7, <1>8, <1>9, <1>10, <1>11, <1>12, <1>13, <1>14,
     <1>15, CreateCommitInv, SplitCommitInv, ClosePaneInv DEF Next, HandlerContinues, HandlerStarts

\* The whole inductive invariant holds in every state a workspace can reach.
THEOREM WorkspaceSafe == Spec => []WorkspaceInv
<1> QED BY InitInv, NextInv, PTL DEF Spec

\* Types: the state is well-formed whatever the interleaving of requests.
THEOREM WorkspaceTypeOK == Spec => []TypeOK
<1>1. WorkspaceInv => TypeOK
  BY DEF WorkspaceInv
<1> QED BY <1>1, WorkspaceSafe, PTL

\* The panes map and the tree never diverge (Workspace::split_pane, remove_pane).
THEOREM TreeAlwaysHoldsPanes == Spec => []TreeHoldsPanes
<1>1. WorkspaceInv => TreeHoldsPanes
  BY DEF WorkspaceInv
<1> QED BY <1>1, WorkspaceSafe, PTL

\* Live focus and default-active stay coherent (Workspace::remove_pane).
THEOREM FocusAlwaysCoherent == Spec => []FocusCoherent
<1>1. WorkspaceInv => FocusCoherent
  BY DEF WorkspaceInv
<1> QED BY <1>1, WorkspaceSafe, PTL

\* No shell escapes ClosePane and terminate_workspace, however they interleave
\* with the two phases of CreatePane and SplitPane.
THEOREM NoShellStray == Spec => []NoStrayShell
<1>1. WorkspaceInv => NoStrayShell
  BY DEF WorkspaceInv
<1> QED BY <1>1, WorkspaceSafe, PTL

-----------------------------------------------------------------------------
(* The write lease.                                                         *)

\* Client c stops being a writer, if it was one.
GivesUp(c) == \E r \in {"Reader", "Unattached"} : role' = [role EXCEPT ![c] = r]

\* Client c becomes the writer while no other client is.
Obtains(c) ==
  /\ \A w \in Clients \ {c} : ~IsWriter(w)
  /\ role' = [role EXCEPT ![c] = "Writer"]

\* Client c takes the lease from another client of a persistent workspace.
TakesOver(c) ==
  /\ TakeoverEligible(c)
  /\ role' = [d \in Clients |-> IF d = c THEN "Writer"
                                ELSE IF IsWriter(d) THEN "Reader" ELSE role[d]]

\* These are the only ways in which attach_client, detach_client and the
\* take-over change who is attached as what.
LEMMA RoleSteps ==
  ASSUME TypeOK, [Next]_vars
  PROVE  policy' = policy
         /\ (role' = role \/ \E c \in Clients : GivesUp(c) \/ Obtains(c) \/ TakesOver(c))
<1>1. ASSUME NEW c \in Clients, Attach(c)
      PROVE  role' = role \/ GivesUp(c) \/ Obtains(c)
  <2>1. CASE handler[c].mode = "ReadOnly"
    BY <1>1, <2>1 DEF Attach, GivesUp
  <2>2. CASE handler[c].mode = "ReadWrite"
    BY <1>1, <2>2 DEF Attach, Obtains
  <2>3. handler[c].mode \in AttachModes
    BY DEF TypeOK, Request
  <2> QED BY <2>1, <2>2, <2>3 DEF AttachModes
<1>2. ASSUME NEW c \in Clients, Takeover(c) PROVE TakesOver(c)
  BY <1>2 DEF Takeover, TakesOver
<1>3. ASSUME NEW c \in Clients, Detach(c) \/ Disconnect(c) PROVE GivesUp(c)
  BY <1>3 DEF Detach, Disconnect, GivesUp
<1>4. ASSUME NEW c \in Clients, HandlerContinues(c) \/ HandlerStarts(c)
      PROVE  /\ policy' = policy
             /\ \/ role' = role
                \/ Attach(c) \/ Takeover(c) \/ Detach(c) \/ Disconnect(c)
  <2>1. CASE HandlerContinues(c)
    BY <2>1 DEF HandlerContinues, Attach, Detach, Disconnect, TerminateDetached, CreateCommit,
                SplitCommit
  <2>2. CASE HandlerStarts(c)
    BY <2>2 DEF HandlerStarts, AttachLookup, Takeover, DetachLookup, DisconnectLookup, Terminate,
                ResizeSplit, CreateCheck, ClosePane, SetFocus, SplitCheck
  <2> QED BY <1>4, <2>1, <2>2
<1>5. ASSUME NEW p \in Panes, LoopContinues(p) \/ PtyHangsUp(p) \/ ShellExits(p)
      PROVE  policy' = policy /\ role' = role
  BY <1>5 DEF LoopContinues, LoopStarts, LoopKilled, RecordExit, ReleasePty, PtyHangsUp, ShellExits
<1>6. CASE UNCHANGED vars
  BY <1>6 DEF vars
<1> QED BY <1>1, <1>2, <1>3, <1>4, <1>5, <1>6 DEF Next

\* No step gives a second client the lease.
LEMMA SingleWriterStep == TypeOK /\ SingleWriter /\ [Next]_vars => SingleWriter'
<1> SUFFICES ASSUME TypeOK, SingleWriter, [Next]_vars PROVE SingleWriter'
  OBVIOUS
<1>1. role \in [Clients -> Roles]
  BY DEF TypeOK
<1>2. CASE role' = role
  BY <1>2 DEF SingleWriter, IsWriter
<1>3. ASSUME NEW c \in Clients, GivesUp(c) PROVE SingleWriter'
  BY <1>1, <1>3 DEF GivesUp, SingleWriter, IsWriter
<1>4. ASSUME NEW c \in Clients, Obtains(c) PROVE SingleWriter'
  BY <1>1, <1>4 DEF Obtains, SingleWriter, IsWriter
<1>5. ASSUME NEW c \in Clients, TakesOver(c) PROVE SingleWriter'
  BY <1>1, <1>5 DEF TakesOver, SingleWriter, IsWriter
<1> QED BY <1>2, <1>3, <1>4, <1>5, RoleSteps

\* One writer lease per workspace (RFC-021 section 10), for any number of clients.
THEOREM OneWriterLease == Spec => []SingleWriter
<1>1. Init => SingleWriter
  BY DEF Init, SingleWriter, IsWriter
<1> QED BY <1>1, SingleWriterStep, WorkspaceTypeOK, PTL DEF Spec

\* Who the abstract lease says is its holder.
LEMMA WriterIs ==
  /\ SingleWriter => \A c \in Clients : IsWriter(c) => Writer = c
  /\ ~HasWriteOwner => Writer = NoClient
  /\ HasWriteOwner => Writer \in Clients /\ IsWriter(Writer)
BY DEF SingleWriter, Writer, HasWriteOwner

\* A take-over is explicit and demotes the previous owner, for any number of
\* clients and attaches in flight.
THEOREM TakeoverAlwaysDemotes == Spec => TakeoverDemotes
<1>1. ASSUME TypeOK, SingleWriter, [Next]_vars, NEW c \in Clients, NEW d \in Clients,
             c # d, IsWriter(c), role'[d] = "Writer"
      PROVE  policy = "Persistent" /\ role'[c] = "Reader"
  <2>1. role \in [Clients -> Roles]
    BY <1>1 DEF TypeOK
  <2>2. role[d] # "Writer"
    BY <1>1 DEF SingleWriter, IsWriter
  <2>3. ASSUME NEW e \in Clients, GivesUp(e) PROVE FALSE
    BY <1>1, <2>1, <2>2, <2>3 DEF GivesUp
  <2>4. ASSUME NEW e \in Clients, Obtains(e) PROVE FALSE
    BY <1>1, <2>1, <2>2, <2>4 DEF Obtains
  <2>5. ASSUME NEW e \in Clients, TakesOver(e)
        PROVE  policy = "Persistent" /\ role'[c] = "Reader"
    BY <1>1, <2>1, <2>2, <2>5 DEF TakesOver, TakeoverEligible, IsWriter
  <2> QED BY <1>1, <2>2, <2>3, <2>4, <2>5, RoleSteps
<1>2. TypeOK /\ SingleWriter /\ [Next]_vars =>
        \A c, d \in Clients : c # d /\ IsWriter(c) /\ role'[d] = "Writer" =>
          policy = "Persistent" /\ role'[c] = "Reader"
  BY <1>1
<1> QED BY <1>2, WorkspaceTypeOK, OneWriterLease, PTL DEF Spec, TakeoverDemotes

\* attach_client, detach_client and the take-over implement the abstract lease.
THEOREM WorkspaceImplementsLease == Spec => LeaseSpec
<1>1. Init => Lease!Init
  BY DEF Init, Lease!Init, Writer, HasWriteOwner, IsWriter, Policies
<1>2. ASSUME TypeOK, SingleWriter, SingleWriter', [Next]_vars
      PROVE  [Lease!Next]_<<Writer, policy>>
  <2>1. role \in [Clients -> Roles] /\ policy' = policy
    BY <1>2, RoleSteps DEF TypeOK
  <2>2. CASE role' = role
    <3>1. Writer' = Writer
      BY <2>2 DEF Writer, HasWriteOwner, IsWriter
    <3> QED BY <2>1, <3>1
  <2>3. ASSUME NEW c \in Clients, GivesUp(c) PROVE [Lease!Next]_<<Writer, policy>>
    <3>1. \A d \in Clients \ {c} : role'[d] = role[d]
      BY <2>1, <2>3 DEF GivesUp
    <3>2. role'[c] # "Writer"
      BY <2>1, <2>3 DEF GivesUp
    <3>3. CASE IsWriter(c)
      <4>1. ~HasWriteOwner' /\ Writer = c
        BY <1>2, <3>1, <3>2, <3>3, WriterIs DEF SingleWriter, HasWriteOwner, IsWriter
      <4>2. Writer' = NoClient
        BY <4>1 DEF Writer
      <4> QED BY <2>1, <4>1, <4>2, NoClientAssumption DEF Lease!Next, Lease!Release
    <3>4. CASE ~IsWriter(c)
      <4>1. \A d \in Clients : IsWriter(d)' <=> IsWriter(d)
        BY <3>1, <3>2, <3>4 DEF IsWriter
      <4>2. Writer' = Writer
        BY <4>1 DEF Writer, HasWriteOwner
      <4> QED BY <2>1, <4>2
    <3> QED BY <3>3, <3>4
  <2>4. ASSUME NEW c \in Clients, role'[c] = "Writer" PROVE Writer' = c
    <3>1. HasWriteOwner' /\ \A d \in Clients : IsWriter(d)' => d = c
      BY <1>2, <2>4 DEF SingleWriter, HasWriteOwner, IsWriter
    <3> QED BY <2>4, <3>1 DEF Writer, IsWriter
  <2>5. ASSUME NEW c \in Clients, Obtains(c) PROVE [Lease!Next]_<<Writer, policy>>
    <3>1. Writer' = c
      BY <2>1, <2>4, <2>5 DEF Obtains
    <3>2. Writer = c \/ Writer = NoClient
      BY <2>5, WriterIs DEF Obtains, HasWriteOwner
    <3> QED BY <2>1, <3>1, <3>2 DEF Lease!Next, Lease!Acquire
  <2>6. ASSUME NEW c \in Clients, TakesOver(c) PROVE [Lease!Next]_<<Writer, policy>>
    <3>1. Writer' = c
      BY <2>1, <2>4, <2>6 DEF TakesOver
    <3>2. policy = "Persistent" /\ Writer \in Clients \ {c}
      BY <1>2, <2>6, WriterIs DEF TakesOver, TakeoverEligible, HasWriteOwner
    <3> QED BY <2>1, <3>1, <3>2, NoClientAssumption DEF Lease!Next, Lease!Seize
  <2> QED BY <1>2, <2>2, <2>3, <2>5, <2>6, RoleSteps
<1> QED BY <1>1, <1>2, WorkspaceTypeOK, OneWriterLease, PTL DEF Spec, LeaseSpec, Lease!Spec

\* Every step that changes who is attached, the tree or an exit status raises
\* the revision (Workspace::bump_revision), so that a client or the disk that
\* compares revisions cannot miss it.
THEOREM RevisionAlwaysTracks == Spec => RevisionTracksChanges
<1> DEFINE observed == <<role, tree, exited>>
<1>1. ASSUME TypeOK, [Next]_vars, observed' # observed
      PROVE  revision' > revision
  <2>0. revision \in Nat
    BY <1>1 DEF TypeOK
  <2>1. ASSUME NEW c \in Clients, Attach(c) PROVE revision' > revision
    <3>1. PICK rename \in {0, 1} :
            revision' = revision + (IF role[c] = role'[c] THEN 0 ELSE 1) + rename
      BY <1>1, <2>1 DEF Attach, TypeOK
    <3>2. role' # role
      BY <1>1, <2>1 DEF Attach
    <3>3. role'[c] # role[c]
      BY <1>1, <2>1, <3>2 DEF Attach, TypeOK
    <3> QED BY <2>0, <3>1, <3>3
  <2>2. ASSUME NEW c \in Clients, Detach(c) \/ Disconnect(c) PROVE revision' > revision
    BY <1>1, <2>0, <2>2 DEF Detach, Disconnect, Attached, TypeOK
  <2>3. ASSUME NEW c \in Clients, TerminateDetached(c) PROVE FALSE
    BY <1>1, <2>3 DEF TerminateDetached
  <2>4. ASSUME NEW c \in Clients, CreateCommit(c) \/ SplitCommit(c) PROVE revision' > revision
    BY <1>1, <2>0, <2>4 DEF CreateCommit, SplitCommit, AddPane, SplitPane, Abandon, Bump
  <2>5. ASSUME NEW c \in Clients, HandlerStarts(c) PROVE revision' > revision
    BY <1>1, <2>0, <2>5 DEF HandlerStarts, AttachLookup, Takeover, DetachLookup, DisconnectLookup,
       Terminate, ResizeSplit, CreateCheck, ClosePane, SetFocus, SplitCheck, Bump
  <2>6. ASSUME NEW p \in Panes, LoopContinues(p) \/ PtyHangsUp(p) \/ ShellExits(p)
        PROVE  revision' > revision
    BY <1>1, <2>0, <2>6 DEF LoopContinues, LoopStarts, LoopKilled, RecordExit, ReleasePty,
       PtyHangsUp, ShellExits, Bump
  <2>7. ~UNCHANGED vars
    BY <1>1 DEF vars
  <2> QED BY <1>1, <2>1, <2>2, <2>3, <2>4, <2>5, <2>6, <2>7 DEF Next, HandlerContinues
<1>2. TypeOK /\ [Next]_vars => (observed' # observed => revision' > revision)
  BY <1>1
<1> QED BY <1>2, WorkspaceTypeOK, PTL DEF Spec, RevisionTracksChanges
==============================================================================
