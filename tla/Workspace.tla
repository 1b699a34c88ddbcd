------------------------------ MODULE Workspace ------------------------------
(****************************************************************************)
(* One workspace of the daemon and the request handlers that reach it:      *)
(* services/rttx-server/src/workspace.rs and the dispatch of server.rs.     *)
(*                                                                          *)
(* Each connection runs its requests one at a time (v3_client_reader), each *)
(* as its own tokio task. A handler takes the server mutex, the workspace   *)
(* mutex, or one after the other; what it does between acquiring and        *)
(* releasing them is one action here, and a handler that lets go in the     *)
(* middle is several, with what it carries across the gap in handler[c].    *)
(*                                                                          *)
(* Pane sizes, names, titles and screens are the subject of other modules.  *)
(* The tree is represented by its leaf order (module LeafOrder).            *)
(****************************************************************************)
EXTENDS LeafOrder, FiniteSets

CONSTANTS
  Clients,      \* connections to the daemon
  Panes,        \* pane ids the daemon can mint; each is used at most once
  NoPane,       \* stands for Option::None where a pane id is expected
  NoClient,     \* stands for Option::None where a client id is expected
  MaxRevision   \* bound: no new request or exit is taken up from this revision

ASSUME NoPaneAssumption == NoPane \notin Panes
ASSUME NoClientAssumption == NoClient \notin Clients
ASSUME MaxRevisionAssumption == MaxRevision \in Nat

VARIABLES
  policy,         \* Workspace::policy
  inMap,          \* the workspace is in Server::workspaces
  role,           \* Workspace::attached_clients
  panes,          \* keys of Workspace::panes
  leaves,         \* panes of Workspace::tree in collect() order
  defaultActive,  \* WorkspaceTree::default_active
  activePane,     \* Workspace::active_pane_id
  exited,         \* panes whose exit_status is Some
  revision,       \* Workspace::revision
  handler,        \* per connection: the request in progress
  shell,          \* per pane id: its shell process and PTY read loop
  killSwitch,     \* per pane id: its entry in pty_writers / pty_kill_senders
  told            \* connections that were sent WorkspaceTerminated

tree  == <<panes, leaves, defaultActive, activePane>>
ptys  == <<shell, killSwitch>>
vars  == <<policy, inMap, role, tree, exited, revision, handler, ptys, told>>

Policies    == {"Persistent", "Ephemeral"}
Roles       == {"Unattached", "Reader", "Writer"}
AttachModes == {"ReadOnly", "ReadWrite"}

\* A request between two of its critical sections, and what it carries along.
Request == [op : {"idle", "attach", "detach", "disconnect", "terminate", "create", "split"},
            mode : AttachModes, target : Panes \cup {NoPane}, pane : Panes \cup {NoPane}]
Carrying(op, mode, target, pane) ==
  [op |-> op, mode |-> mode, target |-> target, pane |-> pane]
Idle == Carrying("idle", "ReadOnly", NoPane, NoPane)

\* A shell is spawned by a handler's first phase, starting until its read loop
\* has found the workspace, and running while the loop reads its PTY. Once the
\* PTY has hung up the loop waits for the process (draining), records its exit
\* (reaping), drops the PTY handles (reaped) and ends (dead).
Reading == {"starting", "running"}
ShellStates == Reading \cup {"unborn", "spawned", "draining", "reaping", "reaped", "dead"}
SwitchStates == {"none", "armed", "fired"}

Init ==
  /\ policy \in Policies
  /\ inMap = TRUE
  /\ role = [c \in Clients |-> "Unattached"]
  /\ panes = {}
  /\ leaves = <<>>
  /\ defaultActive = NoPane
  /\ activePane = NoPane
  /\ exited = {}
  /\ revision = 1
  /\ handler = [c \in Clients |-> Idle]
  /\ shell = [p \in Panes |-> "unborn"]
  /\ killSwitch = [p \in Panes |-> "none"]
  /\ told = {}

-----------------------------------------------------------------------------
Attached == {c \in Clients : role[c] # "Unattached"}
IsWriter(c) == role[c] = "Writer"
HasWriteOwner == \E c \in Clients : IsWriter(c)

HasWriteAccess(c) ==
  \/ IsWriter(c)
  \/ role[c] = "Unattached" /\ ~HasWriteOwner

\* Faulty variant of TakeoverEligible: the policy is not consulted.
TakeoverEligibleEphemeral(c) == \E w \in Clients \ {c} : IsWriter(w)

TakeoverEligible(c) ==
  /\ policy = "Persistent"
  /\ \E w \in Clients \ {c} : IsWriter(w)

\* A connection takes up a request on a workspace it finds in the server map.
Dispatch(c) ==
  /\ handler[c] = Idle
  /\ inMap
  /\ revision < MaxRevision

Continue(c, request) == handler' = [handler EXCEPT ![c] = request]
Finish(c) == Continue(c, Idle)
Bump == revision' = revision + 1

-----------------------------------------------------------------------------
(* Attach and detach look the workspace up under the server mutex and act   *)
(* on it under its own mutex, with nothing held in between.                 *)

AttachLookup(c, mode) ==
  /\ Dispatch(c)
  /\ Continue(c, Carrying("attach", mode, NoPane, NoPane))
  /\ UNCHANGED <<policy, inMap, role, tree, exited, revision, ptys, told>>

\* Faulty variant of Attach: a read-write attach does not look for another writer.
AttachUnchecked(c) ==
  LET granted == IF handler[c].mode = "ReadOnly" THEN "Reader" ELSE "Writer" IN
  /\ handler[c].op = "attach"
  /\ role' = [role EXCEPT ![c] = granted]
  /\ Bump
  /\ Finish(c)
  /\ UNCHANGED <<policy, inMap, tree, exited, ptys, told>>

\* Workspace::attach_client, then refresh_auto_name, which bumps the revision
\* once more when the naming pane has moved to another directory.
Attach(c) ==
  LET mode == handler[c].mode
      granted == IF mode = "ReadOnly" THEN "Reader" ELSE "Writer"
      blocked == mode = "ReadWrite" /\ \E w \in Clients \ {c} : IsWriter(w)
      change == IF role[c] = granted THEN 0 ELSE 1
  IN
  /\ handler[c].op = "attach"
  /\ \/ /\ blocked
        /\ UNCHANGED <<role, revision>>
     \/ /\ ~blocked
        /\ role' = [role EXCEPT ![c] = granted]
        /\ \E rename \in IF panes = {} THEN {0} ELSE {0, 1} :
             revision' = revision + change + rename
  /\ Finish(c)
  /\ UNCHANGED <<policy, inMap, tree, exited, ptys, told>>

\* Faulty variant of Takeover: the previous owner is thrown out.
TakeoverEvicting(c) ==
  /\ Dispatch(c)
  /\ TakeoverEligible(c)
  /\ role' = [d \in Clients |-> IF d = c THEN "Writer"
                                ELSE IF IsWriter(d) THEN "Unattached" ELSE role[d]]
  /\ Bump
  /\ UNCHANGED <<policy, inMap, tree, exited, handler, ptys, told>>

\* TakeoverWorkspace holds the server mutex from the lookup to the LeaseLost
\* push, so it is a single step.
Takeover(c) ==
  /\ Dispatch(c)
  /\ TakeoverEligible(c)
  /\ role' = [d \in Clients |-> IF d = c THEN "Writer"
                                ELSE IF IsWriter(d) THEN "Reader" ELSE role[d]]
  /\ Bump
  /\ UNCHANGED <<policy, inMap, tree, exited, handler, ptys, told>>

DetachLookup(c) ==
  /\ Dispatch(c)
  /\ Continue(c, Carrying("detach", "ReadOnly", NoPane, NoPane))
  /\ UNCHANGED <<policy, inMap, role, tree, exited, revision, ptys, told>>

\* Workspace::detach_client with ExplicitRequest. When it was the last client
\* of an ephemeral workspace, the handler goes on to terminate it.
Detach(c) ==
  LET last == policy = "Ephemeral" /\ Attached = {c} IN
  /\ handler[c].op = "detach"
  /\ role' = [role EXCEPT ![c] = "Unattached"]
  /\ revision' = IF c \in Attached THEN revision + 1 ELSE revision
  /\ Continue(c, IF last THEN Carrying("terminate", "ReadOnly", NoPane, NoPane) ELSE Idle)
  /\ UNCHANGED <<policy, inMap, tree, exited, ptys, told>>

\* The connection ends: handle_client lists the workspaces under the server
\* mutex, then detaches from each with DetachReason::Disconnect. The next
\* connection is a new client, which has been told nothing.
DisconnectLookup(c) ==
  /\ Dispatch(c)
  /\ Continue(c, Carrying("disconnect", "ReadOnly", NoPane, NoPane))
  /\ UNCHANGED <<policy, inMap, role, tree, exited, revision, ptys, told>>

Disconnect(c) ==
  /\ handler[c].op = "disconnect"
  /\ role' = [role EXCEPT ![c] = "Unattached"]
  /\ revision' = IF c \in Attached THEN revision + 1 ELSE revision
  /\ told' = told \ {c}
  /\ Finish(c)
  /\ UNCHANGED <<policy, inMap, tree, exited, ptys>>

-----------------------------------------------------------------------------
(* Server::terminate_workspace on a workspace that is in the map. It takes  *)
(* the workspace mutex with try_lock; when a read loop or another handler   *)
(* holds it, the workspace goes back into the map and nothing else happens. *)
(* Its callers answer WorkspaceTerminated either way.                       *)

\* Faulty variant of Ended: the kill senders stay in the server's map.
EndedWithoutKill(c) ==
  /\ inMap' = FALSE
  /\ told' = told \cup Attached \cup {c}
  /\ UNCHANGED killSwitch

Ended(c) ==
  /\ inMap' = FALSE
  /\ killSwitch' = [p \in Panes |-> IF p \in panes /\ killSwitch[p] = "armed"
                                    THEN "fired" ELSE killSwitch[p]]
  /\ told' = told \cup Attached \cup {c}

Contended(c) ==
  /\ told' = told \cup {c}
  /\ UNCHANGED <<inMap, killSwitch>>

\* Second half of DetachWorkspace when it was the last detach of an ephemeral
\* workspace; another request may have ended the workspace in between.
TerminateDetached(c) ==
  /\ handler[c].op = "terminate"
  /\ Contended(c) \/ (inMap /\ Ended(c))
  /\ Finish(c)
  /\ UNCHANGED <<policy, role, tree, exited, revision, shell>>

\* TerminateWorkspace, under the server mutex throughout.
Terminate(c) ==
  /\ Dispatch(c)
  /\ HasWriteOwner => HasWriteAccess(c)
  /\ Contended(c) \/ Ended(c)
  /\ UNCHANGED <<policy, role, tree, exited, revision, handler, shell>>

-----------------------------------------------------------------------------
(* CreatePane and SplitPane check the request and spawn the shell in a      *)
(* first critical section, and add the pane in a second one.                *)

\* Pane p is new, its read loop is about to be scheduled.
Adopt(p) ==
  /\ shell' = [shell EXCEPT ![p] = "starting"]
  /\ killSwitch' = [killSwitch EXCEPT ![p] = "armed"]

\* The handler gives up on pane p and kills the shell it spawned.
Abandon(p) ==
  /\ shell' = [shell EXCEPT ![p] = "dead"]
  /\ UNCHANGED <<tree, revision, killSwitch>>

FocusIfNone(p) ==
  activePane' = IF activePane = NoPane THEN p ELSE activePane

CreateCheck(c, p) ==
  /\ Dispatch(c)
  /\ HasWriteAccess(c)
  /\ shell[p] = "unborn"
  /\ shell' = [shell EXCEPT ![p] = "spawned"]
  /\ Continue(c, Carrying("create", "ReadOnly", NoPane, p))
  /\ UNCHANGED <<policy, inMap, role, tree, exited, revision, killSwitch, told>>

\* Workspace::add_pane and insert_pane_into_tree.
AddPane(p) ==
  LET target == IF activePane \in ToSet(leaves) THEN activePane ELSE FirstLeaf(leaves) IN
  /\ panes' = panes \cup {p}
  /\ IF leaves = <<>>
     THEN leaves' = <<p>> /\ defaultActive' = p
     ELSE leaves' = SplitLeaf(leaves, target, p) /\ UNCHANGED defaultActive
  /\ FocusIfNone(p)
  /\ Bump

\* Faulty variant of CreateCommit: the workspace found in phase one is trusted.
CreateCommitBlindly(c) ==
  /\ handler[c].op = "create"
  /\ AddPane(handler[c].pane)
  /\ Adopt(handler[c].pane)
  /\ Finish(c)
  /\ UNCHANGED <<policy, inMap, role, exited, told>>

CreateCommit(c) ==
  LET p == handler[c].pane IN
  /\ handler[c].op = "create"
  /\ \/ inMap /\ AddPane(p) /\ Adopt(p)
     \/ ~inMap /\ Abandon(p)
  /\ Finish(c)
  /\ UNCHANGED <<policy, inMap, role, exited, told>>

SplitCheck(c, target, p) ==
  /\ Dispatch(c)
  /\ HasWriteAccess(c)
  /\ target \in ToSet(leaves)
  /\ shell[p] = "unborn"
  /\ shell' = [shell EXCEPT ![p] = "spawned"]
  /\ Continue(c, Carrying("split", "ReadOnly", target, p))
  /\ UNCHANGED <<policy, inMap, role, tree, exited, revision, killSwitch, told>>

\* Workspace::split_pane, which fails when the target was closed meanwhile.
SplitPane(target, p) ==
  /\ leaves' = SplitLeaf(leaves, target, p)
  /\ panes' = panes \cup {p}
  /\ FocusIfNone(p)
  /\ UNCHANGED defaultActive
  /\ Bump

\* Faulty variant of SplitCommit: the pane enters the map before the tree has
\* accepted the split.
SplitCommitMapFirst(c) ==
  LET p == handler[c].pane
      target == handler[c].target
      possible == inMap /\ target \in ToSet(leaves)
  IN
  /\ handler[c].op = "split"
  /\ \/ possible /\ SplitPane(target, p) /\ Adopt(p)
     \/ /\ ~possible
        /\ panes' = panes \cup {p}
        /\ shell' = [shell EXCEPT ![p] = "dead"]
        /\ UNCHANGED <<leaves, defaultActive, activePane, revision, killSwitch>>
  /\ Finish(c)
  /\ UNCHANGED <<policy, inMap, role, exited, told>>

SplitCommit(c) ==
  LET p == handler[c].pane
      target == handler[c].target
      possible == inMap /\ target \in ToSet(leaves)
  IN
  /\ handler[c].op = "split"
  /\ \/ possible /\ SplitPane(target, p) /\ Adopt(p)
     \/ ~possible /\ Abandon(p)
  /\ Finish(c)
  /\ UNCHANGED <<policy, inMap, role, exited, told>>

-----------------------------------------------------------------------------
(* The structural commands that hold the server mutex throughout.           *)

\* Faulty variant of ClosePane: live focus does not follow the tree's default.
ClosePaneLosingFocus(c, p) ==
  LET rest == CloseLeaf(leaves, p)
      heir == IF rest = <<>> THEN NoPane
              ELSE IF defaultActive = p THEN FirstLeaf(rest) ELSE defaultActive
  IN
  /\ Dispatch(c)
  /\ HasWriteAccess(c)
  /\ p \in panes
  /\ panes' = panes \ {p}
  /\ leaves' = rest
  /\ defaultActive' = heir
  /\ activePane' = IF activePane = p THEN NoPane ELSE activePane
  /\ exited' = exited \ {p}
  /\ killSwitch' = [killSwitch EXCEPT ![p] = IF @ = "armed" THEN "fired" ELSE @]
  /\ Bump
  /\ UNCHANGED <<policy, inMap, role, handler, shell, told>>

\* Workspace::remove_pane with PaneTree::close, then the kill signal.
ClosePane(c, p) ==
  LET rest == CloseLeaf(leaves, p)
      heir == IF rest = <<>> THEN NoPane
              ELSE IF defaultActive = p THEN FirstLeaf(rest) ELSE defaultActive
  IN
  /\ Dispatch(c)
  /\ HasWriteAccess(c)
  /\ p \in panes
  /\ panes' = panes \ {p}
  /\ leaves' = rest
  /\ defaultActive' = heir
  /\ activePane' = IF activePane = p THEN heir ELSE activePane
  /\ exited' = exited \ {p}
  /\ killSwitch' = [killSwitch EXCEPT ![p] = IF @ = "armed" THEN "fired" ELSE @]
  /\ Bump
  /\ UNCHANGED <<policy, inMap, role, handler, shell, told>>

\* The ratio is geometry (module WorkspaceTree); here a split exists or not.
ResizeSplit(c) ==
  /\ Dispatch(c)
  /\ HasWriteAccess(c)
  /\ Len(leaves) > 1
  /\ Bump
  /\ UNCHANGED <<policy, inMap, role, tree, exited, handler, ptys, told>>

SetFocus(c, p) ==
  /\ Dispatch(c)
  /\ HasWriteAccess(c)
  /\ p \in ToSet(leaves)
  /\ defaultActive' = p
  /\ activePane' = p
  /\ Bump
  /\ UNCHANGED <<policy, inMap, role, panes, leaves, exited, handler, ptys, told>>

-----------------------------------------------------------------------------
(* The PTY read loop of pane p (spawn_pty_read_loop).                       *)

\* It finds the workspace, or returns and thereby drops and kills the child.
LoopStarts(p) ==
  /\ shell[p] = "starting"
  /\ shell' = [shell EXCEPT ![p] = IF inMap THEN "running" ELSE "dead"]
  /\ UNCHANGED <<policy, inMap, role, tree, exited, revision, handler, killSwitch, told>>

LoopKilled(p) ==
  /\ shell[p] = "running"
  /\ killSwitch[p] = "fired"
  /\ shell' = [shell EXCEPT ![p] = "dead"]
  /\ UNCHANGED <<policy, inMap, role, tree, exited, revision, handler, killSwitch, told>>

\* End of file or an error on the PTY: nothing holds its other end any more.
PtyHangsUp(p) ==
  /\ shell[p] = "running"
  /\ shell' = [shell EXCEPT ![p] = "draining"]
  /\ UNCHANGED <<policy, inMap, role, tree, exited, revision, handler, killSwitch, told>>

\* child.wait() returns. Nothing but the process itself brings this about.
ShellExits(p) ==
  /\ shell[p] = "draining"
  /\ shell' = [shell EXCEPT ![p] = "reaping"]
  /\ UNCHANGED <<policy, inMap, role, tree, exited, revision, handler, killSwitch, told>>

\* Faulty variants of RecordExit: it does not check that the pane is still there,
\* does not bump the revision, or does nothing while no client is attached.
RecordExitOfAny(p) ==
  /\ shell[p] = "reaping"
  /\ shell' = [shell EXCEPT ![p] = "reaped"]
  /\ exited' = exited \cup {p}
  /\ Bump
  /\ UNCHANGED <<policy, inMap, role, tree, handler, killSwitch, told>>

RecordExitSilently(p) ==
  /\ shell[p] = "reaping"
  /\ shell' = [shell EXCEPT ![p] = "reaped"]
  /\ exited' = exited \cup ({p} \cap panes)
  /\ UNCHANGED <<policy, inMap, role, tree, revision, handler, killSwitch, told>>

RecordExitIfWatched(p) ==
  /\ shell[p] = "reaping"
  /\ shell' = [shell EXCEPT ![p] = "reaped"]
  /\ IF p \in panes \ exited /\ Attached # {}
     THEN exited' = exited \cup {p} /\ Bump
     ELSE UNCHANGED <<exited, revision>>
  /\ UNCHANGED <<policy, inMap, role, tree, handler, killSwitch, told>>

\* Workspace::set_pane_exit_status, on the workspace the loop has kept.
RecordExit(p) ==
  /\ shell[p] = "reaping"
  /\ shell' = [shell EXCEPT ![p] = "reaped"]
  /\ IF p \in panes \ exited
     THEN exited' = exited \cup {p} /\ Bump
     ELSE UNCHANGED <<exited, revision>>
  /\ UNCHANGED <<policy, inMap, role, tree, handler, killSwitch, told>>

ReleasePty(p) ==
  /\ shell[p] = "reaped"
  /\ shell' = [shell EXCEPT ![p] = "dead"]
  /\ killSwitch' = [killSwitch EXCEPT ![p] = IF @ = "armed" THEN "none" ELSE @]
  /\ UNCHANGED <<policy, inMap, role, tree, exited, revision, handler, told>>

-----------------------------------------------------------------------------
HandlerContinues(c) ==
  Attach(c) \/ Detach(c) \/ Disconnect(c) \/ TerminateDetached(c)
    \/ CreateCommit(c) \/ SplitCommit(c)

HandlerStarts(c) ==
  \/ \E mode \in AttachModes : AttachLookup(c, mode)
  \/ Takeover(c) \/ DetachLookup(c) \/ DisconnectLookup(c) \/ Terminate(c) \/ ResizeSplit(c)
  \/ \E p \in Panes : CreateCheck(c, p) \/ ClosePane(c, p) \/ SetFocus(c, p)
  \/ \E target, p \in Panes : SplitCheck(c, target, p)

LoopContinues(p) ==
  LoopStarts(p) \/ LoopKilled(p) \/ RecordExit(p) \/ ReleasePty(p)

Next ==
  \/ \E c \in Clients : HandlerContinues(c) \/ HandlerStarts(c)
  \/ \E p \in Panes : LoopContinues(p) \/ PtyHangsUp(p) \/ ShellExits(p)

Spec == Init /\ [][Next]_vars

\* The runtime schedules every task that can go on. No request has to arrive
\* and no shell has to end.
FairSpec ==
  /\ Spec
  /\ \A c \in Clients : WF_vars(HandlerContinues(c))
  /\ \A p \in Panes : WF_vars(LoopContinues(p))

-----------------------------------------------------------------------------
(* Safety.                                                                  *)

\* Every variable keeps the type its Rust declaration gives it.
TypeOK ==
  /\ policy \in Policies
  /\ inMap \in BOOLEAN
  /\ role \in [Clients -> Roles]
  /\ panes \subseteq Panes
  /\ leaves \in Seq(Panes)
  /\ defaultActive \in Panes \cup {NoPane}
  /\ activePane \in Panes \cup {NoPane}
  /\ exited \subseteq panes
  /\ revision \in Nat
  /\ handler \in [Clients -> Request]
  /\ shell \in [Panes -> ShellStates]
  /\ killSwitch \in [Panes -> SwitchStates]
  /\ told \subseteq Clients

\* "One writer lease per runtime" (RFC-021 section 10): attach_client, take-over
\* and detach, in any order and with attaches delayed between their lookup and
\* their effect, never leave two entries of attached_clients as Writer.
SingleWriter == \A c, d \in Clients : IsWriter(c) /\ IsWriter(d) => c = d

\* "structure and pane state never diverge" (Workspace::split_pane): the panes
\* map and the tree hold the same panes, each in one leaf, also when the split
\* target is closed or focus has moved between the two phases of a request.
TreeHoldsPanes == NoDuplicates(leaves) /\ ToSet(leaves) = panes

\* "focus follows the tree's recomputed default-active so the two stay coherent"
\* (Workspace::remove_pane): live focus and the tree's default-active agree, and
\* name a pane that exists as soon as there is one.
FocusCoherent ==
  /\ activePane = defaultActive
  /\ IF panes = {} THEN activePane = NoPane ELSE activePane \in panes

\* No shell runs that nothing will ever stop: one that is being read, or about
\* to be, has had its kill signal sent, or is the live shell of a pane that
\* ClosePane and terminate_workspace can still reach; one between the two
\* phases of CreatePane or SplitPane is in the hands of one handler.
NoStrayShell ==
  \A p \in Panes :
    /\ shell[p] \in Reading =>
         killSwitch[p] = "fired" \/ (killSwitch[p] = "armed" /\ inMap /\ p \in panes)
    /\ shell[p] = "spawned" <=>
         \E c \in Clients : handler[c].op \in {"create", "split"} /\ handler[c].pane = p

-----------------------------------------------------------------------------
(* What a step may not do.                                                  *)

\* "Monotonic revision for meaningful workspace mutations" (Workspace::revision):
\* every change a client or the disk must learn of raises the revision, which is
\* what the serialization loop and a resynchronising client compare.
RevisionTracksChanges ==
  [][<<role, tree, exited>>' # <<role, tree, exited>> => revision' > revision]_vars

\* Taking over is explicit, and "the previous owner is demoted, not disconnected"
\* (RFC-021 section 10): in the step in which the lease passes from c to d, c
\* becomes a reader of a persistent workspace, whatever attach is in flight.
TakeoverDemotes ==
  [][\A c, d \in Clients :
       c # d /\ IsWriter(c) /\ role'[d] = "Writer" =>
         policy = "Persistent" /\ role'[c] = "Reader"]_vars

\* The attachments of a workspace are used as the lease of module WriteLease.
Writer == IF HasWriteOwner THEN CHOOSE c \in Clients : IsWriter(c) ELSE NoClient

Lease == INSTANCE WriteLease WITH holder <- Writer, Nobody <- NoClient

\* attach_client, detach_client and the take-over implement the abstract lease.
LeaseSpec == Lease!Spec

-----------------------------------------------------------------------------
(* Progress, under FairSpec.                                                *)

\* A pane that was closed, or whose workspace was terminated, before, while or
\* after its read loop starts does not keep being read.
ClosedPanesStopReading ==
  \A p \in Panes :
    (shell[p] \in Reading /\ ~(inMap /\ p \in panes)) ~> shell[p] \notin Reading

\* The exit of a shell reaches the workspace unless the pane is closed first.
ExitIsRecorded ==
  \A p \in Panes : shell[p] = "reaping" ~> (p \in exited \/ p \notin panes)

-----------------------------------------------------------------------------
(* Statements of the repository that the code does not meet.                *)

\* RFC-021 section 10: "as do all structural commands ... The single-writer
\* invariant therefore holds even against a stale or racing client". The second
\* phase of CreatePane and SplitPane does not look at write access again.
LeaseGuardsStructure ==
  [][\A c \in Clients :
       handler[c].op \in {"create", "split"} /\ handler'[c] = Idle /\ leaves' # leaves =>
         HasWriteAccess(c)]_vars

\* tests/lifecycle_leaks.rs: "ephemeral sessions must terminate on last detach",
\* and a TerminateWorkspace is answered with WorkspaceTerminated. The answer is
\* given also when terminate_workspace put the workspace back.
TerminatedIsGone == told # {} => ~inMap

\* Workspace::takeover_eligible_for: "an ephemeral workspace exists for as long as
\* its clients stay attached". Between the last detach and terminate_workspace
\* another client can attach, and is then terminated with the workspace.
EphemeralEndsUnattended ==
  [][(\E c \in Clients : TerminateDetached(c)) /\ inMap /\ ~inMap' => Attached = {}]_vars
==============================================================================
