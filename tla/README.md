# A TLA+ model of rttx

rttx is a terminal workspace manager: a daemon (`services/rttx-server`) owns workspaces of panes
and their shells, and GTK clients (`clients/rttx`) attach to them over a Unix socket or SSH. The
protocol crate (`protocols/rttx-proto`) carries the messages. This directory holds TLA+ modules of
the daemon's core and of the client's connection and window state, the TLC configurations that check
them on small instances, and TLAPS proofs for instances of every size. Paths below are relative to
the repository; `server.rs`, `workspace.rs`, `pane.rs` and `state/` are under
`services/rttx-server/src/`, `daemon_bridge.rs`, `workspace_state.rs`, `window/` and `store/` under
`clients/rttx/src/`.

## 1. The system

### Components, their state and their operations

| component | state | operations | what makes it correct |
|---|---|---|---|
| pane tree (`pane_tree.rs`) | binary tree of panes, default-active pane | insert root, split, close, resize a split, set focus | each pane in one leaf, legal ratios, default-active in the tree; other panes are not moved by a split or a close |
| workspace (`workspace.rs`) | attached clients and roles, panes, tree, focus, revision, persisted revision, policy, name | attach, take over, detach, structural commands, metadata | at most one writer; map, tree and focus agree; every change raises the revision |
| dispatch (`server.rs`, `Server`) | workspaces, PTY writers, kill senders, client senders, client sizes | one handler per request, each an async task | what a handler checked still holds when it acts on it, or the difference is harmless |
| PTY read loop (`spawn_pty_read_loop`) | one task per pane: reader, child, kill receiver | read a batch in five phases, kill, exit | no shell without an owner; exits are recorded; every client gets the same output |
| serialization (`serialization_loop`, `persist_and_cleanup`, `state/persistence.rs`) | index, workspace files, pane files, `last_persisted_ids` | tick, final save, load | a crash or a shutdown loses nothing that counts as saved |
| cleanup (`state/cleanup.rs`) | one thread per removal | remove a workspace directory or a pane's files | what is gone stays gone |
| file writes (`state/io.rs`) | `.tmp`, `.prev`, `.bak`, live file | write with backup, read with fallback | one of the copies is always whole |
| connections (`handle_client`) | senders, protocol and sizes per connection, permits, counter | accept, probe, handshake, requests, clean-up | a connection that is over leaves nothing behind |
| client channels (`client_writer`) | push and response channel per connection | send, overflow, resync | the client's screen equals the daemon's |
| sizing (`handle_v3_report_client_size`) | size per client and pane | report, detach, disconnect | a pane has the minimum of the sizes of its viewers |
| endpoint actor (client, `daemon_bridge.rs`) | connection, tracked workspaces, heartbeat, reconnect attempt, backpressure | commands, pushes, timer ticks | a lost connection is noticed and retried; no tracked workspace is left detached |
| window state (`workspace_state.rs`, `window/`, `workspace/`) | workspaces, layouts, pane ids, dismissed runtimes, widgets | user commands, endpoint events, save, load | the window shows what the daemon has; what was closed stays closed |
| client store (`store/io.rs`) | document, `.bak`, `backups/` | save, load with recovery | a crash loses at most the last save |

The rest (start-up files for shells, watchdog, flight recorder, metrics, logging, user interface,
packaging) is listed in `PROJECT.json` with the reason why it is not modelled.

### How they interact

Each connection has a reader task that runs its requests one at a time, and a writer task fed by
two bounded channels, one for pushes and one for responses. A request takes the server mutex, a
workspace mutex, or the one after the other, always server before workspace when both are held.
Three patterns occur, and the interleavings they allow are what module `Workspace` is about:

* look the workspace up under the server mutex, let go, act under the workspace mutex (attach,
  detach, disconnect);
* check under both mutexes, let go and spawn a shell, act under both mutexes again (create a pane,
  split a pane);
* hold the server mutex throughout (take over, terminate, close, resize a split, focus).

`terminate_workspace` takes the workspace mutex with `try_lock` and gives up when it is taken. Read
loops keep their workspace's `Arc` and work on it even when it has left the server's map. The
serialization loop copies what it needs under the mutexes and writes with none held; removal threads
are never waited for; at shutdown the final save runs while handlers, and a tick in progress, go on.

On the client, one actor per endpoint (`daemon_bridge.rs`) owns the connection, and the window owns the
state: commands go to the actor and events come back through two channels, so that each side acts on
what the other was some time ago. An actor that awaits a response reads on and dispatches what it
skips; between commands it reads pushes, keeps a heartbeat and works off its queue, first the queue.
A retry replaces the actor while events of the old one are still queued.

What is hard to test is listed under `hazards` in `PROJECT.json`, each with its line.

## 2. Modules

| module | models | state and actions |
|---|---|---|
| `LeafOrder` | what the tree operations do to the order of the leaves | operators and, at the end, lemmas about them; used by `Workspace` and `Window`, so that they can be proved about |
| `PaneTree` | the recursive functions of `pane_tree.rs` | operators only (RECURSIVE, hence used by TLC runs alone) |
| `WorkspaceTree` | `WorkspaceTree` with axes and ratios | `root`, `defaultActive`; one action per structural command |
| `TreeOrder` | abstract: what `Workspace` takes the tree to be | implemented by `WorkspaceTree` (property `OrderSpec`) |
| `WriteLease` | abstract: one lease, acquired, released, seized | implemented by `Workspace` (property `LeaseSpec`) |
| `Workspace` | one workspace, its handlers and its read loops | see below |
| `Serialization` | ticks, final save, removals, crash, load, for several workspaces | see below |
| `OutputStream` | the output of one pane, from its PTY to the screens of its clients | see below |
| `Clients` | connections, from accept to clean-up, and the sizes they report | see below |
| `Endpoint` | the client's endpoint actor, its link and its daemon | see below |
| `Window` | the client's window with one endpoint and the daemon's runtimes | see below |
| `WorkspaceProofs`, `SerializationProofs`, `OutputStreamProofs`, `ClientsProofs`, `EndpointProofs`, `WindowProofs` | lemmas and theorems of the module of that name | |
| `WindowPanesProofs` | lemmas and theorems of the layouts of `Window` and what they show of the daemon's panes | on top of the invariants of `WindowProofs` |
| `MC...` | symmetry sets for TLC | |

**Workspace.** `role` is `attached_clients`; `panes`, `leaves`, `defaultActive`, `activePane`,
`exited` and `revision` are fields of `Workspace` of the same meaning; `inMap` says whether the
server's map still has it; `handler[c]` is what the request of connection `c` carries between two of
its critical sections; `shell[p]` is where the shell of pane `p` and its read loop are;
`killSwitch[p]` is the entry of `p` in `pty_kill_senders`; `told` are the clients that were answered
`WorkspaceTerminated`. An action is one critical section: `AttachLookup` and `Attach` are the two
halves of `handle_v3_attach`, `CreateCheck` and `CreateCommit` those of `handle_v3_create_pane`, and
so on; `Takeover`, `ClosePane`, `SetFocus`, `ResizeSplit` and `Terminate` hold the server mutex
throughout and are single actions. `Contended` is the failed `try_lock`, which any holder of the
workspace mutex can cause at any time. A connection that ends (`Disconnect`) is followed by a new
one under the same model value, which has no role and has been told nothing. `LoopStarts`,
`LoopKilled`, `PtyHangsUp`, `ShellExits`, `RecordExit` and `ReleasePty` are the read loop.

**WorkspaceTree.** The tree as a record per node. A request may carry any ratio, the invalid ones
included: `SplitPane` replaces an invalid ratio by an even one, `ResizeSplit` refuses it. Paths are
sequences of sides of at most `MaxDepth`, those that lead nowhere included.

**Serialization.** A workspace file is the revision and the panes it was made from. `job["tick"]` and
`job["final"]` are the local variables of the two writers: what is left to collect, what was
collected, what is left to write. Collecting a workspace, writing the index, writing a file, writing
the pane files of a workspace and marking are separate actions, and every request and removal can
come in between. `Fails` is a write that returns an error. `ClosePane` and `Terminate` start removal
threads, which run (`Remove`) at any later time or never. `SignalShutdown`, `StartFinal`, ...,
`Exit` is a graceful shutdown, `Crash` a SIGKILL or power loss between two writes; `Restart` loads
what is there. `overlapped` records that a tick ran beside the final save.

**OutputStream.** One pane; a batch of output is its number. The read loop goes through `Accept`
(`take_screen` leaves an empty screen with the new sequence number), `CollectSenders`, `ReturnScreen`,
`SendDelta` to each collected client with no lock held, and `HandlePushOverflows`. A connection's
reader serves one request at a time: `HandleMessage` (attach, resync, detach, any other),
`BroadcastHeal`, `Respond`. `Write` is `client_writer`, which takes responses first. The client asks
(`Ask`), resyncs when it reads a StreamOverflow (`AskResync`) and applies what it reads (`Receive`) to
`view[c]`, what it shows. History: `missing` (a delta was dropped), `deaf` (the StreamOverflow was read
while another response was awaited, `daemon_bridge.rs:760`, and ignored), `marred` (one of the four
ways named below). `Resyncing` are the clients with OPT_RESYNC. Disconnects, batches that only answer
terminal queries and metadata pushes are left out.

**Clients.** A connection holds a permit from accept to its end, is listed with its senders, and then
leaves as a `Probe`, as a `Stranger` or through `HandshakeFails`, or is greeted and registers its
protocol. A listed one attaches, takes over, detaches, terminates, reports sizes and asks for a size
of its own. Setting a size is two steps after the request, first the PTY, then the record in the pane
(`SetPty`, `Record`), each under its own mutex. `HangUp`, `CleanUp`, `Leave` (one workspace at a time)
and `End` are the end of the connection. A workspace has one pane, which suffices for what is said of
sizes since the code treats panes independently. `disturbed` says what happened to the pane that
explains a size that is not the minimum. Left out: the accept loop's end at shutdown, a resize the
kernel refuses, reports that name panes of other workspaces.

**Endpoint.** `commands` is the actor's queue, `task` the request it awaits, `link` the connection
("whole" until it is split into a reader and a writer), `asked` and `wire` what is in transit both
ways, `attempt` and `timers` the reconnects, `pending` and `missed` the heartbeat, `told` the last
status emitted to each workspace, `tracked` those it reattaches. `HandleCommand` has one disjunct per
command and outcome of `ensure_connected`, `Await` one per kind of answer to the awaited request;
`ReadMessage`, `ReadEnd`, `HeartbeatTick` are the select loop. Outside are the window (commands and
backpressure), the daemon (up, mute, down, or alien: it refuses the handshake) and the network.
History: `unaware` are workspaces that shared the link an OpenWorkspace timed out on, `confused` that
a Pong was taken for a response. Heartbeats and
requests number their messages independently, so a Pong can carry the id of the awaited request
(`daemon_bridge.rs:748`); and `send_and_read` has no timeout (`daemon_bridge.rs:725`), so a mute daemon
is noticed only between commands: the model has both. Delays have no length; full channels are left out.

**Window.** Workspaces, runtimes, terminals and actors are numbers; a layout is the sequence of its
leaves. The user adds, splits, closes, detaches, zooms, retries a workspace or the whole endpoint
(which replaces the actor), and attaches to existing runtimes from the dialog. The actor and the
daemon answer one command per step, refuse it, lose the link, find no daemon, reattach; their events
queue up and are handled one by one, output in batches that are fed to the widgets before the other
events (`window/runtime.rs:798-812`). Two tables say who hears of a pane. `tracked` is the actor's: the
workspaces it reattaches. `attached` is the daemon's: the runtimes to which an actor's connection is
attached (`attached_clients`); only from it does the daemon take whom it sends output to (`Viewers`,
`server.rs:2172`). They part in two ways. A detach takes the connection from the runtime, for every
workspace that shows it (`server.rs:1281`), while the actor stops tracking one of them
(`daemon_bridge.rs:1149`). And a reconnect that is refused a runtime, because another client has the lease or
the actor's old connection still does, says so and goes on tracking its workspace (`daemon_bridge.rs:1417`). `Reattach`
has each tracked workspace answered, missing or refused; `ReattachFails` is a new connection that is lost
before all are, so that some are told of a snapshot that nothing follows. `AutoSave`, `Quit`, `Exit` and
`Start` are the life of the process, in which what was not sent or saved is lost. It starts with a runtime of two panes that
was detached earlier, or is open in one workspace, or in two. The last is what a click on an offer of the dialog that is
stale leads to; that it counts as one disturbance that happened leaves the run steps enough to detach one of the two,
which by itself it would not reach. History variables record the exceptions the properties name, each set by the step
of the code that causes it. Where the code goes through a hash map or a list whose order says nothing
here (closing or opening several workspaces), the model goes by their numbers (`Ordered`, `Farewell`,
`Opens`). The inside of `persistent_widget.rs`, dialogs and labels are left out.

## 3. Runs

| run | instance | question |
|---|---|---|
| `Workspace` | 2 connections, 2 panes, revisions up to 4 | do the lease, tree, focus, revision and shells stay consistent, is the abstract lease implemented, do read loops of closed panes stop, and are exits recorded? |
| `WorkspaceTree` | 4 panes, 2 axes, 2 valid ratios, 1 invalid one, paths up to 2 | is every reachable tree valid, is geometry local, is the leaf order right? |
| `Serialization` | 2 workspaces, 1 pane, 3 changes, 1 failing write, 1 shutdown or crash | is what counts as saved recoverable? |
| `OutputStream` | 2 clients, one with resync; channels of 1; 3 batches, 2 requests, 1 heal | does every client show the daemon's output, and does everything settle? |
| `Clients` | 3 connections, 2 permits, 1 workspace, 3 sizes | is everything cleaned up, and are sizes the minimum? |
| `Endpoint` | 2 workspaces, 2 commands, queue of 2, 2 misses, 1 daemon failure, 1 cut, 1 push | is every tracked workspace watched, told, and reconnected? |
| `Window` | 2 workspaces, 2 runtimes, 6 terminals, 2 actors, 1 output, 3 disturbances | does the window show what the daemon has? |

Five more runs look for a violation; see "Disagreements" below.

*Why the bounds are enough.* Two connections are the writer and the one that interferes with it;
that there are never two writers among any number of clients is proved. Two panes give a pane that is
closed while the other is created; the safety invariants, action properties and the refinement are
proved for any number. The revision bound stops new requests and new exits, not the completion of
those that are in progress, so no property holds because a request was cut short. Four revisions
allow an attachment, a create, a split or close and a take-over in one behaviour. Four panes make
every shape of tree in which a split collapses under and above another split. Two workspaces are
needed because the writers go through them one by one; the one pane can be added to either and closed; three
changes are a creation and two changes, or two creations and a change; one failure and one restart suffice for each of the invariants to break
under a plausible bug (the mutants of `PROJECT.json`), and the pane-less and the never-changed
workspaces are included.

In `OutputStream` a channel of 1 overflows with two deltas, and three batches are one before, one in
and one after a snapshot. Three connections are two that are served and one refused for want of a
permit; the three sizes are smaller on one axis, on the other, and with an axis that counts as absent. In
`Endpoint` two workspaces are the one a command is for and the one that shares its link; one
failure of the daemon and one cut connection let a reconnect fail and be followed by another loss; a
miss limit of 2 separates the first from the last miss. In `Window`, `MaxSpent` counts user
operations, lost links, failed attempts, refusals and restarts together: three of them are, for instance, a
split, a lost link and a refusal of the reconnect, or a close, a quit and a start. The proofs of `Workspace`, `Serialization`,
`OutputStream`, `Clients`, `Endpoint` and `Window` are for every value of these bounds.

*Deadlock* is checked for `WorkspaceTree` and `Serialization`. It is not where the system may come to
rest: a terminated workspace whose shells are gone, an idle pane with no one asking, an actor without
commands, a window nobody uses, connections that have all ended.

*Fairness* (`FairSpec` of `Workspace`): weak fairness of `HandlerContinues(c)` for every
connection and of `LoopContinues(p)` for every pane. Both are tokio tasks waiting for a mutex (tokio's
mutexes are fair) or for a channel that has a message, so the runtime runs them. There is no fairness
for requests, for the PTY to hang up (`PtyHangsUp`) or for a process to end (`ShellExits`): these are up
to users and shells. In particular nothing says that a shell that closed its terminal but goes on
running is ever killed; the read loop no longer listens to the kill signal then (`server.rs:2333`).

`FairSpec` of `OutputStream`: the read loop, and for every client its request handler, its writer task
and the client's reader run when they can, and a client that decided to resync does. Requests, output
and heals are up to others. `FairSpec` of `Endpoint`: the actor's task runs, its sleeps end, a daemon
that is up answers, one that is down comes back (systemd or the user starts it; without that no
reconnect can succeed), and the window does not pause the actor for ever (its poller releases the
pressure when its queue is drained, `daemon_bridge.rs:46-52`). `Window` and `Clients` are checked for
safety only.

### Properties

*Workspace*: `TypeOK`; `SingleWriter`; `TreeHoldsPanes` (panes map and tree agree although the split
target may have gone between the phases); `FocusCoherent`; `NoStrayShell` (every shell that is read
is signalled to die or reachable, every shell between two phases belongs to one handler);
`RevisionTracksChanges`; `TakeoverDemotes`; `LeaseSpec` (refinement); `ClosedPanesStopReading` and
`ExitIsRecorded` (liveness).

*WorkspaceTree*: `TreeIsValid` is `WorkspaceTree::validate`, which the daemon itself never calls.
`CloseCollapsesParent` and `SplitDividesTarget` speak of a pane's *region*, the list of dividers above
it: a close takes one divider from the panes that shared the parent split, a split adds one to its
target, and no other pane notices. `OrderSpec` shows that the leaf order moves as `LeafOrder` says,
which justifies the abstraction of module `Workspace`.

*Serialization*: `CleanIsRecoverable` (a clean workspace is in the index and has a file, as long as
no write fails), `ShutdownSaves` (the final save leaves every workspace at the revision it took for
saved), `IndexCacheIsTrue` (the `last_persisted_ids` shortcut is sound), `SavesNeverGoBack`.

*OutputStream*: `CleanStreamIsWhole` (an attached client shows every batch once and in order, but for
what is on its way, except for exactly four ways the code has to mar a stream: a snapshot rendered
while the screen was taken, a resync snapshot that overtakes deltas, a delta that overtakes its attach
snapshot, a dropped delta); `DropsAreAnnounced`; `OutputSettles` (liveness: a slow client never holds up
the read loop, and whoever lost output gets a newer snapshot). What RFC-021 section 6 says beyond
this, that the client detects gaps by sequence number (`RFC-021:480-483`) and that a client whose
channels are full is disconnected (`RFC-021:603-604`; `force_disconnect_client` only removes its push
sender), the code does not do; the properties say what it does.

*Clients*: `LeavesNoTrace` (the exception is the early return of a failed first frame or handshake,
which leaves senders and counter), `SizesAgree` (recorded size and PTY), `SizeIsMinimum` (with the
exceptions of the code: ResizePane, crossed reports, and a client that ended, after which the minimum
is not taken again).

*Endpoint*: `NobodyIsForgotten` (lost workspaces have a retry due, or the breaker has tripped),
`TrackedIsWatched`, `InputNeedsLink`, `OnlyReconnectsConnect`, `ResponsiveIsKept` (the heartbeat gives
up only a daemon that is mute), `Recovers` (liveness).

*Window*: `WidgetsFollowLayout`, `LayoutIsDaemons` and `OutputIsShown` relate widgets, layouts, daemon
panes and output once the queues are empty; `ConnectedIsTracked` relates what a workspace says with
what the actor in use tracks; `OnlyForgottenReturn` says which closed runtimes may come back. Each
names the exceptions the code has; the proofs show that the model has no others. `OutputIsShown` has
two that leave a pane on the screen without what it prints, under a status that may say Connected: the connection was
detached from the runtime for another workspace that showed it, or the reconnect was refused
(`severed`, with `unheard` for what was printed then). What is printed is fed when the runtime is attached again, as its
snapshot has it. The exception is of the connection that the daemon detached or refused, and of no
other: whoever else is tracked is attached. Other exceptions take more steps than
the run has and were found by the attempt to prove the property. A workspace that is opened while its
endpoint is reset is opened twice, by the old actor and the new one, and so gets two runtimes; if the
user finds the first in the dialog and closes it, a late answer of the old actor puts the workspace
back in it, because answers do not heed `dismissed_runtime_ids` (`OnlyForgottenReturn`, `forgiven`);
and a PaneCreated of one runtime puts it there with the layout it has from the other
(`LayoutIsDaemons`, `local`, `unplaced`). And of two workspaces that show one runtime (the dialog's
offer was stale), each closes the other's widgets (`WidgetsFollowLayout`, `bare`) with their output
(`OutputIsShown`, `unfed`), and what one is told of a pane, the other is not: it keeps a leaf whose pane
the other closed (`stuck`) and does not get the pane the other created (`unplaced`), still after the
other is gone.

### Disagreements between code and text

Five runs look for a violation, and find it, of something the repository says of itself.

* `WorkspaceStaleLease` (`LeaseGuardsStructure`): CreatePane and SplitPane do not look at write access
  again in their second phase, so a client that has lost the lease can still change the tree. RFC-021
  section 10 says that the single-writer invariant holds for structural commands "even against a stale
  or racing client".
* `WorkspaceEphemeral` (`EphemeralEndsUnattended`): a client that attaches between the last detach of an
  ephemeral workspace and its termination loses it while attached.
* `SerializationDirty` (`PersistedIsOnDisk`): `mark_persisted` takes the revision at the end of the tick,
  not the one that was written, and does so for a failed write; the change is not written until the
  next one.
* `EndpointReconnecting` (`ReconnectingIsScheduled`): the first OpenWorkspace of an endpoint that finds no
  daemon says Reconnecting, but the scheduled Reconnect returns because nothing is tracked yet, and
  leaves the attempt counted, so that later OpenWorkspace commands are dropped. RFC-018 says that in
  this status an automatic reconnect is scheduled.
* `WindowResurrection` (`ClosedStaysClosed`): a runtime closed as the last workspace of the window comes
  back at the next start if the process ended before the termination was sent, because a state
  without workspaces is loaded without its dismissals; so does one closed before its id was known.
  RFC-013 says a closed workspace must not auto-resurrect.

`Workspace` and `Serialization` also contain two behaviours that no run singles out: `terminate_workspace`
puts a workspace back when its mutex is taken while its client is answered `WorkspaceTerminated`
(`server.rs:619-627`; `TerminatedIsGone` would exclude it), and a tick may write the screen snapshot of a
pane after the removal thread has deleted the pane's files (`server.rs:2608`; `NothingLeftBehind`).

## 4. Proofs

`LeafOrder` proves what splitting and closing do to a sequence of leaves: `SplitLeafAdds` (the new
pane is added, every pane stays in one leaf), `CloseLeafRemoves` and the shapes of the results.

`WorkspaceProofs` proves, for every set of clients and panes and every `MaxRevision`, from
`NoPaneAssumption` (the absent pane is no pane), `NoClientAssumption` (likewise) and
`MaxRevisionAssumption` (the bound is a number):

* `WorkspaceSafe`: `Spec => []WorkspaceInv`, and from it `WorkspaceTypeOK`, `TreeAlwaysHoldsPanes`,
  `FocusAlwaysCoherent`, `NoShellStray`;
* `OneWriterLease`, `TakeoverAlwaysDemotes`, `RevisionAlwaysTracks`;
* `WorkspaceImplementsLease`: `Spec => LeaseSpec`.

*The inductive invariant.* `WorkspaceInv` is `TypeOK /\ TreeHoldsPanes /\ FocusCoherent /\ NoStrayShell /\
CarriedPanesAreNew`. The four properties are not inductive without the last: the second phase of
CreatePane or SplitPane adds the pane its handler carries, and only because that pane is in no tree
and carried by no other handler does every pane stay in one leaf and does every spawned shell have one
owner. `TreeHoldsPanes` needs `FocusCoherent` too, since `add_pane` splits the pane in focus.
`SingleWriter` is proved separately, since it depends on the roles alone (`RoleSteps` says what each
action can do to them). The refinement maps the holder of the lease to the one writer, which
`SingleWriter` makes unique.

`EndpointProofs` proves, for every set of workspaces, every heartbeat limit, delay and bound, from
`NoWorkspaceAssumption` (the absent workspace is none), `LimitAssumption` and `BoundAssumption` (limits and
bounds are numbers, the heartbeat's positive):

* `EndpointIsSafe`: `Spec => []EndpointInv`, and from it `EndpointTypeOK`, `NobodyEverForgotten`,
  `TrackedAlwaysWatched` and `InputAlwaysHasLink`;
* `OnlyReconnectsEverConnect`.

`EndpointInv` is `TypeOK /\ AwaitingHasLink /\ LostIsScheduled /\ TrackedIsWatched /\ InputNeedsLink`.
`LostIsScheduled` strengthens `NobodyIsForgotten` by what `ensure_connected` looks at: lost workspaces
have an attempt counted. Without it a command could connect, since `ensure_connected` does so when
none is. `AwaitingHasLink` is needed because an answer may reset the count: who awaits one has a link,
so nobody is lost then. There is one lemma per command, answer or event; `LinkStepInv`, `AskInv`,
`DisconnectInv` and `OutsideInv` carry what those of one kind have in common.

`ResponsiveAlwaysKept` (`Spec => ResponsiveIsKept`, an action property) needs to know where the pending
ping is. `PongInv` adds to `EndpointInv` that on a connection that works the ping is unanswered or its
Pong unread (`PongIsComing`), unless a Pong was taken for a response, and that a daemon which is gone has
closed its side (`GoneIsClosed`); a heartbeat that gives up has read everything, so the ping is
unanswered, and the daemon mute.

`SerializationProofs` proves, for every set of workspaces and panes and every number of changes, failed
writes and restarts, from `AllFilesAssumption` (the removal of a directory is not that of a pane) and
`BoundsAssumption` (the bounds are numbers):

* `SerializationIsInductive`: `Spec => []SerializationInv`, and from it `SerializationTypeOK`,
  `CleanCanBeRecovered`, `ExitSaves` and `IndexCacheStaysTrue`;
* `NoSaveGoesBack`: `Spec => SavesNeverGoBack`.

What the properties say of the disk holds because of what the writers hold between two of their steps.
`TickCovers` says for each phase of a tick that whatever is clean, or will be marked at its end, is
listed, held or written; `FinalCovers` says the same of an undisturbed final save, with the revision.
`TickIsNewer` is what `SavesNeverGoBack` is made of. `Threads` says which writer exists in which mode (a
final save beside a tick would break `TickIsNewer`), and `OnceInMemory` that nothing on disk or on its way
there is newer than memory, which a restart needs to keep revisions ordered.

`ClientsProofs` proves, for every set of connections, workspaces and sizes and every number of permits,
from `SizesAssumption`, `NoneAssumption` and `MaxClientsAssumption` (sizes are pairs of numbers, the first
size is usable; what is absent is no size and no workspace; there is a permit):

* `Spec => []ClientsInv`, and from it `ClientsTypeOK`, `NothingIsLeft`, `SizesAlwaysAgree` and
  `SizeIsAlwaysMinimum`.

`LeavesNoTrace` speaks of connections that are over; `Kept` says for each place a task can be at what the
daemon keeps of it, and `Counts` that the counter is the number of tasks between two places, so that the
last step of a connection leaves nothing. The sizes are the subject of `Uncrossed` (a pane no two clients
set at a time: what its PTY has is what will be recorded), `Undisturbed` (who is on its way carries the
minimum) and `ResizeDisturbs` (a ResizePane on its way shows in the history).

`OutputStreamProofs` proves, for every set of clients, every bound of the channels and any amount of
output, from `ResyncingAssumption` (who resyncs is a client), `ChannelAssumption` (channels hold
something) and `OutputBoundAssumption` (bounds are numbers):

* `OutputIsInductive`: `Spec => []OutputInv`, and from it `OutputTypeOK`, `DropsAreAlwaysAnnounced` and
  `CleanStreamIsAlwaysWhole` (together `OutputIsSafe`).

`OutputInv` is `TypeOK /\ LoopKeepsScreen /\ OneAnswer /\ StreamsFlow /\ Announced`. `CleanStreamIsWhole`
speaks of a client that waits for nothing, so one has to say what is true while it waits. `StreamsFlow`
does, of a client's *lane*: what the socket, the response channel, the reader's hand and the push channel
hold, in the order in which it will be fed. Every snapshot of the lane is continued, up to the last
batch sent, by what is behind it, and so is the view if there is none. A step appends to a lane,
inserts something that is no output, or takes its head, with a lemma for each. What is appended fits
because the loop numbers its batches and owes the one it holds to whoever was attached
(`LoopKeepsScreen`), what is taken because at most one answer is on its way to a client (`OneAnswer`).
`Announced` is `DropsAreAnnounced` with the place where the announcement is before it is sent.

`WindowProofs` proves, for every number of workspaces, runtimes, terminals, actors, operations, faults
and restarts, from `WindowBounds` (bounds are numbers, the first four positive, and there are two terminals at least:
a window starts with two panes):

* `WindowIsInductive`: `Spec => []WindowInv`, and from it `ClosedStaysForgotten`
  (`Spec => []OnlyForgottenReturn`).

Three things put a workspace in a runtime: an answer of an actor, a recovery from an inventory, and the
state that is loaded. `WindowInv` is `Shape /\ Off /\ Numbered /\ InFlight /\ Terminated /\ StocksAgree /\
Kept`. `Kept` follows a closed runtime into all three: no workspace awaits it, the client has it
dismissed or no inventory will list it, and what was saved says the same once the state was saved. A
dismissal is dropped when an inventory does not list it; that is sound because whatever was heard of
before such an inventory is gone and listed in none behind it (`StocksAgree`). A recovered workspace is
numbered after its runtime (`workspace_state.rs:390`); that is sound because no command or answer on
its way brings that number to another runtime (`InFlight`, `Numbered`), and no workspace of that number
is shown while its termination is on its way (`Terminated`). `Off` says that a process that ended left
nothing to read; `Shape` is the part of `TypeOK` the steps are computed with. The actions are of three
kinds: the user's give orders (`Orders`), the actors and the daemon carry them out and tell of it
(`Spreads`), the poller takes in what is told (`Reads`). A step of each kind keeps the invariant
(`OrdersKeepsInv`, `SpreadsKeepsInv`, `ReadsKeepsInv`), every action is of its kind, and `Exit` and `Start` stand for
themselves.

It also proves `WidgetsAlwaysFollow` (`Spec => []WidgetsFollowLayout`). A handler draws in
one of five ways: one workspace again (`RebuiltFollows`), one that comes (`AddedFollows`), one that goes
(`GoneFollows`), a renamed terminal, or nothing (`UndrawnFollows`). It rests on `WindowInv`, because a
workspace that comes must not be one that was shown: it would lose its leaves, and keep their widgets.

And it proves `TrackingIsInductive` (`Spec => []Tracking`) and from it `ConnectedStaysTracked`
(`Spec => []ConnectedIsTracked`). `Tracking` is `Credible /\ Senders /\ Reopened`. `ConnectedIsTracked`
speaks of a quiet window; `Credible` says what is true before it is quiet: whatever says Connected of a
workspace, the screen or an event of the actor in use that is not yet read, is right, or has a later event
behind it with another word. Right means that the actor tracks the workspace or has the command to open it
in its queue. Two things could spoil that. An actor could stop tracking without a word: a forget is the
only command that does, and `Reopened` says that behind a forget of a workspace that is shown there is a
command to open it, and that the actor in use is never told to stop. And the word of a replaced actor could
count as that of its successor: `Senders` says that no event bears the stamp of an actor there is not yet.
The steps of the actors go through `TellsTrack` and `DoneTracks` (an actor changes and tells), those of the
user through `AskedTracks`, those of the poller through `ReadTracks`.

`WindowPanesProofs` proves `LayingIsInductive` (`Spec => [](Laid /\ Retired /\ Wired)`) and from it `WindowTypeCorrect`
(`Spec => []TypeOK`), of which the hard part is that no layout has a leaf twice. A split of the client takes
a terminal nobody has, and a tree that is adopted is one the daemon had; but a PaneCreated renames a leaf
to a pane that the layout must not have yet. `Laid` says of every layout, of a workspace, on disk, at the
daemon or in an event that is not yet read, that its leaves are terminals already minted, each once, and
with `Unseen` that a pane that is told of as new is neither shown nor listed by anything that is read
before: the daemon mints it in the step in which the actor tells of it. Steps of the client keep that
through `Arranges` (`ArrangesKeepsLaid`), those of the poller, of which only the reading of a PaneCreated
shows the pane, through `ReadArranges`, those of the actors and of the daemon through `Fills`
(`FillsKeepsLaid`). What splitting and closing do to a layout is `SplitLeafAdds` and `CloseLeafRemoves` of
`LeafOrder`. `Retired` is that an actor that was replaced has ended or has the order to in its queue. `Wired`
relates the tables of the actors and of the daemon: what an actor with a link tracks, of the runtimes that are there,
its connection is attached to, or the daemon detached or refused it (`Linked`). It goes through `OneIsWired` for
the steps of one actor: whatever makes an actor track a workspace, or have a link, attaches its connection in the same step
or records it in `severed`, and whatever detaches the connection records that.

It proves as well `PanesAreInductive` (`Spec => []PanesInv`), and from it `LayoutIsAlwaysDaemons`
(`Spec => []LayoutIsDaemons`) and `OutputIsAlwaysShown` (`Spec => []OutputIsShown`). Both properties speak
of a quiet window, with nothing on its way; `PanesInv` is `Supply /\ Idle /\ Parted /\ Indexed /\ Faithful /\
Fed /\ Tuned` and says what is true while something is. An event is read long after it was sent, and what it says of
the panes of a runtime is right once what was sent after it is read too: the tree of an answer is that of
the runtime, but for panes a later event makes and terminals a later event closes (`Current`, in `Supply`,
with `Apart`: no pane is in two runtimes, and `Fitting`: the placeholder of a queued command is no pane of
its runtime). `Faithful` says the same of what is shown: a workspace that the actor in use attends to has,
with what is on its way, the panes of its runtime, unless an answer is on its way that will bring them;
what it could not place, kept or made itself is in the history variables. `Fed` follows the output: what
a pane has printed is told after every snapshot that lacks it (`FollowedUp`), and if its workspace shows the pane, its widget
has the output, missed it (`unfed`), or will be fed (`Met`); or the pane printed when nobody was attached and no
snapshot was sent since (`unheard`). `Tuned` is that nothing is unheard in a runtime to which a connection is attached:
an attach sends a snapshot of all its panes, and from then on all they print. So if a workspace is watched
and lacks what is unheard, the connection of the actor in use is not attached, and by `Wired` it was severed, which is the
exception of `OutputIsShown`. Three more parts carry these. `Parted`: no actor
attends to a workspace before it comes. Numbers are never used again except those of recovered workspaces
(`workspace_state.rs:390`), and what is closed under such a number is forgotten by the actor, or will be. `Idle`: an
actor that was never connected tracks nothing. `Indexed`: output finds its terminal through the
index of the window, which what the user does to a layout does not always refresh; a leaf it does not know is no
pane of the daemon.

The steps are of three kinds. The actors and the daemon tell of what they do (`Works`: what a runtime gets or
loses in a step, an event of that step tells of, and no event tells of anything else; what is printed is told, or
unheard, `Prints`, and a connection that is attached to a runtime was told of all of it, `Attunes`); the user changes what is
shown without a word from them (`Tends`); the poller takes in an event (`TakesIn`). `WorksKeepsPanes`, `TendsKeepsPanes`
and `TakesInKeepsPanes` show that each keeps `PanesInv`, the other lemmas that every action is of its kind,
with one lemma per event for the poller. The attempt to prove the two properties corrected them: some of the exceptions that section 3
names take more steps than `Window.cfg` allows, and no run had shown them.

Only model-checked: liveness under fairness (`ClosedPanesStopReading`, `ExitIsRecorded`,
`OutputSettles`, `Recovers`), which the prover does not reach, and the trees of `PaneTree`, whose operators
are recursive (`TreeIsValid`, `CloseCollapsesParent`, `SplitDividesTarget`, `OrderSpec`).

## 5. Plan

Done, the most important behaviour first: `LeafOrder`, `Workspace`, `WriteLease`, `WorkspaceProofs`,
`PaneTree`, `WorkspaceTree`, `Serialization`, `OutputStream`, `Endpoint`, `EndpointProofs`, `Window`,
`Clients`, `ClientsProofs`, `SerializationProofs`, `OutputStreamProofs`, `ResponsiveIsKept`,
`WindowProofs`, `WindowPanesProofs`. Every safety property of the runs is proved, but those of
the recursive trees.

Next: the trees of `PaneTree` as functions of their paths, which the prover could reason about; the connection
state of the client (`connection.rs`) as far as the window depends on it.

### Not modelled

* What one backup-and-rename write leaves after a crash between its system calls (`state/io.rs`,
  `store/io.rs`): writes are single steps here.
* The spawning of shells and the replay of screens in `reconstruct_workspaces`; the end of the accept
  loop at shutdown; the stdio transport.
* The VTE parser and the screen (`screen.rs`), the inside of the terminal widgets: text processing and
  drawing, sequential, with unit tests of their own.
* The length of the delays between reconnects, and channels of the client that are full.
* Command line, watchdog, metrics, logging, shell start-up files, user interface, packaging.

## 6. Running

    cd tla
    tlc -workers 2 -config Workspace.cfg MCWorkspace.tla
    tlc -workers 2 -config WorkspaceTree.cfg MCWorkspaceTree.tla
    tlc -workers 2 -config Serialization.cfg MCSerialization.tla
    tlc -workers 2 -config OutputStream.cfg MCOutputStream.tla
    tlc -workers 2 -config Clients.cfg MCClients.tla
    tlc -workers 2 -config Endpoint.cfg MCEndpoint.tla
    tlc -workers 2 -config Window.cfg MCWindow.tla
    tlapm LeafOrder.tla
    tlapm WorkspaceProofs.tla
    tlapm SerializationProofs.tla
    tlapm ClientsProofs.tla
    tlapm EndpointProofs.tla
    tlapm OutputStreamProofs.tla
    tlapm WindowProofs.tla
    tlapm WindowPanesProofs.tla

The runs that find a violation are `WorkspaceStaleLease`, `WorkspaceEphemeral` (with `MCWorkspace`),
`SerializationDirty`, `EndpointReconnecting` and `WindowResurrection`. `Window` and `Endpoint` take two to
three minutes, the others about a minute or less.

Definitions called "Faulty variant" are mutations of the definition that follows them; no
specification uses them. Putting one in the place of its original must break the property that
`PROJECT.json` names under `mutants`.
