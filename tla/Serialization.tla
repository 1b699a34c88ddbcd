---------------------------- MODULE Serialization ----------------------------
(****************************************************************************)
(* How the daemon keeps its persistent workspaces on disk: the once-a-second *)
(* serialization_loop and the final persist_and_cleanup of server.rs, the    *)
(* removal threads of state/cleanup.rs and the loading of                    *)
(* state/persistence.rs, while requests go on changing the workspaces.       *)
(*                                                                           *)
(* A workspace file is represented by the revision and the panes it was made *)
(* from. The per-pane files (screen snapshot, scrollback log, history, shell *)
(* init) are represented together: a pane has some on disk or none. One      *)
(* write_with_backup is one step here; what a crash in the middle of it      *)
(* leaves is a matter of state/io.rs alone.                                  *)
(****************************************************************************)
EXTENDS Naturals, FiniteSetsExt

CONSTANTS
  Workspaces,    \* ids of persistent workspaces; each is minted once
  Panes,         \* pane ids; one that has left no trace stands for a fresh one
  AllFiles,      \* what the removal of a whole workspace directory removes
  MaxChanges,    \* bound on the changes of all workspaces together
  MaxFailures,   \* bound on the writes that fail
  MaxRestarts    \* bound on the times the daemon goes down

ASSUME AllFilesAssumption == AllFiles \notin Panes
ASSUME BoundsAssumption == MaxChanges \in Nat /\ MaxFailures \in Nat /\ MaxRestarts \in Nat

VARIABLES
  mode,        \* "up", "closing" (shutdown was signalled), "exited" or "crashed"
  live,        \* keys of Server::workspaces
  revision,    \* Workspace::revision; 0 before the workspace is created
  persisted,   \* Workspace::persisted_revision
  panes,       \* keys of Workspace::panes
  index,       \* on disk: runtime_ids of daemon.json
  file,        \* on disk: workspace.json of every workspace
  artifacts,   \* on disk: panes with files in the workspace's directory
  removals,    \* removal threads that have not run yet
  job,         \* the two writers: a tick of the loop, and the final save
  lastIds,     \* serialization_loop: last_persisted_ids
  failures,    \* writes that have failed since the daemon came up
  restarts,    \* times the daemon has gone down
  overlapped   \* a tick was in progress at some time during the final save

memory == <<live, revision, persisted, panes>>
disk   == <<index, file, artifacts>>
clock  == <<mode, restarts, overlapped>>
vars   == <<memory, disk, clock, removals, job, lastIds, failures>>

NoFile == [revision |-> 0, panes |-> {}]
Files == [revision : Nat, panes : SUBSET Panes]

Writers == {"tick", "final"}
Phases == {"idle", "collect", "files", "snapshots"}
Job == [at : Phases, due : BOOLEAN, todo : SUBSET Workspaces, ids : SUBSET Workspaces,
        files : [Workspaces -> Files], snapshots : [Workspaces -> SUBSET Panes],
        written : SUBSET Workspaces]

\* A writer that has listed the given workspaces and collected nothing yet.
Fresh(at, due, entries) ==
  [at |-> at, due |-> due, todo |-> entries, ids |-> {},
   files |-> [w \in Workspaces |-> NoFile], snapshots |-> [w \in Workspaces |-> {}],
   written |-> {}]
Idle == Fresh("idle", FALSE, {})

Unwritten(writer) == {w \in Workspaces : job[writer].files[w] # NoFile}
Running == mode \in {"up", "closing"}
IsDirty(w) == revision[w] > persisted[w]
Content(w) == [revision |-> revision[w], panes |-> panes[w]]

Init ==
  /\ mode = "up"
  /\ live = {}
  /\ revision = [w \in Workspaces |-> 0]
  /\ persisted = [w \in Workspaces |-> 0]
  /\ panes = [w \in Workspaces |-> {}]
  /\ index = {}
  /\ file = [w \in Workspaces |-> NoFile]
  /\ artifacts = [w \in Workspaces |-> {}]
  /\ removals = {}
  /\ job = [writer \in Writers |-> Idle]
  /\ lastIds = {}
  /\ failures = 0
  /\ restarts = 0
  /\ overlapped = FALSE

-----------------------------------------------------------------------------
(* The requests, as far as the disk is concerned. They go on until the      *)
(* process is gone.                                                         *)

ChangesLeft == MapThenSumSet(LAMBDA w : revision[w], Workspaces) < MaxChanges
MayChange == Running /\ ChangesLeft

CreateWorkspace(w) ==
  /\ MayChange
  /\ revision[w] = 0
  /\ live' = live \cup {w}
  /\ revision' = [revision EXCEPT ![w] = 1]
  /\ UNCHANGED <<persisted, panes, disk, clock, removals, job, lastIds, failures>>

Changed(w) ==
  /\ MayChange
  /\ w \in live
  /\ revision' = [revision EXCEPT ![w] = @ + 1]

\* Anything that bumps the revision and keeps the panes: attach, detach, rename,
\* focus, ratio, size, the CWD poll of the loop, an exit.
Change(w) ==
  /\ Changed(w)
  /\ UNCHANGED <<live, persisted, panes, disk, clock, removals, job, lastIds, failures>>

Unused(p) ==
  \A w \in Workspaces :
    /\ p \notin panes[w] \cup artifacts[w] \cup file[w].panes
    /\ \A writer \in Writers : p \notin job[writer].files[w].panes \cup job[writer].snapshots[w]
    /\ <<w, p>> \notin removals

\* shell_init::build leaves files for the pane when its shell is spawned.
AddPane(w, p) ==
  /\ Unused(p)
  /\ Changed(w)
  /\ panes' = [panes EXCEPT ![w] = @ \cup {p}]
  /\ artifacts' = [artifacts EXCEPT ![w] = @ \cup {p}]
  /\ UNCHANGED <<live, persisted, index, file, clock, removals, job, lastIds, failures>>

\* ClosePane, which leaves the pane's files to a thread of their own.
ClosePane(w, p) ==
  /\ p \in panes[w]
  /\ Changed(w)
  /\ panes' = [panes EXCEPT ![w] = @ \ {p}]
  /\ removals' = removals \cup {<<w, p>>}
  /\ UNCHANGED <<live, persisted, disk, clock, job, lastIds, failures>>

\* terminate_workspace: a thread removes the directory if there is one by now.
Terminate(w) ==
  /\ Running
  /\ w \in live
  /\ live' = live \ {w}
  /\ removals' = IF file[w] = NoFile /\ artifacts[w] = {} THEN removals
                 ELSE removals \cup {<<w, AllFiles>>}
  /\ UNCHANGED <<revision, persisted, panes, disk, clock, job, lastIds, failures>>

\* A removal thread runs: remove_dir_all, or remove_pane_state.
Remove(w, which) ==
  /\ Running
  /\ <<w, which>> \in removals
  /\ removals' = removals \ {<<w, which>>}
  /\ IF which = AllFiles
     THEN /\ file' = [file EXCEPT ![w] = NoFile]
          /\ artifacts' = [artifacts EXCEPT ![w] = {}]
     ELSE /\ artifacts' = [artifacts EXCEPT ![w] = @ \ {which}]
          /\ UNCHANGED file
  /\ UNCHANGED <<memory, index, clock, job, lastIds, failures>>

-----------------------------------------------------------------------------
(* A tick of serialization_loop. It lists the workspaces under the server   *)
(* mutex, collects each under its own, writes with no lock held, and takes  *)
(* the locks again to mark what it collected.                               *)

Goes(writer, next) == job' = [job EXCEPT ![writer] = next]

\* The writer has collected everything and is done with the index. It keeps the
\* ids it will mark (written_ids).
TurnsToFiles(writer) ==
  Goes(writer, [job[writer] EXCEPT !.at = "files", !.due = FALSE, !.ids = {},
                                   !.written = Unwritten(writer)])

\* Once shutdown is signalled the select at the head of the loop may still take
\* a tick that is due. Every 30th tick takes snapshots of clean workspaces too, and
\* a tick that finds pending scrollback appends to logs (due stands for both).
StartTick(due) ==
  /\ Running
  /\ job["tick"].at = "idle"
  /\ Goes("tick", Fresh("collect", due, live))
  /\ overlapped' = (overlapped \/ mode = "closing")
  /\ UNCHANGED <<memory, disk, mode, restarts, removals, lastIds, failures>>

\* What a writer takes from workspace w, a terminated one included: its Arc is
\* in the writer's list.
Takes(writer, w, dirty, snapshot) ==
  Goes(writer, [job[writer] EXCEPT
    !.todo = @ \ {w}, !.ids = @ \cup {w},
    !.files[w] = IF dirty THEN Content(w) ELSE NoFile,
    !.snapshots[w] = IF snapshot THEN panes[w] ELSE {}])

\* Faulty variant of CollectTick: marks what it has not written yet.
CollectTickMarking(w) ==
  /\ Running
  /\ job["tick"].at = "collect" /\ w \in job["tick"].todo
  /\ Takes("tick", w, IsDirty(w), IsDirty(w) \/ job["tick"].due)
  /\ persisted' = [persisted EXCEPT ![w] = revision[w]]
  /\ UNCHANGED <<live, revision, panes, disk, clock, removals, lastIds, failures>>

CollectTick(w) ==
  /\ Running
  /\ job["tick"].at = "collect" /\ w \in job["tick"].todo
  /\ Takes("tick", w, IsDirty(w), IsDirty(w) \/ job["tick"].due)
  /\ UNCHANGED <<memory, disk, clock, removals, lastIds, failures>>

Fails ==
  /\ failures < MaxFailures
  /\ failures' = failures + 1
  /\ UNCHANGED disk

\* Faulty variant of WriteTickIndex: a failed write is not tried again.
WriteTickIndexOnce ==
  LET ids == job["tick"].ids IN
  /\ Running
  /\ job["tick"].at = "collect" /\ job["tick"].todo = {}
  /\ lastIds' = ids
  /\ \/ ids = lastIds /\ UNCHANGED <<disk, failures>>
     \/ ids # lastIds /\ index' = ids /\ UNCHANGED <<file, artifacts, failures>>
     \/ ids # lastIds /\ Fails
  /\ TurnsToFiles("tick")
  /\ UNCHANGED <<memory, clock, removals>>

\* The index is written first, and only when the set of ids has changed.
WriteTickIndex ==
  LET ids == job["tick"].ids IN
  /\ Running
  /\ job["tick"].at = "collect" /\ job["tick"].todo = {}
  /\ \/ ids = lastIds /\ UNCHANGED <<disk, failures, lastIds>>
     \/ ids # lastIds /\ index' = ids /\ lastIds' = ids /\ UNCHANGED <<file, artifacts, failures>>
     \/ ids # lastIds /\ Fails /\ UNCHANGED lastIds
  /\ TurnsToFiles("tick")
  /\ UNCHANGED <<memory, clock, removals>>

\* save_workspace, in either writer; a failure is logged and nothing more.
WriteFile(writer, w) ==
  /\ Running
  /\ job[writer].at = "files" /\ w \in Unwritten(writer)
  /\ \/ file' = [file EXCEPT ![w] = job[writer].files[w]] /\ UNCHANGED <<index, artifacts, failures>>
     \/ Fails
  /\ Goes(writer, [job[writer] EXCEPT !.files[w] = NoFile])
  /\ UNCHANGED <<memory, clock, removals, lastIds>>

TurnToSnapshots(writer) ==
  /\ Running
  /\ job[writer].at = "files" /\ Unwritten(writer) = {}
  /\ Goes(writer, [job[writer] EXCEPT !.at = "snapshots"])
  /\ UNCHANGED <<memory, disk, clock, removals, lastIds, failures>>

\* save_screen_snapshot for the panes of w.
WriteSnapshots(writer, w) ==
  /\ Running
  /\ job[writer].at = "snapshots" /\ job[writer].snapshots[w] # {}
  /\ artifacts' = [artifacts EXCEPT ![w] = @ \cup job[writer].snapshots[w]]
  /\ Goes(writer, [job[writer] EXCEPT !.snapshots[w] = {}])
  /\ UNCHANGED <<memory, index, file, clock, removals, lastIds, failures>>

\* Faulty variant of MarkPersisted: one revision too many is taken for saved.
MarkPersistedAhead ==
  /\ Running
  /\ job["tick"].at = "snapshots" /\ \A w \in Workspaces : job["tick"].snapshots[w] = {}
  /\ persisted' = [w \in Workspaces |-> IF w \in job["tick"].written \cap live
                                        THEN revision[w] + 1 ELSE persisted[w]]
  /\ Goes("tick", Idle)
  /\ UNCHANGED <<live, revision, panes, disk, clock, removals, lastIds, failures>>

\* written_ids is every workspace that was collected, whether its write succeeded
\* or not, and mark_persisted takes the revision of this moment.
MarkPersisted ==
  /\ Running
  /\ job["tick"].at = "snapshots" /\ \A w \in Workspaces : job["tick"].snapshots[w] = {}
  /\ persisted' = [w \in Workspaces |-> IF w \in job["tick"].written \cap live
                                        THEN revision[w] ELSE persisted[w]]
  /\ Goes("tick", Idle)
  /\ UNCHANGED <<live, revision, panes, disk, clock, removals, lastIds, failures>>

-----------------------------------------------------------------------------
(* Shutdown, crash and restart.                                             *)

SignalShutdown ==
  /\ mode = "up"
  /\ restarts < MaxRestarts
  /\ mode' = "closing"
  /\ UNCHANGED <<memory, disk, restarts, overlapped, removals, job, lastIds, failures>>

\* persist_and_cleanup, which nothing keeps from running beside a tick.
StartFinal ==
  /\ mode = "closing"
  /\ job["final"].at = "idle"
  /\ Goes("final", Fresh("collect", TRUE, live))
  /\ overlapped' = (overlapped \/ job["tick"].at # "idle")
  /\ UNCHANGED <<memory, disk, mode, restarts, removals, lastIds, failures>>

\* Faulty variant of CollectFinal: clean workspaces are left out.
CollectFinalIfDirty(w) ==
  /\ mode = "closing"
  /\ job["final"].at = "collect" /\ w \in job["final"].todo
  /\ IF IsDirty(w) THEN Takes("final", w, TRUE, TRUE)
     ELSE Goes("final", [job["final"] EXCEPT !.todo = @ \ {w}])
  /\ persisted' = [persisted EXCEPT ![w] = revision[w]]
  /\ UNCHANGED <<live, revision, panes, disk, clock, removals, lastIds, failures>>

CollectFinal(w) ==
  /\ mode = "closing"
  /\ job["final"].at = "collect" /\ w \in job["final"].todo
  /\ Takes("final", w, TRUE, TRUE)
  /\ persisted' = [persisted EXCEPT ![w] = revision[w]]
  /\ UNCHANGED <<live, revision, panes, disk, clock, removals, lastIds, failures>>

WriteFinalIndex ==
  /\ mode = "closing"
  /\ job["final"].at = "collect" /\ job["final"].todo = {}
  /\ \/ index' = job["final"].ids /\ UNCHANGED <<file, artifacts, failures>>
     \/ Fails
  /\ TurnsToFiles("final")
  /\ UNCHANGED <<memory, clock, removals, lastIds>>

\* The process is gone, and with it the writers and the removal threads.
ThreadsEnd ==
  /\ restarts' = restarts + 1
  /\ removals' = {}
  /\ job' = [writer \in Writers |-> Idle]
  /\ lastIds' = {}

Exit ==
  /\ mode = "closing"
  /\ job["final"].at = "snapshots" /\ \A w \in Workspaces : job["final"].snapshots[w] = {}
  /\ mode' = "exited"
  /\ ThreadsEnd
  /\ UNCHANGED <<memory, disk, overlapped, failures>>

\* SIGKILL or power loss: what was in memory is lost. The revisions are kept here
\* to tell the ids that have been used.
Crash ==
  /\ Running
  /\ restarts < MaxRestarts
  /\ mode' = "crashed"
  /\ ThreadsEnd
  /\ live' = {}
  /\ persisted' = [w \in Workspaces |-> 0]
  /\ panes' = [w \in Workspaces |-> {}]
  /\ overlapped' = FALSE
  /\ failures' = 0
  /\ UNCHANGED <<revision, disk>>

Loaded == {w \in index : file[w] # NoFile}

\* The daemon comes up with the loaded workspaces at the given revisions.
ComesUp(restored) ==
  /\ mode \in {"exited", "crashed"}
  /\ mode' = "up"
  /\ live' = Loaded
  /\ revision' = [w \in Workspaces |-> IF w \in Loaded THEN restored[w] ELSE revision[w]]
  /\ persisted' = [w \in Workspaces |-> IF w \in Loaded THEN restored[w] ELSE 0]
  /\ panes' = [w \in Workspaces |-> IF w \in Loaded THEN file[w].panes ELSE {}]
  /\ failures' = 0
  /\ overlapped' = FALSE
  /\ UNCHANGED <<disk, restarts, removals, job, lastIds>>

\* Faulty variant of Restart: the saved revision is not taken over.
RestartAtOne == ComesUp([w \in Workspaces |-> 1])

\* load_persisted_state and from_workspace_file. An indexed workspace without a
\* file is skipped.
Restart == ComesUp([w \in Workspaces |-> file[w].revision])

-----------------------------------------------------------------------------
Requests ==
  \E w \in Workspaces :
    \/ CreateWorkspace(w) \/ Change(w) \/ Terminate(w)
    \/ \E p \in Panes : AddPane(w, p) \/ ClosePane(w, p)

Tick ==
  \/ \E due \in BOOLEAN : StartTick(due)
  \/ \E w \in Workspaces : CollectTick(w) \/ WriteFile("tick", w) \/ WriteSnapshots("tick", w)
  \/ WriteTickIndex \/ TurnToSnapshots("tick") \/ MarkPersisted

FinalSave ==
  \/ StartFinal \/ WriteFinalIndex \/ TurnToSnapshots("final") \/ Exit
  \/ \E w \in Workspaces : CollectFinal(w) \/ WriteFile("final", w) \/ WriteSnapshots("final", w)

Removal == \E w \in Workspaces, which \in Panes \cup {AllFiles} : Remove(w, which)

Next == Requests \/ Tick \/ FinalSave \/ Removal \/ SignalShutdown \/ Crash \/ Restart

Spec == Init /\ [][Next]_vars

-----------------------------------------------------------------------------
\* Every variable keeps its type, and no workspace counts as saved beyond the
\* revision it has (is_dirty compares the two).
TypeOK ==
  /\ mode \in {"up", "closing", "exited", "crashed"}
  /\ live \subseteq Workspaces
  /\ revision \in [Workspaces -> Nat]
  /\ persisted \in [Workspaces -> Nat]
  /\ \A w \in Workspaces : persisted[w] <= revision[w]
  /\ panes \in [Workspaces -> SUBSET Panes]
  /\ index \subseteq Workspaces
  /\ file \in [Workspaces -> Files]
  /\ artifacts \in [Workspaces -> SUBSET Panes]
  /\ removals \subseteq Workspaces \X (Panes \cup {AllFiles})
  /\ job \in [Writers -> Job]
  /\ lastIds \subseteq Workspaces
  /\ failures \in 0..MaxFailures
  /\ restarts \in 0..MaxRestarts
  /\ overlapped \in BOOLEAN

\* The order of the tick, index and files first and mark_persisted last: as long
\* as no write has failed, a live workspace that is not dirty is listed in the
\* index and has a file, so that a crash at any moment does not lose it.
CleanIsRecoverable ==
  \A w \in live : mode = "up" /\ failures = 0 /\ ~IsDirty(w) => w \in Loaded

\* What a tick has collected may be stale by the time it is written, and the
\* daemon may go down in between, but while it runs normally no save replaces a
\* workspace file by an older one.
SavesNeverGoBack ==
  [][\A w \in Workspaces :
       mode = "up" /\ file'[w] # NoFile => file'[w].revision >= file[w].revision]_vars

\* "the last chance before shutdown" (persist_and_cleanup): unless a tick runs
\* beside it or a write fails, the final save leaves every workspace it found
\* and that is still there in the index, and its file at the revision that was
\* taken for saved, whatever requests are served meanwhile.
ShutdownSaves ==
  mode = "exited" /\ ~overlapped /\ failures = 0 =>
    \A w \in live : persisted[w] > 0 => w \in index /\ file[w].revision = persisted[w]

\* "The daemon index is rewritten only when the set of workspace IDs changes"
\* (serialization_loop): the comparison with last_persisted_ids is sound, because
\* that is what the index on disk lists, whatever writes have failed, unless it is
\* empty as after a restart.
IndexCacheIsTrue == mode = "up" => lastIds = {} \/ lastIds = index

-----------------------------------------------------------------------------
(* Statements of the repository that the code does not meet.                *)

\* Workspace::persisted_revision: "Revision at which this workspace was last
\* successfully written to disk." MarkPersisted takes the revision of a later
\* moment than the file's, and does so for a failed write as well.
PersistedIsOnDisk ==
  mode = "up" => \A w \in live : file[w].revision >= persisted[w]

\* state/cleanup.rs: "A pane that leaves the tree leaves nothing behind." A tick
\* that collected the pane before it was closed may write its snapshot after the
\* removal thread has run.
NothingLeftBehind ==
  mode = "up" /\ removals = {} /\ job = [writer \in Writers |-> Idle] =>
    \A w \in live : artifacts[w] \subseteq panes[w]
==============================================================================
