------------------------- MODULE SerializationProofs -------------------------
(****************************************************************************)
(* What is on disk, proved for any workspaces and panes and any number of   *)
(* changes, failed writes and restarts. SerializationInv adds to the        *)
(* properties what makes them inductive: which writers can run in which     *)
(* mode (Threads), that nothing newer than memory is on its way to the disk *)
(* (OnceInMemory), that the tick alone never carries an older file than the *)
(* disk has (TickIsNewer), and how much of what will count as saved has     *)
(* reached the disk at each phase of the two writers (TickCovers,           *)
(* FinalCovers).                                                            *)
(****************************************************************************)
EXTENDS Serialization, TLAPS

\* Only a shutdown that has been signalled starts the final save, and a daemon that is gone has no
\* writers, no removal threads and no last_persisted_ids.
Threads ==
  /\ mode # "closing" => job["final"] = Idle
  /\ mode \in {"exited", "crashed"} =>
       job = [writer \in Writers |-> Idle] /\ removals = {} /\ lastIds = {}
  /\ mode = "closing" => restarts < MaxRestarts
  /\ \A writer \in Writers : job[writer].at = "snapshots" => Unwritten(writer) = {}

\* What is on disk, or on its way there, was some time in memory.
Old(f, w) == f.revision <= revision[w] /\ (f # NoFile => f.revision > 0)
OnceInMemory ==
  /\ \A w \in live : revision[w] > 0
  /\ \A w \in Workspaces : Old(file[w], w)
  /\ \A writer \in Writers, w \in Workspaces :
       /\ Old(job[writer].files[w], w)
       /\ w \in job[writer].todo \cup job[writer].written => revision[w] > 0
  /\ \A w \in Workspaces : <<w, AllFiles>> \in removals => w \notin live /\ revision[w] > 0

\* While no other writer runs, what the tick has collected is no older than the file.
TickIsNewer ==
  mode = "up" => \A w \in Unwritten("tick") : job["tick"].files[w].revision >= file[w].revision

\* How far a tick is in bringing what is not dirty, or will not be once it is marked, to the disk.
TickCovers ==
  LET tick == job["tick"] IN
  mode = "up" /\ failures = 0 =>
    /\ tick.at = "collect" => /\ \A w \in live : IsDirty(w) \/ w \in tick.todo \cup tick.ids
                              /\ Unwritten("tick") \subseteq tick.ids
    /\ tick.at \in {"files", "snapshots"} =>
         \A w \in tick.written \cap live :
           w \in index /\ (tick.files[w] # NoFile \/ file[w] # NoFile)

\* How far the final save is, when it is alone.
Undisturbed == ~overlapped /\ failures = 0
FinalCovers ==
  LET final == job["final"] IN
  mode = "closing" /\ Undisturbed /\ final.at # "idle" =>
    /\ job["tick"].at = "idle"
    /\ \A w \in live : persisted[w] > 0 =>
         IF final.at = "collect"
         THEN w \in final.todo \/ (w \in final.ids /\ final.files[w].revision = persisted[w])
         ELSE w \in index /\ persisted[w] = IF final.files[w] # NoFile THEN final.files[w].revision
                                            ELSE file[w].revision

SerializationInv ==
  /\ TypeOK /\ Threads /\ OnceInMemory
  /\ IndexCacheIsTrue /\ TickIsNewer /\ TickCovers /\ CleanIsRecoverable
  /\ FinalCovers /\ ShutdownSaves

-----------------------------------------------------------------------------
\* The states a writer's job is reset to (the vectors that a tick and the final save
\* start with, server.rs:2426-2433, 2645-2670).
LEMMA FreshType ==
  ASSUME NEW at \in Phases, NEW due \in BOOLEAN, NEW entries \in SUBSET Workspaces
  PROVE  LET fresh == Fresh(at, due, entries) IN
         /\ fresh \in Job
         /\ fresh.at = at /\ fresh.todo = entries /\ fresh.ids = {} /\ fresh.written = {}
         /\ \A w \in Workspaces : fresh.files[w] = NoFile
BY DEF Fresh, Job, NoFile, Files

\* One writer's step leaves the job of the other alone.
LEMMA OneWriterGoes ==
  ASSUME TypeOK, NEW writer \in Writers, NEW next \in Job, Goes(writer, next)
  PROVE  /\ job' \in [Writers -> Job]
         /\ job'[writer] = next
         /\ \A other \in Writers \ {writer} : job'[other] = job[other]
BY DEF TypeOK, Goes

\* A writer takes a copy of one workspace (server.rs:2523-2549, 2672-2685).
LEMMA TakesOne ==
  ASSUME TypeOK, NEW writer \in Writers, NEW w \in Workspaces,
         NEW dirty \in BOOLEAN, NEW snapshot \in BOOLEAN, Takes(writer, w, dirty, snapshot)
  PROVE  /\ job' \in [Writers -> Job]
         /\ job'[writer].at = job[writer].at
         /\ job'[writer].todo = job[writer].todo \ {w}
         /\ job'[writer].ids = job[writer].ids \cup {w}
         /\ job'[writer].written = job[writer].written
         /\ job'[writer].files[w] = IF dirty THEN Content(w) ELSE NoFile
         /\ \A v \in Workspaces \ {w} : job'[writer].files[v] = job[writer].files[v]
         /\ \A other \in Writers \ {writer} : job'[other] = job[other]
<1> DEFINE next == [job[writer] EXCEPT
                      !.todo = @ \ {w}, !.ids = @ \cup {w},
                      !.files[w] = IF dirty THEN Content(w) ELSE NoFile,
                      !.snapshots[w] = IF snapshot THEN panes[w] ELSE {}]
<1>1. job[writer] \in Job /\ Content(w) \in Files /\ NoFile \in Files /\ panes[w] \in SUBSET Panes
  BY DEF TypeOK, Content, NoFile, Files
<1>2. /\ next \in Job
      /\ next.at = job[writer].at /\ next.todo = job[writer].todo \ {w}
      /\ next.ids = job[writer].ids \cup {w} /\ next.written = job[writer].written
      /\ next.files[w] = IF dirty THEN Content(w) ELSE NoFile
      /\ \A v \in Workspaces \ {w} : next.files[v] = job[writer].files[v]
  BY <1>1 DEF Job
<1>3. Goes(writer, next)
  BY DEF Takes
<1> HIDE DEF next
<1> QED BY <1>2, <1>3, OneWriterGoes

\* A writer turns to the workspace files (server.rs:2551-2586, 2686-2697).
LEMMA TurnsToFilesOnce ==
  ASSUME TypeOK, NEW writer \in Writers, TurnsToFiles(writer)
  PROVE  /\ job' \in [Writers -> Job]
         /\ job'[writer].at = "files"
         /\ job'[writer].todo = job[writer].todo
         /\ job'[writer].files = job[writer].files
         /\ job'[writer].written = Unwritten(writer)
         /\ \A other \in Writers \ {writer} : job'[other] = job[other]
<1> DEFINE next == [job[writer] EXCEPT !.at = "files", !.due = FALSE, !.ids = {},
                                       !.written = Unwritten(writer)]
<1>1. job[writer] \in Job /\ Unwritten(writer) \in SUBSET Workspaces
  BY DEF TypeOK, Unwritten
<1>2. /\ next \in Job /\ next.at = "files" /\ next.todo = job[writer].todo
      /\ next.files = job[writer].files /\ next.written = Unwritten(writer)
  BY <1>1 DEF Job, Phases
<1>3. Goes(writer, next)
  BY DEF TurnsToFiles
<1> HIDE DEF next
<1> QED BY <1>2, <1>3, OneWriterGoes

\* A writer is done with one file (server.rs:2584-2597).
LEMMA WritesOne ==
  ASSUME TypeOK, NEW writer \in Writers, NEW w \in Workspaces, WriteFile(writer, w)
  PROVE  /\ job' \in [Writers -> Job]
         /\ job'[writer].at = job[writer].at /\ job[writer].at = "files"
         /\ job'[writer].todo = job[writer].todo
         /\ job'[writer].ids = job[writer].ids
         /\ job'[writer].written = job[writer].written
         /\ job[writer].files[w] # NoFile
         /\ job'[writer].files[w] = NoFile
         /\ \A v \in Workspaces \ {w} : job'[writer].files[v] = job[writer].files[v]
         /\ \A other \in Writers \ {writer} : job'[other] = job[other]
<1> DEFINE next == [job[writer] EXCEPT !.files[w] = NoFile]
<1>1. /\ job[writer] \in Job /\ NoFile \in Files
      /\ job[writer].at = "files" /\ job[writer].files[w] # NoFile
  BY DEF TypeOK, NoFile, Files, WriteFile, Unwritten
<1>2. /\ next \in Job /\ next.at = job[writer].at /\ next.todo = job[writer].todo
      /\ next.ids = job[writer].ids /\ next.written = job[writer].written
      /\ next.files[w] = NoFile
      /\ \A v \in Workspaces \ {w} : next.files[v] = job[writer].files[v]
  BY <1>1 DEF Job
<1>3. Goes(writer, next)
  BY DEF WriteFile
<1> HIDE DEF next
<1> QED BY <1>1, <1>2, <1>3, OneWriterGoes

\* Snapshots come after the files, and a writer forgets those it has written
\* (server.rs:2599-2616).
LEMMA WritesSnapshots ==
  ASSUME TypeOK, NEW writer \in Writers,
         TurnToSnapshots(writer) \/ \E w \in Workspaces : WriteSnapshots(writer, w)
  PROVE  /\ job' \in [Writers -> Job]
         /\ job'[writer].at = "snapshots" /\ job[writer].at \in {"files", "snapshots"}
         /\ job[writer].at = "files" => Unwritten(writer) = {}
         /\ job'[writer].todo = job[writer].todo
         /\ job'[writer].ids = job[writer].ids
         /\ job'[writer].files = job[writer].files
         /\ job'[writer].written = job[writer].written
         /\ \A other \in Writers \ {writer} : job'[other] = job[other]
<1>1. job[writer] \in Job
  BY DEF TypeOK
<1>2. CASE TurnToSnapshots(writer)
  <2> DEFINE next == [job[writer] EXCEPT !.at = "snapshots"]
  <2>1. /\ next \in Job /\ next.at = "snapshots" /\ next.todo = job[writer].todo
        /\ next.ids = job[writer].ids /\ next.written = job[writer].written
        /\ next.files = job[writer].files
    BY <1>1 DEF Job, Phases
  <2>2. Goes(writer, next) /\ job[writer].at = "files" /\ Unwritten(writer) = {}
    BY <1>2 DEF TurnToSnapshots
  <2> HIDE DEF next
  <2> QED BY <2>1, <2>2, OneWriterGoes
<1>3. ASSUME NEW w \in Workspaces, WriteSnapshots(writer, w)
      PROVE  /\ job' \in [Writers -> Job]
             /\ job'[writer].at = "snapshots" /\ job[writer].at = "snapshots"
             /\ job'[writer].todo = job[writer].todo
             /\ job'[writer].ids = job[writer].ids
             /\ job'[writer].files = job[writer].files
             /\ job'[writer].written = job[writer].written
             /\ \A other \in Writers \ {writer} : job'[other] = job[other]
  <2> DEFINE next == [job[writer] EXCEPT !.snapshots[w] = {}]
  <2>1. /\ next \in Job /\ next.at = job[writer].at /\ next.todo = job[writer].todo
        /\ next.ids = job[writer].ids /\ next.written = job[writer].written
        /\ next.files = job[writer].files
    BY <1>1 DEF Job
  <2>2. Goes(writer, next) /\ job[writer].at = "snapshots"
    BY <1>3 DEF WriteSnapshots
  <2> HIDE DEF next
  <2> QED BY <2>1, <2>2, OneWriterGoes
<1> QED BY <1>2, <1>3

\* The daemon is gone: no job is left.
LEMMA AllIdle ==
  /\ Idle \in Job /\ Idle.at = "idle" /\ Idle.todo = {}
  /\ \A w \in Workspaces : Idle.files[w] = NoFile
  /\ [writer \in Writers |-> Idle] \in [Writers -> Job]
<1>1. /\ Idle \in Job /\ Idle.at = "idle" /\ Idle.todo = {}
      /\ \A w \in Workspaces : Idle.files[w] = NoFile
  BY DEF Idle, Fresh, Job, NoFile, Files, Phases
<1> QED BY <1>1

-----------------------------------------------------------------------------
(* The steps of the daemon, by what they do to the writers' jobs.           *)

\* Requests and removal threads leave the writers alone.
LEMMA TypeOfRequests ==
  ASSUME TypeOK, NEW w \in Workspaces,
         \/ CreateWorkspace(w) \/ Change(w) \/ Terminate(w)
         \/ \E p \in Panes : AddPane(w, p) \/ ClosePane(w, p)
         \/ \E which \in Panes \cup {AllFiles} : Remove(w, which)
  PROVE  TypeOK'
<1>1. CASE CreateWorkspace(w)
  BY <1>1 DEF CreateWorkspace, TypeOK, disk, clock
<1>2. CASE Change(w)
  BY <1>2 DEF Change, Changed, TypeOK, disk, clock
<1>3. CASE Terminate(w)
  <2>1. removals' \subseteq Workspaces \X (Panes \cup {AllFiles})
    BY <1>3 DEF Terminate, TypeOK
  <2> QED BY <1>3, <2>1 DEF Terminate, TypeOK, disk, clock
<1>4. ASSUME NEW p \in Panes, AddPane(w, p)
      PROVE  TypeOK'
  <2>1. /\ panes' \in [Workspaces -> SUBSET Panes] /\ artifacts' \in [Workspaces -> SUBSET Panes]
        /\ revision' = [revision EXCEPT ![w] = @ + 1]
    BY <1>4 DEF AddPane, Changed, TypeOK
  <2> QED BY <1>4, <2>1 DEF AddPane, TypeOK, clock
<1>5. ASSUME NEW p \in Panes, ClosePane(w, p)
      PROVE  TypeOK'
  <2>1. /\ panes' \in [Workspaces -> SUBSET Panes]
        /\ removals' \subseteq Workspaces \X (Panes \cup {AllFiles})
        /\ revision' = [revision EXCEPT ![w] = @ + 1]
    BY <1>5 DEF ClosePane, Changed, TypeOK
  <2> QED BY <1>5, <2>1 DEF ClosePane, TypeOK, disk, clock
<1>6. ASSUME NEW which \in Panes \cup {AllFiles}, Remove(w, which)
      PROVE  TypeOK'
  <2>1. /\ file' \in [Workspaces -> Files] /\ artifacts' \in [Workspaces -> SUBSET Panes]
        /\ removals' \subseteq Workspaces \X (Panes \cup {AllFiles})
    <3>1. removals' \subseteq Workspaces \X (Panes \cup {AllFiles})
      BY <1>6 DEF Remove, TypeOK
    <3>2. CASE which = AllFiles
      <4>1. /\ file' = [file EXCEPT ![w] = NoFile] /\ NoFile \in Files
            /\ artifacts' = [artifacts EXCEPT ![w] = {}]
        BY <1>6, <3>2 DEF Remove, Files, NoFile
      <4>2. file' \in [Workspaces -> Files] /\ artifacts' \in [Workspaces -> SUBSET Panes]
        BY <4>1 DEF TypeOK
      <4> QED BY <3>1, <4>2
    <3>3. CASE which # AllFiles
      BY <1>6, <3>1, <3>3 DEF Remove, TypeOK
    <3> QED BY <3>2, <3>3
  <2> QED BY <1>6, <2>1 DEF Remove, TypeOK, memory, clock
<1> QED BY <1>1, <1>2, <1>3, <1>4, <1>5, <1>6

\* A write that fails changes nothing but the count of failures.
LEMMA FailureCounts ==
  ASSUME TypeOK, Fails
  PROVE  failures' \in 0..MaxFailures /\ failures' # 0 /\ UNCHANGED <<index, file, artifacts>>
BY BoundsAssumption DEF Fails, TypeOK, disk

\* The writers write what they hold (server.rs:2395-2717).
LEMMA TypeOfWriters ==
  ASSUME TypeOK, Tick \/ StartFinal \/ WriteFinalIndex \/ TurnToSnapshots("final")
                   \/ \E w \in Workspaces : CollectFinal(w) \/ WriteFile("final", w)
                                              \/ WriteSnapshots("final", w)
  PROVE  TypeOK'
<1> "tick" \in Writers /\ "final" \in Writers
  BY DEF Writers
<1>1. ASSUME NEW due \in BOOLEAN, StartTick(due)
      PROVE  TypeOK'
  <2>1. Fresh("collect", due, live) \in Job
    BY FreshType DEF Phases, TypeOK
  <2>2. job' \in [Writers -> Job]
    BY <1>1, <2>1, OneWriterGoes DEF StartTick
  <2> QED BY <1>1, <2>2 DEF StartTick, TypeOK, memory, disk
<1>2. CASE StartFinal
  <2>1. Fresh("collect", TRUE, live) \in Job
    BY FreshType DEF Phases, TypeOK
  <2>2. job' \in [Writers -> Job]
    BY <1>2, <2>1, OneWriterGoes DEF StartFinal
  <2> QED BY <1>2, <2>2 DEF StartFinal, TypeOK, memory, disk
<1>3. ASSUME NEW w \in Workspaces, CollectTick(w)
      PROVE  TypeOK'
  <2>1. job' \in [Writers -> Job]
    <3>1. IsDirty(w) \in BOOLEAN /\ (IsDirty(w) \/ job["tick"].due) \in BOOLEAN
      BY DEF IsDirty
    <3>2. Takes("tick", w, IsDirty(w), IsDirty(w) \/ job["tick"].due)
      BY <1>3 DEF CollectTick
    <3> QED BY <3>1, <3>2, TakesOne
  <2> QED BY <1>3, <2>1 DEF CollectTick, TypeOK, memory, disk, clock
<1>4. ASSUME NEW w \in Workspaces, CollectFinal(w)
      PROVE  TypeOK'
  <2>1. job' \in [Writers -> Job]
    BY <1>4, TakesOne DEF CollectFinal
  <2>2. persisted' \in [Workspaces -> Nat] /\ \A v \in Workspaces : persisted'[v] <= revision[v]
    BY <1>4 DEF CollectFinal, TypeOK
  <2> QED BY <1>4, <2>1, <2>2 DEF CollectFinal, TypeOK, disk, clock
<1>5. ASSUME NEW writer \in Writers, NEW w \in Workspaces, WriteFile(writer, w)
      PROVE  TypeOK'
  <2>1. job' \in [Writers -> Job]
    BY <1>5, WritesOne
  <2>2. /\ file' \in [Workspaces -> Files] /\ failures' \in 0..MaxFailures
        /\ UNCHANGED <<index, artifacts>>
    <3>1. job[writer].files[w] \in Files
      BY DEF TypeOK, Job
    <3>2. \/ /\ file' = [file EXCEPT ![w] = job[writer].files[w]]
             /\ UNCHANGED <<index, artifacts, failures>>
          \/ Fails
      BY <1>5 DEF WriteFile
    <3> QED BY <3>1, <3>2, FailureCounts DEF TypeOK
  <2> QED BY <1>5, <2>1, <2>2 DEF WriteFile, TypeOK, memory, clock
<1>6. ASSUME NEW writer \in Writers, TurnToSnapshots(writer)
      PROVE  TypeOK'
  <2>1. job' \in [Writers -> Job]
    BY <1>6, WritesSnapshots
  <2> QED BY <1>6, <2>1 DEF TurnToSnapshots, TypeOK, memory, disk, clock
<1>7. ASSUME NEW writer \in Writers, NEW w \in Workspaces, WriteSnapshots(writer, w)
      PROVE  TypeOK'
  <2>1. job' \in [Writers -> Job]
    BY <1>7, WritesSnapshots
  <2>2. artifacts' \in [Workspaces -> SUBSET Panes]
    <3>1. job[writer].snapshots[w] \in SUBSET Panes
      BY DEF TypeOK, Job
    <3> QED BY <1>7, <3>1 DEF WriteSnapshots, TypeOK
  <2> QED BY <1>7, <2>1, <2>2 DEF WriteSnapshots, TypeOK, memory, clock
<1>8. CASE WriteTickIndex
  <2>1. job' \in [Writers -> Job]
    BY <1>8, TurnsToFilesOnce DEF WriteTickIndex
  <2>2. job["tick"].ids \subseteq Workspaces
    BY DEF TypeOK, Job
  <2>3. /\ index' \subseteq Workspaces /\ lastIds' \subseteq Workspaces
        /\ failures' \in 0..MaxFailures /\ UNCHANGED <<file, artifacts>>
    BY <1>8, <2>2, FailureCounts DEF WriteTickIndex, TypeOK, disk
  <2> QED BY <1>8, <2>1, <2>3 DEF WriteTickIndex, TypeOK, memory, clock
<1>9. CASE WriteFinalIndex
  <2>1. job' \in [Writers -> Job]
    BY <1>9, TurnsToFilesOnce DEF WriteFinalIndex
  <2>2. job["final"].ids \subseteq Workspaces
    BY DEF TypeOK, Job
  <2>3. /\ index' \subseteq Workspaces
        /\ failures' \in 0..MaxFailures /\ UNCHANGED <<file, artifacts>>
    BY <1>9, <2>2, FailureCounts DEF WriteFinalIndex, TypeOK
  <2> QED BY <1>9, <2>1, <2>3 DEF WriteFinalIndex, TypeOK, memory, clock
<1>10. CASE MarkPersisted
  <2>1. job' \in [Writers -> Job]
    BY <1>10, AllIdle, OneWriterGoes DEF MarkPersisted
  <2>2. persisted' \in [Workspaces -> Nat] /\ \A v \in Workspaces : persisted'[v] <= revision[v]
    BY <1>10 DEF MarkPersisted, TypeOK
  <2> QED BY <1>10, <2>1, <2>2 DEF MarkPersisted, TypeOK, disk, clock
<1> QED BY <1>1, <1>2, <1>3, <1>4, <1>5, <1>6, <1>7, <1>8, <1>9, <1>10 DEF Tick

\* Going down and coming up (server.rs:225-262, 2730-2774).
LEMMA TypeOfLife ==
  ASSUME TypeOK, mode = "closing" => restarts < MaxRestarts,
         SignalShutdown \/ Exit \/ Crash \/ Restart
  PROVE  TypeOK'
<1>1. CASE SignalShutdown
  BY <1>1 DEF SignalShutdown, TypeOK, memory, disk
<1>2. CASE Exit
  <2>1. job' \in [Writers -> Job] /\ restarts' \in 0..MaxRestarts /\ removals' = {} /\ lastIds' = {}
    BY <1>2, AllIdle, BoundsAssumption DEF Exit, ThreadsEnd, TypeOK
  <2> QED BY <1>2, <2>1 DEF Exit, TypeOK, memory, disk
<1>3. CASE Crash
  <2>1. job' \in [Writers -> Job] /\ restarts' \in 0..MaxRestarts /\ removals' = {} /\ lastIds' = {}
    BY <1>3, AllIdle, BoundsAssumption DEF Crash, ThreadsEnd, TypeOK
  <2>2. /\ live' = {} /\ failures' \in 0..MaxFailures /\ persisted' \in [Workspaces -> Nat]
        /\ \A w \in Workspaces : persisted'[w] <= revision[w]
        /\ panes' \in [Workspaces -> SUBSET Panes]
    BY <1>3, BoundsAssumption DEF Crash, TypeOK
  <2> QED BY <1>3, <2>1, <2>2 DEF Crash, TypeOK, disk
<1>4. CASE Restart
  <2>1. Loaded \subseteq Workspaces /\ \A w \in Workspaces : file[w].revision \in Nat
    BY DEF Loaded, TypeOK, Files
  <2>2. /\ revision' = [w \in Workspaces |-> IF w \in Loaded THEN file[w].revision ELSE revision[w]]
        /\ persisted' = [w \in Workspaces |-> IF w \in Loaded THEN file[w].revision ELSE 0]
    BY <1>4, <2>1 DEF Restart, ComesUp
  <2>3. panes' \in [Workspaces -> SUBSET Panes]
    BY <1>4 DEF Restart, ComesUp, TypeOK, Files
  <2>4. /\ revision' \in [Workspaces -> Nat] /\ persisted' \in [Workspaces -> Nat]
        /\ \A w \in Workspaces : persisted'[w] <= revision'[w]
    BY <2>1, <2>2 DEF TypeOK
  <2>5. /\ live' \subseteq Workspaces /\ failures' \in 0..MaxFailures
        /\ mode' = "up" /\ overlapped' = FALSE
    BY <1>4, <2>1, BoundsAssumption DEF Restart, ComesUp
  <2> QED BY <1>4, <2>3, <2>4, <2>5 DEF Restart, ComesUp, TypeOK, disk
<1> QED BY <1>1, <1>2, <1>3, <1>4

-----------------------------------------------------------------------------
(* Each step keeps the invariant.                                           *)

\* Requests are served while the writers run: a new workspace is dirty, and one that is gone does
\* not come back (server.rs:612-742).
LEMMA RequestsKeep ==
  ASSUME SerializationInv, NEW w \in Workspaces,
         \/ CreateWorkspace(w) \/ Change(w) \/ Terminate(w)
         \/ \E p \in Panes : AddPane(w, p) \/ ClosePane(w, p)
  PROVE  SerializationInv'
<1> USE DEF SerializationInv
<1>1. TypeOK'
  BY TypeOfRequests
<1>2. /\ mode \in {"up", "closing"}
      /\ UNCHANGED <<mode, restarts, overlapped, persisted, index, file, job, lastIds, failures>>
  BY DEF CreateWorkspace, Change, Terminate, AddPane, ClosePane, Changed, MayChange, Running, disk,
     clock
<1>3. /\ \A v \in Workspaces : revision'[v] \in Nat /\ revision'[v] >= revision[v]
      /\ \A v \in live' : v \in live \/ (v = w /\ revision[w] = 0 /\ revision'[w] = 1)
      /\ \A v \in Workspaces : <<v, AllFiles>> \in removals' =>
           <<v, AllFiles>> \in removals \/ (v \notin live' /\ v \in live)
  BY AllFilesAssumption
     DEF CreateWorkspace, Change, Terminate, AddPane, ClosePane, Changed, TypeOK
<1>4. Threads'
  BY <1>2 DEF Threads, Unwritten
<1>5. OnceInMemory'
  <2>1. \A v \in live' : revision'[v] > 0
    BY <1>3 DEF OnceInMemory, TypeOK
  <2>2. \A v \in Workspaces : revision[v] \in Nat /\ file[v].revision \in Nat
          /\ \A writer \in Writers : job[writer].files[v].revision \in Nat
    BY DEF TypeOK, Files, Job
  <2>3. /\ \A v \in Workspaces : Old(file[v], v)'
        /\ \A writer \in Writers, v \in Workspaces :
             /\ Old(job[writer].files[v], v)'
             /\ v \in job'[writer].todo \cup job'[writer].written => revision'[v] > 0
    BY <1>2, <1>3, <2>2 DEF OnceInMemory, Old
  <2>4. \A v \in Workspaces : <<v, AllFiles>> \in removals' => v \notin live' /\ revision'[v] > 0
    BY <1>3, <2>2 DEF OnceInMemory
  <2> QED BY <2>1, <2>3, <2>4 DEF OnceInMemory
<1>6. IndexCacheIsTrue' /\ TickIsNewer'
  BY <1>2 DEF IndexCacheIsTrue, TickIsNewer, Unwritten
<1>7. \A v \in live' : v \in Workspaces /\ (v \in live \/ persisted[v] = 0)
                         /\ (~IsDirty(v)' => v \in live /\ ~IsDirty(v))
  BY <1>2, <1>3 DEF TypeOK, IsDirty
<1>8. TickCovers' /\ CleanIsRecoverable'
  <2>1. CASE mode = "up" /\ failures = 0
    <3>1. \A v \in live' : v \in job["tick"].written => v \in live
      BY <1>3, <1>7 DEF OnceInMemory, Writers
    <3> QED BY <1>2, <1>7, <2>1, <3>1 DEF TickCovers, CleanIsRecoverable, Unwritten, Loaded
  <2>2. CASE ~ (mode = "up" /\ failures = 0)
    BY <1>2, <2>2 DEF TickCovers, CleanIsRecoverable
  <2> QED BY <2>1, <2>2
<1>9. FinalCovers' /\ ShutdownSaves'
  BY <1>2, <1>7 DEF FinalCovers, Undisturbed, ShutdownSaves, TypeOK
<1> QED BY <1>1, <1>4, <1>5, <1>6, <1>8, <1>9

\* Files go only when the workspace has left the map for good (state/cleanup.rs:22-75).
LEMMA RemovalKeeps ==
  ASSUME SerializationInv, NEW w \in Workspaces, NEW which \in Panes \cup {AllFiles},
         Remove(w, which)
  PROVE  SerializationInv'
<1> USE DEF SerializationInv
<1>1. TypeOK'
  BY TypeOfRequests
<1>2. /\ mode \in {"up", "closing"}
      /\ UNCHANGED <<memory, mode, restarts, overlapped, index, job, lastIds, failures>>
      /\ removals' \subseteq removals
  BY DEF Remove, Running, clock
<1>3. \A v \in Workspaces : \/ file'[v] = file[v]
                            \/ file'[v] = NoFile /\ v \notin live
  BY DEF Remove, OnceInMemory, TypeOK
<1>4. \A v \in live : file'[v] = file[v]
  BY <1>3 DEF TypeOK
<1>5. Threads'
  BY <1>2 DEF Threads, Unwritten
<1>6. OnceInMemory'
  <2>1. ASSUME NEW v \in Workspaces PROVE Old(file[v], v)'
    <3>1. NoFile.revision = 0 /\ revision[v] \in Nat /\ Old(file[v], v) /\ revision' = revision
      BY <1>2 DEF NoFile, TypeOK, OnceInMemory, memory
    <3> QED BY <1>3, <3>1 DEF Old
  <2>2. \A writer \in Writers, v \in Workspaces : Old(job[writer].files[v], v)'
    BY <1>2 DEF OnceInMemory, Old, memory
  <2> QED BY <1>2, <2>1, <2>2 DEF OnceInMemory, memory
<1>7. IndexCacheIsTrue'
  BY <1>2 DEF IndexCacheIsTrue
<1>8. TickIsNewer'
  <2>1. \A v \in Workspaces : job["tick"].files[v].revision \in Nat
    BY DEF TypeOK, Job, Files, Writers
  <2> QED BY <1>2, <1>3, <2>1 DEF TickIsNewer, Unwritten, NoFile
<1>9. TickCovers' /\ CleanIsRecoverable'
  BY <1>2, <1>4 DEF TickCovers, CleanIsRecoverable, Unwritten, Loaded, IsDirty, memory
<1>10. FinalCovers' /\ ShutdownSaves'
  BY <1>2, <1>4 DEF FinalCovers, Undisturbed, ShutdownSaves, memory
<1> QED BY <1>1, <1>5, <1>6, <1>7, <1>8, <1>9, <1>10

\* A tick lists the workspaces there are, clean ones among them (server.rs:2414-2457).
LEMMA StartTickKeeps ==
  ASSUME SerializationInv, NEW due \in BOOLEAN, StartTick(due)
  PROVE  SerializationInv'
<1> USE DEF SerializationInv
<1>1. TypeOK'
  BY TypeOfWriters DEF Tick
<1>2. /\ mode \in {"up", "closing"} /\ job["tick"].at = "idle"
      /\ UNCHANGED <<memory, disk, mode, restarts, removals, lastIds, failures>>
      /\ overlapped' = (overlapped \/ mode = "closing")
  BY DEF StartTick, Running
<1>3. Fresh("collect", due, live) \in Job /\ Goes("tick", Fresh("collect", due, live))
  BY FreshType DEF StartTick, Phases, TypeOK
<1>4. /\ job'["tick"].at = "collect" /\ job'["tick"].todo = live /\ job'["tick"].written = {}
      /\ \A v \in Workspaces : job'["tick"].files[v] = NoFile
      /\ job'["final"] = job["final"]
  BY <1>3, FreshType, OneWriterGoes DEF Writers, Phases, TypeOK
<1>5. Threads'
  BY <1>2, <1>4 DEF Threads, Unwritten, Writers
<1>6. OnceInMemory'
  BY <1>2, <1>4 DEF OnceInMemory, Old, NoFile, memory, disk, TypeOK, Writers
<1>7. IndexCacheIsTrue' /\ TickIsNewer'
  BY <1>2, <1>4 DEF IndexCacheIsTrue, TickIsNewer, Unwritten, disk
<1>8. TickCovers' /\ CleanIsRecoverable'
  BY <1>2, <1>4 DEF TickCovers, CleanIsRecoverable, Unwritten, Loaded, IsDirty, memory, disk
<1>9. FinalCovers' /\ ShutdownSaves'
  BY <1>2 DEF FinalCovers, Undisturbed, ShutdownSaves
<1> QED BY <1>1, <1>5, <1>6, <1>7, <1>8, <1>9

\* The final save lists them too; a tick that is running is what may disturb it
\* (server.rs:2645-2670).
LEMMA StartFinalKeeps ==
  ASSUME SerializationInv, StartFinal
  PROVE  SerializationInv'
<1> USE DEF SerializationInv
<1>1. TypeOK'
  BY TypeOfWriters
<1>2. /\ mode = "closing" /\ job["final"].at = "idle"
      /\ UNCHANGED <<memory, disk, mode, restarts, removals, lastIds, failures>>
      /\ overlapped' = (overlapped \/ job["tick"].at # "idle")
  BY DEF StartFinal
<1>3. Fresh("collect", TRUE, live) \in Job /\ Goes("final", Fresh("collect", TRUE, live))
  BY FreshType DEF StartFinal, Phases, TypeOK
<1> DEFINE fresh == Fresh("collect", TRUE, live)
<1>4. /\ fresh.at = "collect" /\ fresh.todo = live /\ fresh.written = {}
      /\ \A v \in Workspaces : fresh.files[v] = NoFile
  BY DEF Fresh
<1> HIDE DEF fresh
<1>5. /\ job'["final"].at = "collect" /\ job'["final"].todo = live /\ job'["final"].written = {}
      /\ \A v \in Workspaces : job'["final"].files[v] = NoFile
      /\ job'["tick"] = job["tick"]
  BY <1>3, <1>4, OneWriterGoes DEF Writers, fresh
<1>6. Threads'
  BY <1>2, <1>5 DEF Threads, Unwritten, Writers
<1>7. OnceInMemory'
  BY <1>2, <1>5 DEF OnceInMemory, Old, NoFile, memory, disk, TypeOK, Writers
<1>8. IndexCacheIsTrue' /\ TickIsNewer' /\ TickCovers' /\ CleanIsRecoverable' /\ ShutdownSaves'
  BY <1>2 DEF IndexCacheIsTrue, TickIsNewer, TickCovers, CleanIsRecoverable, ShutdownSaves
<1>9. FinalCovers'
  BY <1>2, <1>5 DEF FinalCovers, Undisturbed, memory
<1> QED BY <1>1, <1>6, <1>7, <1>8, <1>9

\* Collecting a workspace, by either writer, keeps what is on disk (server.rs:2523-2549).
LEMMA CollectTickKeeps ==
  ASSUME SerializationInv, NEW w \in Workspaces, CollectTick(w)
  PROVE  SerializationInv'
<1> USE DEF SerializationInv
<1>1. TypeOK'
  BY TypeOfWriters DEF Tick
<1>2. /\ mode \in {"up", "closing"}
      /\ job["tick"].at = "collect" /\ w \in job["tick"].todo
      /\ UNCHANGED <<memory, disk, clock, removals, lastIds, failures>>
  BY DEF CollectTick, Running
<1>3. /\ job'["tick"].at = "collect"
      /\ job'["tick"].todo = job["tick"].todo \ {w}
      /\ job'["tick"].ids = job["tick"].ids \cup {w}
      /\ job'["tick"].written = job["tick"].written
      /\ job'["tick"].files[w] = IF IsDirty(w) THEN Content(w) ELSE NoFile
      /\ \A v \in Workspaces \ {w} : job'["tick"].files[v] = job["tick"].files[v]
      /\ job'["final"] = job["final"]
  <2>1. PICK dirty \in BOOLEAN, snapshot \in BOOLEAN :
          (dirty <=> IsDirty(w)) /\ Takes("tick", w, dirty, snapshot)
    <3>1. IsDirty(w) \in BOOLEAN /\ (IsDirty(w) \/ job["tick"].due) \in BOOLEAN
      BY DEF IsDirty
    <3> QED BY <3>1 DEF CollectTick
  <2>2. "tick" \in Writers /\ "final" \in Writers \ {"tick"}
    BY DEF Writers
  <2>3. /\ job'["tick"].at = job["tick"].at
        /\ job'["tick"].todo = job["tick"].todo \ {w}
        /\ job'["tick"].ids = job["tick"].ids \cup {w}
        /\ job'["tick"].written = job["tick"].written
        /\ job'["tick"].files[w] = IF dirty THEN Content(w) ELSE NoFile
        /\ \A v \in Workspaces \ {w} : job'["tick"].files[v] = job["tick"].files[v]
        /\ job'["final"] = job["final"]
    BY <2>1, <2>2, TakesOne
  <2> QED BY <1>2, <2>1, <2>3
<1>4. /\ NoFile.revision = 0 /\ Content(w).revision = revision[w]
      /\ revision[w] \in Nat /\ revision[w] > 0
      /\ file[w].revision \in Nat /\ file[w].revision <= revision[w]
  BY <1>2 DEF NoFile, Content, TypeOK, Files, OnceInMemory, Writers, Old
<1>5. Threads'
  BY <1>2, <1>3 DEF Threads, Unwritten, Writers, clock
<1>6. OnceInMemory'
  <2>1. \A v \in Workspaces : Old(job["tick"].files[v], v)'
    BY <1>2, <1>3, <1>4 DEF OnceInMemory, Old, memory, Writers
  <2> QED BY <1>2, <1>3, <2>1 DEF OnceInMemory, Old, memory, disk, Writers
<1>7. IndexCacheIsTrue'
  BY <1>2 DEF IndexCacheIsTrue, clock, disk
<1>8. TickIsNewer'
  BY <1>2, <1>3, <1>4 DEF TickIsNewer, Unwritten, clock, disk
<1>9. TickCovers' /\ CleanIsRecoverable'
  <2>1. CleanIsRecoverable'
    BY <1>2 DEF CleanIsRecoverable, Loaded, IsDirty, memory, disk, clock
  <2>2. TickCovers'
    BY <1>2, <1>3 DEF TickCovers, Unwritten, IsDirty, memory, clock
  <2> QED BY <2>1, <2>2
<1>10. FinalCovers' /\ ShutdownSaves'
  BY <1>2, <1>3 DEF FinalCovers, Undisturbed, ShutdownSaves, memory, disk, clock
<1> QED BY <1>1, <1>5, <1>6, <1>7, <1>8, <1>9, <1>10

\* The final save marks what it collects at once: it holds the file (server.rs:2672-2685).
LEMMA CollectFinalKeeps ==
  ASSUME SerializationInv, NEW w \in Workspaces, CollectFinal(w)
  PROVE  SerializationInv'
<1> USE DEF SerializationInv
<1>1. TypeOK'
  BY TypeOfWriters
<1>2. /\ mode = "closing" /\ job["final"].at = "collect" /\ w \in job["final"].todo
      /\ persisted' = [persisted EXCEPT ![w] = revision[w]]
      /\ UNCHANGED <<live, revision, panes, disk, clock, removals, lastIds, failures>>
  BY DEF CollectFinal
<1>3. /\ job'["final"].at = "collect"
      /\ job'["final"].todo = job["final"].todo \ {w}
      /\ job'["final"].ids = job["final"].ids \cup {w}
      /\ job'["final"].written = job["final"].written
      /\ job'["final"].files[w] = Content(w)
      /\ \A v \in Workspaces \ {w} : job'["final"].files[v] = job["final"].files[v]
      /\ job'["tick"] = job["tick"]
  <2>1. Takes("final", w, TRUE, TRUE)
    BY DEF CollectFinal
  <2> QED BY <1>2, <2>1, TakesOne DEF Writers
<1>4. /\ Content(w).revision = revision[w] /\ revision[w] \in Nat /\ revision[w] > 0
      /\ persisted'[w] = revision[w] /\ \A v \in Workspaces \ {w} : persisted'[v] = persisted[v]
  BY <1>2 DEF Content, TypeOK, OnceInMemory, Writers
<1>5. Threads'
  BY <1>2, <1>3 DEF Threads, Unwritten, Writers, clock
<1>6. OnceInMemory'
  <2>1. \A v \in Workspaces : Old(job["final"].files[v], v)'
    BY <1>2, <1>3, <1>4 DEF OnceInMemory, Old, Writers
  <2> QED BY <1>2, <1>3, <2>1 DEF OnceInMemory, Old, disk, Writers
<1>7. IndexCacheIsTrue' /\ TickIsNewer' /\ TickCovers' /\ CleanIsRecoverable' /\ ShutdownSaves'
  BY <1>2 DEF IndexCacheIsTrue, TickIsNewer, TickCovers, CleanIsRecoverable, ShutdownSaves, clock
<1>8. FinalCovers'
  <2>1. live' \subseteq Workspaces
    BY <1>1 DEF TypeOK
  <2> QED BY <1>2, <1>3, <1>4, <2>1 DEF FinalCovers, Undisturbed, clock
<1> QED BY <1>1, <1>5, <1>6, <1>7, <1>8

\* The tick brings the index up to date before any file (server.rs:2551-2586).
LEMMA WriteTickIndexKeeps ==
  ASSUME SerializationInv, WriteTickIndex
  PROVE  SerializationInv'
<1> USE DEF SerializationInv
<1>1. TypeOK'
  BY TypeOfWriters DEF Tick
<1>2. /\ mode \in {"up", "closing"}
      /\ job["tick"].at = "collect" /\ job["tick"].todo = {}
      /\ UNCHANGED <<memory, clock, removals, file, artifacts>>
      /\ \/ /\ job["tick"].ids = lastIds /\ UNCHANGED <<index, failures, lastIds>>
         \/ /\ index' = job["tick"].ids /\ lastIds' = index' /\ failures' = failures
         \/ /\ failures' # 0 /\ UNCHANGED <<index, lastIds>>
  BY FailureCounts DEF WriteTickIndex, Running, disk
<1>3. /\ job'["tick"].at = "files"
      /\ job'["tick"].todo = job["tick"].todo
      /\ job'["tick"].files = job["tick"].files
      /\ job'["tick"].written = Unwritten("tick")
      /\ job'["final"] = job["final"]
  BY TurnsToFilesOnce DEF WriteTickIndex, Writers
<1>4. failures' = 0 => failures = 0
  BY <1>2 DEF WriteTickIndex, Fails, TypeOK
<1>5. Threads'
  BY <1>2, <1>3 DEF Threads, Unwritten, Writers, clock
<1>6. OnceInMemory'
  <2>1. \A v \in Workspaces : v \in Unwritten("tick") => revision[v] > 0
    <3>1. \A v \in Workspaces : job["tick"].files[v].revision \in Nat /\ revision[v] \in Nat
      BY DEF TypeOK, Job, Files, Writers
    <3> QED BY <3>1 DEF Unwritten, OnceInMemory, Old, Writers
  <2> QED BY <1>2, <1>3, <2>1 DEF OnceInMemory, Old, memory, Writers
<1>7. IndexCacheIsTrue' /\ TickIsNewer'
  BY <1>2, <1>3 DEF IndexCacheIsTrue, TickIsNewer, Unwritten, clock
<1>8. TickCovers' /\ CleanIsRecoverable'
  <2>1. CASE mode = "up" /\ failures' = 0
    <3>1. \A v \in job["tick"].ids : v \in index'
      BY <1>2, <2>1 DEF IndexCacheIsTrue
    <3>2. /\ \A v \in live : IsDirty(v) \/ v \in job["tick"].ids
          /\ Unwritten("tick") \subseteq job["tick"].ids
      BY <1>2, <1>4, <2>1 DEF TickCovers
    <3>3. CleanIsRecoverable'
      BY <1>2, <1>4, <2>1, <3>1, <3>2 DEF CleanIsRecoverable, Loaded, IsDirty, memory
    <3>4. TickCovers'
      BY <1>2, <1>3, <2>1, <3>1, <3>2 DEF TickCovers, Unwritten
    <3> QED BY <3>3, <3>4
  <2>2. CASE ~ (mode = "up" /\ failures' = 0)
    BY <1>2, <2>2 DEF CleanIsRecoverable, TickCovers, clock
  <2> QED BY <2>1, <2>2
<1>9. FinalCovers' /\ ShutdownSaves'
  BY <1>2, <1>4, <1>3 DEF FinalCovers, Undisturbed, ShutdownSaves, WriteTickIndex, Running, clock
<1> QED BY <1>1, <1>5, <1>6, <1>7, <1>8, <1>9

\* So does the final save, always (server.rs:2686-2697).
LEMMA WriteFinalIndexKeeps ==
  ASSUME SerializationInv, WriteFinalIndex
  PROVE  SerializationInv'
<1> USE DEF SerializationInv
<1>1. TypeOK'
  BY TypeOfWriters
<1>2. /\ mode = "closing" /\ job["final"].at = "collect" /\ job["final"].todo = {}
      /\ UNCHANGED <<memory, clock, removals, lastIds, file, artifacts>>
      /\ \/ index' = job["final"].ids /\ failures' = failures
         \/ failures' # 0
  BY FailureCounts DEF WriteFinalIndex
<1>3. /\ job'["final"].at = "files"
      /\ job'["final"].todo = job["final"].todo
      /\ job'["final"].files = job["final"].files
      /\ job'["final"].written = Unwritten("final")
      /\ job'["tick"] = job["tick"]
  BY TurnsToFilesOnce DEF WriteFinalIndex, Writers
<1>4. Threads'
  BY <1>2, <1>3 DEF Threads, Unwritten, Writers, clock
<1>5. OnceInMemory'
  <2>1. \A v \in Workspaces : v \in Unwritten("final") => revision[v] > 0
    <3>1. \A v \in Workspaces : job["final"].files[v].revision \in Nat /\ revision[v] \in Nat
      BY DEF TypeOK, Job, Files, Writers
    <3> QED BY <3>1 DEF Unwritten, OnceInMemory, Old, Writers
  <2> QED BY <1>2, <1>3, <2>1 DEF OnceInMemory, Old, memory, Writers
<1>6. IndexCacheIsTrue' /\ TickIsNewer' /\ TickCovers' /\ CleanIsRecoverable' /\ ShutdownSaves'
  BY <1>2 DEF IndexCacheIsTrue, TickIsNewer, TickCovers, CleanIsRecoverable, ShutdownSaves, clock
<1>7. FinalCovers'
  <2> SUFFICES ASSUME Undisturbed'
               PROVE  FinalCovers'
    BY DEF FinalCovers
  <2>1. failures = 0 /\ failures' = 0 /\ ~overlapped /\ index' = job["final"].ids
    BY <1>2 DEF Undisturbed, clock
  <2>2. \A v \in Workspaces : persisted[v] > 0 /\ job["final"].files[v].revision = persisted[v]
                                => job["final"].files[v] # NoFile
    BY DEF NoFile
  <2> QED BY <1>2, <1>3, <2>1, <2>2 DEF FinalCovers, Undisturbed, memory, TypeOK
<1> QED BY <1>1, <1>4, <1>5, <1>6, <1>7

\* A file that is written is no older than the one it replaces, and one that cannot be is no longer
\* held (server.rs:2584-2597).
LEMMA WriteFileKeeps ==
  ASSUME SerializationInv, NEW writer \in Writers, NEW w \in Workspaces, WriteFile(writer, w)
  PROVE  SerializationInv'
<1> USE DEF SerializationInv
<1>1. TypeOK'
  <2>1. CASE writer = "tick"
    BY <2>1, TypeOfWriters DEF Tick
  <2>2. CASE writer = "final"
    BY <2>2, TypeOfWriters
  <2> QED BY <2>1, <2>2 DEF Writers
<1>2. /\ mode \in {"up", "closing"}
      /\ UNCHANGED <<memory, clock, removals, lastIds, index>>
      /\ \/ file' = [file EXCEPT ![w] = job[writer].files[w]] /\ failures' = failures
         \/ file' = file /\ failures' # 0
  BY FailureCounts DEF WriteFile, Running
<1>3. /\ job'[writer].at = "files" /\ job[writer].at = "files"
      /\ job'[writer].todo = job[writer].todo
      /\ job'[writer].ids = job[writer].ids
      /\ job'[writer].written = job[writer].written
      /\ job[writer].files[w] # NoFile
      /\ job'[writer].files[w] = NoFile
      /\ \A v \in Workspaces \ {w} : job'[writer].files[v] = job[writer].files[v]
      /\ \A other \in Writers \ {writer} : job'[other] = job[other]
  BY WritesOne
<1>4. failures' = 0 => failures = 0 /\ file'[w] = job[writer].files[w]
  BY <1>2 DEF TypeOK
<1>5. \A v \in Workspaces : file'[v] = file[v] \/ (v = w /\ file'[v] = job[writer].files[w])
  BY <1>2 DEF TypeOK
<1>6. mode = "closing" \/ writer = "tick"
  BY <1>3, AllIdle DEF Threads, Writers
<1>7. Threads'
  <2>1. \A other \in Writers : job'[other].at = "snapshots" => Unwritten(other)' = {}
    BY <1>3 DEF Threads, Unwritten
  <2> QED BY <1>2, <1>3, <1>6, <2>1 DEF Threads, Writers, clock
<1>8. OnceInMemory'
  <2>1. \A v \in Workspaces : Old(file[v], v)'
    BY <1>2, <1>5 DEF OnceInMemory, Old, memory
  <2>2. NoFile.revision = 0 /\ revision \in [Workspaces -> Nat]
    BY DEF NoFile, TypeOK
  <2>3. \A other \in Writers, v \in Workspaces : Old(job[other].files[v], v)'
    BY <1>2, <1>3, <2>2 DEF OnceInMemory, Old, memory
  <2>4. \A other \in Writers : job'[other].todo = job[other].todo
                                 /\ job'[other].written = job[other].written
    BY <1>3
  <2> QED BY <1>2, <2>1, <2>3, <2>4 DEF OnceInMemory, memory
<1>9. IndexCacheIsTrue'
  BY <1>2 DEF IndexCacheIsTrue, clock
<1>10. TickIsNewer' /\ TickCovers' /\ CleanIsRecoverable'
  <2>1. CASE mode = "up"
    <3>1. writer = "tick"
      BY <1>6, <2>1
    <3>2. TickIsNewer'
      BY <1>2, <1>3, <1>5, <3>1, <2>1 DEF TickIsNewer, Unwritten, clock
    <3>3. TickCovers' /\ CleanIsRecoverable'
      <4>1. CASE failures' = 0
        <5>1. TickCovers'
          <6>1. /\ failures = 0 /\ live' = live /\ index' = index
                /\ \A v \in Workspaces : file'[v] = IF v = w THEN job["tick"].files[w] ELSE file[v]
            BY <1>2, <1>4, <3>1, <4>1 DEF memory, TypeOK
          <6>2. ASSUME NEW v \in job["tick"].written \cap live
                PROVE  v \in index /\ (job'["tick"].files[v] # NoFile \/ file'[v] # NoFile)
            <7>1. v \in Workspaces /\ v \in index
                  /\ (job["tick"].files[v] # NoFile \/ file[v] # NoFile)
              BY <1>3, <2>1, <3>1, <6>1 DEF TickCovers, TypeOK
            <7> QED BY <1>3, <3>1, <6>1, <7>1
          <6> QED BY <1>3, <3>1, <6>1, <6>2 DEF TickCovers
        <5>2. CleanIsRecoverable'
          <6>1. \A v \in Workspaces : file[v] # NoFile => file'[v] # NoFile
            BY <1>3, <1>5
          <6>2. /\ live' = live /\ index' = index /\ revision' = revision /\ persisted' = persisted
                /\ \A v \in live : v \in Workspaces /\ failures = 0
            BY <1>2, <1>4, <4>1 DEF memory, TypeOK
          <6> QED BY <2>1, <6>1, <6>2 DEF CleanIsRecoverable, Loaded, IsDirty
        <5> QED BY <5>1, <5>2
      <4>2. CASE failures' # 0
        BY <4>2 DEF TickCovers, CleanIsRecoverable
      <4> QED BY <4>1, <4>2
    <3> QED BY <3>2, <3>3
  <2>2. CASE mode # "up"
    BY <1>2, <2>2 DEF TickIsNewer, TickCovers, CleanIsRecoverable, clock
  <2> QED BY <2>1, <2>2
<1>11. FinalCovers' /\ ShutdownSaves'
  <2>1. CASE writer = "tick"
    BY <1>2, <1>3, <1>4, <2>1 DEF FinalCovers, Undisturbed, ShutdownSaves, clock, Writers
  <2>2. CASE writer = "final"
    <3>1. job'["tick"] = job["tick"] /\ \A v \in live : v \in Workspaces
      BY <1>3, <2>2 DEF Writers, TypeOK
    <3> QED BY <1>2, <1>3, <1>4, <1>5, <2>2, <3>1
            DEF FinalCovers, Undisturbed, ShutdownSaves, memory, clock
  <2> QED BY <2>1, <2>2 DEF Writers
<1> QED BY <1>1, <1>7, <1>8, <1>9, <1>10, <1>11

\* Snapshots are of no concern to the files (server.rs:2599-2616).
LEMMA SnapshotsKeep ==
  ASSUME SerializationInv, NEW writer \in Writers,
         TurnToSnapshots(writer) \/ \E w \in Workspaces : WriteSnapshots(writer, w)
  PROVE  SerializationInv'
<1> USE DEF SerializationInv
<1>1. TypeOK'
  <2>1. CASE writer = "tick"
    BY <2>1, TypeOfWriters DEF Tick
  <2>2. CASE writer = "final"
    BY <2>2, TypeOfWriters
  <2> QED BY <2>1, <2>2 DEF Writers
<1>2. /\ mode \in {"up", "closing"}
      /\ UNCHANGED <<memory, clock, removals, lastIds, index, file, failures>>
  BY DEF TurnToSnapshots, WriteSnapshots, Running, disk
<1>3. /\ job'[writer].at = "snapshots" /\ job[writer].at \in {"files", "snapshots"}
      /\ job[writer].at = "files" => Unwritten(writer) = {}
      /\ job'[writer].todo = job[writer].todo
      /\ job'[writer].ids = job[writer].ids
      /\ job'[writer].files = job[writer].files
      /\ job'[writer].written = job[writer].written
      /\ \A other \in Writers \ {writer} : job'[other] = job[other]
  BY WritesSnapshots
<1>4. /\ \A other \in Writers : /\ job'[other].todo = job[other].todo
                                /\ job'[other].ids = job[other].ids
                                /\ job'[other].files = job[other].files
                                /\ job'[other].written = job[other].written
                                /\ Unwritten(other)' = Unwritten(other)
      /\ "tick" \in Writers /\ "final" \in Writers
  BY <1>3 DEF Unwritten, Writers
<1>5. mode = "closing" \/ writer = "tick"
  BY <1>3, AllIdle DEF Threads, Writers
<1>6. Threads'
  <2>1. \A other \in Writers : job'[other].at = "snapshots" => Unwritten(other)' = {}
    BY <1>3, <1>4 DEF Threads
  <2> QED BY <1>2, <1>3, <1>4, <1>5, <2>1 DEF Threads, clock
<1>7. OnceInMemory'
  BY <1>2, <1>4 DEF OnceInMemory, Old, memory
<1>8. IndexCacheIsTrue' /\ TickIsNewer' /\ CleanIsRecoverable'
  BY <1>2, <1>4
     DEF IndexCacheIsTrue, TickIsNewer, CleanIsRecoverable, Loaded, IsDirty, memory, clock
<1>9. TickCovers'
  <2>1. /\ job'["tick"].at = "collect" => job["tick"].at = "collect"
        /\ job'["tick"].at \in {"files", "snapshots"} =>
             job["tick"].at \in {"files", "snapshots"}
    BY <1>3, <1>4
  <2>2. /\ UNCHANGED <<live, revision, persisted, index, file, failures, mode>>
        /\ job'["tick"].todo = job["tick"].todo /\ job'["tick"].ids = job["tick"].ids
        /\ job'["tick"].files = job["tick"].files /\ job'["tick"].written = job["tick"].written
        /\ Unwritten("tick")' = Unwritten("tick")
    BY <1>2, <1>4 DEF memory, clock
  <2>3. \A v \in Workspaces : IsDirty(v)' <=> IsDirty(v)
    BY <2>2 DEF IsDirty
  <2> QED BY <2>1, <2>2, <2>3 DEF TickCovers, TypeOK
<1>10. FinalCovers' /\ ShutdownSaves'
  BY <1>2, <1>3, <1>4 DEF FinalCovers, Undisturbed, ShutdownSaves, memory, clock
<1> QED BY <1>1, <1>6, <1>7, <1>8, <1>9, <1>10

\* What the tick marks is on disk by then, if at an older revision (server.rs:2618-2627).
LEMMA MarkPersistedKeeps ==
  ASSUME SerializationInv, MarkPersisted
  PROVE  SerializationInv'
<1> USE DEF SerializationInv
<1>1. TypeOK'
  BY TypeOfWriters DEF Tick
<1>2. /\ mode \in {"up", "closing"} /\ job["tick"].at = "snapshots"
      /\ UNCHANGED <<live, revision, disk, clock, removals, lastIds, failures>>
      /\ \A v \in Workspaces : persisted'[v] = IF v \in job["tick"].written \cap live
                                               THEN revision[v] ELSE persisted[v]
  BY DEF MarkPersisted, Running
<1>3. job'["tick"] = Idle /\ job'["final"] = job["final"]
  BY AllIdle, OneWriterGoes DEF MarkPersisted, Writers
<1>4. Idle.at = "idle" /\ Idle.todo = {} /\ Idle.written = {}
      /\ \A v \in Workspaces : Idle.files[v] = NoFile
  BY DEF Idle, Fresh
<1> HIDE DEF Idle
<1>5. Threads'
  BY <1>2, <1>3, <1>4 DEF Threads, Unwritten, Writers, clock
<1>6. OnceInMemory'
  <2>1. NoFile.revision = 0 /\ revision \in [Workspaces -> Nat]
    BY DEF NoFile, TypeOK
  <2> QED BY <1>2, <1>3, <1>4, <2>1 DEF OnceInMemory, Old, Writers, disk
<1>7. IndexCacheIsTrue' /\ TickIsNewer' /\ TickCovers'
  BY <1>2, <1>3, <1>4 DEF IndexCacheIsTrue, TickIsNewer, TickCovers, Unwritten, disk, clock
<1>8. CleanIsRecoverable'
  <2> SUFFICES ASSUME mode = "up", failures = 0, NEW v \in live, ~IsDirty(v)'
               PROVE  v \in index /\ file[v] # NoFile
    BY <1>2 DEF CleanIsRecoverable, Loaded, disk, clock
  <2>1. v \in Workspaces
    BY DEF TypeOK
  <2>2. CASE v \in job["tick"].written
    BY <1>2, <2>1, <2>2 DEF TickCovers, Threads, Unwritten, Writers
  <2>3. CASE v \notin job["tick"].written
    BY <1>2, <2>1, <2>3 DEF CleanIsRecoverable, Loaded, IsDirty
  <2> QED BY <2>2, <2>3
<1>9. FinalCovers' /\ ShutdownSaves'
  BY <1>2, <1>3 DEF FinalCovers, Undisturbed, ShutdownSaves, clock
<1> QED BY <1>1, <1>5, <1>6, <1>7, <1>8, <1>9

\* A shutdown begins while no final save runs (server.rs:183-192).
LEMMA SignalShutdownKeeps ==
  ASSUME SerializationInv, SignalShutdown
  PROVE  SerializationInv'
<1> USE DEF SerializationInv
<1>1. /\ mode = "up" /\ mode' = "closing" /\ restarts < MaxRestarts
      /\ UNCHANGED <<memory, disk, restarts, overlapped, removals, job, lastIds, failures>>
  BY DEF SignalShutdown
<1>2. TypeOK'
  BY <1>1, TypeOfLife
<1>3. job["final"].at = "idle"
  BY <1>1, AllIdle DEF Threads
<1>4. Threads'
  BY <1>1 DEF Threads, Unwritten
<1>5. OnceInMemory'
  BY <1>1 DEF OnceInMemory, Old, memory, disk
<1>6. IndexCacheIsTrue' /\ TickIsNewer' /\ TickCovers' /\ CleanIsRecoverable'
  BY <1>1 DEF IndexCacheIsTrue, TickIsNewer, TickCovers, CleanIsRecoverable
<1>7. FinalCovers' /\ ShutdownSaves'
  BY <1>1, <1>3 DEF FinalCovers, ShutdownSaves
<1> QED BY <1>2, <1>4, <1>5, <1>6, <1>7

\* The process is gone: what it had collected and not written is lost, the disk is not
\* (server.rs:2717, 2730-2774).
LEMMA GoesDownKeeps ==
  ASSUME SerializationInv, Exit \/ Crash
  PROVE  SerializationInv'
<1> USE DEF SerializationInv
<1>1. /\ mode' \in {"exited", "crashed"} /\ job' = [writer \in Writers |-> Idle]
      /\ removals' = {} /\ lastIds' = {} /\ live' \subseteq live
      /\ UNCHANGED <<revision, index, file>>
  BY DEF Exit, Crash, ThreadsEnd, memory, disk
<1>2. TypeOK'
  BY TypeOfLife DEF Threads
<1>3. /\ Idle.at = "idle" /\ Idle.todo = {} /\ Idle.written = {}
      /\ \A v \in Workspaces : Idle.files[v] = NoFile
      /\ \A writer \in Writers : job'[writer] = Idle
  BY <1>1 DEF Idle, Fresh
<1> HIDE DEF Idle
<1>4. Threads'
  BY <1>1, <1>3 DEF Threads, Unwritten, Writers
<1>5. OnceInMemory'
  <2>1. NoFile.revision = 0 /\ revision \in [Workspaces -> Nat]
    BY DEF NoFile, TypeOK
  <2> QED BY <1>1, <1>3, <2>1 DEF OnceInMemory, Old
<1>6. IndexCacheIsTrue' /\ TickIsNewer' /\ TickCovers' /\ CleanIsRecoverable' /\ FinalCovers'
  BY <1>1 DEF IndexCacheIsTrue, TickIsNewer, TickCovers, CleanIsRecoverable, FinalCovers
<1>7. ShutdownSaves'
  <2>1. CASE Exit
    <3>1. /\ mode = "closing" /\ job["final"].at = "snapshots"
          /\ UNCHANGED <<live, persisted, index, file, overlapped, failures>>
      BY <2>1 DEF Exit, memory, disk
    <3>2. \A v \in live : v \in Workspaces /\ job["final"].files[v] = NoFile
      BY <3>1 DEF Threads, Unwritten, Writers, TypeOK
    <3> QED BY <3>1, <3>2 DEF FinalCovers, Undisturbed, ShutdownSaves
  <2>2. CASE Crash
    BY <2>2 DEF Crash, ShutdownSaves
  <2> QED BY <2>1, <2>2
<1> QED BY <1>2, <1>4, <1>5, <1>6, <1>7

\* The daemon comes up with what the disk has (server.rs:225-262).
LEMMA RestartKeeps ==
  ASSUME SerializationInv, Restart
  PROVE  SerializationInv'
<1> USE DEF SerializationInv
<1>1. /\ mode \in {"exited", "crashed"} /\ mode' = "up" /\ live' = Loaded
      /\ UNCHANGED <<index, file, removals, job, lastIds>>
  BY DEF Restart, ComesUp, disk
<1>2. TypeOK'
  BY <1>1, TypeOfLife
<1>3. /\ Loaded \subseteq Workspaces /\ NoFile.revision = 0
      /\ \A v \in Workspaces : file[v].revision \in Nat /\ revision[v] \in Nat
      /\ \A v \in Workspaces :
           revision'[v] = IF v \in Loaded THEN file[v].revision ELSE revision[v]
  BY DEF Restart, ComesUp, Loaded, TypeOK, Files, NoFile
<1>4. /\ Idle.at = "idle" /\ Idle.todo = {} /\ Idle.written = {}
      /\ \A v \in Workspaces : Idle.files[v] = NoFile
      /\ \A writer \in Writers : job[writer] = Idle
      /\ removals = {} /\ lastIds = {}
  BY <1>1 DEF Threads, Idle, Fresh
<1> HIDE DEF Idle
<1>5. Threads'
  BY <1>1, <1>4 DEF Threads, Unwritten, Writers
<1>6. OnceInMemory'
  <2>1. \A v \in Workspaces : Old(file[v], v)'
    BY <1>1, <1>3 DEF OnceInMemory, Old
  <2>2. \A v \in live' : revision'[v] > 0
    BY <1>1, <1>3 DEF OnceInMemory, Old, Loaded
  <2>3. \A writer \in Writers, v \in Workspaces : Old(job[writer].files[v], v)'
    BY <1>1, <1>2, <1>3, <1>4 DEF Old, TypeOK
  <2> QED BY <1>1, <1>4, <2>1, <2>2, <2>3 DEF OnceInMemory
<1>7. IndexCacheIsTrue' /\ TickIsNewer' /\ TickCovers'
  BY <1>1, <1>4 DEF IndexCacheIsTrue, TickIsNewer, TickCovers, Unwritten, Writers
<1>8. CleanIsRecoverable' /\ FinalCovers' /\ ShutdownSaves'
  BY <1>1 DEF CleanIsRecoverable, FinalCovers, ShutdownSaves, Loaded
<1> QED BY <1>2, <1>5, <1>6, <1>7, <1>8

\* The first start, with an empty state directory.
LEMMA InitHolds == Init => SerializationInv
<1> SUFFICES ASSUME Init PROVE SerializationInv
  OBVIOUS
<1>1. /\ Idle.at = "idle" /\ Idle.todo = {} /\ Idle.written = {}
      /\ \A v \in Workspaces : Idle.files[v] = NoFile
      /\ \A writer \in Writers : job[writer] = Idle
  BY DEF Init, Idle, Fresh
<1>2. NoFile \in Files /\ NoFile.revision = 0
  BY DEF NoFile, Files
<1>3. TypeOK
  <2>1. job \in [Writers -> Job] /\ file \in [Workspaces -> Files]
    BY <1>2, AllIdle DEF Init
  <2>2. /\ revision \in [Workspaces -> Nat] /\ persisted \in [Workspaces -> Nat]
        /\ \A w \in Workspaces : persisted[w] <= revision[w]
        /\ panes \in [Workspaces -> SUBSET Panes] /\ artifacts \in [Workspaces -> SUBSET Panes]
    BY DEF Init
  <2>3. failures \in 0..MaxFailures /\ restarts \in 0..MaxRestarts
    BY BoundsAssumption DEF Init
  <2>4. /\ mode \in {"up", "closing", "exited", "crashed"} /\ overlapped \in BOOLEAN
        /\ live \subseteq Workspaces /\ index \subseteq Workspaces /\ lastIds \subseteq Workspaces
        /\ removals \subseteq Workspaces \X (Panes \cup {AllFiles})
    BY DEF Init
  <2> QED BY <2>1, <2>2, <2>3, <2>4 DEF TypeOK
<1> HIDE DEF Idle
<1>4. Threads
  BY <1>1 DEF Init, Threads, Unwritten, Writers
<1>5. OnceInMemory
  BY <1>1, <1>2 DEF Init, OnceInMemory, Old
<1>6. /\ IndexCacheIsTrue /\ TickIsNewer /\ TickCovers
      /\ CleanIsRecoverable /\ FinalCovers /\ ShutdownSaves
  BY <1>1 DEF Init, IndexCacheIsTrue, TickIsNewer, TickCovers, CleanIsRecoverable, FinalCovers,
              ShutdownSaves, Unwritten, Writers
<1> QED BY <1>3, <1>4, <1>5, <1>6 DEF SerializationInv

\* A step that changes nothing (a request that fails, a wait of the loop).
LEMMA StutterKeeps == SerializationInv /\ UNCHANGED vars => SerializationInv'
<1> SUFFICES ASSUME SerializationInv, UNCHANGED vars PROVE SerializationInv'
  OBVIOUS
<1> USE DEF vars, memory, disk, clock, SerializationInv
<1>1. TypeOK'
  BY DEF TypeOK
<1>2. Threads' /\ OnceInMemory'
  BY DEF Threads, OnceInMemory, Old, Unwritten
<1>3. IndexCacheIsTrue' /\ TickIsNewer' /\ TickCovers' /\ CleanIsRecoverable'
  BY DEF IndexCacheIsTrue, TickIsNewer, TickCovers, CleanIsRecoverable, Loaded, IsDirty, Unwritten
<1>4. FinalCovers' /\ ShutdownSaves'
  BY DEF FinalCovers, Undisturbed, ShutdownSaves
<1> QED BY <1>1, <1>2, <1>3, <1>4

-----------------------------------------------------------------------------
\* Whatever the daemon does, and wherever it goes down, SerializationInv holds.
THEOREM SerializationIsInductive == Spec => []SerializationInv
<1>1. Init => SerializationInv
  BY InitHolds
<1>2. SerializationInv /\ [Next]_vars => SerializationInv'
  <2> SUFFICES ASSUME SerializationInv, [Next]_vars PROVE SerializationInv'
    OBVIOUS
  <2> "tick" \in Writers /\ "final" \in Writers
    BY DEF Writers
  <2>1. CASE Requests
    BY <2>1, RequestsKeep DEF Requests
  <2>2. CASE Tick
    BY <2>2, StartTickKeeps, CollectTickKeeps, WriteTickIndexKeeps, WriteFileKeeps, SnapshotsKeep,
       MarkPersistedKeeps DEF Tick
  <2>3. CASE FinalSave
    BY <2>3, StartFinalKeeps, CollectFinalKeeps, WriteFinalIndexKeeps, WriteFileKeeps,
       SnapshotsKeep, GoesDownKeeps DEF FinalSave
  <2>4. CASE Removal
    BY <2>4, RemovalKeeps DEF Removal
  <2>5. CASE SignalShutdown \/ Crash \/ Restart
    BY <2>5, SignalShutdownKeeps, GoesDownKeeps, RestartKeeps
  <2>6. CASE UNCHANGED vars
    BY <2>6, StutterKeeps
  <2> QED BY <2>1, <2>2, <2>3, <2>4, <2>5, <2>6 DEF Next
<1> QED BY <1>1, <1>2, PTL DEF Spec

\* Every variable has its type at any number of changes, and no workspace counts as saved beyond the
\* revision it has (is_dirty, workspace.rs).
THEOREM SerializationTypeOK == Spec => []TypeOK
<1>1. SerializationInv => TypeOK
  BY DEF SerializationInv
<1> QED BY <1>1, SerializationIsInductive, PTL

\* The order of a tick: the index and the files first, mark_persisted last (server.rs:2551-2627). A
\* workspace that is not dirty is on disk whenever the daemon is killed.
THEOREM CleanCanBeRecovered == Spec => []CleanIsRecoverable
<1>1. SerializationInv => CleanIsRecoverable
  BY DEF SerializationInv
<1> QED BY <1>1, SerializationIsInductive, PTL

\* The last save before the exit (server.rs:2645-2717), with requests served beside it.
THEOREM ExitSaves == Spec => []ShutdownSaves
<1>1. SerializationInv => ShutdownSaves
  BY DEF SerializationInv
<1> QED BY <1>1, SerializationIsInductive, PTL

\* last_persisted_ids is what the index lists, through writes that fail (server.rs:2551-2582).
THEOREM IndexCacheStaysTrue == Spec => []IndexCacheIsTrue
<1>1. SerializationInv => IndexCacheIsTrue
  BY DEF SerializationInv
<1> QED BY <1>1, SerializationIsInductive, PTL

\* Only the tick writes while the daemon runs normally, and what it holds is no older than the file
\* it replaces (server.rs:2584-2597).
THEOREM NoSaveGoesBack == Spec => SavesNeverGoBack
<1> DEFINE Forward ==
      \A w \in Workspaces :
        mode = "up" /\ file'[w] # NoFile => file'[w].revision >= file[w].revision
<1>1. SerializationInv /\ [Next]_vars => [Forward]_vars
  <2> SUFFICES ASSUME SerializationInv, Next PROVE Forward
    OBVIOUS
  <2>1. /\ \A w \in Workspaces : file[w].revision \in Nat /\ job["tick"].files[w].revision \in Nat
        /\ "tick" \in Writers
    BY DEF SerializationInv, TypeOK, Files, Job, Writers
  <2>2. CASE file' = file
    BY <2>1, <2>2
  <2>3. ASSUME NEW w \in Workspaces, WriteFile("tick", w)
        PROVE  Forward
    <3>1. /\ w \in Unwritten("tick")
          /\ file' = [file EXCEPT ![w] = job["tick"].files[w]] \/ file' = file
      BY <2>3 DEF WriteFile, Fails, disk
    <3> QED BY <2>1, <3>1 DEF SerializationInv, TickIsNewer, TypeOK
  <2>4. ASSUME NEW w \in Workspaces, WriteFile("final", w)
        PROVE  Forward
    <3>1. mode # "up"
      BY <2>4, AllIdle DEF WriteFile, SerializationInv, Threads
    <3> QED BY <3>1
  <2>5. CASE Removal
    <3>1. PICK w \in Workspaces : file' = [file EXCEPT ![w] = NoFile] \/ file' = file
      BY <2>5 DEF Removal, Remove
    <3> QED BY <2>1, <3>1 DEF SerializationInv, TypeOK
  <2>6. CASE Requests
    <3>1. file' = file
      BY <2>6 DEF Requests, CreateWorkspace, Change, Terminate, AddPane, ClosePane, disk
    <3> QED BY <2>2, <3>1
  <2>7. CASE Tick /\ ~ \E w \in Workspaces : WriteFile("tick", w)
    <3>1. file' = file
      BY <2>7 DEF Tick, StartTick, CollectTick, WriteTickIndex, TurnToSnapshots, WriteSnapshots,
                  MarkPersisted, Fails, disk
    <3> QED BY <2>2, <3>1
  <2>8. CASE FinalSave /\ ~ \E w \in Workspaces : WriteFile("final", w)
    <3>1. file' = file
      BY <2>8 DEF FinalSave, StartFinal, CollectFinal, WriteFinalIndex, TurnToSnapshots,
                  WriteSnapshots, Exit, Fails, disk
    <3> QED BY <2>2, <3>1
  <2>9. CASE SignalShutdown \/ Crash \/ Restart
    <3>1. file' = file
      BY <2>9 DEF SignalShutdown, Crash, Restart, ComesUp, disk
    <3> QED BY <2>2, <3>1
  <2> QED BY <2>3, <2>4, <2>5, <2>6, <2>7, <2>8, <2>9 DEF Next
<1> QED BY <1>1, SerializationIsInductive, PTL DEF Spec, SavesNeverGoBack
=============================================================================
