---------------------------- MODULE EndpointProofs ----------------------------
(****************************************************************************)
(* What the endpoint actor promises to the workspaces it tracks, for every  *)
(* set of workspaces, every delay and heartbeat limit and every bound.      *)
(*                                                                          *)
(* NobodyIsForgotten and OnlyReconnectsConnect are not inductive on their   *)
(* own: a command connects when no attempt is counted, so one has to know   *)
(* that workspaces without a connection have an attempt counted; and a wait *)
(* for an answer may end with an attempt reset, so one has to know that who *)
(* waits has a link. EndpointInv adds that. ResponsiveIsKept needs more,    *)
(* where the pending ping is: PongInv, at the end.                          *)
(****************************************************************************)
EXTENDS Endpoint, SequenceTheorems, TLAPS

\* An answer is awaited over a link.
AwaitingHasLink == Awaiting => link # "none"

\* Tracked workspaces without a link: an attempt is counted, and either a further one is due
\* or the circuit breaker has tripped.
LostIsScheduled == tracked # {} /\ link = "none" => attempt > 0 /\ (ReconnectDue \/ GaveUp)

EndpointInv ==
  /\ TypeOK
  /\ AwaitingHasLink
  /\ LostIsScheduled
  /\ TrackedIsWatched
  /\ InputNeedsLink

\* The commands, tasks and messages the actor is written with have their types
\* (daemon_bridge.rs:132-220, 516-538).
LEMMA ConstantTypes ==
  /\ Reconnect \in Command
  /\ Idle \in Task
  /\ \A op \in Ops \ {"list"}, w \in Workspaces : [op |-> op, ws |-> w] \in Command
  /\ [op |-> "list", ws |-> NoWorkspace] \in Command
  /\ \A kind \in {"reply", "stale", "pong", "oldPong", "terminated", "overflow"},
        w \in Workspaces \cup {NoWorkspace} : Message(kind, w) \in Messages
  /\ \A answer \in Answers : Reply(answer) \in Messages
BY NoWorkspaceAssumption DEF Reconnect, Command, Idle, Task, Ops, Opens, Steps, Message,
   Reply, Messages, Answers

\* A status told to some workspaces is theirs, the others keep what they were told
\* (emit_status, daemon_bridge.rs:2073-2094).
LEMMA TellType ==
  ASSUME NEW st \in [Workspaces -> Statuses], NEW ws, NEW status \in Statuses
  PROVE  /\ Tell(st, ws, status) \in [Workspaces -> Statuses]
         /\ \A w \in Workspaces : Tell(st, ws, status)[w] = IF w \in ws THEN status ELSE st[w]
BY DEF Tell

\* The actor takes the next command only when it is idle; the queue keeps the others, so a queued
\* Reconnect is still there unless it is the one taken (daemon_bridge.rs:676-703).
LEMMA TakeKeeps ==
  ASSUME TypeOK, NEW ops, Take(ops)
  PROVE  /\ IsIdle
         /\ Current \in Command
         /\ Current.op \in ops
         /\ Current.op = "reconnect" => Current = Reconnect
         /\ commands' \in Seq(Command)
         /\ "reconnect" \notin ops =>
              ((\E i \in DOMAIN commands : commands[i] = Reconnect)
                 => \E i \in DOMAIN commands' : commands'[i] = Reconnect)
<1>1. IsIdle /\ commands \in Seq(Command) /\ commands # <<>> /\ commands' = Tail(commands)
      /\ Current.op \in ops /\ Current = commands[1]
  BY DEF Take, TypeOK, Current
<1>2. /\ commands' \in Seq(Command)
      /\ DOMAIN commands = 1..Len(commands) /\ Len(commands) \in Nat /\ Len(commands) > 0
      /\ DOMAIN commands' = 1..(Len(commands) - 1)
      /\ \A i \in DOMAIN commands' : commands'[i] = commands[i + 1]
  BY <1>1
<1>3. Current \in Command
  BY <1>1, <1>2
<1>4. Current.op = "reconnect" => Current = Reconnect
  BY <1>3 DEF Command, Reconnect
<1>5. ASSUME "reconnect" \notin ops, NEW i \in DOMAIN commands, commands[i] = Reconnect
      PROVE  \E j \in DOMAIN commands' : commands'[j] = Reconnect
  <2>1. i # 1
    BY <1>1, <1>5 DEF Reconnect
  <2>2. i - 1 \in DOMAIN commands' /\ commands'[i - 1] = commands[i]
    BY <2>1, <1>2, <1>5
  <2> QED BY <2>2, <1>5
<1> QED BY <1>1, <1>2, <1>3, <1>4, <1>5

\* A command sent to the actor joins the end of its queue, which keeps a queued Reconnect
\* (daemon_bridge.rs:310-459, 2054-2061).
LEMMA AppendKeeps ==
  ASSUME TypeOK, NEW c \in Command, commands' = Append(commands, c)
  PROVE  /\ commands' \in Seq(Command)
         /\ (c = Reconnect \/ \E i \in DOMAIN commands : commands[i] = Reconnect)
              => \E i \in DOMAIN commands' : commands'[i] = Reconnect
<1>1. /\ commands \in Seq(Command) /\ commands' \in Seq(Command)
      /\ DOMAIN commands = 1..Len(commands) /\ Len(commands) \in Nat
      /\ DOMAIN commands' = 1..(Len(commands) + 1)
      /\ commands'[Len(commands) + 1] = c
      /\ \A i \in DOMAIN commands : i \in DOMAIN commands' /\ commands'[i] = commands[i]
  BY DEF TypeOK
<1> QED BY <1>1

\* handle_disconnect drops the link with what was in transit and, when workspaces are tracked,
\* tells them and has an attempt counted: one is scheduled or the breaker has tripped
\* (daemon_bridge.rs:1993-2071).
LEMMA DisconnectKeeps ==
  ASSUME TypeOK, NEW st \in [Workspaces -> Statuses], HandleDisconnect(st)
  PROVE  /\ link' = "none" /\ ~alive' /\ alive' \in BOOLEAN /\ asked' = <<>> /\ wire' = <<>>
         /\ pending' = FALSE /\ missed' = 0
         /\ told' \in [Workspaces -> Statuses] /\ attempt' \in Nat /\ timers' \in Nat
         /\ tracked # {} => attempt' > 0 /\ (timers' > 0 \/ attempt' > MaxDelay + 2)
         /\ \A w \in tracked : told'[w] \in {"Reconnecting", "GaveUp"}
<1> USE DEF HandleDisconnect, DropLink, TypeOK
<1>1. CASE tracked = {}
  BY <1>1 DEF retry
<1>2. CASE tracked # {}
  <2>1. told' = Tell(st, tracked, IF Trips(attempt) THEN "GaveUp" ELSE "Reconnecting")
    BY <1>2 DEF LostStatuses
  <2>2. /\ told' \in [Workspaces -> Statuses]
        /\ \A w \in tracked : told'[w] \in {"Reconnecting", "GaveUp"}
    BY <2>1, TellType DEF Statuses
  <2>3. attempt' \in Nat /\ timers' \in Nat /\ attempt' > 0
        /\ (timers' > 0 \/ attempt' > MaxDelay + 2)
    BY <1>2, LimitAssumption DEF ScheduleReconnect, Trips
  <2> QED BY <1>2, <2>2, <2>3
<1> QED BY <1>1, <1>2

\* A step that keeps the link, the queued Reconnects, the timers and the count leaves the lost
\* workspaces scheduled and the tracked ones watched (daemon_bridge.rs:1993-2071).
LEMMA LostStaysScheduled ==
  ASSUME EndpointInv, tracked' \subseteq tracked, link' = link, attempt' = attempt,
         timers' >= timers, timers' \in Nat,
         (\E i \in DOMAIN commands : commands[i] = Reconnect)
           => \E i \in DOMAIN commands' : commands'[i] = Reconnect
  PROVE  LostIsScheduled' /\ TrackedIsWatched'
BY DEF EndpointInv, TypeOK, LostIsScheduled, ReconnectDue, GaveUp, TrackedIsWatched

\* With a link, or with nothing tracked, no reconnect is owed and no input can be lost
\* (daemon_bridge.rs:1350-1353, 1552-1567).
LEMMA LinkedIsScheduled ==
  ASSUME link' # "none" \/ tracked' = {}
  PROVE  LostIsScheduled' /\ InputNeedsLink'
BY DEF LostIsScheduled, InputNeedsLink

\* ensure_connected lets a command connect only when no attempt is counted, which is to say when
\* no workspace is tracked; a command that finds a link keeps it (daemon_bridge.rs:1541-1567).
LEMMA LinkedKeeps ==
  ASSUME TypeOK, LostIsScheduled, Linked
  PROVE  /\ link' # "none" /\ link' \in {"none", "whole", "split"}
         /\ link # "none" => link' = link
         /\ link = "none" => tracked = {}
         /\ alive' \in BOOLEAN /\ startTried' \in BOOLEAN
         /\ daemon' \in {"up", "mute", "down", "alien"}
<1>1. CASE link # "none"
  BY <1>1 DEF Linked, MayConnect, TypeOK
<1>2. CASE link = "none"
  <2>1. MayConnect /\ Reaches /\ link' = "whole" /\ alive' = TRUE
    BY <1>2 DEF Linked
  <2>2. startTried' = FALSE /\ daemon' \in {"up", "mute", "down", "alien"}
    BY <2>1 DEF Reaches, TypeOK
  <2>3. tracked = {}
    BY <2>1 DEF MayConnect, LostIsScheduled
  <2> QED BY <1>2, <2>1, <2>2, <2>3
<1> QED BY <1>1, <1>2

\* Commands that end without a request keep the invariant: dropped, refused or failed in
\* ensure_connected, or only noted (daemon_bridge.rs:1346-1353, 1439-1499, 1534-1594).
LEMMA ShortCommandInv ==
  ASSUME EndpointInv,
         CommandDropped \/ CommandFindsNoDaemon \/ CommandRefused \/ Note \/ ForgetWorkspace
           \/ ReconnectIdle
  PROVE  EndpointInv'
<1> USE DEF EndpointInv, retry, conn, beat, world, history
<1>1. ASSUME NEW ops, Take(ops)
      PROVE  /\ commands' \in Seq(Command) /\ Current \in Command /\ IsIdle
             /\ "reconnect" \notin ops =>
                  ((\E i \in DOMAIN commands : commands[i] = Reconnect)
                     => \E i \in DOMAIN commands' : commands'[i] = Reconnect)
  BY <1>1, TakeKeeps
<1>2. NeedsLink \subseteq Ops /\ "reconnect" \notin Ops
  BY DEF NeedsLink, Ops, Opens
<1>3. CASE CommandDropped
  <2>1. TypeOK'
    BY <1>1, <1>3, TellType DEF CommandDropped, TypeOK, Statuses
  <2>2. AwaitingHasLink' /\ LostIsScheduled' /\ TrackedIsWatched'
    BY <1>1, <1>2, <1>3, LostStaysScheduled
       DEF CommandDropped, AwaitingHasLink, Awaiting, IsIdle, TypeOK
  <2>3. InputNeedsLink'
    BY <1>1, <1>3, TellType DEF CommandDropped, InputNeedsLink, TypeOK, Statuses, IsIdle
  <2> QED BY <1>1, <1>3, <2>1, <2>2, <2>3 DEF CommandDropped
<1>4. CASE CommandFindsNoDaemon
  <2>1. attempt' \in Nat /\ attempt' > 0 /\ timers' \in Nat
        /\ (timers' > 0 \/ attempt' > MaxDelay + 2)
    BY <1>4, LimitAssumption DEF CommandFindsNoDaemon, ScheduleReconnect, Trips, TypeOK
  <2>2. startTried' \in BOOLEAN
    BY <1>4 DEF CommandFindsNoDaemon, Misses
  <2>5. TypeOK'
    BY <1>1, <1>4, <2>1, <2>2, TellType, SMTT(30) DEF CommandFindsNoDaemon, TypeOK, Statuses
  <2>3. AwaitingHasLink' /\ LostIsScheduled' /\ TrackedIsWatched'
    BY <1>1, <1>4, <2>1 DEF CommandFindsNoDaemon, MayConnect, AwaitingHasLink, Awaiting, IsIdle,
       LostIsScheduled, ReconnectDue, GaveUp, TrackedIsWatched
  <2>6. told \in [Workspaces -> Statuses] /\ told' = Tell(told, {Current.ws}, "Reconnecting")
        /\ UNCHANGED <<task, link, tracked, unaware>> /\ tracked \subseteq Workspaces
    BY <1>4 DEF CommandFindsNoDaemon, TypeOK
  <2>7. \A w \in tracked : told'[w] \in {told[w], "Reconnecting"}
    BY <2>6, TellType DEF Statuses
  <2>4. InputNeedsLink'
    BY <2>6, <2>7 DEF InputNeedsLink, IsIdle
  <2> QED BY <1>1, <1>4, <2>3, <2>4, <2>5 DEF CommandFindsNoDaemon
<1>5. CASE CommandRefused
  <2>1. TypeOK'
    BY <1>1, <1>5, TellType DEF CommandRefused, TypeOK, Statuses
  <2>2. AwaitingHasLink' /\ LostIsScheduled' /\ TrackedIsWatched'
    BY <1>1, <1>2, <1>5, LostStaysScheduled
       DEF CommandRefused, AwaitingHasLink, Awaiting, IsIdle, TypeOK
  <2>3. InputNeedsLink'
    BY <1>1, <1>5, TellType DEF CommandRefused, MayConnect, InputNeedsLink, TypeOK, Statuses, IsIdle
  <2> QED BY <1>1, <1>5, <2>1, <2>2, <2>3 DEF CommandRefused
<1>6. CASE Note
  <2>1. Linked
    BY <1>6 DEF Note
  <2>2. TypeOK'
    BY <1>1, <1>6, <2>1, LinkedKeeps, TellType DEF Note, ToldLinked, TypeOK, Statuses
  <2>3. AwaitingHasLink' /\ LostIsScheduled' /\ TrackedIsWatched' /\ InputNeedsLink'
    BY <1>6, <2>1, LinkedKeeps, LinkedIsScheduled DEF Note, AwaitingHasLink, TrackedIsWatched
  <2> QED BY <1>1, <1>6, <2>2, <2>3 DEF Note
<1>7. CASE ForgetWorkspace
  <2>1. TypeOK'
    BY <1>1, <1>7 DEF ForgetWorkspace, TypeOK
  <2>2. (\E i \in DOMAIN commands : commands[i] = Reconnect)
          => \E i \in DOMAIN commands' : commands'[i] = Reconnect
    BY <1>1, <1>7 DEF ForgetWorkspace
  <2>4. LostIsScheduled' /\ TrackedIsWatched'
    BY <1>7, <2>2, LostStaysScheduled DEF ForgetWorkspace, TypeOK
  <2>5. AwaitingHasLink'
    BY <1>7 DEF ForgetWorkspace, AwaitingHasLink, Awaiting, IsIdle
  <2>3. InputNeedsLink'
    BY <1>7 DEF ForgetWorkspace, InputNeedsLink, IsIdle
  <2> QED BY <1>1, <1>7, <2>1, <2>3, <2>4, <2>5 DEF ForgetWorkspace
<1>8. CASE ReconnectIdle
  <2>1. TypeOK'
    BY <1>1, <1>8 DEF ReconnectIdle, TypeOK
  <2>2. AwaitingHasLink' /\ LostIsScheduled' /\ TrackedIsWatched' /\ InputNeedsLink'
    BY <1>8, LinkedIsScheduled
       DEF ReconnectIdle, AwaitingHasLink, Awaiting, IsIdle, TrackedIsWatched
  <2> QED BY <1>1, <1>8, <2>1, <2>2 DEF ReconnectIdle
<1> QED BY <1>3, <1>4, <1>5, <1>6, <1>7, <1>8

\* A command that sends its request over the link it found, or got, keeps the invariant
\* (send_and_read, daemon_bridge.rs:719-734).
LEMMA AskInv ==
  ASSUME EndpointInv, NEW ops \in SUBSET Ops, Take(ops), NEW step \in Steps, Ask(step),
         link' # "none", link' \in {"none", "whole", "split"}, tracked # {} => link' = link,
         alive' \in BOOLEAN, startTried' \in BOOLEAN, daemon' \in {"up", "mute", "down", "alien"},
         told' \in [Workspaces -> Statuses]
  PROVE  EndpointInv'
<1> USE DEF EndpointInv, retry, beat, history
<1>1. commands' \in Seq(Command) /\ Current \in Command
  BY TakeKeeps
<1>2. task' \in Task /\ Awaiting'
  BY <1>1 DEF Ask, Command, Task, Awaiting, IsIdle, Idle, Take, Ops, Opens
<1>3. asked' \in Seq(Requests)
  BY DEF Ask, TypeOK, Requests
<1>4. TypeOK'
  BY <1>1, <1>2, <1>3 DEF Ask, TypeOK
<1>5. AwaitingHasLink' /\ LostIsScheduled' /\ InputNeedsLink'
  BY LinkedIsScheduled DEF AwaitingHasLink
<1>6. TrackedIsWatched'
  BY DEF Ask, TrackedIsWatched
<1> QED BY <1>1, <1>4, <1>5, <1>6

\* OpenWorkspace, RefreshInventory, the requests about panes and workspaces, and ResyncWorkspace
\* keep the invariant up to their request (daemon_bridge.rs:776-1345, 1500-1507).
LEMMA AskingCommandInv ==
  ASSUME EndpointInv,
         OpenWorkspace \/ RefreshInventory \/ CreateOrSplitPane \/ ClosePane
           \/ DetachOrTerminate \/ ResyncWorkspace
  PROVE  EndpointInv'
<1> USE DEF EndpointInv
<1>1. Opens \subseteq Ops /\ {"list", "create", "close", "leave", "resync"} \subseteq Ops
  BY DEF Ops, Opens
<1>2. CASE OpenWorkspace
  <2>1. Take(Opens) /\ Linked /\ told' = ToldLinked
    BY <1>2 DEF OpenWorkspace
  <2>2. Current.op \in Opens
    BY <2>1 DEF Take
  <2>3. PICK step \in Steps : Ask(step)
    BY <1>2, <2>2 DEF OpenWorkspace, Opens, Steps
  <2>4. told' \in [Workspaces -> Statuses]
    BY <2>1, TellType DEF ToldLinked, TypeOK, Statuses
  <2> QED BY <1>1, <2>1, <2>3, <2>4, LinkedKeeps, AskInv
<1>3. CASE RefreshInventory
  <2>1. Take({"list"}) /\ Linked /\ told' = told /\ Ask("reply") /\ "reply" \in Steps
    BY <1>3 DEF RefreshInventory, Steps
  <2> QED BY <1>1, <2>1, LinkedKeeps, AskInv DEF TypeOK
<1>4. ASSUME NEW op \in Ops, Request(op)
      PROVE  EndpointInv'
  <2>1. /\ Take({op}) /\ link = "split" /\ UNCHANGED <<link, alive, startTried, daemon, told>>
        /\ Ask("reply") /\ "reply" \in Steps
    BY <1>4 DEF Request, Steps
  <2> QED BY <2>1, AskInv DEF TypeOK
<1>5. CASE ResyncWorkspace
  <2>1. Take({"resync"}) /\ UNCHANGED <<link, alive, startTried, daemon, told>> /\ "reply" \in Steps
    BY <1>5 DEF ResyncWorkspace, Steps
  <2>2. CASE link = "split"
    BY <1>1, <1>5, <2>1, <2>2, AskInv DEF ResyncWorkspace, TypeOK
  <2>3. CASE link # "split"
    <3>1. UNCHANGED <<task, asked, tracked, retry, beat, wire, issued, faults, pushes, paused,
                      history>>
      BY <1>5, <2>3 DEF ResyncWorkspace
    <3>2. /\ commands' \in Seq(Command)
          /\ (\E i \in DOMAIN commands : commands[i] = Reconnect)
               => \E i \in DOMAIN commands' : commands'[i] = Reconnect
      BY <2>1, TakeKeeps
    <3>3. TypeOK'
      BY <2>1, <3>1, <3>2 DEF TypeOK, retry, beat, history
    <3>4. LostIsScheduled' /\ TrackedIsWatched'
      BY <2>1, <3>1, <3>2, LostStaysScheduled DEF TypeOK, retry
    <3>5. AwaitingHasLink' /\ InputNeedsLink'
      BY <2>1, <3>1 DEF AwaitingHasLink, Awaiting, IsIdle, InputNeedsLink, history
    <3> QED BY <3>2, <3>3, <3>4, <3>5
  <2> QED BY <2>2, <2>3
<1> QED
  BY <1>1, <1>2, <1>3, <1>4, <1>5 DEF CreateOrSplitPane, ClosePane, DetachOrTerminate

\* A step that ends in handle_disconnect keeps the invariant (daemon_bridge.rs:1993-2025).
LEMMA DisconnectInv ==
  ASSUME EndpointInv, NEW st \in [Workspaces -> Statuses], HandleDisconnect(st),
         commands' \in Seq(Command), task' = Idle, tracked' = tracked,
         startTried' \in BOOLEAN, daemon' \in {"up", "mute", "down", "alien"},
         UNCHANGED <<issued, faults, pushes, paused, history>>
  PROVE  EndpointInv'
<1> USE DEF EndpointInv, history
<1>1. /\ link' = "none" /\ alive' \in BOOLEAN /\ ~alive' /\ asked' = <<>> /\ wire' = <<>>
      /\ pending' = FALSE /\ missed' = 0
      /\ told' \in [Workspaces -> Statuses] /\ attempt' \in Nat /\ timers' \in Nat
      /\ tracked # {} => attempt' > 0 /\ (timers' > 0 \/ attempt' > MaxDelay + 2)
      /\ \A w \in tracked : told'[w] \in {"Reconnecting", "GaveUp"}
  BY DisconnectKeeps
<1>2. TypeOK'
  <2>1. asked' \in Seq(Requests) /\ wire' \in Seq(Messages) /\ missed' \in 0..MissLimit
    BY <1>1, LimitAssumption
  <2>2. task' \in Task /\ link' \in {"none", "whole", "split"}
    BY <1>1, ConstantTypes
  <2> QED BY <1>1, <2>1, <2>2 DEF TypeOK
<1>3. AwaitingHasLink' /\ TrackedIsWatched'
  BY <1>1 DEF AwaitingHasLink, Awaiting, IsIdle, TrackedIsWatched
<1>4. LostIsScheduled' /\ InputNeedsLink'
  BY <1>1 DEF LostIsScheduled, ReconnectDue, GaveUp, InputNeedsLink
<1> QED BY <1>2, <1>3, <1>4

\* A request over a connection that was never split, and an input that finds the peer gone, keep
\* the invariant: both end in handle_disconnect (daemon_bridge.rs:719-722, 1248-1300).
LEMMA LosingCommandInv ==
  ASSUME EndpointInv, RequestUnsplit \/ Input
  PROVE  EndpointInv'
<1> USE DEF EndpointInv
<1>1. Tell(told, {Current.ws}, "Blocked") \in [Workspaces -> Statuses]
  BY TellType DEF TypeOK, Statuses
<1>2. CASE RequestUnsplit
  <2>1. Take(PaneOps) /\ HandleDisconnect(Tell(told, {Current.ws}, "Blocked"))
        /\ UNCHANGED <<task, tracked, issued, faults, pushes, paused, history>>
    BY <1>2 DEF RequestUnsplit, LostFor
  <2>2. startTried' \in BOOLEAN /\ daemon' \in {"up", "mute", "down", "alien"}
    BY <1>2 DEF RequestUnsplit, Reaches, TypeOK
  <2>3. commands' \in Seq(Command) /\ task' = Idle
    BY <2>1, TakeKeeps DEF IsIdle
  <2> QED BY <1>1, <2>1, <2>2, <2>3, DisconnectInv
<1>3. CASE Input
  <2>1. /\ commands' \in Seq(Command) /\ IsIdle
        /\ (\E i \in DOMAIN commands : commands[i] = Reconnect)
             => \E i \in DOMAIN commands' : commands'[i] = Reconnect
    BY <1>3, TakeKeeps DEF Input
  <2>2. CASE UNCHANGED <<conn, retry, beat, told>>
    <3>1. TypeOK'
      BY <1>3, <2>1, <2>2 DEF Input, TypeOK, conn, retry, beat, world, history
    <3>2. LostIsScheduled' /\ TrackedIsWatched'
      BY <1>3, <2>1, <2>2, LostStaysScheduled DEF Input, TypeOK, conn, retry
    <3>3. AwaitingHasLink' /\ InputNeedsLink'
      BY <1>3, <2>2 DEF Input, AwaitingHasLink, Awaiting, IsIdle, InputNeedsLink, conn, history
    <3> QED BY <2>1, <3>1, <3>2, <3>3
  <2>3. CASE LostFor(Current.ws)
    BY <1>1, <1>3, <2>1, <2>3, DisconnectInv DEF Input, LostFor, IsIdle, TypeOK, world
  <2> QED BY <1>3, <2>2, <2>3 DEF Input
<1> QED BY <1>2, <1>3

\* The Reconnect command keeps the invariant, whether it fails and schedules the next attempt or
\* connects and starts reattaching (daemon_bridge.rs:1346-1398).
LEMMA ReconnectInv ==
  ASSUME EndpointInv, ReconnectFails \/ ReconnectStarts
  PROVE  EndpointInv'
<1> USE DEF EndpointInv
<1>1. Take({"reconnect"}) /\ link = "none"
  BY DEF ReconnectFails, ReconnectStarts
<1>2. commands' \in Seq(Command) /\ IsIdle
  BY <1>1, TakeKeeps
<1>3. CASE ReconnectFails
  <2>1. PICK primary \in tracked :
          \/ /\ Misses
             /\ told' = Tell(told, {primary}, "Reconnecting")
             /\ attempt' = IF attempt > 1 THEN attempt ELSE 1
             /\ timers' = timers + 1
          \/ /\ UNCHANGED startTried
             /\ told' = IF Trips(attempt) THEN Tell(told, tracked, "GaveUp")
                        ELSE Tell(told, {primary}, "Blocked")
             /\ ScheduleReconnect(attempt)
    BY <1>3 DEF ReconnectFails
  <2>2. UNCHANGED <<task, conn, tracked, beat, world, history>>
    BY <1>3 DEF ReconnectFails
  <2>3. startTried' \in BOOLEAN
    BY <2>1 DEF Misses, TypeOK
  <2>4. attempt' \in Nat /\ attempt' > 0 /\ timers' \in Nat
        /\ (timers' > 0 \/ attempt' > MaxDelay + 2)
    BY <2>1, LimitAssumption DEF ScheduleReconnect, Trips, TypeOK
  <2>5. told' \in [Workspaces -> Statuses]
        /\ \A w \in Workspaces : told'[w] \in {told[w], "Reconnecting", "GaveUp", "Blocked"}
    BY <2>1, TellType DEF TypeOK, Statuses
  <2>6. TypeOK'
    BY <1>2, <2>2, <2>3, <2>4, <2>5 DEF TypeOK, conn, beat, world, history
  <2>7. AwaitingHasLink' /\ TrackedIsWatched'
    BY <2>2 DEF AwaitingHasLink, Awaiting, IsIdle, TrackedIsWatched, conn
  <2>8. LostIsScheduled'
    BY <2>4 DEF LostIsScheduled, ReconnectDue, GaveUp
  <2>9. InputNeedsLink'
    BY <1>2, <2>2, <2>5 DEF InputNeedsLink, conn, history, TypeOK, IsIdle
  <2> QED BY <1>2, <2>6, <2>7, <2>8, <2>9
<1>4. CASE ReconnectStarts
  <2>1. PICK primary, w \in tracked :
          told' = Tell(told, {primary}, "Connected") /\ Reattach(w, tracked \ {w})
    BY <1>4 DEF ReconnectStarts
  <2>2. /\ link' = "split" /\ alive' = TRUE /\ pending' = FALSE /\ missed' = 0
        /\ asked' = <<"request">> /\ unaware' = {}
        /\ UNCHANGED <<wire, tracked, attempt, timers, issued, faults, pushes, paused>>
    BY <1>4 DEF ReconnectStarts, retry
  <2>3. startTried' \in BOOLEAN /\ daemon' \in {"up", "mute", "down", "alien"}
    BY <1>4 DEF ReconnectStarts, Reaches, TypeOK
  <2>4. told' \in [Workspaces -> Statuses]
    <3>1. told \in [Workspaces -> Statuses] /\ "Connected" \in Statuses
      BY DEF TypeOK, Statuses
    <3> QED BY <2>1, <3>1, TellType
  <2>5. task' \in Task
    BY <2>1, NoWorkspaceAssumption DEF Reattach, Task, Steps, TypeOK
  <2>8. asked' \in Seq(Requests) /\ missed' \in 0..MissLimit
    BY <2>2, LimitAssumption DEF Requests
  <2>6. TypeOK'
    BY <1>2, <2>2, <2>3, <2>4, <2>5, <2>8 DEF TypeOK
  <2>7. AwaitingHasLink' /\ TrackedIsWatched'
    BY <2>2 DEF AwaitingHasLink, TrackedIsWatched
  <2> QED BY <1>2, <2>2, <2>6, <2>7, LinkedIsScheduled
<1> QED BY <1>3, <1>4

-------------------------------------------------------------------------------
\* Taking a message for the response changes what is in transit and the heartbeat, and nothing
\* else (daemon_bridge.rs:736-751).
LEMMA ResponseKeeps ==
  ASSUME TypeOK, NEW answer \in Answers, NEW next \in Seq(Requests), Response(answer, next)
  PROVE  Awaiting /\ wire' \in Seq(Messages) /\ asked' \in Seq(Requests)
<1>1. Awaiting /\ wire # <<>> /\ Tail(wire) \in Seq(Messages) /\ asked \in Seq(Requests)
  BY DEF Response, TypeOK
<1>2. OutdatedReplies(Tail(wire)) \in Seq(Messages)
  <2>1. DEFINE s == Tail(wire)
  <2>2. \A m \in Messages : [m EXCEPT !.kind = "stale"] \in Messages
    BY DEF Messages
  <2>3. DOMAIN s = 1..Len(s) /\ Len(s) \in Nat /\ \A i \in DOMAIN s : s[i] \in Messages
    BY <1>1
  <2>4. OutdatedReplies(s) \in [1..Len(s) -> Messages]
    BY <2>2, <2>3 DEF OutdatedReplies
  <2> QED BY <2>3, <2>4, SeqDef
<1>3. Outdated(asked) \in Seq(Requests)
  <2>1. DOMAIN asked = 1..Len(asked) /\ Len(asked) \in Nat
        /\ \A i \in DOMAIN asked : asked[i] \in Requests
    BY <1>1
  <2>2. Outdated(asked) \in [1..Len(asked) -> Requests]
    BY <2>1 DEF Outdated, Requests
  <2> QED BY <2>1, <2>2, SeqDef
<1>4. asked \o next \in Seq(Requests) /\ Outdated(asked) \o next \in Seq(Requests)
  BY <1>1, <1>3, ConcatProperties
<1> QED BY <1>1, <1>2, <1>4 DEF Response

\* A step of an actor that has a link keeps the invariant if it leaves the link there, split when
\* something is tracked (daemon_bridge.rs:705, 842-868).
LEMMA LinkStepInv ==
  ASSUME EndpointInv, link' \in {"whole", "split"}, tracked' # {} => link' # "whole",
         commands' \in Seq(Command), task' \in Task,
         tracked' \subseteq Workspaces, attempt' \in Nat, timers' = timers,
         startTried' = startTried, pending' \in BOOLEAN, missed' \in 0..MissLimit,
         told' \in [Workspaces -> Statuses], alive' = alive,
         asked' \in Seq(Requests), wire' \in Seq(Messages), unaware' \subseteq Workspaces,
         UNCHANGED world
  PROVE  EndpointInv'
<1>1. TypeOK'
  BY DEF EndpointInv, TypeOK, world
<1>2. AwaitingHasLink' /\ TrackedIsWatched'
  BY DEF AwaitingHasLink, TrackedIsWatched
<1> QED BY <1>1, <1>2, LinkedIsScheduled DEF EndpointInv

\* Messages skipped while a response is awaited keep the invariant (daemon_bridge.rs:736-772).
LEMMA SkimInv == EndpointInv /\ Skim => EndpointInv'
<1> SUFFICES ASSUME EndpointInv, Skim PROVE EndpointInv'
  OBVIOUS
<1>1. link \in {"whole", "split"} /\ UNCHANGED link
  BY DEF Skim, EndpointInv, AwaitingHasLink, TypeOK
<1>2. wire' \in Seq(Messages) /\ tracked' \subseteq tracked
  BY DEF Skim, EndpointInv, TypeOK
<1>3. pending' \in BOOLEAN /\ missed' \in 0..MissLimit
  <2>1. (pending' = FALSE /\ missed' = 0) \/ UNCHANGED <<pending, missed>>
    BY DEF Skim, beat
  <2>2. 0 \in 0..MissLimit /\ pending \in BOOLEAN /\ missed \in 0..MissLimit
    BY LimitAssumption DEF EndpointInv, TypeOK
  <2> QED BY <2>1, <2>2
<1>4. UNCHANGED <<commands, task, alive, asked, attempt, timers, startTried, told, world, unaware>>
  BY DEF Skim, retry, history
<1>5. tracked' # {} => link' # "whole"
  BY <1>1, <1>2 DEF EndpointInv, TrackedIsWatched
<1>6. commands' \in Seq(Command) /\ task' \in Task
      /\ tracked' \subseteq Workspaces /\ attempt' \in Nat /\ told' \in [Workspaces -> Statuses]
      /\ asked' \in Seq(Requests) /\ unaware' \subseteq Workspaces
  BY <1>2, <1>4 DEF EndpointInv, TypeOK
<1> QED BY <1>1, <1>2, <1>3, <1>4, <1>5, <1>6, LinkStepInv

\* An answer that ends or continues a wait keeps the invariant, provided what it is told and
\* tracked is typed and the link stays (daemon_bridge.rs:736-772).
LEMMA AnswerInv ==
  ASSUME EndpointInv, NEW answer \in Answers, NEW next \in Seq(Requests), Response(answer, next),
         task' \in Task, told' \in [Workspaces -> Statuses], tracked' \subseteq tracked,
         attempt' \in Nat,
         UNCHANGED <<commands, link, alive, timers, startTried, beat, world, unaware>>
  PROVE  EndpointInv'
<1>1. Awaiting /\ wire' \in Seq(Messages) /\ asked' \in Seq(Requests)
  BY ResponseKeeps DEF EndpointInv
<1>2. link' \in {"whole", "split"} /\ (tracked' # {} => link' # "whole")
  BY <1>1 DEF EndpointInv, AwaitingHasLink, TrackedIsWatched, TypeOK
<1>3. commands' \in Seq(Command) /\ tracked' \subseteq Workspaces
      /\ unaware' \subseteq Workspaces /\ pending' \in BOOLEAN /\ missed' \in 0..MissLimit
  BY DEF EndpointInv, TypeOK, beat
<1> QED BY <1>1, <1>2, <1>3, LinkStepInv

\* What a workspace is told after a refusal is one of the statuses (daemon_bridge.rs:2096-2111).
LEMMA RefusedType ==
  ASSUME TypeOK, NEW w, NEW answer, Refused(w, answer)
  PROVE  told' \in [Workspaces -> Statuses]
<1>1. told \in [Workspaces -> Statuses] /\ {"SessionMissing", "Blocked"} \subseteq Statuses
  BY DEF TypeOK, Statuses
<1> QED BY <1>1, TellType DEF Refused

\* The answers to all requests but the last one of OpenWorkspace keep the invariant
\* (daemon_bridge.rs:944-1345, 1399-1438, 1507-1533, 1700-1804).
LEMMA AnsweredInv ==
  ASSUME EndpointInv,
         OpenGoesOn \/ OpenRefused \/ PaneCreated \/ PaneClosed \/ WorkspaceLeft
           \/ InventoryLoaded \/ WorkspaceResynced \/ Reattached
  PROVE  EndpointInv'
<1> USE DEF EndpointInv
<1>1. <<>> \in Seq(Requests) /\ <<"request">> \in Seq(Requests) /\ Idle \in Task
  BY ConstantTypes DEF Requests
<1>2. told \in [Workspaces -> Statuses] /\ {"Connected", "Recovered"} \subseteq Statuses
      /\ attempt \in Nat /\ task \in Task
  BY DEF TypeOK, Statuses
<1>3. CASE OpenGoesOn
  <2>1. PICK answer \in Answers, step \in Steps :
          Response(answer, <<"request">>) /\ task' = [task EXCEPT !.step = step]
    BY <1>3 DEF OpenGoesOn
  <2>2. task' \in Task
    BY <1>2, <2>1 DEF Task
  <2> QED BY <1>1, <1>2, <1>3, <2>1, <2>2, AnswerInv DEF OpenGoesOn, retry
<1>4. CASE OpenRefused
  <2>1. PICK answer \in Answers \ {"ok"} : Response(answer, <<>>) /\ Refused(task.ws, answer)
    BY <1>4 DEF OpenRefused
  <2> QED BY <1>1, <1>2, <1>4, <2>1, RefusedType, AnswerInv DEF OpenRefused, retry
<1>5. ASSUME NEW op, NEW answer \in Answers, Answered(op, answer),
             told' \in [Workspaces -> Statuses], tracked' \subseteq tracked
      PROVE  EndpointInv'
  BY <1>1, <1>2, <1>5, AnswerInv DEF Answered, retry
<1>6. CASE PaneCreated
  <2>1. PICK answer \in Answers :
          /\ Answered("create", answer)
          /\ IF answer = "ok" THEN told' = Tell(told, {task.ws}, "Connected")
                              ELSE Refused(task.ws, answer)
          /\ UNCHANGED tracked
    BY <1>6 DEF PaneCreated
  <2>2. told' \in [Workspaces -> Statuses]
    BY <1>2, <2>1, TellType, RefusedType
  <2> QED BY <1>5, <2>1, <2>2
<1>7. ASSUME NEW answer, ToldAnswer(task.ws, answer)
      PROVE  told' \in [Workspaces -> Statuses]
  BY <1>2, <1>7, RefusedType DEF ToldAnswer
<1>8. CASE PaneClosed \/ WorkspaceLeft
  BY <1>5, <1>7, <1>8 DEF PaneClosed, WorkspaceLeft
<1>9. CASE InventoryLoaded \/ WorkspaceResynced
  BY <1>2, <1>5, <1>9 DEF InventoryLoaded, WorkspaceResynced
<1>10. CASE Reattached
  <2>1. PICK answer \in Answers :
          /\ Response(answer, IF task.todo = {} THEN <<>> ELSE <<"request">>)
          /\ IF answer = "ok" THEN told' = Tell(told, {task.ws}, "Recovered")
                              ELSE Refused(task.ws, answer)
    BY <1>10 DEF Reattached
  <2>2. told' \in [Workspaces -> Statuses]
    BY <1>2, <2>1, TellType, RefusedType
  <2>3. task' \in Task /\ attempt' \in Nat
    <3>1. CASE task.todo = {}
      BY <1>1, <1>2, <1>10, <3>1 DEF Reattached
    <3>2. CASE task.todo # {}
      BY <1>2, <1>10, <3>2, NoWorkspaceAssumption DEF Reattached, Reattach, Task, Steps
    <3> QED BY <3>1, <3>2
  <2> QED BY <1>1, <1>10, <2>1, <2>2, <2>3, AnswerInv DEF Reattached
<1> QED BY <1>3, <1>4, <1>6, <1>8, <1>9, <1>10

\* An OpenWorkspace that succeeds tracks the workspace and splits the link if it was whole, so
\* that the workspace is watched (daemon_bridge.rs:842-868).
LEMMA OpenedInv == EndpointInv /\ Opened => EndpointInv'
<1> SUFFICES ASSUME EndpointInv, Opened PROVE EndpointInv'
  OBVIOUS
<1> USE DEF EndpointInv
<1>1. Response("ok", <<>>) /\ task.op \in Opens /\ task' = Idle /\ link' = "split"
      /\ tracked' = tracked \cup {task.ws} /\ unaware' = unaware \ {task.ws}
      /\ UNCHANGED <<alive, attempt, timers, startTried, world>>
  BY DEF Opened, retry
<1>2. "ok" \in Answers /\ <<>> \in Seq(Requests)
  BY DEF Answers
<1>3. Awaiting /\ wire' \in Seq(Messages) /\ asked' \in Seq(Requests)
  BY <1>1, <1>2, ResponseKeeps
<1>4. \/ told' = Tell(told, {task.ws}, "Connected") /\ UNCHANGED commands
      \/ commands' = Append(commands, [op |-> "create", ws |-> task.ws]) /\ UNCHANGED told
  BY DEF Opened
<1>5. task.ws \in Workspaces
  BY <1>1 DEF TypeOK, Task, Opens
<1>6. told' \in [Workspaces -> Statuses]
  <2>1. told \in [Workspaces -> Statuses] /\ "Connected" \in Statuses
    BY DEF TypeOK, Statuses
  <2> QED BY <1>4, <2>1, TellType
<1>7. commands' \in Seq(Command)
  <2>1. CASE UNCHANGED commands
    BY <2>1 DEF TypeOK
  <2>2. CASE commands' = Append(commands, [op |-> "create", ws |-> task.ws])
    <3>1. [op |-> "create", ws |-> task.ws] \in Command
      BY <1>5, ConstantTypes DEF Ops
    <3> QED BY <2>2, <3>1, AppendKeeps
  <2> QED BY <1>4, <2>1, <2>2
<1>8. pending' \in BOOLEAN /\ missed' \in 0..MissLimit
  <2>1. (pending' = FALSE /\ missed' = 0) \/ UNCHANGED <<pending, missed>>
    BY DEF Opened, beat
  <2>2. 0 \in 0..MissLimit /\ pending \in BOOLEAN /\ missed \in 0..MissLimit
    BY LimitAssumption DEF TypeOK
  <2> QED BY <2>1, <2>2
<1>9. tracked' \subseteq Workspaces
  BY <1>1, <1>5 DEF TypeOK
<1>10. task' \in Task /\ attempt' \in Nat /\ unaware' \subseteq Workspaces
  BY <1>1, ConstantTypes DEF TypeOK
<1> QED BY <1>1, <1>3, <1>6, <1>7, <1>8, <1>9, <1>10, LinkStepInv

\* An OpenWorkspace that times out drops the link of every tracked workspace; the others are not
\* told, but their reconnect is scheduled (daemon_bridge.rs:816-841, 2009-2016).
LEMMA OpenTimesOutInv == EndpointInv /\ OpenTimesOut => EndpointInv'
<1> SUFFICES ASSUME EndpointInv, OpenTimesOut PROVE EndpointInv'
  OBVIOUS
<1> USE DEF EndpointInv
<1>1. /\ task' = Idle /\ link' = "none" /\ alive' = FALSE /\ asked' = <<>> /\ wire' = <<>>
      /\ told' = Tell(IF Trips(attempt) THEN Tell(told, tracked, "GaveUp") ELSE told,
                      {task.ws}, "Blocked")
      /\ unaware' = unaware \cup (IF Trips(attempt) THEN {} ELSE tracked \ {task.ws})
      /\ UNCHANGED <<commands, tracked, startTried, pending, missed, world>>
  BY DEF OpenTimesOut, DropLink, beat
<1>2. attempt' \in Nat /\ attempt' > 0 /\ timers' \in Nat
      /\ (timers' > 0 \/ attempt' > MaxDelay + 2)
  BY LimitAssumption DEF OpenTimesOut, ScheduleReconnect, Trips, TypeOK
<1>3. told \in [Workspaces -> Statuses] /\ {"GaveUp", "Blocked"} \subseteq Statuses
      /\ tracked \subseteq Workspaces
  BY DEF TypeOK, Statuses
<1>4. told' \in [Workspaces -> Statuses]
      /\ \A w \in tracked : w \in unaware' \/ told'[w] \in {"GaveUp", "Blocked"}
  <2>1. CASE Trips(attempt)
    <3>1. Tell(told, tracked, "GaveUp") \in [Workspaces -> Statuses]
          /\ \A w \in tracked : Tell(told, tracked, "GaveUp")[w] = "GaveUp"
      BY <1>3, TellType
    <3> QED BY <1>1, <1>3, <2>1, <3>1, TellType
  <2>2. CASE ~Trips(attempt)
    BY <1>1, <1>3, <2>2, TellType
  <2> QED BY <2>1, <2>2
<1>5. TypeOK'
  <2>1. asked' \in Seq(Requests) /\ wire' \in Seq(Messages) /\ task' \in Task
    BY <1>1, ConstantTypes
  <2>2. unaware' \subseteq Workspaces
    BY <1>1 DEF TypeOK
  <2> QED BY <1>1, <1>2, <1>4, <2>1, <2>2 DEF TypeOK, world
<1>6. AwaitingHasLink' /\ TrackedIsWatched'
  BY <1>1 DEF AwaitingHasLink, Awaiting, IsIdle, TrackedIsWatched
<1>7. LostIsScheduled'
  BY <1>2 DEF LostIsScheduled, ReconnectDue, GaveUp
<1>8. InputNeedsLink'
  BY <1>1, <1>4 DEF InputNeedsLink
<1> QED BY <1>5, <1>6, <1>7, <1>8

\* The connection ends while a response is awaited, or between commands: handle_disconnect keeps
\* the invariant (daemon_bridge.rs:742-746, 1922-1925).
LEMMA LinkLostInv == EndpointInv /\ (LostInRequest \/ ReadEnd) => EndpointInv'
<1> SUFFICES ASSUME EndpointInv, LostInRequest \/ ReadEnd PROVE EndpointInv'
  OBVIOUS
<1> USE DEF EndpointInv
<1>1. /\ told \in [Workspaces -> Statuses]
      /\ Tell(told, {task.ws}, "Blocked") \in [Workspaces -> Statuses]
  BY TellType DEF TypeOK, Statuses
<1>2. ASSUME UNCHANGED <<commands, tracked, startTried, world, history>>, task' = Idle,
             NEW st \in [Workspaces -> Statuses], HandleDisconnect(st)
      PROVE  EndpointInv'
  BY <1>2, DisconnectInv DEF TypeOK, world
<1>3. CASE LostInRequest
  <2>1. UNCHANGED <<commands, tracked, startTried, world, history>> /\ task' = Idle /\ Awaiting
    BY <1>3 DEF LostInRequest
  <2>2. CASE HandleDisconnect(told) \/ LostFor(task.ws)
    BY <1>1, <1>2, <2>1, <2>2 DEF LostFor
  <2>3. CASE UNCHANGED <<conn, retry, beat, told>>
    <3>1. link' \in {"whole", "split"} /\ (tracked' # {} => link' # "whole")
      BY <2>1, <2>3 DEF conn, AwaitingHasLink, TrackedIsWatched, TypeOK
    <3>2. /\ task' \in Task
          /\ UNCHANGED <<alive, asked, wire, attempt, timers, pending, missed, told, unaware>>
      BY <2>1, <2>3, ConstantTypes DEF conn, retry, beat, history
    <3>3. /\ commands' \in Seq(Command) /\ tracked' \subseteq Workspaces /\ attempt' \in Nat
          /\ pending' \in BOOLEAN /\ missed' \in 0..MissLimit /\ told' \in [Workspaces -> Statuses]
          /\ asked' \in Seq(Requests) /\ wire' \in Seq(Messages) /\ unaware' \subseteq Workspaces
      BY <2>1, <3>2 DEF TypeOK
    <3> QED BY <2>1, <3>1, <3>2, <3>3, LinkStepInv
  <2> QED BY <1>3, <2>2, <2>3 DEF LostInRequest
<1>4. CASE ReadEnd
  BY <1>1, <1>2, <1>4 DEF ReadEnd, Loop, IsIdle
<1> QED BY <1>3, <1>4

-------------------------------------------------------------------------------
\* A message read between commands keeps the invariant: a workspace that ended is no longer
\* tracked, one that overflowed is resynced (daemon_bridge.rs:1902-1972).
LEMMA ReadMessageInv == EndpointInv /\ ReadMessage => EndpointInv'
<1> SUFFICES ASSUME EndpointInv, ReadMessage PROVE EndpointInv'
  OBVIOUS
<1> USE DEF EndpointInv
<1>1. link = "split" /\ wire # <<>> /\ wire' = Tail(wire) /\ commands = <<>>
      /\ UNCHANGED <<task, link, alive, asked, attempt, timers, startTried, told, world, unaware>>
  BY DEF ReadMessage, Loop, retry, history
<1>2. wire' \in Seq(Messages)
  BY <1>1 DEF TypeOK
<1>3. pending' \in BOOLEAN /\ missed' \in 0..MissLimit
  <2>1. (pending' = FALSE /\ missed' = 0) \/ UNCHANGED <<pending, missed>>
    BY DEF ReadMessage, beat
  <2>2. 0 \in 0..MissLimit /\ pending \in BOOLEAN /\ missed \in 0..MissLimit
    BY LimitAssumption DEF TypeOK
  <2> QED BY <2>1, <2>2
<1>4. tracked' \subseteq Workspaces
  BY DEF ReadMessage, TypeOK
<1>5. commands' \in Seq(Command)
  <2>1. UNCHANGED commands \/ (Head(wire).ws \in tracked
                                /\ commands' = <<[op |-> "resync", ws |-> Head(wire).ws]>>)
    BY DEF ReadMessage
  <2>2. \A w \in tracked : [op |-> "resync", ws |-> w] \in Command
    BY ConstantTypes DEF Ops, TypeOK
  <2>3. CASE UNCHANGED commands
    BY <2>3 DEF TypeOK
  <2>4. CASE Head(wire).ws \in tracked /\ commands' = <<[op |-> "resync", ws |-> Head(wire).ws]>>
    <3>1. [op |-> "resync", ws |-> Head(wire).ws] \in Command
      BY <2>2, <2>4
    <3> QED BY <2>4, <3>1
  <2> QED BY <2>1, <2>3, <2>4
<1>6. /\ task' \in Task /\ attempt' \in Nat /\ told' \in [Workspaces -> Statuses]
      /\ asked' \in Seq(Requests) /\ unaware' \subseteq Workspaces
  BY <1>1 DEF TypeOK
<1> QED BY <1>1, <1>2, <1>3, <1>4, <1>5, <1>6, LinkStepInv

\* The heartbeat keeps the invariant: it sends a ping and ages those in transit, or declares the
\* connection lost (daemon_bridge.rs:557-603, 1974-1991).
LEMMA HeartbeatInv == EndpointInv /\ HeartbeatTick => EndpointInv'
<1> SUFFICES ASSUME EndpointInv, HeartbeatTick PROVE EndpointInv'
  OBVIOUS
<1> USE DEF EndpointInv
<1>1. link = "split" /\ wire = <<>> /\ task = Idle /\ Tick
      /\ UNCHANGED <<commands, task, tracked, startTried, world, history>>
  BY DEF HeartbeatTick, Beats, IsIdle
<1>2. CASE HandleDisconnect(told)
  BY <1>1, <1>2, DisconnectInv DEF TypeOK, world
<1>3. CASE ~DeclaresLost
  <2>1. UNCHANGED <<link, alive, attempt, timers, told, unaware>>
    BY <1>1, <1>3 DEF Tick, retry, history
  <2>2. pending' \in BOOLEAN /\ missed' \in 0..MissLimit
    <3>1. \/ pending /\ missed' = missed + 1 /\ UNCHANGED pending
          \/ pending' = TRUE /\ missed' = 0
      BY <1>1, <1>3 DEF Tick
    <3>2. CASE pending' = TRUE /\ missed' = 0
      BY <3>2, LimitAssumption
    <3>3. CASE pending /\ missed' = missed + 1 /\ UNCHANGED pending
      <4>1. missed + 1 < MissLimit
        BY <1>3, <3>3, LimitAssumption DEF DeclaresLost, TypeOK
      <4> QED BY <3>3, <4>1, LimitAssumption DEF TypeOK
    <3> QED BY <3>1, <3>2, <3>3
  <2>3. asked' \in Seq(Requests)
    <3>1. asked \in Seq(Requests) /\ DOMAIN asked = 1..Len(asked) /\ Len(asked) \in Nat
          /\ \A i \in DOMAIN asked : asked[i] \in Requests
      BY DEF TypeOK
    <3> DEFINE aged == [i \in DOMAIN asked |-> IF asked[i] = "ping" THEN "oldPing" ELSE asked[i]]
    <3>2. aged \in [1..Len(asked) -> Requests]
      BY <3>1 DEF Requests
    <3>3. aged \in Seq(Requests) /\ "ping" \in Requests
      BY <3>1, <3>2, SeqDef DEF Requests
    <3>4. asked' = Append(asked, "ping") \/ asked' = Append(aged, "ping")
      BY <1>1, <1>3 DEF Tick
    <3>5. \A s \in Seq(Requests) : Append(s, "ping") \in Seq(Requests)
      BY <3>3
    <3> QED BY <3>1, <3>3, <3>4, <3>5
  <2>4. wire' \in Seq(Messages)
    <3> DEFINE aged == [i \in DOMAIN wire |-> IF wire[i].kind = "pong"
                                           THEN [wire[i] EXCEPT !.kind = "oldPong"] ELSE wire[i]]
    <3>1. wire' = wire \/ wire' = aged
      BY <1>1, <1>3 DEF Tick
    <3>2. DOMAIN wire = 1..0
      BY <1>1
    <3>3. aged \in [1..0 -> Messages]
      BY <3>2
    <3>4. aged \in Seq(Messages)
      BY <3>3, SeqDef
    <3> HIDE DEF aged
    <3> QED BY <3>1, <3>4 DEF TypeOK
  <2>5. /\ commands' \in Seq(Command) /\ task' \in Task /\ tracked' \subseteq Workspaces
        /\ attempt' \in Nat /\ told' \in [Workspaces -> Statuses] /\ unaware' \subseteq Workspaces
    BY <1>1, <2>1 DEF TypeOK
  <2> QED BY <1>1, <2>1, <2>2, <2>3, <2>4, <2>5, LinkStepInv
<1> QED BY <1>1, <1>2, <1>3 DEF Tick

-------------------------------------------------------------------------------
\* The sleep of schedule_reconnect ends: what was due by the timer is due by the queue
\* (daemon_bridge.rs:2054-2061).
LEMMA TimerInv == EndpointInv /\ TimerFires => EndpointInv'
<1> SUFFICES ASSUME EndpointInv, TimerFires PROVE EndpointInv'
  OBVIOUS
<1> USE DEF EndpointInv
<1>1. /\ timers' = timers - 1 /\ timers > 0 /\ commands' = Append(commands, Reconnect)
      /\ UNCHANGED <<task, conn, tracked, attempt, startTried, beat, told, world, history>>
  BY DEF TimerFires
<1>2. commands' \in Seq(Command) /\ \E i \in DOMAIN commands' : commands'[i] = Reconnect
  BY <1>1, ConstantTypes, AppendKeeps
<1>3. TypeOK'
  BY <1>1, <1>2 DEF TypeOK, conn, beat, world, history
<1>4. AwaitingHasLink' /\ TrackedIsWatched' /\ InputNeedsLink'
  BY <1>1 DEF AwaitingHasLink, Awaiting, IsIdle, TrackedIsWatched, InputNeedsLink, conn, history
<1>5. LostIsScheduled'
  BY <1>1, <1>2 DEF LostIsScheduled, ReconnectDue, conn
<1> QED BY <1>3, <1>4, <1>5

\* The window, the daemon and the network change nothing of the actor's but its queue and what is
\* in transit, which keeps the invariant (daemon_bridge.rs:310-459).
LEMMA OutsideInv ==
  ASSUME EndpointInv, commands' \in Seq(Command),
         (\E i \in DOMAIN commands : commands[i] = Reconnect)
           => \E i \in DOMAIN commands' : commands'[i] = Reconnect,
         alive' \in BOOLEAN, asked' \in Seq(Requests), wire' \in Seq(Messages),
         link = "none" => UNCHANGED <<alive, asked, wire>>,
         daemon' \in {"up", "mute", "down", "alien"}, issued' \in 0..MaxCommands,
         faults' \in [daemon : 0..MaxFaults, cut : 0..MaxCuts], pushes' \in 0..MaxPushes,
         paused' \in BOOLEAN,
         UNCHANGED <<task, link, tracked, retry, startTried, beat, told, history>>
  PROVE  EndpointInv'
<1> USE DEF EndpointInv
<1>1. TypeOK'
  BY DEF TypeOK, retry, beat, history
<1>2. LostIsScheduled' /\ TrackedIsWatched'
  BY LostStaysScheduled DEF TypeOK, retry
<1>3. AwaitingHasLink' /\ InputNeedsLink'
  BY DEF AwaitingHasLink, Awaiting, IsIdle, InputNeedsLink, history
<1> QED BY <1>1, <1>2, <1>3

\* The window's commands join the queue, its pause stops the heartbeat: the invariant stays
\* (daemon_bridge.rs:310-459).
LEMMA WindowInv == EndpointInv /\ (WindowSends \/ WindowPauses) => EndpointInv'
<1> SUFFICES ASSUME EndpointInv, WindowSends \/ WindowPauses PROVE EndpointInv'
  OBVIOUS
<1> USE DEF EndpointInv
<1>1. CASE WindowSends
  <2>1. PICK op \in Ops, w \in Workspaces :
          commands' = Append(commands, [op |-> op, ws |-> IF op = "list" THEN NoWorkspace ELSE w])
    BY <1>1 DEF WindowSends
  <2>2. [op |-> op, ws |-> IF op = "list" THEN NoWorkspace ELSE w] \in Command
    BY ConstantTypes
  <2>3. /\ commands' \in Seq(Command)
        /\ (\E i \in DOMAIN commands : commands[i] = Reconnect)
             => \E i \in DOMAIN commands' : commands'[i] = Reconnect
    BY <2>1, <2>2, AppendKeeps
  <2>4. issued' \in 0..MaxCommands
    BY <1>1, BoundAssumption DEF WindowSends, TypeOK
  <2> QED BY <1>1, <2>3, <2>4, OutsideInv DEF WindowSends, TypeOK, conn
<1>2. CASE WindowPauses
  <2>1. paused' \in BOOLEAN
    BY <1>2 DEF WindowPauses
  <2> QED BY <1>2, <2>1, OutsideInv DEF WindowPauses, TypeOK, conn
<1> QED BY <1>1, <1>2

\* The daemon's answers, pushes, failures and returns keep the invariant: an answer is one the
\* awaited request can get (daemon_bridge.rs:736-772, 1902-1972).
LEMMA DaemonInv ==
  ASSUME EndpointInv,
         DaemonAnswers \/ DaemonPushes \/ DaemonFails \/ ConnectionBreaks \/ DaemonIsBack
  PROVE  EndpointInv'
<1> USE DEF EndpointInv, World
<1>1. /\ commands' = commands /\ commands \in Seq(Command) /\ alive \in BOOLEAN
      /\ asked \in Seq(Requests) /\ wire \in Seq(Messages) /\ (link = "none" => ~alive)
      /\ daemon \in {"up", "mute", "down", "alien"} /\ issued \in 0..MaxCommands
      /\ faults \in [daemon : 0..MaxFaults, cut : 0..MaxCuts] /\ pushes \in 0..MaxPushes
      /\ paused \in BOOLEAN /\ <<>> \in Seq(Requests) /\ tracked \subseteq Workspaces
      /\ {MaxFaults, MaxCuts, MaxPushes} \subseteq Nat
  BY BoundAssumption
     DEF TypeOK, DaemonAnswers, DaemonPushes, DaemonFails, ConnectionBreaks, DaemonIsBack
<1>2. CASE DaemonAnswers
  <2>1. \E m \in Messages : wire' = Append(wire, m)
    <3>1. Head(asked) \in {"request", "stale", "ping", "oldPing"}
      BY <1>1, <1>2 DEF DaemonAnswers, Requests
    <3>2. \A a \in Possible(task.step) : a \in Answers
      BY DEF Possible, Answers
    <3> QED BY <1>2, <3>1, <3>2, ConstantTypes DEF DaemonAnswers
  <2>2. wire' \in Seq(Messages) /\ asked' \in Seq(Requests)
    BY <1>1, <1>2, <2>1 DEF DaemonAnswers
  <2> QED BY <1>1, <1>2, <2>2, OutsideInv DEF DaemonAnswers
<1>3. CASE DaemonPushes
  <2>1. PICK kind \in {"terminated", "overflow"}, w \in tracked :
          wire' = Append(wire, Message(kind, w))
    BY <1>3 DEF DaemonPushes
  <2>2. Message(kind, w) \in Messages
    BY <1>1, <2>1, ConstantTypes
  <2>3. wire' \in Seq(Messages) /\ pushes' \in 0..MaxPushes
    BY <1>1, <1>3, <2>1, <2>2 DEF DaemonPushes
  <2> QED BY <1>1, <1>3, <2>3, OutsideInv DEF DaemonPushes
<1>4. CASE DaemonFails
  <2>1. faults' \in [daemon : 0..MaxFaults, cut : 0..MaxCuts]
    <3>1. /\ faults' = [faults EXCEPT !.daemon = faults.daemon + 1] /\ faults.daemon < MaxFaults
          /\ faults \in [daemon : 0..MaxFaults, cut : 0..MaxCuts]
      BY <1>1, <1>4 DEF DaemonFails
    <3>2. faults.daemon + 1 \in 0..MaxFaults
      BY <1>1, <3>1
    <3> QED BY <3>1, <3>2
  <2> QED BY <1>1, <1>4, <2>1, OutsideInv DEF DaemonFails, TypeOK
<1>5. CASE ConnectionBreaks
  <2>1. faults' \in [daemon : 0..MaxFaults, cut : 0..MaxCuts]
    <3>1. /\ faults' = [faults EXCEPT !.cut = faults.cut + 1] /\ faults.cut < MaxCuts
          /\ faults \in [daemon : 0..MaxFaults, cut : 0..MaxCuts]
      BY <1>1, <1>5 DEF ConnectionBreaks
    <3>2. faults.cut + 1 \in 0..MaxCuts
      BY <1>1, <3>1
    <3> QED BY <3>1, <3>2
  <2> QED BY <1>1, <1>5, <2>1, OutsideInv DEF ConnectionBreaks
<1>6. CASE DaemonIsBack
  BY <1>1, <1>6, OutsideInv DEF DaemonIsBack, TypeOK
<1> QED BY <1>2, <1>3, <1>4, <1>5, <1>6

-------------------------------------------------------------------------------
\* The actor starts with nothing tracked and no link (daemon_bridge.rs:604-633).
LEMMA InitInv == Init => EndpointInv
<1> SUFFICES ASSUME Init PROVE EndpointInv
  OBVIOUS
<1>1. TypeOK
  <2>1. /\ commands \in Seq(Command) /\ asked \in Seq(Requests)
        /\ wire \in Seq(Messages) /\ task \in Task
    BY ConstantTypes DEF Init
  <2>2. told \in [Workspaces -> Statuses]
    BY DEF Init, Statuses
  <2>3. missed \in 0..MissLimit /\ issued \in 0..MaxCommands /\ pushes \in 0..MaxPushes
        /\ faults \in [daemon : 0..MaxFaults, cut : 0..MaxCuts]
    BY LimitAssumption, BoundAssumption DEF Init
  <2> QED BY <2>1, <2>2, <2>3 DEF Init, TypeOK
<1>2. AwaitingHasLink /\ LostIsScheduled /\ TrackedIsWatched /\ InputNeedsLink
  BY DEF Init, AwaitingHasLink, Awaiting, IsIdle, LostIsScheduled, TrackedIsWatched, InputNeedsLink
<1> QED BY <1>1, <1>2 DEF EndpointInv

\* A step of which the actor sees nothing keeps the invariant (daemon_bridge.rs:644-675).
LEMMA StutterInv == EndpointInv /\ UNCHANGED vars => EndpointInv'
BY DEF EndpointInv, vars, conn, retry, beat, world, history, TypeOK, AwaitingHasLink, Awaiting,
       IsIdle, LostIsScheduled, ReconnectDue, GaveUp, TrackedIsWatched, InputNeedsLink

\* The invariant is inductive: every command, every answer, every message between commands, the
\* heartbeat, the timer, the window, the daemon and the network keep it
\* (the select loop, daemon_bridge.rs:644-703).
THEOREM EndpointIsInductive == EndpointInv /\ [Next]_vars => EndpointInv'
<1> SUFFICES ASSUME EndpointInv, [Next]_vars PROVE EndpointInv'
  OBVIOUS
<1>1. CASE HandleCommand
  BY <1>1, ShortCommandInv, AskingCommandInv, LosingCommandInv, ReconnectInv DEF HandleCommand
<1>2. CASE Await
  BY <1>2, SkimInv, AnsweredInv, OpenedInv, OpenTimesOutInv, LinkLostInv DEF Await
<1>3. CASE ReadMessage \/ ReadEnd \/ HeartbeatTick
  BY <1>3, ReadMessageInv, LinkLostInv, HeartbeatInv
<1>4. CASE TimerFires \/ WindowSends \/ WindowPauses
  BY <1>4, TimerInv, WindowInv
<1>5. CASE DaemonAnswers \/ DaemonPushes \/ DaemonFails \/ ConnectionBreaks \/ DaemonIsBack
  BY <1>5, DaemonInv
<1>6. CASE UNCHANGED vars
  BY <1>6, StutterInv
<1> QED BY <1>1, <1>2, <1>3, <1>4, <1>5, <1>6 DEF Next, Actor

\* In every state of an endpoint actor, who waits for an answer has a link, and workspaces that
\* lost theirs have an attempt counted with a retry due (daemon_bridge.rs:1993-2071).
THEOREM EndpointIsSafe == Spec => []EndpointInv
BY InitInv, EndpointIsInductive, PTL DEF Spec

\* The actor's state is always typed; in particular the count of missed heartbeats never passes
\* the limit and the statuses are those of runtime.rs:136-153 (daemon_bridge.rs:516-570).
THEOREM EndpointTypeOK == Spec => []TypeOK
<1>1. EndpointInv => TypeOK
  BY DEF EndpointInv
<1> QED BY <1>1, EndpointIsSafe, PTL

\* An actor that rests without a connection has a timer running, a Reconnect queued or its
\* breaker tripped for the workspaces it tracks, for every set of workspaces and every delay and
\* heartbeat limit (daemon_bridge.rs:1993-2062).
THEOREM NobodyEverForgotten == Spec => []NobodyIsForgotten
<1>1. EndpointInv => NobodyIsForgotten
  BY DEF EndpointInv, LostIsScheduled, NobodyIsForgotten
<1> QED BY <1>1, EndpointIsSafe, PTL

\* A tracked workspace always has a split connection, or none: it is read between commands and
\* has a heartbeat (daemon_bridge.rs:654, 705, 842-868).
THEOREM TrackedAlwaysWatched == Spec => []TrackedIsWatched
<1>1. EndpointInv => TrackedIsWatched
  BY DEF EndpointInv
<1> QED BY <1>1, EndpointIsSafe, PTL

\* A tracked workspace that shows as connected while the actor rests has a link for its input,
\* unless it shared the link an OpenWorkspace timed out on (daemon_bridge.rs:816-841, 2009-2016).
THEOREM InputAlwaysHasLink == Spec => []InputNeedsLink
<1>1. EndpointInv => InputNeedsLink
  BY DEF EndpointInv
<1> QED BY <1>1, EndpointIsSafe, PTL

\* No step but a Reconnect's gives the actor a link while something is tracked
\* (daemon_bridge.rs:1541-1567, 1383-1398).
LEMMA ConnectingStep ==
  ASSUME EndpointInv, Next, link = "none", link' # "none", tracked # {}
  PROVE  Current = Reconnect
<1> USE DEF EndpointInv
<1>1. IsIdle
  BY DEF AwaitingHasLink, Awaiting
<1>2. CASE HandleCommand
  <2>1. ~Linked
    BY LinkedKeeps
  <2>2. \A w : ~LostFor(w)
    BY DEF LostFor, HandleDisconnect, DropLink
  <2>3. \A op : ~Request(op)
    BY DEF Request
  <2>4. CASE ReconnectIdle \/ ReconnectFails \/ ReconnectStarts
    BY <2>4, TakeKeeps DEF ReconnectIdle, ReconnectFails, ReconnectStarts
  <2>5. ~(CommandDropped \/ CommandFindsNoDaemon \/ CommandRefused \/ ForgetWorkspace
            \/ ResyncWorkspace \/ Input)
    BY <2>2 DEF CommandDropped, CommandFindsNoDaemon, CommandRefused, ForgetWorkspace,
                ResyncWorkspace, Input, conn
  <2>6. ~(OpenWorkspace \/ RefreshInventory \/ Note \/ RequestUnsplit)
    BY <2>1, <2>2 DEF OpenWorkspace, RefreshInventory, Note, RequestUnsplit
  <2> QED
    BY <1>2, <2>3, <2>4, <2>5, <2>6
       DEF HandleCommand, CreateOrSplitPane, ClosePane, DetachOrTerminate
<1>3. ~Await
  <2>1. \A answer, next : ~Response(answer, next)
    BY <1>1 DEF Response, Awaiting
  <2>2. ~(Skim \/ LostInRequest \/ OpenTimesOut)
    BY <1>1 DEF Skim, LostInRequest, OpenTimesOut, Awaiting, DropLink
  <2>3. ~(OpenGoesOn \/ Opened \/ OpenRefused \/ Reattached)
    BY <2>1 DEF OpenGoesOn, Opened, OpenRefused, Reattached
  <2>4. ~(PaneCreated \/ PaneClosed \/ WorkspaceLeft \/ InventoryLoaded \/ WorkspaceResynced)
    BY <2>1 DEF PaneCreated, PaneClosed, WorkspaceLeft, InventoryLoaded, WorkspaceResynced, Answered
  <2> QED BY <2>2, <2>3, <2>4 DEF Await
<1>4. ~(ReadMessage \/ ReadEnd \/ HeartbeatTick)
  BY DEF ReadMessage, ReadEnd, HeartbeatTick, Loop, Beats
<1>5. ~(TimerFires \/ WindowSends \/ WindowPauses \/ DaemonAnswers \/ DaemonPushes
          \/ DaemonFails \/ ConnectionBreaks \/ DaemonIsBack)
  BY DEF TimerFires, WindowSends, WindowPauses, DaemonAnswers, DaemonPushes, DaemonFails,
         ConnectionBreaks, DaemonIsBack, conn
<1> QED BY <1>2, <1>3, <1>4, <1>5 DEF Next, Actor

\* While workspaces wait for their reconnect, no command connects in its stead, for every set of
\* workspaces and every limit (daemon_bridge.rs:1541-1550).
THEOREM OnlyReconnectsEverConnect == Spec => OnlyReconnectsConnect
<1>1. EndpointInv /\ [Next]_vars
        => [link = "none" /\ link' # "none" /\ tracked # {} => Current = Reconnect]_vars
  BY ConnectingStep
<1> QED BY <1>1, EndpointIsSafe, PTL DEF Spec, OnlyReconnectsConnect

-------------------------------------------------------------------------------
(* The heartbeat and a daemon that answers. That a pending ping is on its    *)
(* way, asked or answered, is what ResponsiveIsKept needs to be inductive;   *)
(* a Pong taken for a response (confused) is where it may get lost.          *)

PingAsked == \E i \in DOMAIN asked : asked[i] = "ping"
PongSent == \E i \in DOMAIN wire : wire[i].kind = "pong"

\* On a connection that still works, the pending ping is not answered yet or its Pong is unread.
PongIsComing == pending /\ link = "split" /\ alive /\ ~confused => PingAsked \/ PongSent

\* A daemon that is gone has closed its side of the connection.
GoneIsClosed == daemon \in {"down", "alien"} => ~alive

PongInv == EndpointInv /\ PongIsComing /\ GoneIsClosed

\* A request that joins those in transit, and a message that joins those unread, leave the ping
\* and the Pong where they are (send_message, daemon_bridge.rs:719-734).
LEMMA AppendKeepsPong ==
  ASSUME TypeOK
  PROVE  /\ \A r \in Requests : asked' = Append(asked, r) => (PingAsked => PingAsked')
         /\ \A m \in Messages : wire' = Append(wire, m) => (PongSent => PongSent')
<1>1. /\ asked \in Seq(Requests) /\ Len(asked) \in Nat /\ DOMAIN asked = 1..Len(asked)
      /\ wire \in Seq(Messages) /\ Len(wire) \in Nat /\ DOMAIN wire = 1..Len(wire)
  BY DEF TypeOK
<1>2. ASSUME NEW r \in Requests, asked' = Append(asked, r), PingAsked
      PROVE  PingAsked'
  <2>1. PICK i \in DOMAIN asked : asked[i] = "ping"
    BY <1>2 DEF PingAsked
  <2>2. i \in DOMAIN asked' /\ asked'[i] = asked[i]
    BY <1>1, <1>2
  <2> QED BY <2>1, <2>2 DEF PingAsked
<1>3. ASSUME NEW m \in Messages, wire' = Append(wire, m), PongSent
      PROVE  PongSent'
  <2>1. PICK i \in DOMAIN wire : wire[i].kind = "pong"
    BY <1>3 DEF PongSent
  <2>2. i \in DOMAIN wire' /\ wire'[i] = wire[i]
    BY <1>1, <1>3
  <2> QED BY <2>1, <2>2 DEF PongSent
<1> QED BY <1>2, <1>3

\* Reading a message that is no Pong leaves an unread Pong unread (daemon_bridge.rs:736-772,
\* 1902-1972).
LEMMA ReadKeepsPong ==
  ASSUME TypeOK, wire # <<>>, wire' = Tail(wire), Head(wire).kind # "pong", PongSent
  PROVE  PongSent'
<1>1. /\ wire \in Seq(Messages) /\ Len(wire) \in Nat /\ Len(wire) > 0
      /\ DOMAIN wire = 1..Len(wire) /\ DOMAIN wire' = 1..(Len(wire) - 1)
      /\ \A j \in DOMAIN wire' : wire'[j] = wire[j + 1]
      /\ Head(wire) = wire[1]
  BY DEF TypeOK
<1>2. PICK i \in DOMAIN wire : wire[i].kind = "pong"
  BY DEF PongSent
<1>3. i # 1
  BY <1>1, <1>2
<1>4. i - 1 \in DOMAIN wire' /\ wire'[i - 1] = wire[i]
  BY <1>1, <1>3
<1> QED BY <1>2, <1>4 DEF PongSent

\* A step that leaves the heartbeat and the connection as they are, or ends either, keeps a pending
\* ping on its way (Heartbeat, daemon_bridge.rs:557-603).
LEMMA PongStaysComing ==
  ASSUME PongIsComing,
         \/ pending' = FALSE
         \/ link' # "split"
         \/ ~alive'
         \/ confused' = TRUE
         \/ /\ UNCHANGED <<pending, link, confused>>
            /\ alive' => alive
            /\ PingAsked \/ PongSent => PingAsked' \/ PongSent'
  PROVE  PongIsComing'
BY DEF PongIsComing

\* A step that moves nothing of the connection, or drops it, keeps a pending ping on its way
\* (daemon_bridge.rs:1346-1353, 1470-1506).
LEMMA IdleKeepsPong ==
  ASSUME PongIsComing, GoneIsClosed,
         \/ UNCHANGED <<pending, link, alive, asked, wire, confused>>
         \/ link' = "none" /\ alive' = FALSE,
         daemon' \in {daemon, "up"}
  PROVE  PongIsComing' /\ GoneIsClosed'
<1>1. GoneIsClosed'
  BY DEF GoneIsClosed
<1>2. CASE link' = "none"
  BY <1>1, <1>2, PongStaysComing
<1>3. CASE UNCHANGED <<pending, link, alive, asked, wire, confused>>
  <2>1. PongIsComing' <=> PongIsComing
    BY <1>3 DEF PongIsComing, PingAsked, PongSent
  <2> QED BY <1>1, <2>1
<1> QED BY <1>2, <1>3

\* A command that gets a link gets it from a daemon that is up, and a new link has no heartbeat
\* yet; one that finds a link leaves it (ensure_connected, daemon_bridge.rs:1541-1567).
LEMMA LinkedKeepsPong ==
  ASSUME PongInv, Linked, UNCHANGED <<pending, confused, wire>>,
         asked' = asked \/ \E r \in Requests : asked' = Append(asked, r)
  PROVE  PongIsComing' /\ GoneIsClosed'
<1> USE DEF PongInv, EndpointInv
<1>1. PingAsked \/ PongSent => PingAsked' \/ PongSent'
  <2>1. PongSent => PongSent'
    BY DEF PongSent
  <2>2. PingAsked => PingAsked'
    BY AppendKeepsPong DEF PingAsked
  <2> QED BY <2>1, <2>2
<1>2. CASE link # "none"
  <2>1. UNCHANGED <<link, alive, daemon>>
    BY <1>2 DEF Linked, MayConnect
  <2> QED BY <1>1, <2>1, PongStaysComing DEF GoneIsClosed
<1>3. CASE link = "none"
  <2>1. link' = "whole" /\ daemon' = "up"
    BY <1>3 DEF Linked, Reaches
  <2> QED BY <2>1, PongStaysComing DEF GoneIsClosed
<1> QED BY <1>2, <1>3

\* No command takes a pending ping's Pong away: it leaves the connection as it is, adds a request
\* to it, drops it, or opens one that has no ping yet (daemon_bridge.rs:776-1353, 1439-1594).
LEMMA CommandKeepsPong ==
  ASSUME PongInv, HandleCommand
  PROVE  PongIsComing' /\ GoneIsClosed'
<1> USE DEF PongInv, EndpointInv
<1>1. CASE CommandDropped \/ CommandFindsNoDaemon \/ CommandRefused \/ ForgetWorkspace
             \/ ReconnectIdle \/ ReconnectFails
  <2>1. UNCHANGED <<pending, link, alive, asked, wire, confused, daemon>>
    BY <1>1 DEF CommandDropped, CommandFindsNoDaemon, CommandRefused, ForgetWorkspace,
                ReconnectIdle, ReconnectFails, conn, beat, world, history
  <2> QED BY <2>1, IdleKeepsPong
<1>2. "request" \in Requests
  BY DEF Requests
<1>3. CASE OpenWorkspace \/ RefreshInventory \/ Note
  <2>1. Linked /\ UNCHANGED <<pending, confused, wire>>
    BY <1>3 DEF OpenWorkspace, RefreshInventory, Note, Ask, beat, history
  <2>2. asked' = asked \/ asked' = Append(asked, "request")
    BY <1>3 DEF OpenWorkspace, RefreshInventory, Note, Ask
  <2> QED BY <1>2, <2>1, <2>2, LinkedKeepsPong
<1>4. CASE ResyncWorkspace /\ link # "split"
  BY <1>4, IdleKeepsPong DEF ResyncWorkspace, beat, history
<1>5. CASE CreateOrSplitPane \/ ClosePane \/ DetachOrTerminate
             \/ (ResyncWorkspace /\ link = "split")
  <2>1. link = "split" /\ Ask("reply") /\ UNCHANGED <<link, alive, startTried, daemon>>
    BY <1>5 DEF CreateOrSplitPane, ClosePane, DetachOrTerminate, Request, ResyncWorkspace
  <2>2. asked' = Append(asked, "request") /\ UNCHANGED <<pending, wire, confused>>
    BY <2>1 DEF Ask, beat, history
  <2> QED BY <1>2, <2>1, <2>2, LinkedKeepsPong DEF Linked
<1>6. CASE RequestUnsplit
  <2>1. link' = "none" /\ alive' = FALSE
    BY <1>6 DEF RequestUnsplit, LostFor, HandleDisconnect, DropLink
  <2>2. daemon' \in {daemon, "up"}
    BY <1>6 DEF RequestUnsplit, Reaches
  <2> QED BY <2>1, <2>2, IdleKeepsPong
<1>7. CASE Input
  <2>1. \/ UNCHANGED <<pending, link, alive, asked, wire, confused>>
        \/ link' = "none" /\ alive' = FALSE
    BY <1>7 DEF Input, conn, beat, history, LostFor, HandleDisconnect, DropLink
  <2>2. daemon' = daemon
    BY <1>7 DEF Input, world
  <2> QED BY <2>1, <2>2, IdleKeepsPong
<1>8. CASE ReconnectStarts
  <2>1. pending' = FALSE /\ daemon' = "up"
    BY <1>8 DEF ReconnectStarts, Reaches
  <2> QED BY <2>1, PongStaysComing DEF GoneIsClosed
<1> QED
  BY <1>1, <1>3, <1>4, <1>5, <1>6, <1>7, <1>8 DEF HandleCommand

\* A response taken from what was read leaves an unread Pong unread and a ping asked, unless it
\* was a Pong that was taken for the response (daemon_bridge.rs:736-751).
LEMMA ResponseKeepsPong ==
  ASSUME TypeOK, NEW answer, NEW next \in Seq(Requests), Response(answer, next)
  PROVE  \/ confused' = TRUE
         \/ /\ UNCHANGED confused
            /\ PingAsked => PingAsked'
            /\ PongSent => PongSent'
<1>1. CASE confused' = TRUE
  BY <1>1
<1>2. CASE wire # <<>> /\ Head(wire).kind = "reply" /\ wire' = Tail(wire)
           /\ asked' = asked \o next /\ UNCHANGED confused
  <2>1. PongSent => PongSent'
    BY <1>2, ReadKeepsPong
  <2>2. ASSUME PingAsked PROVE PingAsked'
    <3>1. asked \in Seq(Requests) /\ Len(asked) \in Nat /\ DOMAIN asked = 1..Len(asked)
          /\ Len(next) \in Nat
      BY DEF TypeOK
    <3>2. PICK i \in DOMAIN asked : asked[i] = "ping"
      BY <2>2 DEF PingAsked
    <3>3. i \in DOMAIN asked' /\ asked'[i] = asked[i]
      BY <1>2, <3>1, ConcatProperties
    <3> QED BY <3>2, <3>3 DEF PingAsked
  <2> QED BY <1>2, <2>1, <2>2
<1> QED BY <1>1, <1>2 DEF Response

\* No wait takes a pending ping's Pong away but by reading it, dropping the connection, or taking
\* it for the response; a connection split by OpenWorkspace starts a heartbeat of its own
\* (daemon_bridge.rs:736-868, 1399-1438).
LEMMA AwaitKeepsPong ==
  ASSUME PongInv, Await
  PROVE  PongIsComing' /\ GoneIsClosed'
<1> USE DEF PongInv, EndpointInv
<1>1. CASE Skim
  <2>1. wire # <<>> /\ wire' = Tail(wire)
        /\ UNCHANGED <<link, alive, asked, daemon, confused>>
    BY <1>1 DEF Skim, world, history
  <2>2. CASE Head(wire).kind = "pong"
    <3>1. pending' = FALSE
      BY <1>1, <2>2 DEF Skim
    <3> QED BY <2>1, <3>1, PongStaysComing DEF GoneIsClosed
  <2>3. CASE Head(wire).kind # "pong"
    <3>1. pending' = pending
      BY <1>1, <2>3 DEF Skim, beat
    <3>2. (PongSent => PongSent') /\ (PingAsked => PingAsked')
      BY <2>1, <2>3, ReadKeepsPong DEF PingAsked
    <3> QED BY <2>1, <3>1, <3>2, PongStaysComing DEF GoneIsClosed
  <2> QED BY <2>2, <2>3
<1>2. ASSUME NEW answer, NEW next \in Seq(Requests), Response(answer, next),
             UNCHANGED <<link, alive, beat, daemon>>
      PROVE  PongIsComing' /\ GoneIsClosed'
  BY <1>2, ResponseKeepsPong, PongStaysComing DEF GoneIsClosed, beat
<1>3. <<>> \in Seq(Requests) /\ <<"request">> \in Seq(Requests)
  BY DEF Requests
<1>4. CASE OpenGoesOn
  BY <1>2, <1>3, <1>4 DEF OpenGoesOn, world
<1>5. CASE Opened
  <2>1. Response("ok", <<>>) /\ link' = "split" /\ UNCHANGED <<alive, daemon>>
    BY <1>5 DEF Opened, world
  <2>2. CASE link = "whole"
    <3>1. pending' = FALSE
      BY <1>5, <2>2 DEF Opened
    <3> QED BY <2>1, <3>1, PongStaysComing DEF GoneIsClosed
  <2>3. CASE link = "split"
    <3>1. UNCHANGED <<link, alive, beat, daemon>>
      BY <1>5, <2>1, <2>3 DEF Opened
    <3> QED BY <1>2, <1>3, <2>1, <3>1
  <2> QED BY <2>1, <2>2, <2>3 DEF Response, AwaitingHasLink, TypeOK
<1>6. CASE OpenRefused
  BY <1>2, <1>3, <1>6 DEF OpenRefused, world
<1>7. CASE OpenTimesOut \/ LostInRequest
  <2>1. \/ UNCHANGED <<pending, link, alive, asked, wire, confused>>
        \/ link' = "none" /\ alive' = FALSE
    BY <1>7 DEF OpenTimesOut, LostInRequest, LostFor, HandleDisconnect, DropLink, conn, beat, history
  <2>2. daemon' = daemon
    BY <1>7 DEF OpenTimesOut, LostInRequest, world
  <2> QED BY <2>1, <2>2, IdleKeepsPong
<1>8. CASE PaneCreated \/ PaneClosed \/ WorkspaceLeft \/ InventoryLoaded \/ WorkspaceResynced
  <2>1. PICK op, answer : Answered(op, answer)
    BY <1>8 DEF PaneCreated, PaneClosed, WorkspaceLeft, InventoryLoaded, WorkspaceResynced
  <2> QED BY <1>2, <1>3, <2>1 DEF Answered, world
<1>9. CASE Reattached
  <2>1. PICK answer : Response(answer, IF task.todo = {} THEN <<>> ELSE <<"request">>)
    BY <1>9 DEF Reattached
  <2>2. UNCHANGED <<link, alive, beat, daemon>>
    BY <1>9 DEF Reattached, world
  <2> QED BY <1>2, <1>3, <2>1, <2>2
<1> QED
  BY <1>1, <1>4, <1>5, <1>6, <1>7, <1>8, <1>9 DEF Await

\* Between commands a Pong is read, an aged one is passed over, and the heartbeat that is set
\* pending has its ping sent in the same step (daemon_bridge.rs:557-603, 1902-1991).
LEMMA LoopKeepsPong ==
  ASSUME PongInv, ReadMessage \/ ReadEnd \/ HeartbeatTick
  PROVE  PongIsComing' /\ GoneIsClosed'
<1> USE DEF PongInv, EndpointInv
<1>1. CASE ReadMessage
  <2>1. wire # <<>> /\ wire' = Tail(wire)
        /\ UNCHANGED <<link, alive, asked, daemon, confused>>
    BY <1>1 DEF ReadMessage, world, history
  <2>2. CASE Head(wire).kind # "oldPong"
    <3>1. pending' = FALSE
      BY <1>1, <2>2 DEF ReadMessage
    <3> QED BY <2>1, <3>1, PongStaysComing DEF GoneIsClosed
  <2>3. CASE Head(wire).kind = "oldPong"
    <3>1. pending' = pending
      BY <1>1, <2>3 DEF ReadMessage, beat
    <3>2. (PongSent => PongSent') /\ (PingAsked => PingAsked')
      BY <2>1, <2>3, ReadKeepsPong DEF PingAsked
    <3> QED BY <2>1, <3>1, <3>2, PongStaysComing DEF GoneIsClosed
  <2> QED BY <2>2, <2>3
<1>2. CASE ReadEnd
  <2>1. link' = "none" /\ alive' = FALSE /\ daemon' = daemon
    BY <1>2 DEF ReadEnd, HandleDisconnect, DropLink, world
  <2> QED BY <2>1, IdleKeepsPong
<1>3. CASE HeartbeatTick
  <2>1. Tick /\ daemon' = daemon /\ asked \in Seq(Requests)
    BY <1>3 DEF HeartbeatTick, world, TypeOK
  <2>2. CASE DeclaresLost
    <3>1. link' = "none" /\ alive' = FALSE
      BY <2>1, <2>2 DEF Tick, HandleDisconnect, DropLink
    <3> QED BY <2>1, <3>1, IdleKeepsPong
  <2>3. CASE ~DeclaresLost
    <3>1. UNCHANGED <<link, alive>>
      BY <2>1, <2>3 DEF Tick
    <3>2. PingAsked'
      <4> DEFINE aged == [i \in DOMAIN asked |-> IF asked[i] = "ping" THEN "oldPing" ELSE asked[i]]
      <4>1. asked' = Append(asked, "ping") \/ asked' = Append(aged, "ping")
        BY <2>1, <2>3 DEF Tick
      <4>2. DOMAIN asked = 1..Len(asked) /\ Len(asked) \in Nat
            /\ \A i \in DOMAIN asked : asked[i] \in Requests
        BY <2>1
      <4>3. aged \in [1..Len(asked) -> Requests]
        BY <4>2 DEF Requests
      <4>4. aged \in Seq(Requests)
        BY <4>2, <4>3, SeqDef
      <4> HIDE DEF aged
      <4>5. \A s \in Seq(Requests) : /\ Append(s, "ping")[Len(s) + 1] = "ping"
                                     /\ Len(s) + 1 \in DOMAIN Append(s, "ping")
        OBVIOUS
      <4> QED BY <2>1, <4>1, <4>4, <4>5 DEF PingAsked
    <3> QED BY <2>1, <3>1, <3>2 DEF PongIsComing, GoneIsClosed
  <2> QED BY <2>2, <2>3
<1> QED BY <1>1, <1>2, <1>3

\* A daemon that answers a ping sends its Pong, and one that goes down closes the connection; the
\* window and the timer touch neither (daemon_bridge.rs:310-459, 2054-2061).
LEMMA OutsideKeepsPong ==
  ASSUME PongInv,
         \/ TimerFires \/ WindowSends \/ WindowPauses
         \/ DaemonAnswers \/ DaemonPushes \/ DaemonFails \/ ConnectionBreaks \/ DaemonIsBack
  PROVE  PongIsComing' /\ GoneIsClosed'
<1> USE DEF PongInv, EndpointInv
<1>1. CASE TimerFires \/ WindowSends \/ WindowPauses
  <2>1. UNCHANGED <<pending, link, alive, asked, wire, confused, daemon>>
    BY <1>1 DEF TimerFires, WindowSends, WindowPauses, conn, beat, world, history
  <2> QED BY <2>1, IdleKeepsPong
<1>2. CASE DaemonAnswers
  <2>1. /\ asked # <<>> /\ asked' = Tail(asked) /\ daemon' = daemon
        /\ UNCHANGED <<pending, link, alive, confused>>
    BY <1>2 DEF DaemonAnswers, World, beat, history
  <2>2. PICK m \in Messages :
          wire' = Append(wire, m) /\ (Head(asked) = "ping" => m.kind = "pong")
    <3>1. Head(asked) \in {"request", "stale", "ping", "oldPing"}
      BY <2>1 DEF TypeOK, Requests
    <3>2. \A a \in Possible(task.step) : a \in Answers
      BY DEF Possible, Answers
    <3>3. Head(asked) = "ping" => wire' = Append(wire, Message("pong", NoWorkspace))
      BY <1>2 DEF DaemonAnswers
    <3>4. Message("pong", NoWorkspace).kind = "pong"
      BY DEF Message
    <3>5. \E m \in Messages : wire' = Append(wire, m)
      BY <1>2, <3>1, <3>2, ConstantTypes DEF DaemonAnswers
    <3> QED BY <3>3, <3>4, <3>5, ConstantTypes
  <2>3. PongSent => PongSent'
    BY <2>2, AppendKeepsPong
  <2>4. ASSUME PingAsked PROVE PingAsked' \/ PongSent'
    <3>1. /\ asked \in Seq(Requests) /\ Len(asked) \in Nat /\ Len(asked) > 0
          /\ DOMAIN asked = 1..Len(asked) /\ DOMAIN asked' = 1..(Len(asked) - 1)
          /\ \A j \in DOMAIN asked' : asked'[j] = asked[j + 1]
          /\ Head(asked) = asked[1]
      BY <2>1 DEF TypeOK
    <3>2. PICK i \in DOMAIN asked : asked[i] = "ping"
      BY <2>4 DEF PingAsked
    <3>3. CASE i = 1
      <4>1. wire \in Seq(Messages) /\ m.kind = "pong"
        BY <2>2, <3>1, <3>2, <3>3 DEF TypeOK
      <4>2. Len(wire) + 1 \in DOMAIN wire' /\ wire'[Len(wire) + 1] = m
        BY <2>2, <4>1
      <4> QED BY <4>1, <4>2 DEF PongSent
    <3>4. CASE i # 1
      <4>1. i - 1 \in DOMAIN asked' /\ asked'[i - 1] = asked[i]
        BY <3>1, <3>2, <3>4
      <4> QED BY <3>2, <4>1 DEF PingAsked
    <3> QED BY <3>3, <3>4
  <2> QED BY <2>1, <2>3, <2>4, PongStaysComing DEF GoneIsClosed
<1>3. CASE DaemonPushes
  <2>1. UNCHANGED <<pending, link, alive, asked, confused, daemon>>
    BY <1>3 DEF DaemonPushes, World, beat, history
  <2>2. PICK kind \in {"terminated", "overflow"}, w \in tracked :
          wire' = Append(wire, Message(kind, w))
    BY <1>3 DEF DaemonPushes
  <2>3. Message(kind, w) \in Messages
    BY ConstantTypes DEF TypeOK
  <2>4. (PongSent => PongSent') /\ (PingAsked => PingAsked')
    BY <2>1, <2>2, <2>3, AppendKeepsPong DEF PingAsked
  <2> QED BY <2>1, <2>4, PongStaysComing DEF GoneIsClosed
<1>4. CASE DaemonFails \/ ConnectionBreaks
  <2>1. \/ ~alive'
        \/ daemon' = "mute" /\ UNCHANGED <<alive, asked>>
    BY <1>4 DEF DaemonFails, ConnectionBreaks
  <2>2. UNCHANGED <<pending, link, wire, confused>>
    BY <1>4 DEF DaemonFails, ConnectionBreaks, World, beat, history
  <2>3. UNCHANGED <<alive, asked>> => (PongIsComing' <=> PongIsComing)
    BY <2>2 DEF PongIsComing, PingAsked, PongSent
  <2>4. ~alive' => PongIsComing'
    BY PongStaysComing
  <2> QED BY <2>1, <2>3, <2>4 DEF GoneIsClosed
<1>5. CASE DaemonIsBack
  <2>1. daemon' = "up" /\ (~alive' \/ UNCHANGED <<alive, asked>>)
    BY <1>5 DEF DaemonIsBack
  <2>2. UNCHANGED <<pending, link, wire, confused>>
    BY <1>5 DEF DaemonIsBack, World, beat, history
  <2>3. UNCHANGED <<alive, asked>> => (PongIsComing' <=> PongIsComing)
    BY <2>2 DEF PongIsComing, PingAsked, PongSent
  <2>4. ~alive' => PongIsComing'
    BY PongStaysComing
  <2> QED BY <2>1, <2>3, <2>4 DEF GoneIsClosed
<1> QED BY <1>1, <1>2, <1>3, <1>4, <1>5

\* A pending ping is on its way in every step of the actor, of the window, the daemon and the
\* network (daemon_bridge.rs:557-603).
THEOREM PongIsInductive == PongInv /\ [Next]_vars => PongInv'
<1> SUFFICES ASSUME PongInv, [Next]_vars PROVE PongInv'
  OBVIOUS
<1>1. EndpointInv'
  BY EndpointIsInductive DEF PongInv
<1>2. CASE UNCHANGED vars
  <2>1. UNCHANGED <<pending, link, alive, asked, wire, confused, daemon>>
    BY <1>2 DEF vars, conn, beat, world, history
  <2>2. PongIsComing' /\ GoneIsClosed'
    BY <2>1, IdleKeepsPong DEF PongInv
  <2> QED BY <1>1, <2>2 DEF PongInv
<1>3. CASE Next
  <2>1. PongIsComing' /\ GoneIsClosed'
    BY <1>3, CommandKeepsPong, AwaitKeepsPong, LoopKeepsPong, OutsideKeepsPong DEF Next, Actor
  <2> QED BY <1>1, <2>1 DEF PongInv
<1> QED BY <1>2, <1>3

\* The heartbeat gives up a connection only while the daemon is mute, or after a Pong was taken
\* for a response on it: not for a pause of the window, a wait for another response or a Pong
\* still unread, for every heartbeat limit and every bound
\* (daemon_bridge.rs:657-692, 1974-1991).
THEOREM ResponsiveAlwaysKept == Spec => ResponsiveIsKept
<1>1. Init => PongInv
  BY InitInv DEF PongInv, Init, PongIsComing, GoneIsClosed
<1>2. ASSUME PongInv, HeartbeatTick, link' = "none"
      PROVE  daemon = "mute" \/ confused
  <2>1. alive /\ link = "split" /\ wire = <<>> /\ (daemon = "up" => asked = <<>>) /\ Tick
    BY <1>2 DEF HeartbeatTick, Beats
  <2>2. DeclaresLost
    BY <1>2, <2>1 DEF Tick
  <2>3. ~confused => PingAsked
    <3>1. ~PongSent
      BY <2>1 DEF PongSent
    <3> QED BY <1>2, <2>1, <2>2, <3>1 DEF PongInv, PongIsComing, DeclaresLost
  <2>4. PingAsked => asked # <<>>
    BY DEF PingAsked
  <2>5. daemon \in {"up", "mute"}
    BY <1>2, <2>1 DEF PongInv, EndpointInv, TypeOK, GoneIsClosed
  <2> QED BY <2>1, <2>3, <2>4, <2>5
<1>3. PongInv /\ [Next]_vars
        => [HeartbeatTick /\ link' = "none" => daemon = "mute" \/ confused]_vars
  BY <1>2
<1> QED BY <1>1, <1>3, PongIsInductive, PTL DEF Spec, ResponsiveIsKept
===============================================================================
