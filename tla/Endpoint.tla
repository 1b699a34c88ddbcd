------------------------------ MODULE Endpoint ------------------------------
(****************************************************************************)
(* The client's endpoint actor (daemon_bridge.rs): one task per daemon that  *)
(* owns the connection, carries out the window's commands one at a time,     *)
(* forwards what the daemon pushes, watches the connection with a heartbeat  *)
(* and reconnects the workspaces it tracks.                                  *)
(*                                                                           *)
(* The actor awaits a connection in one step and a response in two: it sends *)
(* the request, and reads what the daemon sent until the response comes. In  *)
(* between the window queues commands, timers fire, the daemon pushes, hangs *)
(* or goes down. The daemon's side answers freely; the time of a delay, the  *)
(* ids of runtimes and panes and the content of messages are left out.       *)
(*                                                                           *)
(* Requests and pings take their ids from two counters that both start at 1  *)
(* (EndpointActor::next_id, DaemonWriter::id_gen), so a Pong can bear the id *)
(* of the response that is awaited. The counters are not kept: any Pong read *)
(* while a response is awaited may bear its id.                              *)
(****************************************************************************)
EXTENDS Naturals, SequencesExt

CONSTANTS
  Workspaces,    \* workspaces of the window on this endpoint
  NoWorkspace,   \* stands where no workspace is meant
  MissLimit,     \* HEARTBEAT_MISS_LIMIT
  MaxDelay,      \* reconnect_delay_secs
  AutoStart,     \* auto_start_daemon
  MaxCommands,   \* bound on the commands of the window
  MaxQueue,      \* bound on the commands waiting when the window adds one
  MaxFaults,     \* bound on the times the daemon hangs or goes down
  MaxCuts,       \* bound on the times only the connection breaks
  MaxPushes      \* bound on the messages the daemon sends of its own accord

ASSUME NoWorkspaceAssumption == NoWorkspace \notin Workspaces
ASSUME LimitAssumption == MissLimit \in Nat \ {0} /\ MaxDelay \in Nat
ASSUME BoundAssumption == {MaxCommands, MaxQueue, MaxFaults, MaxCuts, MaxPushes} \subseteq Nat
ASSUME AutoStartAssumption == AutoStart \in BOOLEAN

VARIABLES
  commands,    \* cmd_rx: commands not taken yet
  task,        \* what handle_command is awaiting, or Idle
  link,        \* "none", "whole" (connection) or "split" (reader and writer)
  tracked,     \* tracked_workspaces
  attempt,     \* reconnect_attempt
  timers,      \* tasks of schedule_reconnect that still sleep
  startTried,  \* daemon_start_attempted
  pending,     \* heartbeat.pending_nonce is Some
  missed,      \* heartbeat.missed_ticks
  told,        \* last ConnectionStatus sent to the window for each workspace
  paused,      \* backpressure: the window asked the actor to stop reading
  alive,       \* the peer of the connection has not closed it
  asked,       \* what the daemon has not answered yet
  wire,        \* what the daemon has sent and the actor has not read
  daemon,      \* "up", "mute" (hangs, or the network does), "down" or "alien" (wrong version)
  issued,      \* commands the window has sent
  faults,      \* times the daemon has failed, and times the connection has broken
  pushes,      \* messages the daemon has pushed so far
  unaware,     \* history: tracked workspaces whose link the timeout of another's
               \* OpenWorkspace dropped
  confused     \* history: on this connection, a Pong was taken for a response

retry == <<attempt, timers>>
beat  == <<pending, missed>>
conn  == <<link, alive, asked, wire>>
world == <<daemon, issued, faults, pushes, paused>>
history == <<unaware, confused>>
vars  == <<commands, task, conn, tracked, retry, startTried, beat, told, world, history>>

Opens == {"open", "reopen", "takeover"}
Ops == Opens \cup {"create", "close", "leave", "input", "list", "note", "resync", "forget"}
Command == {c \in [op : Ops \cup {"reconnect"}, ws : Workspaces \cup {NoWorkspace}] :
              c.ws = NoWorkspace <=> c.op \in {"list", "reconnect"}}
Steps == {"takeover", "attach", "create", "attachNew", "reply"}
Task == {t \in [op : Ops \cup {"reconnect", "idle"}, ws : Workspaces \cup {NoWorkspace},
               step : Steps, todo : SUBSET Workspaces] :
           t.ws = NoWorkspace <=> t.op \in {"list", "idle"}}
Answers == {"ok", "missing", "blocked", "refused"}
Requests == {"request", "stale", "ping", "oldPing"}
Messages == [kind : {"reply", "stale", "pong", "oldPong", "terminated", "overflow"},
             answer : Answers, ws : Workspaces \cup {NoWorkspace}]
Statuses == {"none", "Connecting", "Connected", "Reconnecting", "Recovered", "Blocked", "GaveUp",
             "SessionMissing"}

Idle == [op |-> "idle", ws |-> NoWorkspace, step |-> "reply", todo |-> {}]
Reconnect == [op |-> "reconnect", ws |-> NoWorkspace]
Message(kind, w) == [kind |-> kind, answer |-> "ok", ws |-> w]
Reply(answer) == [kind |-> "reply", answer |-> answer, ws |-> NoWorkspace]

IsIdle == task = Idle
Awaiting == ~IsIdle

Init ==
  /\ commands = <<>>
  /\ task = Idle
  /\ link = "none"
  /\ tracked = {}
  /\ attempt = 0
  /\ timers = 0
  /\ startTried = FALSE
  /\ pending = FALSE
  /\ missed = 0
  /\ told = [w \in Workspaces |-> "none"]
  /\ paused = FALSE
  /\ alive = FALSE
  /\ asked = <<>>
  /\ wire = <<>>
  /\ daemon \in {"up", "down", "alien"}
  /\ issued = 0
  /\ faults = [daemon |-> 0, cut |-> 0]
  /\ pushes = 0
  /\ unaware = {}
  /\ confused = FALSE

-----------------------------------------------------------------------------
(* What the handlers share.                                                 *)

Tell(st, ws, status) == [w \in Workspaces |-> IF w \in ws THEN status ELSE st[w]]

\* Faulty variant: what was read but not handled outlives the connection.
DropLinkKeepingInput ==
  /\ link' = "none"
  /\ alive' = FALSE
  /\ asked' = <<>>
  /\ UNCHANGED wire

DropLink ==
  /\ link' = "none"
  /\ alive' = FALSE
  /\ asked' = <<>>
  /\ wire' = <<>>

\* The circuit breaker: this failure is one too many.
Trips(count) == count + 1 > MaxDelay + 2

\* schedule_reconnect, from the given count of attempts.
ScheduleReconnect(count) ==
  /\ attempt' = count + 1
  /\ timers' = IF Trips(count) THEN timers ELSE timers + 1

\* Faulty variant: nobody is told again while the count is not back at 0.
LostStatusesOnce(st) == IF attempt > 0 THEN st ELSE Tell(st, tracked, "Reconnecting")

LostStatuses(st) == Tell(st, tracked, IF Trips(attempt) THEN "GaveUp" ELSE "Reconnecting")

\* handle_disconnect, after the statuses st were sent.
HandleDisconnect(st) ==
  /\ DropLink
  /\ pending' = FALSE
  /\ missed' = 0
  /\ IF tracked = {}
     THEN /\ told' = st
          /\ UNCHANGED retry
     ELSE /\ told' = LostStatuses(st)
          /\ ScheduleReconnect(attempt)

\* handle_command_error for an answer of the daemon.
Refused(w, answer) ==
  told' = Tell(told, {w}, IF answer = "missing" THEN "SessionMissing" ELSE "Blocked")

\* handle_command_error for a lost connection.
LostFor(w) == HandleDisconnect(Tell(told, {w}, "Blocked"))

Current == Head(commands)
Take(ops) ==
  /\ IsIdle
  /\ commands # <<>>
  /\ Current.op \in ops
  /\ commands' = Tail(commands)

-----------------------------------------------------------------------------
(* ensure_connected and connect_endpoint                                    *)

NeedsLink == Opens \cup {"create", "close", "leave", "list", "note"}

\* connect_endpoint succeeds; the local daemon is started when it is not there.
Reaches ==
  /\ startTried' = FALSE
  /\ \/ daemon = "up" /\ UNCHANGED daemon
     \/ daemon = "down" /\ AutoStart /\ ~startTried /\ daemon' = "up"

\* connect_endpoint fails for a transient reason: nobody there, no answer in time, or the
\* daemon could not be started.
Misses ==
  /\ daemon \in {"down", "mute"}
  /\ startTried' = (startTried \/ (AutoStart /\ daemon = "down"))

\* Faulty variant: a command connects although a reconnect is due.
MayConnectAnyway == link = "none"

\* ensure_connected connects only when no attempt is counted.
MayConnect == link = "none" /\ attempt = 0

\* ensure_connected is Ok: there was a link, or there is one now.
Linked ==
  \/ /\ link # "none"
     /\ link' = link
     /\ UNCHANGED <<alive, startTried, daemon>>
  \/ /\ MayConnect
     /\ Reaches
     /\ link' = "whole"
     /\ alive' = TRUE

ToldLinked ==
  IF link = "none" THEN Tell(told, {Current.ws}, "Connected")
  ELSE IF Current.op \in Opens THEN Tell(told, {Current.ws}, "Connecting") ELSE told

\* A reconnect is taken to be scheduled: the command is dropped.
CommandDropped ==
  /\ Take(NeedsLink)
  /\ link = "none"
  /\ ~MayConnect
  /\ told' = IF Current.op \in Opens THEN Tell(told, {Current.ws}, "Connecting") ELSE told
  /\ UNCHANGED <<task, conn, tracked, retry, startTried, beat, world, history>>

CommandFindsNoDaemon ==
  /\ Take(NeedsLink)
  /\ MayConnect
  /\ Misses
  /\ told' = Tell(told, {Current.ws}, "Reconnecting")
  /\ ScheduleReconnect(attempt)
  /\ UNCHANGED <<task, conn, tracked, beat, world, history>>

CommandRefused ==
  /\ Take(NeedsLink)
  /\ MayConnect
  /\ daemon = "alien"
  /\ told' = Tell(told, {Current.ws}, "Blocked")
  /\ UNCHANGED <<task, conn, tracked, retry, startTried, beat, world, history>>

-----------------------------------------------------------------------------
(* Commands that ask the daemon something                                   *)

Ask(step) ==
  /\ task' = [op |-> Current.op, ws |-> Current.ws, step |-> step, todo |-> {}]
  /\ asked' = Append(asked, "request")
  /\ UNCHANGED <<tracked, retry, beat, wire, issued, faults, pushes, paused, history>>

\* OpenWorkspace, with a known runtime or without, with or without take_over.
OpenWorkspace ==
  /\ Take(Opens)
  /\ Linked
  /\ told' = ToldLinked
  /\ Ask(CASE Current.op = "open" -> "create"
           [] Current.op = "reopen" -> "attach"
           [] Current.op = "takeover" -> "takeover")

\* RefreshInventory uses the connection as it is, whole or split.
RefreshInventory ==
  /\ Take({"list"})
  /\ Linked
  /\ UNCHANGED told
  /\ Ask("reply")

PaneOps == {"create", "close", "leave"}

\* ensure_connected finds a split connection, send_and_read writes the request.
Request(op) ==
  /\ Take({op})
  /\ link = "split"
  /\ UNCHANGED <<link, alive, startTried, daemon, told>>
  /\ Ask("reply")

CreateOrSplitPane == Request("create")
ClosePane == Request("close")
DetachOrTerminate == Request("leave")

\* The same without a writer: send_message fails with Disconnected.
RequestUnsplit ==
  /\ Take(PaneOps)
  /\ \/ link = "whole" /\ UNCHANGED <<startTried, daemon>>
     \/ MayConnect /\ Reaches
  /\ LostFor(Current.ws)
  /\ UNCHANGED <<task, tracked, issued, faults, pushes, paused, history>>

\* ResyncWorkspace does not connect.
ResyncWorkspace ==
  /\ Take({"resync"})
  /\ UNCHANGED <<link, alive, startTried, daemon, told>>
  /\ IF link = "split"
     THEN Ask("reply")
     ELSE UNCHANGED <<task, asked, tracked, retry, beat, wire, issued, faults, pushes, paused,
                      history>>

-----------------------------------------------------------------------------
(* Commands without an answer                                               *)

\* RenameWorkspace and SetPaneNoPersist are sent without a request id.
Note ==
  /\ Take({"note"})
  /\ Linked
  /\ told' = ToldLinked
  /\ UNCHANGED <<task, asked, wire, tracked, retry, beat, issued, faults, pushes, paused, history>>

\* SendInput and ResizePane write when there is a writer; the write may fail once the peer is gone.
Input ==
  /\ Take({"input"})
  /\ \/ UNCHANGED <<conn, retry, beat, told>>
     \/ link = "split" /\ ~alive /\ LostFor(Current.ws)
  /\ UNCHANGED <<task, tracked, startTried, world, history>>

ForgetWorkspace ==
  /\ Take({"forget"})
  /\ tracked' = tracked \ {Current.ws}
  /\ UNCHANGED <<task, conn, retry, startTried, beat, told, world, history>>

-----------------------------------------------------------------------------
(* Reading while a response is awaited: read_response, and request of       *)
(* daemon.rs for a connection that is whole.                                *)

Outdated(s) == [i \in DOMAIN s |-> IF s[i] = "request" THEN "stale" ELSE s[i]]
OutdatedReplies(s) ==
  [i \in DOMAIN s |-> IF s[i].kind = "reply" THEN [s[i] EXCEPT !.kind = "stale"] ELSE s[i]]

\* Takes the next message for the response, and sends the given requests. A Pong with the
\* awaited id is no response anyone expects; the true one will be out of date.
Response(answer, next) ==
  /\ Awaiting
  /\ wire # <<>>
  /\ \/ /\ Head(wire).kind = "reply"
        /\ answer = Head(wire).answer
        /\ wire' = Tail(wire)
        /\ asked' = asked \o next
        /\ UNCHANGED confused
     \/ /\ Head(wire).kind \in {"pong", "oldPong"}
        /\ answer = "refused"
        /\ wire' = OutdatedReplies(Tail(wire))
        /\ asked' = Outdated(asked) \o next
        /\ confused' = TRUE

\* Any other message that comes first.
Skim ==
  /\ Awaiting
  /\ wire # <<>>
  /\ LET m == Head(wire) IN
       /\ m.kind # "reply"
       /\ wire' = Tail(wire)
       /\ tracked' = IF m.kind = "terminated" /\ link = "split" /\ task.op # "leave"
                     THEN tracked \ {m.ws} ELSE tracked
       /\ IF m.kind = "pong"
          THEN pending' = FALSE /\ missed' = 0
          ELSE UNCHANGED beat
  /\ UNCHANGED <<commands, task, link, alive, asked, retry, startTried, told, world, history>>

\* resolve_and_attach_runtime goes on: after the take-over it attaches, after a refusal that is
\* neither a missing runtime nor a foreign lease it creates a runtime, and attaches to that.
OpenGoesOn ==
  /\ task.op \in Opens
  /\ \E answer \in Answers, step \in Steps :
       /\ <<task.step, answer, step>> \in {<<"takeover", "ok", "attach">>,
                                           <<"attach", "refused", "create">>,
                                           <<"create", "ok", "attachNew">>}
       /\ Response(answer, <<"request">>)
       /\ task' = [task EXCEPT !.step = step]
  /\ UNCHANGED <<commands, link, alive, tracked, retry, startTried, beat, told, world, unaware>>

\* OpenWorkspace succeeds: split_connection, track, and Connected unless the first pane of an
\* empty runtime is still to be created.
Opened ==
  /\ task.op \in Opens
  /\ task.step \in {"attach", "attachNew"}
  /\ Response("ok", <<>>)
  /\ task' = Idle
  /\ link' = "split"
  /\ IF link = "whole"
     THEN pending' = FALSE /\ missed' = 0
     ELSE UNCHANGED beat
  /\ tracked' = tracked \cup {task.ws}
  /\ \/ told' = Tell(told, {task.ws}, "Connected") /\ UNCHANGED commands
     \/ commands' = Append(commands, [op |-> "create", ws |-> task.ws]) /\ UNCHANGED told
  /\ unaware' = unaware \ {task.ws}
  /\ UNCHANGED <<alive, retry, startTried, world>>

OpenRefused ==
  /\ task.op \in Opens
  /\ \E answer \in Answers \ {"ok"} :
       /\ task.step = "attach" => answer \in {"missing", "blocked"}
       /\ Response(answer, <<>>)
       /\ Refused(task.ws, answer)
  /\ task' = Idle
  /\ UNCHANGED <<commands, link, alive, tracked, retry, startTried, beat, world, unaware>>

\* HANDSHAKE_TIMEOUT runs out for resolve_and_attach_runtime. Only the workspace being opened
\* is told.
OpenTimesOut ==
  /\ task.op \in Opens
  /\ daemon = "mute"
  /\ task' = Idle
  /\ DropLink
  /\ ScheduleReconnect(attempt)
  /\ told' = Tell(IF Trips(attempt) THEN Tell(told, tracked, "GaveUp") ELSE told,
                  {task.ws}, "Blocked")
  /\ unaware' = unaware \cup (IF Trips(attempt) THEN {} ELSE tracked \ {task.ws})
  /\ UNCHANGED <<commands, tracked, startTried, beat, world, confused>>

\* A command with one request gets its answer.
Answered(op, answer) ==
  /\ task.op = op
  /\ Response(answer, <<>>)
  /\ task' = Idle
  /\ UNCHANGED <<commands, link, alive, retry, startTried, beat, world, unaware>>

ToldAnswer(w, answer) == IF answer = "ok" THEN UNCHANGED told ELSE Refused(w, answer)

PaneCreated ==
  \E answer \in Answers :
    /\ Answered("create", answer)
    /\ IF answer = "ok" THEN told' = Tell(told, {task.ws}, "Connected")
                        ELSE Refused(task.ws, answer)
    /\ UNCHANGED tracked

\* "ok" stands for PaneNotFound as well.
PaneClosed ==
  \E answer \in Answers :
    /\ Answered("close", answer)
    /\ ToldAnswer(task.ws, answer)
    /\ UNCHANGED tracked

WorkspaceLeft ==
  \E answer \in Answers :
    /\ Answered("leave", answer)
    /\ ToldAnswer(task.ws, answer)
    /\ tracked' = IF answer = "ok" THEN tracked \ {task.ws} ELSE tracked

InventoryLoaded ==
  \E answer \in Answers :
    /\ Answered("list", answer)
    /\ UNCHANGED <<told, tracked>>

\* A failed resync is only logged.
WorkspaceResynced ==
  \E answer \in Answers :
    /\ Answered("resync", answer)
    /\ UNCHANGED <<told, tracked>>

\* The connection ends while a response is awaited.
LostInRequest ==
  /\ Awaiting
  /\ wire = <<>>
  /\ ~alive
  /\ task' = Idle
  /\ \/ task.op = "resync" /\ UNCHANGED <<conn, retry, beat, told>>
     \/ task.op = "reconnect" /\ HandleDisconnect(told)
     \/ task.op \notin {"resync", "reconnect"} /\ LostFor(task.ws)
  /\ UNCHANGED <<commands, tracked, startTried, world, history>>

-----------------------------------------------------------------------------
(* Reconnecting                                                             *)

\* Reconnect comes too late or for nothing.
ReconnectIdle ==
  /\ Take({"reconnect"})
  /\ link # "none" \/ tracked = {}
  /\ UNCHANGED <<task, conn, tracked, retry, startTried, beat, told, world, history>>

\* Faulty variant: a failure that is not transient ends the retries.
ReconnectFailsForGood ==
  /\ Take({"reconnect"})
  /\ link = "none"
  /\ \E primary \in tracked :
       \/ /\ Misses
          /\ told' = Tell(told, {primary}, "Reconnecting")
          /\ attempt' = IF attempt > 1 THEN attempt ELSE 1
          /\ timers' = timers + 1
       \/ /\ daemon = "alien"
          /\ told' = Tell(told, {primary}, "Blocked")
          /\ UNCHANGED <<startTried, retry>>
  /\ UNCHANGED <<task, conn, tracked, beat, world, history>>

\* ensure_connected runs from a count of 0 and schedules by itself after a transient failure; the
\* count then goes back to where it was. Any other failure schedules from that count.
ReconnectFails ==
  /\ Take({"reconnect"})
  /\ link = "none"
  /\ \E primary \in tracked :
       \/ /\ Misses
          /\ told' = Tell(told, {primary}, "Reconnecting")
          /\ attempt' = IF attempt > 1 THEN attempt ELSE 1
          /\ timers' = timers + 1
       \/ /\ daemon = "alien"
          /\ UNCHANGED startTried
          /\ told' = IF Trips(attempt) THEN Tell(told, tracked, "GaveUp")
                     ELSE Tell(told, {primary}, "Blocked")
          /\ ScheduleReconnect(attempt)
  /\ UNCHANGED <<task, conn, tracked, beat, world, history>>

Reattach(w, rest) ==
  task' = [op |-> "reconnect", ws |-> w, step |-> "attach", todo |-> rest]

\* The connection is there again: it is split and the workspaces are attached one by one.
ReconnectStarts ==
  /\ Take({"reconnect"})
  /\ link = "none"
  /\ Reaches
  /\ link' = "split"
  /\ alive' = TRUE
  /\ pending' = FALSE
  /\ missed' = 0
  /\ \E primary, w \in tracked :
       /\ told' = Tell(told, {primary}, "Connected")
       /\ Reattach(w, tracked \ {w})
  /\ asked' = <<"request">>
  /\ unaware' = {}
  /\ confused' = FALSE
  /\ UNCHANGED <<wire, tracked, retry, issued, faults, pushes, paused>>

\* The answer to one of them; the count is reset after the last.
Reattached ==
  /\ task.op = "reconnect"
  /\ \E answer \in Answers :
       /\ Response(answer, IF task.todo = {} THEN <<>> ELSE <<"request">>)
       /\ IF answer = "ok" THEN told' = Tell(told, {task.ws}, "Recovered")
                           ELSE Refused(task.ws, answer)
  /\ IF task.todo = {}
     THEN task' = Idle /\ attempt' = 0
     ELSE /\ \E w \in task.todo : Reattach(w, task.todo \ {w})
          /\ UNCHANGED attempt
  /\ UNCHANGED <<commands, link, alive, tracked, timers, startTried, beat, world, unaware>>

\* Faulty variant: the timer's message is lost when another command waits.
TimerFiresIntoQueue ==
  /\ timers > 0
  /\ timers' = timers - 1
  /\ commands' = IF commands = <<>> THEN <<Reconnect>> ELSE commands
  /\ UNCHANGED <<task, conn, tracked, attempt, startTried, beat, told, world, history>>

\* The sleep of schedule_reconnect is over.
TimerFires ==
  /\ timers > 0
  /\ timers' = timers - 1
  /\ commands' = Append(commands, Reconnect)
  /\ UNCHANGED <<task, conn, tracked, attempt, startTried, beat, told, world, history>>

-----------------------------------------------------------------------------
(* The main loop with a reader, when there is no command.                   *)

Loop == IsIdle /\ commands = <<>> /\ link = "split" /\ ~paused

\* handle_runtime_message
ReadMessage ==
  /\ Loop
  /\ wire # <<>>
  /\ LET m == Head(wire) IN
       /\ wire' = Tail(wire)
       /\ IF m.kind = "oldPong"
          THEN UNCHANGED beat
          ELSE pending' = FALSE /\ missed' = 0
       /\ tracked' = IF m.kind = "terminated" THEN tracked \ {m.ws} ELSE tracked
       /\ commands' = IF m.kind = "overflow" /\ m.ws \in tracked
                      THEN <<[op |-> "resync", ws |-> m.ws]>> ELSE commands
  /\ UNCHANGED <<task, link, alive, asked, retry, startTried, told, world, history>>

ReadEnd ==
  /\ Loop
  /\ wire = <<>>
  /\ ~alive
  /\ HandleDisconnect(told)
  /\ UNCHANGED <<commands, task, tracked, startTried, world, history>>

\* A connection is taken for dead.
DeclaresLost == pending /\ missed + 1 >= MissLimit

\* The heartbeat's sleep ends with nothing to read. A daemon that is up answers well before.
Beats ==
  /\ IsIdle
  /\ commands = <<>>
  /\ link = "split"
  /\ alive
  /\ tracked # {}
  /\ daemon = "up" => asked = <<>>

\* handle_heartbeat_tick once the loop got there.
Tick ==
  IF DeclaresLost
  THEN HandleDisconnect(told)
  ELSE /\ IF pending
          THEN /\ missed' = missed + 1
               /\ asked' = Append(asked, "ping")
               /\ UNCHANGED <<pending, wire>>
          ELSE /\ pending' = TRUE
               /\ missed' = 0
               /\ asked' = Append([i \in DOMAIN asked |->
                                     IF asked[i] = "ping" THEN "oldPing" ELSE asked[i]], "ping")
               /\ wire' = [i \in DOMAIN wire |->
                             IF wire[i].kind = "pong" THEN [wire[i] EXCEPT !.kind = "oldPong"]
                             ELSE wire[i]]
       /\ UNCHANGED <<link, alive, retry, told>>

\* Faulty variant: the heartbeat goes on while the window has paused the reader.
HeartbeatTickWhilePaused ==
  /\ Beats
  /\ ~paused => wire = <<>>
  /\ Tick
  /\ UNCHANGED <<commands, task, tracked, startTried, world, history>>

HeartbeatTick ==
  /\ Beats
  /\ ~paused
  /\ wire = <<>>
  /\ Tick
  /\ UNCHANGED <<commands, task, tracked, startTried, world, history>>

-----------------------------------------------------------------------------
(* The window, the daemon and the network                                   *)

WindowSends ==
  /\ issued < MaxCommands
  /\ Len(commands) < MaxQueue
  /\ issued' = issued + 1
  /\ \E op \in Ops, w \in Workspaces :
       commands' = Append(commands, [op |-> op, ws |-> IF op = "list" THEN NoWorkspace ELSE w])
  /\ UNCHANGED <<task, conn, tracked, retry, startTried, beat, told, daemon, faults, pushes, paused,
                 history>>

\* The poller of the window sets and clears the flag; it means something with a reader.
WindowPauses ==
  /\ paused \/ link = "split"
  /\ paused' = ~paused
  /\ UNCHANGED <<commands, task, conn, tracked, retry, startTried, beat, told, daemon, issued,
                 faults, pushes, history>>

World == UNCHANGED <<commands, task, tracked, retry, startTried, beat, told, issued, paused, history>>

\* What the daemon can answer at this step. It creates and lists unless something is wrong, and
\* only an attach is blocked.
Possible(step) ==
  {"ok", "refused"} \cup (IF step = "create" THEN {} ELSE {"missing"})
                    \cup (IF step = "attach" THEN {"blocked"} ELSE {})

DaemonAnswers ==
  /\ daemon = "up"
  /\ alive
  /\ asked # <<>>
  /\ asked' = Tail(asked)
  /\ \E m \in CASE Head(asked) = "request" -> {Reply(a) : a \in Possible(task.step)}
                [] Head(asked) = "stale"   -> {Message("stale", NoWorkspace)}
                [] Head(asked) = "ping"    -> {Message("pong", NoWorkspace)}
                [] Head(asked) = "oldPing" -> {Message("oldPong", NoWorkspace)} :
       wire' = Append(wire, m)
  /\ UNCHANGED <<link, alive, daemon, faults, pushes>>
  /\ World

\* Only these two make a difference to the actor; any other is read like a stale reply.
DaemonPushes ==
  /\ pushes < MaxPushes
  /\ daemon = "up"
  /\ alive
  /\ \E kind \in {"terminated", "overflow"}, w \in tracked : wire' = Append(wire, Message(kind, w))
  /\ pushes' = pushes + 1
  /\ UNCHANGED <<link, alive, asked, daemon, faults>>
  /\ World

\* The daemon hangs or goes down.
DaemonFails ==
  /\ daemon = "up"
  /\ faults.daemon < MaxFaults
  /\ faults' = [faults EXCEPT !.daemon = @ + 1]
  /\ \/ daemon' = "mute" /\ UNCHANGED <<alive, asked>>
     \/ daemon' \in {"down", "alien"} /\ alive' = FALSE /\ asked' = <<>>
  /\ UNCHANGED <<link, wire, pushes>>
  /\ World

\* Only the connection breaks.
ConnectionBreaks ==
  /\ alive
  /\ faults.cut < MaxCuts
  /\ faults' = [faults EXCEPT !.cut = @ + 1]
  /\ alive' = FALSE
  /\ asked' = <<>>
  /\ UNCHANGED <<link, wire, daemon, pushes>>
  /\ World

\* It goes on, is restarted, or is killed and restarted in the right version.
DaemonIsBack ==
  /\ daemon # "up"
  /\ daemon' = "up"
  /\ IF daemon = "mute"
     THEN UNCHANGED <<alive, asked>> \/ (alive' = FALSE /\ asked' = <<>>)
     ELSE UNCHANGED <<alive, asked>>
  /\ UNCHANGED <<link, wire, pushes, faults>>
  /\ World

-----------------------------------------------------------------------------
HandleCommand ==
  \/ CommandDropped \/ CommandFindsNoDaemon \/ CommandRefused
  \/ OpenWorkspace \/ RefreshInventory \/ CreateOrSplitPane \/ ClosePane
  \/ DetachOrTerminate \/ RequestUnsplit \/ ResyncWorkspace
  \/ Note \/ Input \/ ForgetWorkspace
  \/ ReconnectIdle \/ ReconnectFails \/ ReconnectStarts
Await ==
  \/ Skim \/ OpenGoesOn \/ Opened \/ OpenRefused \/ OpenTimesOut
  \/ PaneCreated \/ PaneClosed \/ WorkspaceLeft \/ InventoryLoaded \/ WorkspaceResynced
  \/ LostInRequest \/ Reattached
Actor == HandleCommand \/ Await \/ ReadMessage \/ ReadEnd \/ HeartbeatTick

Next ==
  \/ Actor \/ TimerFires
  \/ WindowSends \/ WindowPauses
  \/ DaemonAnswers \/ DaemonPushes \/ DaemonFails \/ ConnectionBreaks \/ DaemonIsBack

\* The actor runs, its timers fire, the window goes on reading, the daemon answers, and a daemon
\* that hangs or is gone does not stay so.
Fairness ==
  /\ WF_vars(Actor)
  /\ WF_vars(TimerFires)
  /\ WF_vars(paused /\ WindowPauses)
  /\ WF_vars(DaemonAnswers)
  /\ WF_vars(DaemonIsBack)

Spec == Init /\ [][Next]_vars
FairSpec == Spec /\ Fairness

-----------------------------------------------------------------------------
\* The actor's state is well formed; without a link nothing is in transit.
TypeOK ==
  /\ commands \in Seq(Command)
  /\ task \in Task
  /\ link \in {"none", "whole", "split"}
  /\ tracked \subseteq Workspaces
  /\ attempt \in Nat
  /\ timers \in Nat
  /\ startTried \in BOOLEAN
  /\ pending \in BOOLEAN
  /\ missed \in 0..MissLimit
  /\ told \in [Workspaces -> Statuses]
  /\ paused \in BOOLEAN
  /\ alive \in BOOLEAN
  /\ asked \in Seq(Requests)
  /\ wire \in Seq(Messages)
  /\ daemon \in {"up", "mute", "down", "alien"}
  /\ issued \in 0..MaxCommands
  /\ faults \in [daemon : 0..MaxFaults, cut : 0..MaxCuts]
  /\ pushes \in 0..MaxPushes
  /\ unaware \subseteq Workspaces
  /\ link = "none" => ~alive /\ asked = <<>> /\ wire = <<>>

GaveUp == attempt > MaxDelay + 2
ReconnectDue == timers > 0 \/ \E i \in DOMAIN commands : commands[i] = Reconnect

\* No tracked workspace is left behind: whenever the actor rests without a connection, a timer
\* runs, a Reconnect is queued, or the circuit breaker has tripped (daemon_bridge.rs:1993-2062).
NobodyIsForgotten == IsIdle /\ tracked # {} /\ link = "none" => ReconnectDue \/ GaveUp

\* Only a split connection is read and has a heartbeat: no tracked workspace ever sits on a whole
\* one, whatever commands came while the connection was away (daemon_bridge.rs:654, 705).
TrackedIsWatched == tracked # {} => link # "whole"

\* A workspace that shows as connected has a connection under it, its input is not dropped; the
\* exception is a workspace that shared the link an OpenWorkspace timed out on
\* (daemon_bridge.rs:816-841, 2009-2016).
InputNeedsLink ==
  IsIdle /\ link = "none" =>
    \A w \in tracked : told[w] \in {"Connected", "Recovered"} => w \in unaware

\* While workspaces wait for their reconnect, only the timer's Reconnect connects: a command does
\* not start a second connection, nor one that leaves the others detached
\* (daemon_bridge.rs:1546-1550).
OnlyReconnectsConnect ==
  [][link = "none" /\ link' # "none" /\ tracked # {} => Current = Reconnect]_vars

\* The heartbeat gives up a connection only while the daemon is mute: not for a pause of the
\* window, a wait for another response, or a Pong still unread, unless a Pong was taken for a
\* response before (daemon_bridge.rs:657-692, 1974-1991).
ResponsiveIsKept ==
  [][HeartbeatTick /\ link' = "none" => daemon = "mute" \/ confused]_vars

\* Tracked workspaces without a connection get one again, or the circuit breaker has tripped, or
\* they are no longer tracked (daemon_bridge.rs:1346-1438, 2027-2062).
Recovers ==
  tracked # {} /\ link = "none" ~> tracked = {} \/ link # "none" \/ GaveUp

\* What RFC-018 says of the status Reconnecting: that an automatic reconnect is scheduled. It does
\* not hold for a workspace whose first OpenWorkspace found no daemon: Reconnect returns when
\* nothing is tracked (daemon_bridge.rs:1350-1353).
ReconnectingIsScheduled ==
  IsIdle /\ link = "none" => \A w \in Workspaces : told[w] = "Reconnecting" => ReconnectDue
=============================================================================
