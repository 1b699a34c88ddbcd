---------------------------- MODULE OutputStream ----------------------------
(****************************************************************************)
(* The way of one pane's output to the clients that show it: the read loop   *)
(* of the pane (spawn_pty_read_loop), the push and response channels of each *)
(* client, the task that writes them to the socket (client_writer), the task *)
(* that serves the client's requests (v3_client_reader) and the snapshots it *)
(* takes, and what the client makes of the messages.                         *)
(*                                                                           *)
(* A batch of output is its number, the daemon's output_seq; a terminal      *)
(* screen is the sequence of what was fed to it. Cleanup stands for the      *)
(* modes an attach resets when it finds an idle shell behind a dead          *)
(* application. The screen is taken out of the pane while it parses a batch, *)
(* and an empty one is left in its place. The module starts where the client *)
(* is connected and stops before it leaves, with a workspace that survives a *)
(* detach; a batch that only holds queries, which is not sent, and the       *)
(* pushes of metadata are left out.                                          *)
(****************************************************************************)
EXTENDS Naturals, SequencesExt

CONSTANTS
  Clients,      \* connected clients
  Resyncing,    \* the clients that negotiated OPT_RESYNC
  PushBound,    \* PUSH_CHANNEL_BOUND
  RespBound,    \* RESP_CHANNEL_BOUND
  WireBound,    \* what the socket holds before a write to it waits
  MaxOutput,    \* bound on the batches of output
  MaxRequests,  \* bound on the requests of all clients
  MaxHeals      \* bound on the attaches that find stale modes

ASSUME ResyncingAssumption == Resyncing \subseteq Clients
ASSUME ChannelAssumption == {PushBound, RespBound, WireBound} \subseteq Nat \ {0}
ASSUME OutputBoundAssumption == {MaxOutput, MaxRequests, MaxHeals} \subseteq Nat

VARIABLES
  seq,         \* pane.output_seq: the batches accepted so far
  screen,      \* pane.screen
  taken,       \* the screen the read loop holds
  pc,          \* phase of the read loop
  targets,     \* clients attached when the batch was accepted
  senders,     \* the ones whose push sender was found
  overflowed,  \* the ones whose push channel was full
  attached,    \* attached_clients of the workspace
  registered,  \* client_senders
  push,        \* push channel of each client
  resp,        \* response channel of each client
  wire,        \* socket of each client
  request,     \* request on its way to the daemon
  serving,     \* what v3_client_reader of the client is doing
  awaiting,    \* request the client waits for
  resyncs,     \* a ResyncWorkspace command is queued in the client
  view,        \* what the client's terminal was fed
  requests,    \* requests of the clients so far, resyncs not counted
  heals,       \* heals so far
  missing,     \* history: a batch was dropped and no snapshot was taken since
  deaf,        \* history: and the StreamOverflow came while the client awaited a response
  marred       \* history: the client's stream met one of the four hazards, see Spoils

loop    == <<taken, pc, targets, senders, overflowed>>
pane    == <<seq, screen>>
members == <<attached, registered>>
lanes   == <<push, resp, wire>>
server  == <<request, serving>>
client  == <<awaiting, resyncs, view, requests>>
history == <<missing, deaf, marred>>
vars    == <<loop, pane, members, lanes, server, client, heals, history>>

Cleanup == 0
Fed == Seq(0..MaxOutput)
Phases == {"read", "collect", "parse", "send", "overflow"}
Requests == {"attach", "detach", "resync", "other"}
None == "none"

Message == [kind : {"delta", "snapshot", "ok", "overflow"}, fed : Fed]
Delta(n)      == [kind |-> "delta", fed |-> <<n>>]
Snapshot(fed) == [kind |-> "snapshot", fed |-> fed]
Ok            == [kind |-> "ok", fed |-> <<>>]
Overflow      == [kind |-> "overflow", fed |-> <<>>]

Serving == [step : {None, "heal", "reply"}, reply : Message, others : SUBSET Clients]
Unserved == [step |-> None, reply |-> Ok, others |-> {}]

Init ==
  /\ seq = 0
  /\ screen = <<>>
  /\ taken = <<>>
  /\ pc = "read"
  /\ targets = {}
  /\ senders = {}
  /\ overflowed = {}
  /\ attached = {}
  /\ registered = Clients
  /\ push = [c \in Clients |-> <<>>]
  /\ resp = [c \in Clients |-> <<>>]
  /\ wire = [c \in Clients |-> <<>>]
  /\ request = [c \in Clients |-> None]
  /\ serving = [c \in Clients |-> Unserved]
  /\ awaiting = [c \in Clients |-> None]
  /\ resyncs = [c \in Clients |-> FALSE]
  /\ view = [c \in Clients |-> <<>>]
  /\ requests = 0
  /\ heals = 0
  /\ missing = [c \in Clients |-> FALSE]
  /\ deaf = [c \in Clients |-> FALSE]
  /\ marred = [c \in Clients |-> FALSE]

-----------------------------------------------------------------------------
(* Channels                                                                  *)

Full(c) == Len(push[c]) >= PushBound

\* Faulty variant: nobody looks whether the channel is full.
PushToUnbounded(cs, m) == [c \in Clients |-> IF c \in cs THEN Append(push[c], m) ELSE push[c]]

\* try_send on the push channel of every client in cs: the full ones are left as they are.
PushTo(cs, m) == [c \in Clients |-> IF c \in cs /\ ~Full(c) THEN Append(push[c], m) ELSE push[c]]

\* What a full push channel means for the clients cs, in handle_single_push_overflow*: whoever
\* can resync is told through its response channel, anyone else loses its push sender.
Told(cs) == {c \in cs \cap Resyncing : Len(resp[c]) < RespBound}

\* Faulty variant: a full response channel goes unnoticed.
HandleOverflowOfSilently(cs) ==
  /\ resp' = [c \in Clients |-> IF c \in Told(cs) THEN Append(resp[c], Overflow) ELSE resp[c]]
  /\ registered' = registered \ (cs \ Resyncing)

HandleOverflowOf(cs) ==
  /\ resp' = [c \in Clients |-> IF c \in Told(cs) THEN Append(resp[c], Overflow) ELSE resp[c]]
  /\ registered' = registered \ (cs \ Told(cs))

-----------------------------------------------------------------------------
(* The read loop                                                             *)

\* Phase 1 under the workspace's lock: number the batch, take the screen, see who is attached.
Accept ==
  /\ pc = "read"
  /\ seq < MaxOutput
  /\ seq' = seq + 1
  /\ taken' = screen
  /\ screen' = <<>>
  /\ targets' = attached
  /\ pc' = "collect"
  /\ UNCHANGED <<senders, overflowed, members, lanes, server, client, heals, history>>

\* Phase 1 under the server's lock: the push senders of those clients.
CollectSenders ==
  /\ pc = "collect"
  /\ senders' = targets \cap registered
  /\ pc' = "parse"
  /\ UNCHANGED <<taken, targets, overflowed, pane, members, lanes, server, client, heals, history>>

\* Faulty variant: the batch is parsed on the screen that was left in the pane.
ReturnScreenOfPane ==
  /\ pc = "parse"
  /\ screen' = Append(screen, seq)
  /\ taken' = <<>>
  /\ pc' = "send"
  /\ UNCHANGED <<seq, targets, senders, overflowed, members, lanes, server, client, heals, history>>

\* Phases 2 and 3: parse the batch, then put the screen back under the workspace's lock.
ReturnScreen ==
  /\ pc = "parse"
  /\ screen' = Append(taken, seq)
  /\ taken' = <<>>
  /\ pc' = "send"
  /\ UNCHANGED <<seq, targets, senders, overflowed, members, lanes, server, client, heals, history>>

\* Phase 5, without a lock: send_to_collected.
SendDelta ==
  /\ pc = "send"
  /\ LET behind == {c \in senders : Full(c)} IN
       /\ push' = PushTo(senders, Delta(seq))
       /\ overflowed' = behind
       /\ pc' = IF behind = {} THEN "read" ELSE "overflow"
       /\ missing' = [c \in Clients |-> missing[c] \/ c \in behind]
       /\ deaf' = [c \in Clients |-> deaf[c] /\ c \notin behind]
       /\ marred' = [c \in Clients |-> marred[c] \/ c \in behind]
  /\ UNCHANGED <<taken, targets, senders, pane, members, resp, wire, server, client, heals>>

\* The end of phase 5, under the server's lock: handle_push_overflows.
HandlePushOverflows ==
  /\ pc = "overflow"
  /\ HandleOverflowOf(overflowed)
  /\ overflowed' = {}
  /\ pc' = "read"
  /\ UNCHANGED <<taken, targets, senders, pane, attached, push, wire, server, client, heals, history>>

-----------------------------------------------------------------------------
(* Requests                                                                  *)

\* The snapshot that is taken now does not fit the deltas that will follow it: the screen is
\* away; or deltas that it holds wait to be sent, and the response overtakes them.
Spoils(c) ==
  \/ pc \in {"collect", "parse"}
  \/ push[c] # <<>>
  \/ pc = "send" /\ c \in senders

\* A snapshot of fed for client c is put together.
Snap(c, fed) ==
  /\ missing' = [missing EXCEPT ![c] = FALSE]
  /\ deaf' = [deaf EXCEPT ![c] = FALSE]
  /\ marred' = [marred EXCEPT ![c] = Spoils(c)]

\* A mode that only a running application sets is on, and the shell is in the foreground.
MayHeal == heals < MaxHeals /\ screen # <<>> /\ Last(screen) # Cleanup

\* AttachWorkspace under the workspace's lock: attach, heal the pane, render the snapshot.
Attach(c) ==
  /\ request[c] = "attach"
  /\ attached' = attached \cup {c}
  /\ \/ /\ serving' = [serving EXCEPT ![c] = [step |-> "reply", reply |-> Snapshot(screen),
                                              others |-> {}]]
        /\ UNCHANGED <<screen, heals>>
     \/ /\ MayHeal
        /\ screen' = Append(screen, Cleanup)
        /\ serving' = [serving EXCEPT ![c] = [step |-> "heal", reply |-> Snapshot(screen'),
                                              others |-> attached \ {c}]]
        /\ heals' = heals + 1
  /\ Snap(c, screen')
  /\ UNCHANGED <<seq, registered>>

\* The healed modes are broadcast under the server's lock. A full channel is handled for the
\* client's workspace if its lock is free; if not the client loses its push sender.
BroadcastHeal(c) ==
  /\ serving[c].step = "heal"
  /\ LET cs == serving[c].others \cap registered
         behind == {d \in cs : Full(d)} IN
       /\ push' = PushTo(cs, Delta(Cleanup))
       /\ HandleOverflowOf(behind) \/ (registered' = registered \ behind /\ UNCHANGED resp)
       /\ missing' = [d \in Clients |-> missing[d] \/ d \in behind]
       /\ deaf' = [d \in Clients |-> deaf[d] /\ d \notin behind]
       /\ marred' = [d \in Clients |-> marred[d] \/ d \in behind]
  /\ serving' = [serving EXCEPT ![c] = [step |-> "reply", reply |-> @.reply, others |-> {}]]
  /\ UNCHANGED <<loop, pane, attached, wire, request, client, heals>>

\* ResyncWorkspace under the workspace's lock.
Resync(c) ==
  /\ request[c] = "resync"
  /\ serving' = [serving EXCEPT ![c] = [step |-> "reply", reply |-> Snapshot(screen), others |-> {}]]
  /\ Snap(c, screen)
  /\ UNCHANGED <<pane, members, heals>>

Detach(c) ==
  /\ request[c] = "detach"
  /\ attached' = attached \ {c}
  /\ serving' = [serving EXCEPT ![c] = [step |-> "reply", reply |-> Ok, others |-> {}]]
  /\ UNCHANGED <<pane, registered, heals, history>>

OtherRequest(c) ==
  /\ request[c] = "other"
  /\ serving' = [serving EXCEPT ![c] = [step |-> "reply", reply |-> Ok, others |-> {}]]
  /\ UNCHANGED <<pane, members, heals, history>>

HandleMessage(c) ==
  /\ serving[c].step = None
  /\ Attach(c) \/ Resync(c) \/ Detach(c) \/ OtherRequest(c)
  /\ request' = [request EXCEPT ![c] = None]
  /\ UNCHANGED <<loop, lanes, client>>

\* v3_client_reader waits for room in the response channel.
Respond(c) ==
  /\ serving[c].step = "reply"
  /\ Len(resp[c]) < RespBound
  /\ resp' = [resp EXCEPT ![c] = Append(@, serving[c].reply)]
  /\ serving' = [serving EXCEPT ![c] = Unserved]
  /\ UNCHANGED <<loop, pane, members, push, wire, request, client, heals, history>>

\* Faulty variant: the writer stops with the push sender, but leaves the connection open.
WriteWhileRegistered(c) ==
  /\ c \in registered
  /\ Len(wire[c]) < WireBound
  /\ \/ /\ resp[c] # <<>>
        /\ wire' = [wire EXCEPT ![c] = Append(@, Head(resp[c]))]
        /\ resp' = [resp EXCEPT ![c] = Tail(@)]
        /\ UNCHANGED <<push, history>>
     \/ /\ resp[c] = <<>>
        /\ push[c] # <<>>
        /\ wire' = [wire EXCEPT ![c] = Append(@, Head(push[c]))]
        /\ push' = [push EXCEPT ![c] = Tail(@)]
        /\ marred' = [marred EXCEPT ![c] = @ \/ serving[c].reply.kind = "snapshot"]
        /\ UNCHANGED <<resp, missing, deaf>>
  /\ UNCHANGED <<loop, pane, members, server, client, heals>>

\* client_writer: responses first. A delta that follows a snapshot in time but precedes its
\* response on the wire is fed to a terminal that is about to be replaced.
Write(c) ==
  /\ Len(wire[c]) < WireBound
  /\ \/ /\ resp[c] # <<>>
        /\ wire' = [wire EXCEPT ![c] = Append(@, Head(resp[c]))]
        /\ resp' = [resp EXCEPT ![c] = Tail(@)]
        /\ UNCHANGED <<push, history>>
     \/ /\ resp[c] = <<>>
        /\ push[c] # <<>>
        /\ wire' = [wire EXCEPT ![c] = Append(@, Head(push[c]))]
        /\ push' = [push EXCEPT ![c] = Tail(@)]
        /\ marred' = [marred EXCEPT ![c] = @ \/ serving[c].reply.kind = "snapshot"]
        /\ UNCHANGED <<resp, missing, deaf>>
  /\ UNCHANGED <<loop, pane, members, server, client, heals>>

-----------------------------------------------------------------------------
(* The client                                                                *)

\* One request at a time. A queued ResyncWorkspace is a command like any other.
Ask(c) ==
  /\ awaiting[c] = None
  /\ requests < MaxRequests
  /\ \E r \in IF c \in attached THEN {"detach", "other"} ELSE {"attach"} :
       /\ request' = [request EXCEPT ![c] = r]
       /\ awaiting' = [awaiting EXCEPT ![c] = r]
  /\ requests' = requests + 1
  /\ UNCHANGED <<loop, pane, members, lanes, serving, resyncs, view, heals, history>>

AskResync(c) ==
  /\ awaiting[c] = None
  /\ resyncs[c]
  /\ resyncs' = [resyncs EXCEPT ![c] = FALSE]
  /\ request' = [request EXCEPT ![c] = "resync"]
  /\ awaiting' = [awaiting EXCEPT ![c] = "resync"]
  /\ UNCHANGED <<loop, pane, members, lanes, serving, view, requests, heals, history>>

\* A delta is fed to the terminal whatever its number is; a snapshot replaces what it shows; a
\* StreamOverflow is acted upon by the main loop for a tracked workspace, but one that is read
\* while a response is awaited goes to the window, which ignores it.
Receive(c) ==
  /\ wire[c] # <<>>
  /\ LET m == Head(wire[c])
         heeded == m.kind = "overflow" /\ awaiting[c] = None /\ c \in attached
     IN
       /\ view' = [view EXCEPT ![c] = CASE m.kind = "delta"    -> @ \o m.fed
                                        [] m.kind = "snapshot" -> m.fed
                                        [] OTHER               -> @]
       /\ awaiting' = [awaiting EXCEPT ![c] = IF m.kind \in {"snapshot", "ok"} THEN None ELSE @]
       /\ resyncs' = [resyncs EXCEPT ![c] = @ \/ heeded]
       /\ deaf' = [deaf EXCEPT ![c] = @ \/ (m.kind = "overflow" /\ ~heeded)]
  /\ wire' = [wire EXCEPT ![c] = Tail(@)]
  /\ UNCHANGED <<loop, pane, members, push, resp, server, requests, heals, missing, marred>>

-----------------------------------------------------------------------------
ReadLoop == Accept \/ CollectSenders \/ ReturnScreen \/ SendDelta \/ HandlePushOverflows
Serve(c) == HandleMessage(c) \/ BroadcastHeal(c) \/ Respond(c)

Next ==
  \/ ReadLoop
  \/ \E c \in Clients : Serve(c) \/ Write(c) \/ Ask(c) \/ AskResync(c) \/ Receive(c)

\* The tasks of the daemon run, and the client reads what it is sent and carries out its commands.
Fairness ==
  /\ WF_vars(ReadLoop)
  /\ \A c \in Clients :
       WF_vars(Serve(c)) /\ WF_vars(Write(c)) /\ WF_vars(Receive(c)) /\ WF_vars(AskResync(c))

Spec == Init /\ [][Next]_vars
FairSpec == Spec /\ Fairness

-----------------------------------------------------------------------------
\* The state is well formed and no channel holds more than its bound.
TypeOK ==
  /\ seq \in 0..MaxOutput
  /\ screen \in Fed /\ taken \in Fed
  /\ pc \in Phases
  /\ targets \subseteq Clients /\ senders \subseteq Clients /\ overflowed \subseteq senders
  /\ attached \subseteq Clients /\ registered \subseteq Clients
  /\ {push, resp, wire} \subseteq [Clients -> Seq(Message)]
  /\ \A c \in Clients : /\ Len(push[c]) <= PushBound
                        /\ Len(resp[c]) <= RespBound
                        /\ Len(wire[c]) <= WireBound
  /\ {request, awaiting} \subseteq [Clients -> Requests \cup {None}]
  /\ serving \in [Clients -> Serving]
  /\ view \in [Clients -> Fed]
  /\ {resyncs, missing, deaf, marred} \subseteq [Clients -> BOOLEAN]
  /\ requests \in 0..MaxRequests
  /\ heals \in 0..MaxHeals

\* The batches among some items are m+1..n, each once and in their order.
InOrder(items, m, n) ==
  /\ \A i \in DOMAIN items : items[i] # Cleanup => items[i] \in m+1..n
  /\ \A b \in m+1..n : \E i \in DOMAIN items : items[i] = b
  /\ \A i, j \in DOMAIN items :
       i < j /\ items[i] # Cleanup /\ items[j] # Cleanup => items[i] < items[j]

\* What a message adds to a terminal, and what is on its way to client c.
Batch(m) == IF m.kind = "delta" THEN Head(m.fed) ELSE Cleanup
Sent(c) == wire[c] \o resp[c]
Coming(c) == [i \in DOMAIN (Sent(c) \o push[c]) |-> Batch((Sent(c) \o push[c])[i])]

\* The last batch that has been sent to c: the read loop may still hold one.
LastSent(c) == IF pc \in {"collect", "parse", "send"} /\ c \in targets THEN seq - 1 ELSE seq

\* A client that is attached and waits for nothing shows the first batches of output, each once and in
\* its order, and the others are on their way in theirs, unless its stream was marred: its
\* snapshot was rendered while the screen was away (server.rs:2173) or overtook deltas that it
\* holds (server.rs:3088), a delta overtook its snapshot (server.rs:1186), or a delta was
\* dropped (server.rs:81).
CleanStreamIsWhole ==
  \A c \in attached \cap registered :
    awaiting[c] = None /\ ~marred[c] =>
      \E m \in 0..LastSent(c) : InOrder(view[c], 0, m) /\ InOrder(Coming(c), m, LastSent(c))

\* Whoever lost a delta and still gets others is told with a StreamOverflow that is in its
\* channels, or asks for a resync; the exception is a client that read it while it waited for
\* another response (server.rs:560-580, daemon_bridge.rs:760, 1917-1920).
DropsAreAnnounced ==
  \A c \in registered :
    missing[c] /\ ~deaf[c] =>
      \/ c \in overflowed
      \/ \E i \in DOMAIN Sent(c) : Sent(c)[i].kind = "overflow"
      \/ resyncs[c]
      \/ awaiting[c] = "resync"

\* Once the pane is quiet, everything that was sent has been read, no task waits for another, and
\* whoever lost output has a newer snapshot, unless it lost its push sender or missed the
\* StreamOverflow: a slow client never holds up the read loop (send_to_collected, server.rs:62)
\* and the writer always gets to the push channel (server.rs:3088).
OutputSettles ==
  <>[](/\ pc = "read"
       /\ \A c \in Clients :
            /\ push[c] = <<>> /\ resp[c] = <<>> /\ wire[c] = <<>>
            /\ awaiting[c] = None
            /\ c \in registered => ~missing[c] \/ deaf[c])
=============================================================================
