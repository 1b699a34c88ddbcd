------------------------------- MODULE Clients -------------------------------
(****************************************************************************)
(* The daemon's connections, from the accept loop to the clean-up after the *)
(* last frame (run, handle_client, try_v3_handshake and v3_client_reader of *)
(* server.rs), and the two requests that size the PTY of a pane, which are  *)
(* ReportClientSize and ResizePane.                                         *)
(*                                                                          *)
(* Every connection is a task that handles its requests one at a time. What *)
(* it does under a mutex is one action. A workspace has one pane here, that *)
(* goes by the name of the workspace. The roles of its clients are those of *)
(* module Workspace; what is pushed to a client is left to OutputStream.    *)
(****************************************************************************)
EXTENDS Naturals, FiniteSets

CONSTANTS
  Connections,     \* connections, each made at most once: a client id is never used again
  Workspaces,      \* workspaces, with one pane each
  Sizes,           \* sizes <<columns, rows>> a client reports
  InitialSize,     \* size a pane is spawned with
  NoSize,          \* stands for Option::None where a size is expected
  NoWorkspace,     \* stands where no workspace is meant
  MaxClients       \* MAX_CONCURRENT_CLIENTS

ASSUME SizesAssumption == Sizes \subseteq Nat \X Nat /\ InitialSize \in (Nat \ {0}) \X (Nat \ {0})
ASSUME NoneAssumption == NoSize \notin Nat \X Nat /\ NoWorkspace \notin Workspaces
ASSUME MaxClientsAssumption == MaxClients \in Nat \ {0}

VARIABLES
  task,       \* per connection: where its task is
  senders,    \* keys of client_senders and client_resp_senders
  protocols,  \* keys of client_protocols
  counter,    \* metrics.connected_clients
  reported,   \* client_pane_sizes
  role,       \* Workspace::attached_clients
  inMap,      \* keys of Server::workspaces
  hasPty,     \* workspaces whose pane has an entry in pty_writers
  pty,        \* size of each PTY
  recorded,   \* cols and rows of each Pane
  disturbed   \* history: why a pane's size need not be the minimum of the last reports

registry == <<senders, protocols, counter>>
sizes    == <<reported, pty, recorded, disturbed>>
world    == <<role, inMap, hasPty>>
vars     == <<task, registry, sizes, world>>

\* A pair of dimensions: what is reported, and per-axis minima of that.
Dimensions == {s[1] : s \in Sizes \cup {InitialSize}} \X {s[2] : s \in Sizes \cup {InitialSize}}
Usable(s) == s # NoSize /\ s[1] > 0 /\ s[2] > 0

\* Places of a task: "report" and "resize" carry a size to the PTY, "reporting" and "resizing"
\* have set it there and carry it to the pane.
Applying == {"report", "resize", "reporting", "resizing"}
Live == {"accepted", "listed", "greeted", "ready", "closing", "leaving"} \cup Applying
Task == [at : Live \cup {"out", "rejected", "failed", "ended"}, ws : Workspaces \cup {NoWorkspace},
         size : Dimensions \cup {NoSize}, todo : SUBSET Workspaces]
At(place) == [at |-> place, ws |-> NoWorkspace, size |-> NoSize, todo |-> {}]
Carrying(place, w, size) == [at |-> place, ws |-> w, size |-> size, todo |-> {}]
Goes(c, t) == task' = [task EXCEPT ![c] = t]

Running == {c \in Connections : task[c].at \in Live}
Unlisted == {"out", "accepted", "rejected"}

Init ==
  /\ task = [c \in Connections |-> At("out")]
  /\ senders = {}
  /\ protocols = {}
  /\ counter = 0
  /\ reported = [c \in Connections |-> [w \in Workspaces |-> NoSize]]
  /\ role = [w \in Workspaces |-> [c \in Connections |-> "Unattached"]]
  /\ inMap = Workspaces
  /\ hasPty = Workspaces
  /\ pty = [w \in Workspaces |-> InitialSize]
  /\ recorded = [w \in Workspaces |-> InitialSize]
  /\ disturbed = [w \in Workspaces |-> {}]

-----------------------------------------------------------------------------
(* Accepting a connection and the handshake                                 *)

\* Faulty variant: one client too many.
AcceptOneMore(c) ==
  /\ task[c].at = "out"
  /\ Goes(c, At(IF Cardinality(Running) <= MaxClients THEN "accepted" ELSE "rejected"))
  /\ UNCHANGED <<registry, sizes, world>>

\* The semaphore's permit lives as long as the task.
Accept(c) ==
  /\ task[c].at = "out"
  /\ Goes(c, At(IF Cardinality(Running) < MaxClients THEN "accepted" ELSE "rejected"))
  /\ UNCHANGED <<registry, sizes, world>>

\* The client is counted and its senders are in the maps before it has said anything.
List(c) ==
  /\ task[c].at = "accepted"
  /\ Goes(c, At("listed"))
  /\ counter' = counter + 1
  /\ senders' = senders \cup {c}
  /\ UNCHANGED <<protocols, sizes, world>>

\* It hangs up before its first frame.
Probe(c) ==
  /\ task[c].at = "listed"
  /\ Goes(c, At("ended"))
  /\ counter' = counter - 1
  /\ senders' = senders \ {c}
  /\ UNCHANGED <<protocols, sizes, world>>

\* The first frame cannot be read, the handshake fails or its answer cannot be sent: the error
\* leaves handle_client at once.
HandshakeFails(c) ==
  /\ task[c].at = "listed"
  /\ Goes(c, At("failed"))
  /\ UNCHANGED <<registry, sizes, world>>

\* A first frame that is no ClientHello.
Stranger(c) ==
  /\ task[c].at = "listed"
  /\ Goes(c, At("closing"))
  /\ UNCHANGED <<registry, sizes, world>>

\* ServerHello is sent; the protocol is registered in a step of its own.
Greet(c) ==
  /\ task[c].at = "listed"
  /\ Goes(c, At("greeted"))
  /\ UNCHANGED <<registry, sizes, world>>

RegisterProtocol(c) ==
  /\ task[c].at = "greeted"
  /\ Goes(c, At("ready"))
  /\ protocols' = protocols \cup {c}
  /\ UNCHANGED <<senders, counter, sizes, world>>

-----------------------------------------------------------------------------
(* Requests                                                                 *)

Ready(c) == task[c].at = "ready"
Attached(w) == {c \in Connections : role[w][c] # "Unattached"}
Writers(w) == {c \in Connections : role[w][c] = "Writer"}
HasWriteAccess(c, w) ==
  c \in Writers(w) \/ (c \notin Attached(w) /\ Writers(w) = {})

\* AttachWorkspace, unless another client holds the lease and is not to be replaced.
Attach(c, w) ==
  /\ Ready(c)
  /\ w \in inMap
  /\ \/ role' = [role EXCEPT ![w][c] = "Reader"]
     \/ Writers(w) \subseteq {c} /\ role' = [role EXCEPT ![w][c] = "Writer"]
  /\ UNCHANGED <<task, registry, sizes, inMap, hasPty>>

TakeOver(c, w) ==
  /\ Ready(c)
  /\ w \in inMap
  /\ Writers(w) \ {c} # {}
  /\ role' = [role EXCEPT ![w] = [d \in Connections |->
                IF d = c THEN "Writer" ELSE IF @[d] = "Writer" THEN "Reader" ELSE @[d]]]
  /\ UNCHANGED <<task, registry, sizes, inMap, hasPty>>

\* The client's reports stay.
Detach(c, w) ==
  /\ Ready(c)
  /\ c \in Attached(w)
  /\ role' = [role EXCEPT ![w][c] = "Unattached"]
  /\ UNCHANGED <<task, registry, sizes, inMap, hasPty>>

Terminate(c, w) ==
  /\ Ready(c)
  /\ w \in inMap
  /\ HasWriteAccess(c, w) \/ Writers(w) = {}
  /\ inMap' = inMap \ {w}
  /\ hasPty' = hasPty \ {w}
  /\ UNCHANGED <<task, registry, sizes, role>>

-----------------------------------------------------------------------------
(* Pane sizes                                                               *)

\* min_client_pane_size: zeros do not count; none unless both axes have a size.
Axis(w, rep, i) == {rep[c][w][i] : c \in {d \in Connections : rep[d][w] # NoSize}} \ {0}
Least(S) == CHOOSE n \in S : \A m \in S : n <= m
MinSize(w, rep) ==
  IF Axis(w, rep, 1) = {} \/ Axis(w, rep, 2) = {} THEN NoSize
  ELSE <<Least(Axis(w, rep, 1)), Least(Axis(w, rep, 2))>>

\* Tasks that are about to set a size of the pane of w.
Setting(w) == {c \in Connections : task[c].at \in Applying /\ task[c].ws = w}

\* What another size of the pane of w that is now on its way leaves to say of it.
Disturb(w, why) ==
  disturbed' = [disturbed EXCEPT ![w] = IF Setting(w) = {} THEN why ELSE @ \cup why \cup {"crossed"}]

\* Faulty variant: the minimum is taken before the report is recorded.
ReportSizeLate(c, w) ==
  \E s \in Sizes :
    /\ Ready(c)
    /\ w \in inMap
    /\ c \in Attached(w)
    /\ reported' = [reported EXCEPT ![c][w] = s]
    /\ LET size == MinSize(w, reported) IN
         IF size # NoSize /\ w \in hasPty
         THEN Goes(c, Carrying("report", w, size)) /\ Disturb(w, {})
         ELSE UNCHANGED <<task, disturbed>>
    /\ UNCHANGED <<registry, pty, recorded, world>>

\* First phase of ReportClientSize, under the server mutex.
ReportSize(c, w) ==
  \E s \in Sizes :
    /\ Ready(c)
    /\ w \in inMap
    /\ c \in Attached(w)
    /\ reported' = [reported EXCEPT ![c][w] = s]
    /\ LET size == MinSize(w, reported') IN
         IF size # NoSize /\ w \in hasPty
         THEN Goes(c, Carrying("report", w, size)) /\ Disturb(w, {})
         ELSE UNCHANGED <<task, disturbed>>
    /\ UNCHANGED <<registry, pty, recorded, world>>

\* ResizePane, up to its check of the lease.
AskResize(c, w) ==
  \E s \in Sizes :
    /\ Ready(c)
    /\ w \in inMap \cap hasPty
    /\ HasWriteAccess(c, w)
    /\ Usable(s)
    /\ Goes(c, Carrying("resize", w, s))
    /\ Disturb(w, {"resized"})
    /\ UNCHANGED <<registry, reported, pty, recorded, world>>

\* Both set the PTY's size under the writer's mutex,
SetPty(c) ==
  LET t == task[c] IN
  /\ t.at \in {"report", "resize"}
  /\ pty' = [pty EXCEPT ![t.ws] = t.size]
  /\ Goes(c, Carrying(IF t.at = "report" THEN "reporting" ELSE "resizing", t.ws, t.size))
  /\ UNCHANGED <<registry, reported, recorded, disturbed, world>>

\* Faulty variant: a resize looks at the lease again, after it has set the PTY.
RecordIfWriter(c) ==
  LET t == task[c] IN
  /\ t.at \in {"reporting", "resizing"}
  /\ recorded' = IF HasWriteAccess(c, t.ws) THEN [recorded EXCEPT ![t.ws] = t.size] ELSE recorded
  /\ Goes(c, At("ready"))
  /\ UNCHANGED <<registry, reported, pty, disturbed, world>>

\* and then record it with the workspace, which a report looks up again.
Record(c) ==
  LET t == task[c] IN
  /\ t.at \in {"reporting", "resizing"}
  /\ recorded' = IF t.at = "resizing" \/ t.ws \in inMap
                 THEN [recorded EXCEPT ![t.ws] = t.size] ELSE recorded
  /\ Goes(c, At("ready"))
  /\ UNCHANGED <<registry, reported, pty, disturbed, world>>

\* The shell of a pane has ended: its PTY is released.
ShellExits(w) ==
  /\ w \in hasPty
  /\ hasPty' = hasPty \ {w}
  /\ UNCHANGED <<task, registry, sizes, role, inMap>>

-----------------------------------------------------------------------------
(* The end of a connection                                                  *)

\* End of file, an error, a Shutdown request, or the writer task is gone.
HangUp(c) ==
  /\ Ready(c)
  /\ Goes(c, [At("closing") EXCEPT !.todo = Workspaces])
  /\ UNCHANGED <<registry, sizes, world>>

Forget(c) ==
  /\ task[c].at = "closing"
  /\ senders' = senders \ {c}
  /\ protocols' = protocols \ {c}
  /\ reported' = [reported EXCEPT ![c] = [w \in Workspaces |-> NoSize]]
  /\ disturbed' = [w \in Workspaces |->
                     disturbed[w] \cup IF reported[c][w] = NoSize THEN {} ELSE {"dropped"}]
  /\ UNCHANGED <<counter, pty, recorded, world>>

\* Faulty variant: only the workspaces the client writes to are left.
CleanUpWritten(c) ==
  /\ Forget(c)
  /\ Goes(c, [At("leaving") EXCEPT !.todo = {w \in task[c].todo \cap inMap : c \in Writers(w)}])

\* Under the server mutex the client is removed from its maps and, if it had shaken hands, the
\* workspaces there are are listed. The minimum of the sizes is not taken again.
CleanUp(c) ==
  /\ Forget(c)
  /\ Goes(c, [At("leaving") EXCEPT !.todo = task[c].todo \cap inMap])

\* It is detached from them one by one.
Leave(c, w) ==
  /\ task[c].at = "leaving"
  /\ w \in task[c].todo
  /\ role' = [role EXCEPT ![w][c] = "Unattached"]
  /\ task' = [task EXCEPT ![c].todo = @ \ {w}]
  /\ UNCHANGED <<registry, sizes, inMap, hasPty>>

End(c) ==
  /\ task[c].at = "leaving"
  /\ task[c].todo = {}
  /\ Goes(c, At("ended"))
  /\ counter' = counter - 1
  /\ UNCHANGED <<senders, protocols, sizes, world>>

-----------------------------------------------------------------------------
Handshake(c) ==
  Accept(c) \/ List(c) \/ Probe(c) \/ HandshakeFails(c) \/ Stranger(c) \/ Greet(c)
    \/ RegisterProtocol(c)
Requests(c, w) ==
  Attach(c, w) \/ TakeOver(c, w) \/ Detach(c, w) \/ Terminate(c, w)
    \/ ReportSize(c, w) \/ AskResize(c, w)
Closing(c) == HangUp(c) \/ CleanUp(c) \/ End(c) \/ \E w \in Workspaces : Leave(c, w)

Next ==
  \/ \E c \in Connections : Handshake(c) \/ SetPty(c) \/ Record(c) \/ Closing(c)
  \/ \E c \in Connections, w \in Workspaces : Requests(c, w)
  \/ \E w \in Workspaces : ShellExits(w)

Spec == Init /\ [][Next]_vars

-----------------------------------------------------------------------------
\* The tables are well formed, and no more clients are served than there are permits.
TypeOK ==
  /\ task \in [Connections -> Task]
  /\ senders \subseteq Connections
  /\ protocols \subseteq senders
  /\ counter \in Nat
  /\ reported \in [Connections -> [Workspaces -> Sizes \cup {NoSize}]]
  /\ role \in [Workspaces -> [Connections -> {"Unattached", "Reader", "Writer"}]]
  /\ hasPty \subseteq inMap /\ inMap \subseteq Workspaces
  /\ pty \in [Workspaces -> Dimensions]
  /\ recorded \in [Workspaces -> Dimensions]
  /\ disturbed \in [Workspaces -> SUBSET {"crossed", "resized", "dropped"}]
  /\ Cardinality(Running) <= MaxClients

\* A connection that is over leaves nothing in the daemon: no lease, no attachment to a workspace
\* that still exists, no protocol, no size. Its senders and its place in connected_clients stay
\* only when the connection failed in its first frame or its handshake (server.rs:2846, 2859).
LeavesNoTrace ==
  LET over == {c \in Connections : task[c].at \in {"ended", "failed"}}
      failed == {c \in Connections : task[c].at = "failed"}
  IN
  /\ \A c \in over :
       /\ \A w \in inMap : c \notin Attached(w)
       /\ \A w \in Workspaces : reported[c][w] = NoSize
       /\ c \notin protocols
       /\ c \in senders => c \in failed
  /\ counter = Cardinality({c \in Running : task[c].at # "accepted"} \cup failed)

\* Once nobody is setting it, the size the daemon records for a pane is the size of its PTY, unless
\* two clients set it at the same time: each sets first the one and then the other, under two
\* mutexes (server.rs:1670-1682, 2024-2039).
SizesAgree ==
  \A w \in inMap : Setting(w) = {} /\ "crossed" \notin disturbed[w] => pty[w] = recorded[w]

\* A pane is as large as the smallest of what its attached clients reported, on each axis
\* (RFC-031 section 4, protocol.rs:180-198). It need not be after a ResizePane, after reports that
\* crossed, or after the end of a client that had reported: the minimum is not taken again
\* (server.rs:2891). A client that detached and is still connected counts as well.
SizeIsMinimum ==
  \A w \in inMap \cap hasPty :
    LET clients == {c \in Attached(w) : reported[c][w] # NoSize}
        detached == {c \in Connections \ Attached(w) : reported[c][w] # NoSize}
    IN
    /\ Setting(w) = {}
    /\ disturbed[w] = {}
    /\ detached = {}
    /\ \E c \in clients : Usable(reported[c][w])
    => \A i \in {1, 2} :
         /\ \A c \in clients : reported[c][w][i] > 0 => recorded[w][i] <= reported[c][w][i]
         /\ \E c \in clients : recorded[w][i] = reported[c][w][i]
=============================================================================
