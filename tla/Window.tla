------------------------------- MODULE Window -------------------------------
(****************************************************************************)
(* The window of the client: the workspaces it shows (WindowState), the      *)
(* widgets of their panes, the index from daemon panes to terminals, what it *)
(* saves and loads, the operations of the user and the events of the         *)
(* endpoint actor (reconcile_endpoint_event), with as much of the actor and  *)
(* of the daemon as produces those events in the order they come.            *)
(*                                                                           *)
(* One endpoint, one client. A terminal is a number: the client mints one    *)
(* for a new or split pane, and replaces it by the number the daemon minted  *)
(* when PaneCreated says so. A layout, of the client or the daemon, is the   *)
(* sequence of its leaves (LeafOrder). One batch of output per pane is       *)
(* followed into the widget that shows it. A command of the actor and the    *)
(* daemon's answer are one step: Endpoint has the life of the connection,    *)
(* OutputStream that of the output, Workspace the lease. Left out: names,    *)
(* colours, focus, working directories, input.                               *)
(****************************************************************************)
EXTENDS Naturals, FiniteSetsExt, Functions, LeafOrder

CONSTANTS
  MaxWorkspaces,  \* bound on the workspaces the user adds
  MaxRuntimes,    \* bound on the runtimes the daemon creates
  MaxTerminals,   \* bound on the terminals minted by the client and the daemon: the first two are there
  MaxActors,      \* bound on the actors of the endpoint: 1 + resets
  MaxSpent,       \* bound on the user's operations, broken connections, failed attempts,
                  \* refusals and restarts together
  MaxOutput       \* bound on the panes that print

ASSUME WindowBounds ==
  /\ {MaxWorkspaces, MaxRuntimes, MaxTerminals, MaxActors} \subseteq Nat \ {0}
  /\ {MaxSpent, MaxOutput} \subseteq Nat
  /\ MaxTerminals > 1

VARIABLES
  life,        \* of the client process: "up", "leaving" (closed, still running), "off"
  workspaces,  \* state.workspaces that are managed, by their uuid
  direct,      \* a workspace without a daemon is shown too
  dismissed,   \* state.dismissed_runtime_ids
  index,       \* the panes state.pane_reverse_index knows
  widgets,     \* the terminals persistent_terminals has a widget for
  shown,       \* the ones whose widget was fed the output of their pane
  connecting,  \* pending_connect_existing
  offer,       \* the runtimes the connect dialog offers
  saved,       \* what is on disk
  actors,      \* the endpoint's actors, the last one in use
  events,      \* the event channel
  runtimes,    \* the daemon: the panes of each runtime it has
  printed,     \* the panes that have printed
  attached,    \* the daemon: <<i, r>> if runtime r has the connection of actor i among its attached_clients
  minted,      \* counters: workspaces, runtimes, terminals
  spent,       \* counter: operations, faults
  local,       \* history: terminals the client minted, or kept when it came to another or an empty runtime
  unplaced,    \* history: <<w, p>> if workspace w was shown when pane p was told of, and was not given it
  stuck,       \* history: terminals whose pane was closed and that a layout keeps
  unfed,       \* history: terminals whose widget missed the output, or was taken with it
  unheard,     \* history: panes that printed when no connection was attached, and no snapshot was sent since
  severed,     \* history: <<i, r>> if the daemon detached the connection of actor i from r, or refused to
               \* attach it again
  bare,        \* history: terminals a layout kept when their widget was removed
  late,        \* history: workspaces last told of by an actor that does not track them
  owner,       \* history: the workspace each runtime was created for
  ended,       \* history: workspaces the user closed
  closed,      \* history: runtimes the user closed
  unsaved,     \* history: the ones closed since the state was saved
  crashed,     \* history: the ones a crash made the client forget
  forgiven     \* history: the ones it never knew, dropped by itself, or closed in one workspace
               \* while it waited to hear of them for another

screen  == <<workspaces, direct, dismissed, index, widgets, shown>>
dialog  == <<connecting, offer>>
aside   == <<dialog, late>>
hearing == <<attached, severed, unheard>>
daemon  == <<runtimes, printed, hearing>>
panes   == <<local, unplaced, stuck, unfed, bare>>
fate    == <<owner, ended, closed, unsaved, crashed, forgiven>>
vars    == <<life, screen, aside, saved, actors, events, daemon, minted, spent, panes, fate>>

None == 0
Runtimes == 1..MaxRuntimes
Terminals == 1..MaxTerminals
Recovered(r) == MaxWorkspaces + r           \* inventory_workspace_id
Ids == 1..(MaxWorkspaces + MaxRuntimes)
Statuses == {"waiting", "live", "blocked", "missing"}

Shown(ws)   == UNION {ToSet(ws[w].layout) : w \in DOMAIN ws}
Bound(ws)   == {ws[w].runtime : w \in DOMAIN ws} \ {None}
Count       == Cardinality(DOMAIN workspaces) + (IF direct THEN 1 ELSE 0)

Workspace(layout, r) == [layout |-> layout, runtime |-> r, zoom |-> None, status |-> "waiting"]

\* What save_state writes: neither the zoom nor the connection.
Record(ws, dir, dis) ==
  [workspaces |-> [w \in DOMAIN ws |-> Workspace(ws[w].layout, ws[w].runtime)],
   direct |-> dir, dismissed |-> dis]

Without(ws, gone) == Restrict(ws, DOMAIN ws \ gone)
With(f, x, y) == [z \in DOMAIN f \cup {x} |-> IF z = x THEN y ELSE f[z]]
Only(x, y) == [z \in {x} |-> y]
\* The sequence of the members of a set of numbers, the smallest first.
Ordered(S) == [n \in 1..Cardinality(S) |-> CHOOSE x \in S : Cardinality({y \in S : y <= x}) = n]

\* The first terminal of a workspace is the placeholder of a pane to create.
Command(kind, w, r, at, new) == [kind |-> kind, ws |-> w, runtime |-> r, at |-> at, new |-> new]
Open(ws, w) == Command("open", w, ws[w].runtime, Head(ws[w].layout), None)
Opens(ws, ids) == [n \in DOMAIN Ordered(ids) |-> Open(ws, Ordered(ids)[n])]

Fresh == [queue |-> <<>>, tracked |-> <<>>, link |-> "none"]
Ended == [queue |-> <<>>, tracked |-> <<>>, link |-> "ended"]
Send(commands) == actors' = [actors EXCEPT ![Len(actors)].queue = @ \o commands]

Event(kind, w) == [kind |-> kind, from |-> None, ws |-> w, runtime |-> None, at |-> None, pane |-> None,
                   panes |-> <<>>, prints |-> {}, status |-> "", stock |-> <<>>]
Changed(w, status) == [Event("status", w) EXCEPT !.status = status]
Delta(p) == [Event("delta", None) EXCEPT !.pane = p]
Opened(w, r, leaves, status) ==
  [Event("opened", w) EXCEPT !.runtime = r, !.panes = leaves, !.prints = printed \cap ToSet(leaves),
                             !.status = status]
Created(c, p) ==
  [Event("created", c.ws) EXCEPT !.runtime = c.runtime, !.at = c.new, !.pane = p, !.status = "live"]
Emit(i, list) == events' = IF life = "up" THEN events \o [n \in DOMAIN list |-> [list[n] EXCEPT !.from = i]]
                           ELSE events

Mint(kind) == /\ minted[kind] < [workspaces |-> MaxWorkspaces, runtimes |-> MaxRuntimes,
                                 terminals |-> MaxTerminals][kind]
              /\ minted' = [minted EXCEPT ![kind] = @ + 1]
Newest(kind) == minted[kind] + 1
Spend == spent < MaxSpent /\ spent' = spent + 1

\* The tables are well formed: a layout is never empty nor has a leaf twice, widgets are of known
\* terminals, and an actor that was replaced has ended or only works off its queue
\* (workspace_state.rs:121-165, daemon_bridge.rs:298).
TypeOK ==
  /\ life \in {"up", "leaving", "off"}
  /\ DOMAIN workspaces \subseteq Ids
  /\ \A w \in DOMAIN workspaces :
       /\ workspaces[w].layout \in Seq(Terminals) \ {<<>>}
       /\ Cardinality(ToSet(workspaces[w].layout)) = Len(workspaces[w].layout)
       /\ workspaces[w].runtime \in Runtimes \cup {None}
       /\ workspaces[w].zoom \in Terminals \cup {None}
       /\ workspaces[w].status \in Statuses
  /\ direct \in BOOLEAN /\ connecting \in BOOLEAN
  /\ dismissed \cup offer \cup DOMAIN runtimes \subseteq Runtimes
  /\ index \cup widgets \cup printed \subseteq Terminals
  /\ unheard \subseteq printed
  /\ attached \cup severed \subseteq (DOMAIN actors) \X Runtimes
  /\ shown \subseteq widgets
  /\ Len(actors) \in 1..MaxActors
  /\ \A i \in DOMAIN actors : /\ actors[i].link \in {"none", "up", "lost", "ended"}
                              /\ i < Len(actors) => actors[i].link = "ended" \/ actors[i].queue # <<>>
  /\ \A r \in DOMAIN runtimes : ToSet(runtimes[r]) \subseteq Terminals

-----------------------------------------------------------------------------
\* The screen

\* Faulty variant of Rebuilt: the widgets of leaves that are gone are kept.
RebuiltLeaky(ws, w, kept) == kept \cup (IF ws[w].zoom # None THEN {ws[w].zoom} ELSE ToSet(ws[w].layout))

\* rebuild_session_content: the widgets of the layout, or of the zoomed pane
\* alone, then remove_stale_terminal_map_entries.
Built(w) == IF w.zoom # None THEN {w.zoom} ELSE ToSet(w.layout)
Rebuilt(ws, w, kept) == (kept \cup Built(ws[w])) \cap Shown(ws)

\* A handler that removes the widgets of some terminals removes them for every workspace.
DrawWithout(removed, ws, kept) ==
  /\ workspaces' = ws /\ widgets' = kept /\ shown' = shown \cap kept
  /\ bare' = ((bare \cup removed) \cap Shown(ws)) \ kept

Draw(ws, kept) == DrawWithout({}, ws, kept)

\* Terminals that stay, of which the widget and with it the output is removed.
Taken(removed, ws) == removed \cap shown \cap Shown(ws)

\* save_state, as long as a start may follow that reads it.
Save(ws, dir, dis) ==
  IF spent < MaxSpent THEN saved' = Record(ws, dir, dis) /\ unsaved' = {}
  ELSE UNCHANGED <<saved, unsaved>>

\* split_terminal_with_new_uuid, remove_terminal, replace_terminal_uuid
SplitLayout(layout, t, new) == SplitLeaf(layout, t, new)
RemoveLeaf(layout, t) == IF t \in ToSet(layout) THEN CloseLeaf(layout, t) ELSE layout
RenameLeaf(layout, t, new) == [n \in DOMAIN layout |-> IF layout[n] = t THEN new ELSE layout[n]]

-----------------------------------------------------------------------------
\* The user

Asks == life = "up" /\ Spend

AddWorkspace ==
  LET w == Newest("workspaces")
      t == Newest("terminals")
      ws == With(workspaces, w, Workspace(<<t>>, None))
  IN /\ Asks
     /\ w <= MaxWorkspaces /\ t <= MaxTerminals
     /\ minted' = [minted EXCEPT !.workspaces = w, !.terminals = t]
     /\ local' = local \cup {t}
     /\ Draw(ws, widgets \cup {t})
     /\ Send(<<Open(ws, w)>>)
     /\ UNCHANGED <<life, direct, dismissed, index, aside, saved, events, daemon, unplaced, stuck, unfed, fate>>

\* split_terminal: the layout is split at once, the pane follows if there is a runtime.
SplitTerminal(w, t) ==
  LET new == Newest("terminals")
      ws == [workspaces EXCEPT ![w].zoom = None, ![w].layout = SplitLayout(@, t, new)]
  IN /\ Asks
     /\ Mint("terminals")
     /\ local' = local \cup {new}
     /\ Draw(ws, Rebuilt(ws, w, widgets))
     /\ IF ws[w].runtime = None THEN UNCHANGED actors
        ELSE Send(<<Command("split", w, ws[w].runtime, t, new)>>)
     /\ UNCHANGED <<life, direct, dismissed, index, aside, saved, events, daemon, unplaced, stuck, unfed, fate>>

\* close_terminal of one of several panes.
ClosePaneOf(w, t) ==
  LET unzoomed == [workspaces EXCEPT ![w].zoom = None]
      ws == IF unzoomed[w].runtime # None THEN unzoomed
            ELSE [unzoomed EXCEPT ![w].layout = RemoveLeaf(@, t)]
  IN /\ Asks
     /\ Len(workspaces[w].layout) > 1
     /\ Draw(ws, IF ws = workspaces THEN widgets ELSE Rebuilt(ws, w, widgets))
     /\ IF ws[w].runtime = None THEN UNCHANGED actors
        ELSE Send(<<Command("close", w, ws[w].runtime, t, None)>>)
     /\ UNCHANGED <<life, direct, dismissed, index, aside, saved, events, daemon, minted,
                    local, unplaced, stuck, unfed, fate>>

\* The commands of close_session for each workspace: its runtime, if it has one, is terminated in
\* turn 2w, the workspace is forgotten in turn 2w + 1.
Farewell(gone) ==
  LET turns == Ordered({2 * w : w \in {v \in gone : workspaces[v].runtime # None}}
                         \cup {2 * w + 1 : w \in gone})
      Turn(n) == LET w == n \div 2
                 IN IF n = 2 * w THEN Command("terminate", w, workspaces[w].runtime, None, None)
                    ELSE Command("forget", w, None, None, None)
  IN [n \in DOMAIN turns |-> Turn(turns[n])]

\* What becomes of their runtimes.
Made(w) == {r \in DOMAIN owner : owner[r] = w}

\* A workspace may still be told, by an actor that has no use for it any more, that it is in r.
Awaited(w, r) ==
  \/ \E n \in DOMAIN events : /\ events[n].kind \in {"opened", "created"}
                             /\ events[n].ws = w /\ events[n].runtime = r
  \/ \E i \in DOMAIN actors :
       \/ \E n \in DOMAIN actors[i].queue : /\ actors[i].queue[n].kind \in {"open", "create", "split"}
                                          /\ actors[i].queue[n].ws = w /\ actors[i].queue[n].runtime = r
       \/ w \in DOMAIN actors[i].tracked /\ actors[i].tracked[w] = r

EndWorkspaces(gone) ==
  LET bound == {workspaces[w].runtime : w \in gone} \ {None}
      early == UNION {Made(w) : w \in {v \in gone : workspaces[v].runtime = None}}
      left == bound \ Bound(Without(workspaces, gone))
  IN /\ dismissed' = dismissed \cup bound
     /\ ended' = ended \cup gone
     /\ closed' = closed \cup early \cup left
     /\ forgiven' = forgiven \cup early
                      \cup {r \in left : \E v \in DOMAIN workspaces \ gone : Awaited(v, r)}
     /\ index' = Shown(Without(workspaces, gone))
     /\ Send(Farewell(gone))
     /\ UNCHANGED <<owner, crashed>>

CloseSession(w) ==
  LET ws == Without(workspaces, {w})
  IN /\ Asks
     /\ EndWorkspaces({w})
     /\ IF Count > 1
        THEN /\ DrawWithout(ToSet(workspaces[w].layout), ws, widgets \ ToSet(workspaces[w].layout))
             /\ unfed' = unfed \cup Taken(ToSet(workspaces[w].layout), ws)
             /\ unsaved' = unsaved \cup (closed' \ closed)
             /\ UNCHANGED <<life, events, saved>>
        ELSE /\ Draw(ws, widgets)                                \* the window closes
             /\ life' = "leaving" /\ events' = <<>>
             /\ Save(ws, direct, dismissed')
             /\ UNCHANGED unfed
     /\ UNCHANGED <<direct, aside, daemon, minted, local, unplaced, stuck>>

CloseAllSessions ==
  /\ Asks
  /\ DOMAIN workspaces # {}
  /\ EndWorkspaces(DOMAIN workspaces)
  /\ Draw(<<>>, {})
  /\ direct' = TRUE
  /\ unsaved' = unsaved \cup (closed' \ closed)
  /\ UNCHANGED <<life, events, saved, aside, daemon, minted, local, unplaced, stuck, unfed>>

CloseDirect ==
  /\ Asks
  /\ direct /\ Count > 1
  /\ direct' = FALSE
  /\ UNCHANGED <<life, workspaces, dismissed, index, widgets, shown, aside, saved, actors, events,
                 daemon, minted, panes, fate>>

DetachRuntime(w) ==
  LET ws == Without(workspaces, {w})
      r == workspaces[w].runtime
  IN /\ Asks
     /\ Count > 1
     /\ DrawWithout(ToSet(workspaces[w].layout), ws, widgets \ ToSet(workspaces[w].layout))
     /\ unfed' = unfed \cup Taken(ToSet(workspaces[w].layout), ws)
     /\ index' = Shown(ws)
     /\ IF r = None THEN UNCHANGED actors
        ELSE Send(<<Command("detach", w, r, None, None), Command("forget", w, None, None, None)>>)
     /\ UNCHANGED <<life, direct, dismissed, aside, saved, events, daemon, minted, local, unplaced, stuck, fate>>

TogglePaneZoom(w, t) ==
  LET ws == [workspaces EXCEPT ![w].zoom = IF @ = None THEN t ELSE None]
  IN /\ Asks
     /\ workspaces[w].zoom # None \/ Len(workspaces[w].layout) > 1
     /\ Draw(ws, Rebuilt(ws, w, widgets))
     /\ UNCHANGED <<life, direct, dismissed, index, aside, saved, actors, events, daemon, minted,
                    local, unplaced, stuck, unfed, fate>>

\* retry_workspace_connection of a workspace-scoped problem.
RetryWorkspace(w) ==
  /\ Asks
  /\ workspaces[w].status = "blocked"
  /\ workspaces' = [workspaces EXCEPT ![w].status = "waiting"]
  /\ Send(<<Open(workspaces, w)>>)
  /\ UNCHANGED <<life, direct, dismissed, index, widgets, shown, aside, saved, events, daemon,
                 minted, panes, fate>>

\* Faulty variant of Reconnected: the workspace the user retries alone.
ReconnectedAlone(ws, w) == {w}

\* retry_all_workspaces_for_endpoint: a fresh actor, and every workspace of the endpoint.
Reconnected(ws, w) == DOMAIN ws

RetryEndpoint(w) ==
  /\ Asks
  /\ workspaces[w].status = "waiting"
  /\ Len(actors) < MaxActors
  /\ workspaces' = [v \in DOMAIN workspaces |->
                      IF v \in Reconnected(workspaces, w) THEN [workspaces[v] EXCEPT !.status = "waiting"]
                      ELSE workspaces[v]]
  /\ actors' = Append([actors EXCEPT ![Len(actors)].queue = Append(@, Command("shutdown", None, None, None, None))],
                      [Fresh EXCEPT !.queue = Opens(workspaces, Reconnected(workspaces, w))])
  /\ UNCHANGED <<life, direct, dismissed, index, widgets, shown, aside, saved, events, daemon,
                 minted, panes, fate>>

ConnectExisting ==
  /\ Asks
  /\ connecting' = TRUE
  /\ Send(<<Command("inventory", None, None, None, None)>>)
  /\ UNCHANGED <<life, screen, offer, late, saved, events, daemon, minted, panes, fate>>

\* The dialog closes, with a click on one of the runtimes it offers or without.
AttachToExistingRuntime(r) ==
  LET w == Newest("workspaces")
      t == Newest("terminals")
      ws == With(workspaces, w, Workspace(<<t>>, r))
  IN /\ Asks
     /\ w <= MaxWorkspaces /\ t <= MaxTerminals
     /\ minted' = [minted EXCEPT !.workspaces = w, !.terminals = t]
     /\ local' = local \cup {t}
     /\ Draw(ws, widgets \cup {t})
     /\ offer' = {}
     /\ Send(<<Open(ws, w)>>)
     /\ owner' = [owner EXCEPT ![r] = w]
     /\ closed' = closed \ {r}
     /\ UNCHANGED <<life, direct, dismissed, index, connecting, late, saved, events, daemon, unplaced, stuck, unfed,
                    ended, unsaved, crashed, forgiven>>

DismissDialog ==
  /\ life = "up" /\ offer # {}
  /\ offer' = {}
  /\ UNCHANGED <<life, screen, connecting, late, saved, actors, events, daemon, minted, spent, panes, fate>>

UserActs ==
  \/ AddWorkspace \/ CloseAllSessions \/ CloseDirect \/ ConnectExisting \/ DismissDialog
  \/ \E r \in offer : AttachToExistingRuntime(r)
  \/ \E w \in DOMAIN workspaces :
       \/ CloseSession(w) \/ DetachRuntime(w) \/ RetryWorkspace(w) \/ RetryEndpoint(w)
       \/ \E t \in ToSet(workspaces[w].layout) :
            SplitTerminal(w, t) \/ ClosePaneOf(w, t) \/ TogglePaneZoom(w, t)

-----------------------------------------------------------------------------
\* The endpoint actor and the daemon

untouched == <<life, screen, aside, saved>>

\* What the daemon sends of a pane goes to the connections that are attached to its runtime. An attach
\* sends a snapshot, which has what was printed before; a connection that ends is detached. One that
\* was replaced may be cleaned up later: until then it can hold the lease (CommandRefused, Reattach).
Viewers(r) == {i \in DOMAIN actors : <<i, r>> \in attached}
Deltas(r, p) == [n \in 1..Cardinality(Viewers(r)) |-> Delta(p)]
Unheard(r, ps) == unheard' = unheard \cup (IF Viewers(r) = {} THEN ps ELSE {})
PanesAt(rs) == UNION {ToSet(runtimes[r]) : r \in rs \cap DOMAIN runtimes}
Attach(i, rs, refused) ==
  /\ attached' = attached \cup ({i} \X rs)
  /\ severed' = (severed \cup ({i} \X refused)) \ ({i} \X rs)
  /\ unheard' = unheard \ PanesAt(rs)
Disconnect(i) ==
  /\ attached' = {x \in attached : x[1] # i} /\ severed' = {x \in severed : x[1] # i}

Takes(i, kind) == life # "off" /\ actors[i].queue # <<>> /\ Head(actors[i].queue).kind = kind
Connects(i)    == actors[i].link \in {"none", "up"}
Done(i, link, tracked, more) ==
  actors' = [actors EXCEPT ![i] = [queue |-> Tail(@.queue) \o more, tracked |-> tracked, link |-> link]]

\* OpenWorkspace: attach to the runtime, or create it, and ask for its first pane.
OpenRuntime(i) ==
  LET c == Head(actors[i].queue)
      created == c.runtime = None
      r == IF created THEN Newest("runtimes") ELSE c.runtime
      leaves == IF created THEN <<>> ELSE runtimes[r]
      first == IF leaves = <<>> THEN <<Command("create", c.ws, r, None, c.at)>> ELSE <<>>
  IN /\ Takes(i, "open") /\ Connects(i)
     /\ created \/ c.runtime \in DOMAIN runtimes
     /\ Done(i, "up", With(actors[i].tracked, c.ws, r), first)
     /\ Emit(i, <<Opened(c.ws, r, leaves, IF leaves # <<>> \/ actors[i].link = "none" THEN "live" ELSE "")>>)
     /\ IF created
        THEN /\ Mint("runtimes")
             /\ runtimes' = With(runtimes, r, <<>>)
             /\ owner' = With(owner, r, c.ws)
             /\ closed' = closed \cup (IF c.ws \in ended THEN {r} ELSE {})
             /\ forgiven' = forgiven \cup (IF c.ws \in ended THEN {r} ELSE {})
             /\ UNCHANGED <<ended, unsaved, crashed>>
        ELSE UNCHANGED <<minted, runtimes, fate>>
     /\ Attach(i, {r}, {})
     /\ UNCHANGED <<untouched, printed, spent, panes>>

\* CreatePane and SplitPane: the new pane may print before the answer is sent.
AddPane(i) ==
  \E kind \in {"create", "split"}, early \in BOOLEAN :
    LET c == Head(actors[i].queue)
        p == Newest("terminals")
        leaves == runtimes[c.runtime]
    IN /\ Takes(i, kind) /\ Connects(i)
       /\ c.runtime \in DOMAIN runtimes
       /\ kind = "split" => Contains(leaves, c.at)
       /\ early => Cardinality(printed) < MaxOutput
       /\ Mint("terminals")
       /\ runtimes' = [runtimes EXCEPT ![c.runtime] =
                         IF kind = "split" THEN SplitLeaf(leaves, c.at, p) ELSE Append(leaves, p)]
       /\ printed' = printed \cup (IF early THEN {p} ELSE {})
       /\ Done(i, "up", actors[i].tracked, <<>>)
       /\ Emit(IF c.ws \in DOMAIN actors[i].tracked THEN i ELSE None,
               (IF early THEN Deltas(c.runtime, p) ELSE <<>>) \o <<Created(c, p)>>)
       /\ Unheard(c.runtime, IF early THEN {p} ELSE {})
       /\ UNCHANGED <<untouched, attached, severed, spent, panes, fate>>

\* ClosePane: a pane that is gone counts as closed.
RemovePane(i) ==
  LET c == Head(actors[i].queue)
  IN /\ Takes(i, "close") /\ Connects(i)
     /\ c.runtime \in DOMAIN runtimes
     /\ runtimes' = [runtimes EXCEPT ![c.runtime] = RemoveLeaf(@, c.at)]
     /\ Done(i, "up", actors[i].tracked, <<>>)
     /\ Emit(i, <<[Event("closed", c.ws) EXCEPT !.runtime = c.runtime, !.at = c.at]>>)
     /\ UNCHANGED <<untouched, printed, hearing, minted, spent, panes, fate>>

\* detach_client: the connection is detached, for every workspace that shows the runtime; the actor
\* goes on to track the others. A runtime that is terminated takes its attached_clients with it.
Deaf(i, kind, r) ==
  /\ attached' = IF kind = "detach" THEN attached \ {<<i, r>>} ELSE {x \in attached : x[2] # r}
  /\ severed' = severed \cup (IF kind = "detach" THEN {<<i, r>>} ELSE {})
  /\ UNCHANGED unheard

\* DetachWorkspace and TerminateWorkspace.
LeaveRuntime(i) ==
  \E kind \in {"detach", "terminate"} :
    LET c == Head(actors[i].queue)
    IN /\ Takes(i, kind) /\ Connects(i)
       /\ c.runtime \in DOMAIN runtimes
       /\ runtimes' = IF kind = "detach" THEN runtimes ELSE Restrict(runtimes, DOMAIN runtimes \ {c.runtime})
       /\ Done(i, "up", Without(actors[i].tracked, {c.ws}), <<>>)
       /\ Emit(i, <<[Event(IF kind = "detach" THEN "detached" ELSE "terminated", c.ws) EXCEPT !.status = "waiting"]>>)
       /\ Deaf(i, kind, c.runtime)
       /\ UNCHANGED <<untouched, printed, minted, spent, panes, fate>>

\* The daemon refuses: the runtime is gone, the pane to split is, or another client has the lease
\* (AttachBlocked, client_has_write_access); only a detach needs none.
CommandRefused(i) ==
  LET c == Head(actors[i].queue)
      missing == c.runtime \notin DOMAIN runtimes
  IN /\ \E kind \in {"open", "create", "split", "close", "detach", "terminate"} : Takes(i, kind)
     /\ Connects(i)
     /\ c.runtime # None
     /\ \/ missing /\ UNCHANGED spent
        \/ ~missing /\ c.kind = "split" /\ ~Contains(runtimes[c.runtime], c.at) /\ UNCHANGED spent
        \/ ~missing /\ c.kind # "detach" /\ Spend
     /\ Done(i, "up", actors[i].tracked, <<>>)
     /\ Emit(i, <<Changed(c.ws, IF missing THEN "missing" ELSE "blocked")>>)
     /\ UNCHANGED <<untouched, daemon, minted, panes, fate>>

ForgetOrShutdown(i) ==
  /\ \E kind \in {"forget", "shutdown"} : Takes(i, kind)
  /\ IF Head(actors[i].queue).kind = "shutdown" THEN actors' = [actors EXCEPT ![i] = Ended]
     ELSE Done(i, actors[i].link, Without(actors[i].tracked, {Head(actors[i].queue).ws}), <<>>)
  /\ IF Head(actors[i].queue).kind = "shutdown" THEN Disconnect(i) ELSE UNCHANGED <<attached, severed>>
  /\ UNCHANGED <<untouched, events, runtimes, printed, unheard, minted, spent, panes, fate>>

RefreshInventory(i) ==
  /\ Takes(i, "inventory") /\ Connects(i)
  /\ Done(i, "up", actors[i].tracked, <<>>)
  /\ Emit(i, <<[Event("inventory", None) EXCEPT !.stock = runtimes]>>)
  /\ UNCHANGED <<untouched, daemon, minted, spent, panes, fate>>

\* The first command finds no daemon; the ones after it wait for a reconnect.
NoDaemon(i) ==
  /\ life # "off" /\ actors[i].queue # <<>>
  /\ Head(actors[i].queue).kind \notin {"forget", "shutdown"}
  /\ \/ actors[i].link = "lost" /\ UNCHANGED spent
     \/ actors[i].link = "none" /\ Spend
  /\ Done(i, "lost", actors[i].tracked, <<>>)
  /\ Emit(i, <<Changed(Head(actors[i].queue).ws, "waiting")>>)
  /\ UNCHANGED <<untouched, daemon, minted, panes, fate>>

\* handle_disconnect
Lost(i) == LET order == Ordered(DOMAIN actors[i].tracked)
           IN [n \in DOMAIN order |-> Changed(order[n], "waiting")]

LinkLost(i) ==
  /\ life # "off" /\ actors[i].link = "up"
  /\ Spend
  /\ actors' = [actors EXCEPT ![i].link = IF actors[i].tracked = <<>> THEN "none" ELSE "lost"]
  /\ Emit(i, Lost(i))
  /\ Disconnect(i)
  /\ UNCHANGED <<untouched, runtimes, printed, unheard, minted, panes, fate>>

\* Reconnect: what is tracked is attached again, in turn. A runtime that another client took, or of which
\* the old connection still has the lease, is refused: its workspace stays tracked.
Replies(i, ws, refused) ==
  LET order == Ordered(ws)
      Answer(w, r) == IF r \notin DOMAIN runtimes THEN Changed(w, "missing")
                      ELSE IF w \in refused THEN Changed(w, "blocked") ELSE Opened(w, r, runtimes[r], "live")
  IN [n \in DOMAIN order |-> Answer(order[n], actors[i].tracked[order[n]])]
Reached(i, ws) == {actors[i].tracked[w] : w \in ws} \cap DOMAIN runtimes
There(i) == {w \in DOMAIN actors[i].tracked : actors[i].tracked[w] \in DOMAIN runtimes}

Reattach(i) ==
  LET tracked == DOMAIN actors[i].tracked
  IN /\ life # "off" /\ actors[i].link = "lost" /\ tracked # {}
     /\ \E refused \in SUBSET There(i) :
          /\ IF refused = {} THEN UNCHANGED spent ELSE Spend
          /\ Emit(i, Replies(i, tracked, refused))
          /\ Attach(i, Reached(i, tracked \ refused), Reached(i, refused))
     /\ actors' = [actors EXCEPT ![i].link = "up"]
     /\ UNCHANGED <<untouched, runtimes, printed, minted, panes, fate>>

\* The new connection is lost, too, before all are answered: they wait for the next one.
ReattachFails(i) ==
  LET tracked == DOMAIN actors[i].tracked
  IN /\ life # "off" /\ actors[i].link = "lost" /\ Spend
     /\ \E answered \in (SUBSET tracked) \ {tracked} : \E refused \in SUBSET (answered \cap There(i)) :
          /\ Emit(i, Replies(i, answered, refused) \o Lost(i))
          /\ unheard' = unheard \ PanesAt(Reached(i, answered \ refused))
     /\ UNCHANGED <<untouched, actors, runtimes, printed, attached, severed, minted, panes, fate>>

\* A pane prints: a delta to every connection that is attached.
DaemonPrints(r, p) ==
  /\ p \notin printed /\ Cardinality(printed) < MaxOutput
  /\ printed' = printed \cup {p}
  /\ Emit(None, Deltas(r, p))
  /\ Unheard(r, {p})
  /\ UNCHANGED <<untouched, actors, runtimes, attached, severed, minted, spent, panes, fate>>

EndpointActs ==
  \/ \E i \in DOMAIN actors :
       \/ OpenRuntime(i) \/ AddPane(i) \/ RemovePane(i) \/ LeaveRuntime(i) \/ CommandRefused(i)
       \/ ForgetOrShutdown(i) \/ RefreshInventory(i) \/ NoDaemon(i) \/ LinkLost(i) \/ Reattach(i)
       \/ ReattachFails(i)
  \/ \E r \in DOMAIN runtimes : \E p \in ToSet(runtimes[r]) : DaemonPrints(r, p)

-----------------------------------------------------------------------------
\* The events (reconcile_endpoint_event, apply_endpoint_event_transition)

\* Faulty variant of Polled: output is fed first, whatever came before it.
PolledOutputFirst ==
  LET deltas == {n \in DOMAIN events : events[n].kind = "delta"}
  IN IF deltas = {} THEN 1 ELSE Min(deltas)

\* The poller takes the head of the channel: deltas are only moved within a run
\* of pushes, never past a barrier (is_output_ordering_barrier).
Polled == 1

Polls(kind) == life = "up" /\ events # <<>> /\ events[Polled].kind = kind /\ events' = RemoveAt(events, Polled)
Polling == events[Polled]

Tells(e) == late' = IF e.status = "" \/ e.ws \notin DOMAIN workspaces THEN late
                    ELSE IF e.from = Len(actors) THEN late \ {e.ws} ELSE late \cup {e.ws}
Told(ws, e) == IF e.status # "" /\ e.ws \in DOMAIN ws THEN [ws EXCEPT ![e.ws].status = e.status] ELSE ws

\* Faulty variant of Adopted: the client keeps the layout it has.
AdoptedNot(record, e) == [record EXCEPT !.runtime = e.runtime]

\* Faulty variant of Adopted: an empty tree is adopted like any other.
AdoptedEmpty(record, e) == [record EXCEPT !.runtime = e.runtime, !.layout = e.panes]

\* apply_managed_workspace_opened: the tree of the daemon, or the placeholder if it has none.
Adopted(record, e) ==
  [record EXCEPT !.runtime = e.runtime, !.layout = IF e.panes = <<>> THEN @ ELSE e.panes]

WorkspaceOpened ==
  LET e == Polling
      ws == [workspaces EXCEPT ![e.ws] = Adopted(@, e)]
      removed == ToSet(workspaces[e.ws].layout) \ ToSet(ws[e.ws].layout)
      kept == Rebuilt(ws, e.ws, widgets \ removed)
      restored == ToSet(e.panes) \cap kept
  IN /\ Polls("opened")
     /\ Tells(e)
     /\ IF e.ws \in DOMAIN workspaces
        THEN /\ workspaces' = Told(ws, e)
             /\ widgets' = kept
             /\ shown' = ((shown \cap kept) \ restored) \cup (restored \cap e.prints)
             /\ index' = Shown(ws)
             /\ unfed' = (unfed \ restored) \cup (e.prints \ restored) \cup Taken(removed, ws)
             /\ unplaced' = {x \in unplaced : x[1] # e.ws \/ x[2] \notin ToSet(e.panes)}
             /\ stuck' = stuck \cap Shown(ws)
             /\ bare' = ((bare \cup removed) \cap Shown(ws)) \ kept
             /\ local' = local \cup (IF e.panes = <<>> THEN ToSet(ws[e.ws].layout) ELSE {})
             /\ Save(ws, direct, dismissed)
        ELSE /\ unfed' = unfed \cup (e.prints \ shown)
             /\ UNCHANGED <<workspaces, widgets, shown, index, local, unplaced, stuck, bare, saved, unsaved>>
     /\ UNCHANGED <<life, direct, dismissed, dialog, actors, daemon, minted, spent,
                    owner, ended, closed, crashed, forgiven>>

\* apply_managed_pane_created, rekey_terminal_widgets
PaneCreated ==
  LET e == Polling
      known == e.ws \in DOMAIN workspaces /\ e.at \in ToSet(workspaces[e.ws].layout)
      moves == known /\ workspaces[e.ws].runtime # e.runtime
      Renamed(t) == IF t = e.at THEN e.pane ELSE t
      ws == [workspaces EXCEPT ![e.ws].runtime = e.runtime, ![e.ws].zoom = Renamed(@),
                               ![e.ws].layout = RenameLeaf(@, e.at, e.pane)]
  IN /\ Polls("created")
     /\ Tells(e)
     /\ IF known
        THEN /\ DrawWithout({e.at} \cup {Renamed(t) : t \in bare}, Told(ws, e),
                            {Renamed(t) : t \in widgets})
             /\ index' = Shown(ws)
             /\ stuck' = stuck \cap Shown(ws)
             /\ unfed' = unfed \cup ({e.pane} \cap printed)      \* it printed too early to be shown
                              \cup Taken({e.at}, ws)
        ELSE /\ workspaces' = Told(workspaces, e)
             /\ UNCHANGED <<widgets, shown, index, stuck, unfed, bare>>
     /\ unplaced' = unplaced \cup {<<w, e.pane>> : w \in DOMAIN workspaces \ (IF known THEN {e.ws} ELSE {})}
                              \cup (IF moves /\ e.runtime \in DOMAIN runtimes
                                    THEN {<<e.ws, p>> : p \in ToSet(runtimes[e.runtime])} ELSE {})
     /\ local' = local \cup (IF moves THEN ToSet(workspaces[e.ws].layout) ELSE {})
     /\ UNCHANGED <<life, direct, dismissed, dialog, saved, actors, daemon, minted, spent, fate>>

\* apply_managed_pane_closed; the widget goes even if the layout keeps its last terminal.
PaneClosed ==
  LET e == Polling
      open == e.ws \in DOMAIN workspaces
      last == open /\ workspaces[e.ws].layout = <<e.at>>
      moved == open /\ workspaces[e.ws].runtime # e.runtime
      ws == [workspaces EXCEPT ![e.ws].layout = RemoveLeaf(@, e.at)]
  IN /\ Polls("closed")
     /\ IF open /\ ~last
        THEN DrawWithout({e.at}, ws, Rebuilt(ws, e.ws, widgets \ {e.at})) /\ index' = Shown(ws)
        ELSE DrawWithout({e.at}, workspaces, widgets \ {e.at}) /\ UNCHANGED index
     /\ stuck' = stuck \cup ({e.at} \cap Shown(workspaces'))
     /\ unfed' = unfed \cup Taken({e.at}, workspaces')
     /\ unplaced' = unplaced \cup (IF moved THEN {<<e.ws, e.at>>} ELSE {})
     /\ UNCHANGED <<life, direct, dismissed, aside, saved, actors, daemon, minted, spent, local, fate>>

\* WorkspaceConnectionChanged, WorkspaceDetached, WorkspaceTerminated
StatusChanged ==
  \E kind \in {"status", "detached", "terminated"} :
    LET e == Polling
    IN /\ Polls(kind)
       /\ Tells(e)
       /\ workspaces' = IF kind = "terminated" /\ e.ws \in DOMAIN workspaces
                        THEN [workspaces EXCEPT ![e.ws].runtime = None, ![e.ws].status = e.status]
                        ELSE Told(workspaces, e)
       /\ UNCHANGED <<life, direct, dismissed, index, widgets, shown, dialog, saved, actors, daemon,
                      minted, spent, panes, fate>>

\* Faulty variant of Recoverable: what the user dismissed is recovered too.
RecoverableAll(ws, stock, hidden) == DOMAIN stock \ Bound(ws)

\* recover_managed_workspaces_from_inventory
Recoverable(ws, stock, hidden) == (DOMAIN stock \ hidden) \ Bound(ws)

InventoryLoaded ==
  LET e == Polling
      kept == dismissed \cap DOMAIN e.stock
      found == Recoverable(workspaces, e.stock, kept)
      treeless == {r \in found : e.stock[r] = <<>>}
      Leaf(r) == minted.terminals + Cardinality({q \in treeless : q <= r})
      Layout(r) == IF r \in treeless THEN <<Leaf(r)>> ELSE e.stock[r]
      back == {Recovered(r) : r \in found}
      ws == [w \in back \cup DOMAIN workspaces |->
               IF w \in back THEN Workspace(Layout(w - MaxWorkspaces), w - MaxWorkspaces) ELSE workspaces[w]]
  IN /\ Polls("inventory")
     /\ IF connecting
        THEN /\ connecting' = FALSE
             /\ offer' = DOMAIN e.stock \ Bound(workspaces)
             /\ UNCHANGED <<screen, saved, actors, minted, local, bare, unsaved>>
        ELSE /\ minted.terminals + Cardinality(treeless) <= MaxTerminals
             /\ minted' = [minted EXCEPT !.terminals = @ + Cardinality(treeless)]
             /\ local' = local \cup {Leaf(r) : r \in treeless}
             /\ dismissed' = kept
             /\ Draw(ws, widgets \cup UNION {ToSet(Layout(r)) : r \in found})
             /\ IF found = {} THEN UNCHANGED <<index, actors, saved, unsaved>>
                ELSE /\ index' = Shown(ws)
                     /\ Send(Opens(ws, back))
                     /\ Save(ws, direct, kept)
             /\ UNCHANGED <<direct, dialog>>
     /\ UNCHANGED <<life, late, daemon, spent, unplaced, stuck, unfed, owner, ended, closed, crashed, forgiven>>

\* feed_coalesced_deltas
OutputDelta ==
  LET p == Polling.pane
  IN /\ Polls("delta")
     /\ shown' = shown \cup ({p} \cap index \cap widgets)
     /\ unfed' = unfed \cup (({p} \cap index) \ widgets)
     /\ UNCHANGED <<life, workspaces, direct, dismissed, index, widgets, aside, saved, actors, daemon,
                    minted, spent, local, unplaced, stuck, bare, fate>>

Reconciles ==
  WorkspaceOpened \/ PaneCreated \/ PaneClosed \/ StatusChanged \/ InventoryLoaded \/ OutputDelta

-----------------------------------------------------------------------------
\* The life of the client

\* The timer of AUTO_SAVE_INTERVAL.
AutoSave ==
  /\ life = "up" /\ spent < MaxSpent
  /\ saved # Record(workspaces, direct, dismissed)
  /\ Save(workspaces, direct, dismissed)
  /\ UNCHANGED <<life, screen, aside, actors, events, daemon, minted, spent, panes,
                 owner, ended, closed, crashed, forgiven>>

\* connect_close_request
Quit ==
  /\ Asks
  /\ life' = "leaving" /\ events' = <<>>
  /\ Save(workspaces, direct, dismissed)
  /\ UNCHANGED <<screen, aside, actors, daemon, minted, panes, owner, ended, closed, crashed, forgiven>>

\* The process ends, with what its actors have not sent; only the disk remains.
Exit ==
  /\ life = "leaving" \/ (life = "up" /\ spent < MaxSpent)
  /\ life' = "off"
  /\ workspaces' = <<>> /\ index' = {} /\ widgets' = {} /\ shown' = {}
  /\ connecting' = FALSE /\ offer' = {}
  /\ actors' = <<Fresh>> /\ events' = <<>>
  /\ unplaced' = {} /\ stuck' = {} /\ unfed' = {} /\ bare' = {} /\ late' = {}
  /\ attached' = {} /\ severed' = {}
  /\ crashed' = crashed \cup unsaved /\ unsaved' = {}
  /\ UNCHANGED <<forgiven, direct, dismissed, saved, runtimes, printed, unheard, minted, spent, local,
                 owner, ended, closed>>

\* What load_state makes of the saved state: without a workspace, the default one.
Loaded == IF DOMAIN saved.workspaces = {} /\ ~saved.direct THEN Record(<<>>, TRUE, {}) ELSE saved

\* load_state; an inventory is asked for if nothing else contacts the daemon.
Start ==
  LET ws == Loaded.workspaces
  IN /\ life = "off" /\ Spend
     /\ life' = "up"
     /\ workspaces' = ws /\ direct' = Loaded.direct /\ dismissed' = Loaded.dismissed
     /\ index' = Shown(ws) /\ widgets' = Shown(ws)
     /\ Send(IF ws = <<>> THEN <<Command("inventory", None, None, None, None)>>
             ELSE Opens(ws, DOMAIN ws))
     /\ forgiven' = forgiven \cup (saved.dismissed \ Loaded.dismissed)
     /\ UNCHANGED <<shown, aside, saved, events, daemon, minted, panes, owner, ended, closed, unsaved, crashed>>

-----------------------------------------------------------------------------
\* A runtime of two panes, detached from the window earlier, or open in one of its workspaces, or in
\* two: then the user clicked on an offer that was stale, which counts as spent.
Init ==
  \E open \in {0, 1, 2} :
    LET ws == [w \in 1..open |-> [Workspace(<<1, 2>>, 1) EXCEPT !.status = "live"]]
        settled == open > 0
    IN /\ open <= MaxWorkspaces
       /\ life = "up"
       /\ workspaces = ws /\ direct = ~settled /\ dismissed = {}
       /\ index = Shown(ws) /\ widgets = Shown(ws) /\ shown = {}
       /\ connecting = FALSE /\ offer = {}
       /\ saved = Record(ws, ~settled, {})
       /\ actors = <<IF settled THEN [queue |-> <<>>, tracked |-> [w \in 1..open |-> 1], link |-> "up"] ELSE Fresh>>
       /\ events = <<>>
       /\ runtimes = Only(1, <<1, 2>>) /\ printed = {}
       /\ attached = (IF settled THEN {<<1, 1>>} ELSE {}) /\ severed = {} /\ unheard = {}
       /\ minted = [workspaces |-> IF settled THEN open ELSE 1, runtimes |-> 1, terminals |-> 2]
       /\ spent = (IF open = 2 THEN 1 ELSE 0)
       /\ local = {} /\ unplaced = {} /\ stuck = {} /\ unfed = {} /\ bare = {} /\ late = {}
       /\ owner = Only(1, IF settled THEN open ELSE 1)
       /\ ended = {} /\ closed = {} /\ unsaved = {} /\ crashed = {} /\ forgiven = {}

Next == UserActs \/ EndpointActs \/ Reconciles \/ AutoSave \/ Quit \/ Exit \/ Start

Spec == Init /\ [][Next]_vars

-----------------------------------------------------------------------------
\* Properties

InUse == Last(actors)

\* Everything asked has been answered, and every answer reconciled.
Quiet ==
  /\ life = "up" /\ events = <<>>
  /\ InUse.link = "up" /\ \A i \in DOMAIN actors : actors[i].queue = <<>>

Watched == {w \in DOMAIN workspaces \cap DOMAIN InUse.tracked :
              /\ workspaces[w].runtime = InUse.tracked[w]
              /\ workspaces[w].runtime \in DOMAIN runtimes}
DaemonPanes(w) == ToSet(runtimes[workspaces[w].runtime])
Leaves(w) == ToSet(workspaces[w].layout)

\* A workspace that is not zoomed has a widget for every leaf of its layout, and no
\* widget outlives its leaf: rebuild_session_content (window/terminal.rs:709) runs for
\* every change of a layout, rekey_terminal_widgets (:20) for every renaming. The leaves
\* that have none lost it when their terminal's widgets were removed and their layout was
\* kept: the pane was the last to close (PaneClosed, runtime.rs:913, where
\* apply_managed_pane_closed, workspace_state.rs:456, keeps the layout), or another
\* workspace that showed the same runtime was closed, detached or changed its leaves.
WidgetsFollowLayout ==
  life = "up" =>
    /\ \A w \in DOMAIN workspaces : workspaces[w].zoom = None => Leaves(w) \subseteq widgets \cup bare
    /\ widgets \subseteq Shown(workspaces)

\* Once quiet, a workspace shows the panes its runtime has (RFC-031: layout terminal uuid
\* = pane id). The exceptions are those the code has: a pane is not shown if its PaneCreated
\* found the terminal gone, replaced by a reattach (workspace_state.rs:430), or was meant for
\* another workspace that showed the runtime; a terminal has no pane if the client minted it,
\* or its PaneClosed left it in a layout, the last one of its workspace (:456) or one of another.
\* And a workspace opened by two actors, the one in use and one that was reset, is told of two
\* runtimes: the PaneCreated of one makes it the workspace of that runtime with the layout of
\* the other (:437), and a PaneClosed of one closes a leaf of the other.
LayoutIsDaemons ==
  Quiet => \A w \in Watched : /\ \A p \in DaemonPanes(w) \ Leaves(w) : <<w, p>> \in unplaced
                              /\ Leaves(w) \subseteq DaemonPanes(w) \cup local \cup stuck

\* Once quiet, the output of every pane is in its widget: a snapshot restores what came
\* before it, deltas add what came after (is_output_ordering_barrier, runtime.rs:68). What
\* is missing was fed when the pane had no widget: it printed before the answer that named
\* it (runtime.rs:812), or its workspace was zoomed on another pane (:823, :994). Or the
\* widget went with its output, because another workspace that showed the pane was closed
\* or detached, lost it or had it replaced (:913), and came back without; or the snapshot
\* came for such a workspace when it was gone (workspace_state.rs:469). Or it was never sent:
\* the actor tracks the workspace on a connection that is not attached, because it detached
\* another workspace from the same runtime (server.rs:1281) or was refused when it reconnected
\* (daemon_bridge.rs:1417). No other connection is attached less than its actor takes it to be.
OutputIsShown ==
  Quiet => \A w \in Watched :
    DaemonPanes(w) \cap Leaves(w) \cap printed \subseteq
      shown \cup unfed \cup (IF <<Len(actors), workspaces[w].runtime>> \in severed THEN unheard ELSE {})

\* Once quiet, a workspace that says Connected is one the actor in use tracks: a reset
\* that reconnects only one workspace orphans its siblings, whose panes keep saying
\* Connected (retry_all_workspaces_for_endpoint, runtime.rs:623). Except for a workspace
\* last told of by an actor that was reset and works off its queue, or whose open was dropped
\* (daemon_bridge.rs:1547) and that then got a pane, which says Connected too (:899).
ConnectedIsTracked ==
  Quiet => \A w \in DOMAIN workspaces : workspaces[w].status = "live" => w \in DOMAIN InUse.tracked \cup late

\* A runtime the user closed does not come back as a workspace (dismissed_runtime_ids,
\* workspace_state.rs:322), unless the client forgot or never knew that it was closed: it
\* crashed before the save, its saved state had no workspace left, or the workspace was
\* closed before its runtime was known. One more exception takes a reset of the actor while a
\* workspace is opened, which then gets two runtimes: if the user finds the first one in the
\* dialog and closes it, a late answer of the old actor puts the workspace back in it, for the
\* answers do not heed what was dismissed (workspace_state.rs:423, 469).
OnlyForgottenReturn == Bound(workspaces) \cap closed \subseteq crashed \cup forgiven

\* A runtime the user closed does not come back as a workspace, as RFC-013:239 has it:
\* "Close Workspace ... must not auto-resurrect later" (short of a crash before the save).
ClosedStaysClosed == Bound(workspaces) \cap closed \subseteq crashed
=============================================================================
