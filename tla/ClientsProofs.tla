---------------------------- MODULE ClientsProofs ----------------------------
(****************************************************************************)
(* What the daemon keeps of its connections, and the size of a pane, for    *)
(* any set of connections, workspaces and sizes, and any number of permits. *)
(*                                                                          *)
(* LeavesNoTrace speaks of connections that are over. It holds because what *)
(* is kept of a connection follows the place its task is at (Kept), and     *)
(* because the count is that of the tasks between two places (Counts).      *)
(* SizesAgree and SizeIsMinimum speak of a pane nobody is setting: one has  *)
(* to know what those who are setting it carry (Uncrossed, Undisturbed) and *)
(* that a ResizePane on its way shows in the history (ResizeDisturbs).      *)
(****************************************************************************)
EXTENDS Clients, FiniteSetTheorems, WellFoundedInduction, TLAPS

\* Connections that are counted as clients: listed, and not over, or failed in the handshake.
Counted == {c \in Connections : task[c].at \notin {"out", "accepted", "rejected", "ended"}}
Shaken(c) == task[c].at \in {"ready"} \cup Applying

\* What TypeOK says of each variable on its own, and that who carries a size has one to set.
Typed ==
  /\ task \in [Connections -> Task]
  /\ \A c \in Connections :
       task[c].at \in Applying => task[c].ws \in Workspaces /\ task[c].size \in Dimensions
  /\ senders \subseteq Connections /\ protocols \subseteq Connections
  /\ reported \in [Connections -> [Workspaces -> Sizes \cup {NoSize}]]
  /\ role \in [Workspaces -> [Connections -> {"Unattached", "Reader", "Writer"}]]
  /\ hasPty \subseteq inMap /\ inMap \subseteq Workspaces
  /\ pty \in [Workspaces -> Dimensions]
  /\ recorded \in [Workspaces -> Dimensions]
  /\ disturbed \in [Workspaces -> SUBSET {"crossed", "resized", "dropped"}]

\* Permits and the count of the clients.
Counts ==
  /\ IsFiniteSet(Running) /\ Cardinality(Running) <= MaxClients
  /\ IsFiniteSet(Counted) /\ counter = Cardinality(Counted)

\* What the daemon keeps of a connection, by the place its task is at.
KeptOf(c) ==
  /\ c \in senders <=> Shaken(c) \/ task[c].at \in {"listed", "greeted", "closing", "failed"}
  /\ c \in protocols => Shaken(c) \/ task[c].at = "closing"
  /\ \A w \in Workspaces : reported[c][w] # NoSize => Shaken(c) \/ task[c].at = "closing"
  /\ \A w \in inMap : c \in Attached(w)
       => Shaken(c) \/ (task[c].at \in {"closing", "leaving"} /\ w \in task[c].todo)
Kept == \A c \in Connections : KeptOf(c)

\* A pane that no two clients set at a time: at most one is on its way, and what it has set
\* in the PTY is what it will record.
OneSets(w) ==
  /\ \A c, d \in Setting(w) : c = d
  /\ \A c \in Setting(w) : task[c].at \in {"reporting", "resizing"} => pty[w] = task[c].size
  /\ Setting(w) = {} => pty[w] = recorded[w]
Uncrossed == \A w \in inMap : "crossed" \notin disturbed[w] => OneSets(w)

\* A pane nothing has disturbed: who is on its way carries the minimum of the reports, which
\* otherwise is recorded.
CarriesMinimum(w) ==
  /\ \A c \in Setting(w) : task[c].size = MinSize(w, reported)
  /\ Setting(w) = {} => recorded[w] = MinSize(w, reported)
ResizeDisturbs ==
  \A c \in Connections :
    task[c].at \in {"resize", "resizing"} => disturbed[task[c].ws] # {}
Undisturbed ==
  \A w \in inMap \cap hasPty :
    disturbed[w] = {} /\ MinSize(w, reported) # NoSize => CarriesMinimum(w)

ClientsInv ==
  Typed /\ Counts /\ Kept /\ Uncrossed /\ ResizeDisturbs /\ Undisturbed

\* Every nonempty set of naturals has the least element that min_client_pane_size takes with
\* Iterator::min (protocol.rs:189-197).
LEMMA LeastIsMinimum ==
  ASSUME NEW S \in SUBSET Nat, S # {}
  PROVE  Least(S) \in S /\ \A m \in S : Least(S) <= m
<1> DEFINE less == {pair \in Nat \X Nat : pair[1] < pair[2]}
<1>1. IsWellFoundedOn(less, Nat)
  BY NatLessThanWellFounded DEF OpToRel
<1>2. \A m, n \in Nat : <<m, n>> \in less <=> m < n
  OBVIOUS
<1> HIDE DEF less
<1>3. PICK n \in S : \A m \in S : ~ (<<m, n>> \in less)
  BY <1>1, WFMin, Zenon
<1>4. ASSUME NEW m \in S
      PROVE  n <= m
  <2>1. m \in Nat /\ n \in Nat
    OBVIOUS
  <2>2. ~ (m < n)
    BY <1>2, <1>3, <2>1
  <2> QED BY <2>1, <2>2
<1> QED BY <1>4 DEF Least

\* The dimensions of a usable size, and of no size at all.
LEMMA SizeTypes ==
  /\ Sizes \subseteq Dimensions
  /\ InitialSize \in Dimensions
  /\ Dimensions \subseteq Nat \X Nat
  /\ NoSize \notin Dimensions
<1>1. \A s \in Sizes \cup {InitialSize} : s = <<s[1], s[2]>> /\ s[1] \in Nat /\ s[2] \in Nat
  BY SizesAssumption
<1> QED BY <1>1, NoneAssumption DEF Dimensions

\* Places a task can be at, and a task that carries a size.
LEMMA TaskTypes ==
  /\ \A place \in Live \cup {"out", "rejected", "failed", "ended"} :
       At(place) \in Task /\ At(place).at = place
  /\ \A place \in Live, todo \in SUBSET Workspaces :
       LET t == [At(place) EXCEPT !.todo = todo] IN
         t \in Task /\ t.at = place /\ t.todo = todo
  /\ \A place \in Live, w \in Workspaces, size \in Dimensions :
       LET t == Carrying(place, w, size) IN
         t \in Task /\ t.at = place /\ t.ws = w /\ t.size = size
BY DEF Task, At, Carrying

\* A step of one task leaves the tasks of the other connections where they are.
LEMMA OnlyOneGoes ==
  ASSUME Typed, NEW c \in Connections, NEW t \in Task, Goes(c, t)
  PROVE  /\ task' \in [Connections -> Task]
         /\ task'[c] = t
         /\ \A d \in Connections \ {c} : task'[d] = task[d]
BY DEF Typed, Goes

\* A task that goes on carries a size only to a pane of a workspace.
LEMMA TaskStaysTyped ==
  ASSUME Typed, NEW c \in Connections, NEW t \in Task, Goes(c, t),
         t.at \in Applying => t.ws \in Workspaces /\ t.size \in Dimensions
  PROVE  /\ task' \in [Connections -> Task]
         /\ \A d \in Connections :
              task'[d].at \in Applying => task'[d].ws \in Workspaces /\ task'[d].size \in Dimensions
BY OnlyOneGoes DEF Typed

\* The dimensions that min_client_pane_size compares are among those reported
\* (protocol.rs:189-197).
LEMMA AxisType ==
  ASSUME NEW w \in Workspaces, NEW i \in {1, 2},
         NEW rep \in [Connections -> [Workspaces -> Sizes \cup {NoSize}]]
  PROVE  Axis(w, rep, i) \subseteq {s[i] : s \in Sizes} /\ Axis(w, rep, i) \in SUBSET Nat
<1>1. \A c \in Connections : rep[c][w] # NoSize => rep[c][w] \in Sizes
  OBVIOUS
<1>2. \A s \in Sizes : s[i] \in Nat
  BY SizesAssumption
<1> QED BY <1>1, <1>2 DEF Axis

\* The minimum of reported sizes is a size (min_client_pane_size, protocol.rs:180-198).
LEMMA MinSizeType ==
  ASSUME NEW w \in Workspaces,
         NEW rep \in [Connections -> [Workspaces -> Sizes \cup {NoSize}]],
         MinSize(w, rep) # NoSize
  PROVE  /\ MinSize(w, rep) \in Dimensions
         /\ \A i \in {1, 2} : /\ Axis(w, rep, i) \in SUBSET Nat
                              /\ Axis(w, rep, i) # {}
                              /\ MinSize(w, rep)[i] = Least(Axis(w, rep, i))
<1>1. /\ Axis(w, rep, 1) # {} /\ Axis(w, rep, 2) # {}
      /\ MinSize(w, rep) = <<Least(Axis(w, rep, 1)), Least(Axis(w, rep, 2))>>
  BY DEF MinSize
<1>2. ASSUME NEW i \in {1, 2}
      PROVE  Axis(w, rep, i) \subseteq {s[i] : s \in Sizes} /\ Axis(w, rep, i) \in SUBSET Nat
  BY AxisType
<1>3. \A i \in {1, 2} : Least(Axis(w, rep, i)) \in Axis(w, rep, i)
  BY <1>1, <1>2, LeastIsMinimum
<1>4. MinSize(w, rep) \in Dimensions
  BY <1>1, <1>2, <1>3 DEF Dimensions
<1> QED BY <1>1, <1>2, <1>4

\* The tables stay well formed: each handler writes what its table holds
\* (server.rs:2825-2920, 1973-2042, 1644-1682).
LEMMA TypedHolds == Typed /\ [Next]_vars => Typed'
<1> SUFFICES ASSUME Typed, [Next]_vars PROVE Typed'
  OBVIOUS
<1>1. ASSUME NEW c \in Connections, Handshake(c)
      PROVE  Typed'
  <2>1. PICK place \in {"accepted", "rejected", "listed", "ended", "failed", "closing", "greeted",
                        "ready"} : Goes(c, At(place))
    BY <1>1 DEF Handshake, Accept, List, Probe, HandshakeFails, Stranger, Greet, RegisterProtocol
  <2>2. At(place) \in Task /\ At(place).at \notin Applying
    BY TaskTypes DEF Live, Applying
  <2>3. /\ task' \in [Connections -> Task]
        /\ \A d \in Connections :
             task'[d].at \in Applying => task'[d].ws \in Workspaces /\ task'[d].size \in Dimensions
    BY <2>1, <2>2, TaskStaysTyped
  <2>4. /\ senders' \subseteq Connections /\ protocols' \subseteq Connections
        /\ UNCHANGED <<reported, role, hasPty, inMap, pty, recorded, disturbed>>
    BY <1>1 DEF Handshake, Accept, List, Probe, HandshakeFails, Stranger, Greet, RegisterProtocol,
       Typed, registry, sizes, world
  <2> QED BY <2>3, <2>4 DEF Typed
<1>2. ASSUME NEW c \in Connections, SetPty(c) \/ Record(c)
      PROVE  Typed'
  <2>1. task[c].at \in Applying /\ task[c].ws \in Workspaces /\ task[c].size \in Dimensions
    BY <1>2 DEF SetPty, Record, Typed, Applying
  <2>2. PICK t \in Task : /\ Goes(c, t)
                          /\ t.at \in Applying => t.ws \in Workspaces /\ t.size \in Dimensions
    <3>1. CASE SetPty(c)
      <4>1. PICK place \in {"reporting", "resizing"} :
              Goes(c, Carrying(place, task[c].ws, task[c].size))
        BY <3>1 DEF SetPty
      <4> QED BY <2>1, <4>1, TaskTypes DEF Carrying, Live, Applying
    <3>2. CASE Record(c)
      BY <3>2, TaskTypes DEF Record, At, Live, Applying
    <3> QED BY <1>2, <3>1, <3>2
  <2>3. /\ task' \in [Connections -> Task]
        /\ \A d \in Connections :
             task'[d].at \in Applying => task'[d].ws \in Workspaces /\ task'[d].size \in Dimensions
    BY <2>2, TaskStaysTyped
  <2>4. pty' \in [Workspaces -> Dimensions] /\ recorded' \in [Workspaces -> Dimensions]
    BY <1>2, <2>1 DEF SetPty, Record, Typed
  <2> QED BY <1>2, <2>3, <2>4 DEF SetPty, Record, Typed, registry, sizes, world
<1>3. ASSUME NEW c \in Connections, Closing(c)
      PROVE  Typed'
  <2>1. CASE HangUp(c) \/ CleanUp(c)
    <3>1. PICK place \in {"closing", "leaving"}, todo \in SUBSET Workspaces :
            Goes(c, [At(place) EXCEPT !.todo = todo])
      BY <2>1 DEF HangUp, CleanUp, Typed
    <3>2. /\ [At(place) EXCEPT !.todo = todo] \in Task
          /\ [At(place) EXCEPT !.todo = todo].at \notin Applying
      BY DEF Task, At, Live, Applying
    <3>3. /\ task' \in [Connections -> Task]
          /\ \A d \in Connections :
               task'[d].at \in Applying
                 => task'[d].ws \in Workspaces /\ task'[d].size \in Dimensions
      BY <3>1, <3>2, TaskStaysTyped
    <3>4. /\ senders' \subseteq Connections /\ protocols' \subseteq Connections
          /\ reported' \in [Connections -> [Workspaces -> Sizes \cup {NoSize}]]
          /\ disturbed' \in [Workspaces -> SUBSET {"crossed", "resized", "dropped"}]
      BY <2>1 DEF HangUp, CleanUp, Forget, Typed, registry, sizes
    <3> QED BY <2>1, <3>3, <3>4 DEF HangUp, CleanUp, Forget, Typed, registry, sizes, world
  <2>2. CASE End(c)
    <3>1. At("ended") \in Task /\ At("ended").at \notin Applying
      BY TaskTypes DEF Applying
    <3>2. /\ task' \in [Connections -> Task]
          /\ \A d \in Connections :
               task'[d].at \in Applying
                 => task'[d].ws \in Workspaces /\ task'[d].size \in Dimensions
      BY <2>2, <3>1, TaskStaysTyped DEF End
    <3> QED BY <2>2, <3>2 DEF End, Typed, sizes, world
  <2>3. ASSUME NEW w \in Workspaces, Leave(c, w)
        PROVE  Typed'
    <3>1. /\ task' \in [Connections -> Task]
          /\ \A d \in Connections : /\ task'[d].at = task[d].at /\ task'[d].ws = task[d].ws
                                    /\ task'[d].size = task[d].size
      <4> DEFINE next == [task[c] EXCEPT !.todo = @ \ {w}]
      <4>1. task[c] \in Task
        BY DEF Typed
      <4>2. /\ next \in Task
            /\ next.at = task[c].at /\ next.ws = task[c].ws /\ next.size = task[c].size
        BY <4>1 DEF Task
      <4>3. Goes(c, next)
        BY <2>3 DEF Leave, Goes
      <4> HIDE DEF next
      <4>4. /\ task' \in [Connections -> Task] /\ task'[c] = next
            /\ \A d \in Connections \ {c} : task'[d] = task[d]
        BY <4>2, <4>3, OnlyOneGoes
      <4> QED BY <4>2, <4>4
    <3> QED BY <2>3, <3>1 DEF Leave, Typed, registry, sizes
  <2> QED BY <1>3, <2>1, <2>2, <2>3 DEF Closing
<1>4. ASSUME NEW c \in Connections, NEW w \in Workspaces, Requests(c, w)
      PROVE  Typed'
  <2>1. CASE Attach(c, w) \/ TakeOver(c, w) \/ Detach(c, w) \/ Terminate(c, w)
    <3>1. /\ role' \in [Workspaces -> [Connections -> {"Unattached", "Reader", "Writer"}]]
          /\ hasPty' \subseteq inMap' /\ inMap' \subseteq Workspaces
      <4>1. CASE Attach(c, w)
        <5>1. PICK r \in {"Reader", "Writer"} : role' = [role EXCEPT ![w][c] = r]
          BY <4>1 DEF Attach
        <5>2. UNCHANGED <<inMap, hasPty>>
          BY <4>1 DEF Attach
        <5> QED BY <5>1, <5>2 DEF Typed
      <4>2. CASE TakeOver(c, w)
        <5> DEFINE roles == [d \in Connections |->
              IF d = c THEN "Writer" ELSE IF role[w][d] = "Writer" THEN "Reader" ELSE role[w][d]]
        <5>1. roles \in [Connections -> {"Unattached", "Reader", "Writer"}]
          BY DEF Typed
        <5>2. role' = [role EXCEPT ![w] = roles] /\ UNCHANGED <<inMap, hasPty>>
          BY <4>2 DEF TakeOver, Typed
        <5> QED BY <5>1, <5>2 DEF Typed
      <4>3. CASE Detach(c, w)
        BY <4>3 DEF Detach, Typed
      <4>4. CASE Terminate(c, w)
        BY <4>4 DEF Terminate, Typed
      <4> QED BY <2>1, <4>1, <4>2, <4>3, <4>4
    <3> QED BY <2>1, <3>1 DEF Attach, TakeOver, Detach, Terminate, Typed, registry, sizes
  <2>2. CASE ReportSize(c, w)
    <3>1. reported' \in [Connections -> [Workspaces -> Sizes \cup {NoSize}]]
      BY <2>2 DEF ReportSize, Typed
    <3>2. CASE MinSize(w, reported') # NoSize /\ w \in hasPty
      <4>1. MinSize(w, reported') \in Dimensions
        BY <3>1, <3>2, MinSizeType
      <4>2. /\ Goes(c, Carrying("report", w, MinSize(w, reported')))
            /\ Disturb(w, {})
        BY <2>2, <3>2 DEF ReportSize
      <4>3. /\ Carrying("report", w, MinSize(w, reported')) \in Task
            /\ Carrying("report", w, MinSize(w, reported')).ws = w
            /\ Carrying("report", w, MinSize(w, reported')).size = MinSize(w, reported')
        BY <4>1, TaskTypes DEF Live, Applying, Carrying
      <4>4. /\ task' \in [Connections -> Task]
            /\ \A d \in Connections :
                 task'[d].at \in Applying
                   => task'[d].ws \in Workspaces /\ task'[d].size \in Dimensions
        BY <4>1, <4>2, <4>3, TaskStaysTyped
      <4>5. disturbed' \in [Workspaces -> SUBSET {"crossed", "resized", "dropped"}]
        BY <4>2 DEF Disturb, Typed
      <4> QED BY <2>2, <3>1, <4>4, <4>5 DEF ReportSize, Typed, registry, world
    <3>3. CASE ~ (MinSize(w, reported') # NoSize /\ w \in hasPty)
      <4>1. UNCHANGED <<task, disturbed>>
        BY <2>2, <3>3 DEF ReportSize
      <4> QED BY <2>2, <3>1, <4>1 DEF ReportSize, Typed, registry, world
    <3> QED BY <3>2, <3>3
  <2>3. CASE AskResize(c, w)
    <3>1. PICK s \in Sizes : Goes(c, Carrying("resize", w, s)) /\ Disturb(w, {"resized"})
      BY <2>3 DEF AskResize
    <3>2. /\ Carrying("resize", w, s) \in Task /\ s \in Dimensions
          /\ Carrying("resize", w, s).ws = w /\ Carrying("resize", w, s).size = s
      BY SizeTypes, TaskTypes DEF Live, Applying, Carrying
    <3>3. /\ task' \in [Connections -> Task]
          /\ \A d \in Connections :
               task'[d].at \in Applying
                 => task'[d].ws \in Workspaces /\ task'[d].size \in Dimensions
      BY <3>1, <3>2, TaskStaysTyped
    <3>4. disturbed' \in [Workspaces -> SUBSET {"crossed", "resized", "dropped"}]
      BY <3>1 DEF Disturb, Typed
    <3> QED BY <2>3, <3>3, <3>4 DEF AskResize, Typed, registry, world
  <2> QED BY <1>4, <2>1, <2>2, <2>3 DEF Requests
<1>5. ASSUME NEW w \in Workspaces, ShellExits(w)
      PROVE  Typed'
  BY <1>5 DEF ShellExits, Typed, registry, sizes
<1>6. CASE UNCHANGED vars
  BY <1>6 DEF Typed, vars, registry, sizes, world
<1> QED BY <1>1, <1>2, <1>3, <1>4, <1>5, <1>6 DEF Next

\* Between its handshake and its end a client is at a request or between two requests
\* (v3_client_reader, server.rs:3010-3072).
LEMMA RequestMoves ==
  ASSUME Typed, NEW c \in Connections,
         \/ SetPty(c) \/ Record(c)
         \/ \E w \in Workspaces : ReportSize(c, w) \/ AskResize(c, w)
  PROVE  /\ Shaken(c)
         /\ UNCHANGED <<senders, protocols, counter, role, inMap>>
         /\ \E t \in Task : Goes(c, t) /\ t.at \in {"ready"} \cup Applying
<1>1. CASE SetPty(c)
  <2>1. PICK place \in {"reporting", "resizing"} :
          Goes(c, Carrying(place, task[c].ws, task[c].size))
    BY <1>1 DEF SetPty
  <2>2. /\ task[c].at \in Applying /\ task[c].ws \in Workspaces /\ task[c].size \in Dimensions
        /\ UNCHANGED <<senders, protocols, counter, role, inMap>>
    BY <1>1 DEF SetPty, Typed, Applying, registry, world
  <2>3. Carrying(place, task[c].ws, task[c].size) \in Task
        /\ Carrying(place, task[c].ws, task[c].size).at \in Applying
    BY <2>2, TaskTypes DEF Live, Applying
  <2> QED BY <2>1, <2>2, <2>3 DEF Shaken
<1>2. CASE Record(c)
  <2>1. /\ Goes(c, At("ready")) /\ task[c].at \in Applying
        /\ UNCHANGED <<senders, protocols, counter, role, inMap>>
    BY <1>2 DEF Record, Applying, registry, world
  <2>2. At("ready") \in Task /\ At("ready").at = "ready"
    BY TaskTypes DEF Live
  <2> QED BY <2>1, <2>2 DEF Shaken
<1>3. ASSUME NEW w \in Workspaces, ReportSize(c, w)
      PROVE  /\ Shaken(c)
             /\ UNCHANGED <<senders, protocols, counter, role, inMap>>
             /\ \E t \in Task : Goes(c, t) /\ t.at \in {"ready"} \cup Applying
  <2>1. task[c].at = "ready" /\ UNCHANGED <<senders, protocols, counter, role, inMap>>
    BY <1>3 DEF ReportSize, Ready, registry, world
  <2>2. CASE MinSize(w, reported') # NoSize /\ w \in hasPty
    <3>1. reported' \in [Connections -> [Workspaces -> Sizes \cup {NoSize}]]
      BY <1>3 DEF ReportSize, Typed
    <3>2. MinSize(w, reported') \in Dimensions
      BY <2>2, <3>1, MinSizeType
    <3>3. Goes(c, Carrying("report", w, MinSize(w, reported')))
      BY <1>3, <2>2 DEF ReportSize
    <3>4. /\ Carrying("report", w, MinSize(w, reported')) \in Task
          /\ Carrying("report", w, MinSize(w, reported')).at \in Applying
      BY <3>2, TaskTypes DEF Live, Applying
    <3> QED BY <2>1, <3>3, <3>4 DEF Shaken
  <2>3. CASE ~ (MinSize(w, reported') # NoSize /\ w \in hasPty)
    <3>1. task' = task
      BY <1>3, <2>3 DEF ReportSize
    <3>2. Goes(c, task[c]) /\ task[c] \in Task
      BY <3>1 DEF Goes, Typed
    <3> QED BY <2>1, <3>2 DEF Shaken
  <2> QED BY <2>2, <2>3
<1>4. ASSUME NEW w \in Workspaces, AskResize(c, w)
      PROVE  /\ Shaken(c)
             /\ UNCHANGED <<senders, protocols, counter, role, inMap>>
             /\ \E t \in Task : Goes(c, t) /\ t.at \in {"ready"} \cup Applying
  <2>1. task[c].at = "ready" /\ UNCHANGED <<senders, protocols, counter, role, inMap>>
    BY <1>4 DEF AskResize, Ready, registry, world
  <2>2. PICK s \in Sizes : Goes(c, Carrying("resize", w, s))
    BY <1>4 DEF AskResize
  <2>3. Carrying("resize", w, s) \in Task /\ Carrying("resize", w, s).at \in Applying
    BY SizeTypes, TaskTypes DEF Live, Applying
  <2> QED BY <2>1, <2>2, <2>3 DEF Shaken
<1> QED BY <1>1, <1>2, <1>3, <1>4

\* From the end of its connection a client is cleaned up after, workspace by workspace
\* (server.rs:2885-2900).
LEMMA ClosingMoves ==
  ASSUME Typed, NEW c \in Connections,
         HangUp(c) \/ CleanUp(c) \/ \E w \in Workspaces : Leave(c, w)
  PROVE  /\ UNCHANGED <<counter, inMap, hasPty>>
         /\ task[c].at \in {"ready", "closing", "leaving"}
         /\ \E t \in Task : Goes(c, t) /\ t.at \in {"closing", "leaving"}
<1>1. CASE HangUp(c) \/ CleanUp(c)
  <2>1. PICK place \in {"closing", "leaving"}, todo \in SUBSET Workspaces :
          Goes(c, [At(place) EXCEPT !.todo = todo])
    BY <1>1 DEF HangUp, CleanUp, Typed
  <2>2. /\ [At(place) EXCEPT !.todo = todo] \in Task
        /\ [At(place) EXCEPT !.todo = todo].at = place
    BY TaskTypes DEF Live
  <2> QED BY <1>1, <2>1, <2>2 DEF HangUp, CleanUp, Forget, Ready, registry, world
<1>2. ASSUME NEW w \in Workspaces, Leave(c, w)
      PROVE  /\ UNCHANGED <<counter, inMap, hasPty>>
             /\ task[c].at \in {"ready", "closing", "leaving"}
             /\ \E t \in Task : Goes(c, t) /\ t.at \in {"closing", "leaving"}
  <2>1. task[c].at = "leaving" /\ task[c] \in Task /\ UNCHANGED <<counter, inMap, hasPty>>
    BY <1>2 DEF Leave, Typed, registry
  <2>2. Goes(c, [task[c] EXCEPT !.todo = @ \ {w}])
    BY <1>2 DEF Leave, Goes, Typed
  <2>3. /\ [task[c] EXCEPT !.todo = @ \ {w}] \in Task
        /\ [task[c] EXCEPT !.todo = @ \ {w}].at = "leaving"
    BY <2>1 DEF Task
  <2> QED BY <2>1, <2>2, <2>3
<1> QED BY <1>1, <1>2

\* How a step of one task changes who runs and who is counted.
LEMMA CountAfter ==
  ASSUME Typed, Counts, NEW c \in Connections, NEW t \in Task, Goes(c, t)
  PROVE  /\ IsFiniteSet(Running') /\ IsFiniteSet(Counted')
         /\ Cardinality(Running) \in Nat /\ Cardinality(Counted) \in Nat
         /\ Cardinality(Running') =
              IF (t.at \in Live) = (task[c].at \in Live) THEN Cardinality(Running)
              ELSE IF t.at \in Live THEN Cardinality(Running) + 1 ELSE Cardinality(Running) - 1
         /\ LET Uncounted == {"out", "accepted", "rejected", "ended"} IN
            Cardinality(Counted') =
              IF (t.at \in Uncounted) = (task[c].at \in Uncounted) THEN Cardinality(Counted)
              ELSE IF t.at \in Uncounted THEN Cardinality(Counted) - 1
              ELSE Cardinality(Counted) + 1
<1> DEFINE Uncounted == {"out", "accepted", "rejected", "ended"}
<1>1. /\ task'[c] = t
      /\ \A d \in Connections \ {c} : task'[d] = task[d]
  BY OnlyOneGoes
<1>2. /\ c \in Running <=> task[c].at \in Live
      /\ c \in Counted <=> task[c].at \notin Uncounted
  BY DEF Running, Counted
<1>3. Running' = IF t.at \in Live THEN Running \cup {c} ELSE Running \ {c}
  BY <1>1 DEF Running
<1>4. Counted' = IF t.at \in Uncounted THEN Counted \ {c} ELSE Counted \cup {c}
  BY <1>1 DEF Counted
<1>5. /\ IsFiniteSet(Running) /\ IsFiniteSet(Counted)
      /\ Cardinality(Running) \in Nat /\ Cardinality(Counted) \in Nat
  BY FS_CardinalityType DEF Counts
<1>6. /\ IsFiniteSet(Running \cup {c}) /\ IsFiniteSet(Running \ {c})
      /\ IsFiniteSet(Counted \cup {c}) /\ IsFiniteSet(Counted \ {c})
      /\ Cardinality(Running \cup {c})
           = IF c \in Running THEN Cardinality(Running) ELSE Cardinality(Running) + 1
      /\ Cardinality(Running \ {c})
           = IF c \in Running THEN Cardinality(Running) - 1 ELSE Cardinality(Running)
      /\ Cardinality(Counted \cup {c})
           = IF c \in Counted THEN Cardinality(Counted) ELSE Cardinality(Counted) + 1
      /\ Cardinality(Counted \ {c})
           = IF c \in Counted THEN Cardinality(Counted) - 1 ELSE Cardinality(Counted)
  BY <1>5, FS_AddElement, FS_RemoveElement
<1> HIDE DEF Uncounted
<1>7. /\ IsFiniteSet(Running')
      /\ Cardinality(Running') =
           IF (t.at \in Live) = (task[c].at \in Live) THEN Cardinality(Running)
           ELSE IF t.at \in Live THEN Cardinality(Running) + 1 ELSE Cardinality(Running) - 1
  BY <1>2, <1>3, <1>6
<1>8. /\ IsFiniteSet(Counted')
      /\ Cardinality(Counted') =
           IF (t.at \in Uncounted) = (task[c].at \in Uncounted) THEN Cardinality(Counted)
           ELSE IF t.at \in Uncounted THEN Cardinality(Counted) - 1
           ELSE Cardinality(Counted) + 1
  BY <1>2, <1>4, <1>6
<1> QED BY <1>5, <1>7, <1>8 DEF Uncounted

\* A step from one place of a counted client to another keeps the permits and the count.
LEMMA CountsStay ==
  ASSUME Typed, Counts, NEW c \in Connections, NEW t \in Task, Goes(c, t),
         task[c].at \in Live \ {"accepted"}, t.at \in Live \ {"accepted"}, counter' = counter
  PROVE  Counts'
<1>1. /\ task[c].at \notin {"out", "accepted", "rejected", "ended"}
      /\ t.at \notin {"out", "accepted", "rejected", "ended"}
  BY DEF Live, Applying
<1> QED BY <1>1, CountAfter DEF Counts

\* Permits are taken and given back, and clients counted, with the steps of their tasks
\* (server.rs:2749-2763, 2825-2836, 2845-2854, 2902-2920).
LEMMA CountsHold == Typed /\ Counts /\ [Next]_vars => Counts'
<1> SUFFICES ASSUME Typed, Counts, [Next]_vars PROVE Counts'
  OBVIOUS
<1>1. ASSUME NEW c \in Connections, Handshake(c)
      PROVE  Counts'
  <2>1. CASE Accept(c)
    <3>1. PICK place \in {"accepted", "rejected"} :
            /\ Goes(c, At(place))
            /\ place = "accepted" => Cardinality(Running) < MaxClients
      BY <2>1 DEF Accept
    <3>2. At(place) \in Task /\ At(place).at = place /\ task[c].at = "out" /\ counter' = counter
      BY <2>1, TaskTypes DEF Live, Accept, registry
    <3> QED BY <3>1, <3>2, CountAfter, MaxClientsAssumption DEF Counts, Live, Applying
  <2>2. CASE List(c)
    <3>1. /\ At("listed") \in Task /\ At("listed").at = "listed"
          /\ Goes(c, At("listed")) /\ task[c].at = "accepted" /\ counter' = counter + 1
      BY <2>2, TaskTypes DEF Live, List
    <3> QED BY <3>1, CountAfter DEF Counts, Live, Applying
  <2>3. CASE Probe(c)
    <3>1. /\ At("ended") \in Task /\ At("ended").at = "ended"
          /\ Goes(c, At("ended")) /\ task[c].at = "listed" /\ counter' = counter - 1
      BY <2>3, TaskTypes DEF Probe
    <3> QED BY <3>1, CountAfter, MaxClientsAssumption DEF Counts, Live, Applying
  <2>4. CASE HandshakeFails(c)
    <3>1. /\ At("failed") \in Task /\ At("failed").at = "failed"
          /\ Goes(c, At("failed")) /\ task[c].at = "listed" /\ counter' = counter
      BY <2>4, TaskTypes DEF HandshakeFails, registry
    <3> QED BY <3>1, CountAfter, MaxClientsAssumption DEF Counts, Live, Applying
  <2>5. CASE Stranger(c) \/ Greet(c) \/ RegisterProtocol(c)
    <3>1. PICK place \in {"closing", "greeted", "ready"} : Goes(c, At(place))
      BY <2>5 DEF Stranger, Greet, RegisterProtocol
    <3>2. /\ At(place) \in Task /\ At(place).at = place
          /\ task[c].at \in {"listed", "greeted"} /\ counter' = counter
      BY <2>5, TaskTypes DEF Live, Stranger, Greet, RegisterProtocol, registry
    <3> QED BY <3>1, <3>2, CountsStay DEF Live
  <2> QED BY <1>1, <2>1, <2>2, <2>3, <2>4, <2>5 DEF Handshake
<1>2. ASSUME NEW c \in Connections,
             \/ SetPty(c) \/ Record(c)
             \/ \E w \in Workspaces : ReportSize(c, w) \/ AskResize(c, w)
      PROVE  Counts'
  <2>1. PICK t \in Task : Goes(c, t) /\ t.at \in {"ready"} \cup Applying
    BY <1>2, RequestMoves
  <2>2. task[c].at \in {"ready"} \cup Applying /\ counter' = counter
    BY <1>2, RequestMoves DEF Shaken
  <2> QED BY <2>1, <2>2, CountsStay DEF Live, Applying
<1>3. ASSUME NEW c \in Connections,
             HangUp(c) \/ CleanUp(c) \/ \E w \in Workspaces : Leave(c, w)
      PROVE  Counts'
  <2>1. PICK t \in Task : Goes(c, t) /\ t.at \in {"closing", "leaving"}
    BY <1>3, ClosingMoves
  <2>2. task[c].at \in {"ready", "closing", "leaving"} /\ counter' = counter
    BY <1>3, ClosingMoves
  <2> QED BY <2>1, <2>2, CountsStay DEF Live
<1>4. ASSUME NEW c \in Connections, End(c)
      PROVE  Counts'
  <2>1. /\ At("ended") \in Task /\ At("ended").at = "ended"
        /\ Goes(c, At("ended")) /\ task[c].at = "leaving" /\ counter' = counter - 1
    BY <1>4, TaskTypes DEF End
  <2> QED BY <2>1, CountAfter, MaxClientsAssumption DEF Counts, Live
<1>5. ASSUME UNCHANGED <<task, counter>>
      PROVE  Counts'
  BY <1>5 DEF Counts, Running, Counted
<1>6. ASSUME NEW c \in Connections, NEW w \in Workspaces,
             Attach(c, w) \/ TakeOver(c, w) \/ Detach(c, w) \/ Terminate(c, w)
      PROVE  UNCHANGED <<task, counter>>
  BY <1>6 DEF Attach, TakeOver, Detach, Terminate, registry
<1>7. ASSUME NEW w \in Workspaces, ShellExits(w)
      PROVE  UNCHANGED <<task, counter>>
  BY <1>7 DEF ShellExits, registry
<1>8. CASE UNCHANGED vars
  BY <1>5, <1>8 DEF vars, registry
<1> QED BY <1>1, <1>2, <1>3, <1>4, <1>5, <1>6, <1>7, <1>8 DEF Next, Requests, Closing

\* What is kept of the other connections is not touched by the steps of one.
LEMMA KeptOfOthers ==
  ASSUME Typed, Kept, NEW c \in Connections, NEW t \in Task, Goes(c, t), inMap' \subseteq inMap,
         \A d \in Connections \ {c} : /\ (d \in senders') = (d \in senders)
                                      /\ (d \in protocols') = (d \in protocols)
                                      /\ reported'[d] = reported[d],
         \A d \in Connections \ {c}, w \in inMap : d \in Attached(w)' => d \in Attached(w),
         KeptOf(c)'
  PROVE  Kept'
<1> SUFFICES ASSUME NEW d \in Connections \ {c} PROVE KeptOf(d)'
  BY DEF Kept
<1>1. task'[d] = task[d]
  BY OnlyOneGoes
<1>2. KeptOf(d)
  BY DEF Kept
<1> QED BY <1>1, <1>2 DEF KeptOf, Shaken

\* A connection is kept in the daemon's maps exactly from its listing to its clean-up
\* (server.rs:2825-2920, 2993-2998).
LEMMA KeptHolds == Typed /\ Kept /\ [Next]_vars => Kept'
<1> SUFFICES ASSUME Typed, Kept, [Next]_vars PROVE Kept'
  OBVIOUS
<1>1. ASSUME NEW c \in Connections, Handshake(c)
      PROVE  Kept'
  <2>1. PICK place \in {"accepted", "rejected", "listed", "ended", "failed", "closing", "greeted",
                        "ready"} :
          /\ Goes(c, At(place))
          /\ senders' = IF place = "listed" THEN senders \cup {c}
                        ELSE IF place = "ended" THEN senders \ {c} ELSE senders
          /\ protocols' = IF place = "ready" THEN protocols \cup {c} ELSE protocols
          /\ \/ task[c].at = "out" /\ place \in {"accepted", "rejected"}
             \/ task[c].at = "accepted" /\ place = "listed"
             \/ task[c].at = "listed" /\ place \in {"ended", "failed", "closing", "greeted"}
             \/ task[c].at = "greeted" /\ place = "ready"
    BY <1>1 DEF Handshake, Accept, List, Probe, HandshakeFails, Stranger, Greet, RegisterProtocol,
       registry
  <2>2. UNCHANGED <<reported, role, inMap>>
    BY <1>1 DEF Handshake, Accept, List, Probe, HandshakeFails, Stranger, Greet, RegisterProtocol,
       sizes, world
  <2>3. At(place) \in Task /\ At(place).at = place
    BY TaskTypes DEF Live
  <2>4. task'[c].at = place
    BY <2>1, <2>3, OnlyOneGoes
  <2>5. KeptOf(c)
    BY DEF Kept
  <2>6. KeptOf(c)'
    BY <2>1, <2>2, <2>4, <2>5 DEF KeptOf, Shaken, Attached, Applying
  <2> QED BY <2>1, <2>2, <2>3, <2>6, KeptOfOthers DEF Attached
<1>2. ASSUME NEW c \in Connections,
             \/ SetPty(c) \/ Record(c)
             \/ \E w \in Workspaces : ReportSize(c, w) \/ AskResize(c, w)
      PROVE  Kept'
  <2>1. PICK t \in Task : Goes(c, t) /\ t.at \in {"ready"} \cup Applying
    BY <1>2, RequestMoves
  <2>2. Shaken(c) /\ Shaken(c)' /\ UNCHANGED <<senders, protocols, role, inMap>>
    BY <1>2, <2>1, RequestMoves, OnlyOneGoes DEF Shaken
  <2>3. KeptOf(c)'
    BY <2>2 DEF Kept, KeptOf, Shaken, Applying
  <2>4. \A d \in Connections \ {c} : reported'[d] = reported[d]
    BY <1>2 DEF SetPty, Record, ReportSize, AskResize, Typed, sizes
  <2> QED BY <2>1, <2>2, <2>3, <2>4, KeptOfOthers DEF Attached
<1>3. ASSUME NEW c \in Connections, HangUp(c)
      PROVE  Kept'
  <2>1. /\ Goes(c, [At("closing") EXCEPT !.todo = Workspaces]) /\ task[c].at = "ready"
        /\ UNCHANGED <<senders, protocols, reported, role, inMap>>
    BY <1>3 DEF HangUp, Ready, registry, sizes, world
  <2>2. /\ [At("closing") EXCEPT !.todo = Workspaces] \in Task
        /\ [At("closing") EXCEPT !.todo = Workspaces].at = "closing"
        /\ [At("closing") EXCEPT !.todo = Workspaces].todo = Workspaces
    BY TaskTypes DEF Live
  <2>3. task'[c].at = "closing" /\ task'[c].todo = Workspaces
    BY <2>1, <2>2, OnlyOneGoes
  <2>4. KeptOf(c)'
    BY <2>1, <2>3 DEF Kept, KeptOf, Shaken, Attached, Applying, Typed
  <2> QED BY <2>1, <2>2, <2>4, KeptOfOthers DEF Attached
<1>4. ASSUME NEW c \in Connections, CleanUp(c)
      PROVE  Kept'
  <2> DEFINE todo == task[c].todo \cap inMap
  <2>1. /\ Goes(c, [At("leaving") EXCEPT !.todo = todo]) /\ task[c].at = "closing"
        /\ senders' = senders \ {c} /\ protocols' = protocols \ {c}
        /\ reported' = [reported EXCEPT ![c] = [w \in Workspaces |-> NoSize]]
        /\ UNCHANGED <<role, inMap>>
    BY <1>4 DEF CleanUp, Forget, world
  <2>2. todo \in SUBSET Workspaces
    BY DEF Typed
  <2> HIDE DEF todo
  <2>3. /\ [At("leaving") EXCEPT !.todo = todo] \in Task
        /\ [At("leaving") EXCEPT !.todo = todo].at = "leaving"
        /\ [At("leaving") EXCEPT !.todo = todo].todo = todo
    BY <2>2, TaskTypes DEF Live
  <2>4. task'[c].at = "leaving" /\ task'[c].todo = todo
    BY <2>1, <2>3, OnlyOneGoes
  <2>5. \A w \in Workspaces : reported'[c][w] = NoSize
    BY <2>1 DEF Typed
  <2>6. KeptOf(c)'
    BY <2>1, <2>4, <2>5 DEF Kept, KeptOf, Shaken, Attached, Applying, todo
  <2>7. \A d \in Connections \ {c} : reported'[d] = reported[d]
    BY <2>1 DEF Typed
  <2> QED BY <2>1, <2>3, <2>6, <2>7, KeptOfOthers DEF Attached
<1>5. ASSUME NEW c \in Connections, NEW w \in Workspaces, Leave(c, w)
      PROVE  Kept'
  <2>1. /\ task[c].at = "leaving" /\ task[c] \in Task
        /\ role' = [role EXCEPT ![w][c] = "Unattached"]
        /\ UNCHANGED <<senders, protocols, reported, inMap>>
    BY <1>5 DEF Leave, registry, sizes, Typed
  <2> DEFINE t == [task[c] EXCEPT !.todo = @ \ {w}]
  <2>2. Goes(c, t)
    BY <1>5 DEF Leave, Goes, Typed
  <2>3. t \in Task /\ t.at = "leaving" /\ t.todo = task[c].todo \ {w}
    BY <2>1 DEF Task
  <2> HIDE DEF t
  <2>4. task'[c].at = "leaving" /\ task'[c].todo = task[c].todo \ {w}
    BY <2>2, <2>3, OnlyOneGoes
  <2>5. /\ \A v \in Workspaces, d \in Connections : d \in Attached(v)' => d \in Attached(v)
        /\ c \notin Attached(w)'
    BY <2>1 DEF Attached, Typed
  <2>6. KeptOf(c)'
    BY <2>1, <2>4, <2>5 DEF Kept, KeptOf, Shaken, Applying, Typed
  <2> QED BY <2>1, <2>2, <2>3, <2>5, <2>6, KeptOfOthers DEF Typed
<1>6. ASSUME NEW c \in Connections, End(c)
      PROVE  Kept'
  <2>1. /\ Goes(c, At("ended")) /\ task[c].at = "leaving" /\ task[c].todo = {}
        /\ UNCHANGED <<senders, protocols, reported, role, inMap>>
    BY <1>6 DEF End, sizes, world
  <2>2. At("ended") \in Task /\ At("ended").at = "ended"
    BY TaskTypes
  <2>3. task'[c].at = "ended"
    BY <2>1, <2>2, OnlyOneGoes
  <2>4. KeptOf(c)'
    BY <2>1, <2>3 DEF Kept, KeptOf, Shaken, Attached, Applying
  <2> QED BY <2>1, <2>2, <2>4, KeptOfOthers DEF Attached
<1>7. ASSUME NEW c \in Connections, NEW w \in Workspaces,
             Attach(c, w) \/ TakeOver(c, w) \/ Detach(c, w) \/ Terminate(c, w)
      PROVE  Kept'
  <2>1. /\ Shaken(c)
        /\ UNCHANGED <<task, senders, protocols, reported>>
        /\ inMap' \subseteq inMap
    BY <1>7 DEF Attach, TakeOver, Detach, Terminate, Attached, Ready, Shaken, registry, sizes
  <2>2. \A d \in Connections \ {c}, v \in Workspaces : d \in Attached(v)' => d \in Attached(v)
    <3>1. CASE Attach(c, w)
      <4>1. PICK r \in {"Reader", "Writer"} : role' = [role EXCEPT ![w][c] = r]
        BY <3>1 DEF Attach
      <4> QED BY <4>1 DEF Attached, Typed
    <3>2. CASE TakeOver(c, w)
      <4> DEFINE roles == [d \in Connections |->
            IF d = c THEN "Writer" ELSE IF role[w][d] = "Writer" THEN "Reader" ELSE role[w][d]]
      <4>1. role' = [role EXCEPT ![w] = roles]
        BY <3>2 DEF TakeOver, Typed
      <4>2. \A d \in Connections \ {c} : roles[d] # "Unattached" => role[w][d] # "Unattached"
        OBVIOUS
      <4> HIDE DEF roles
      <4> QED BY <4>1, <4>2 DEF Attached, Typed
    <3>3. CASE Detach(c, w) \/ Terminate(c, w)
      BY <3>3 DEF Detach, Terminate, Attached, Typed
    <3> QED BY <1>7, <3>1, <3>2, <3>3
  <2>3. \A d \in Connections \ {c} : KeptOf(d)'
    BY <2>1, <2>2 DEF Kept, KeptOf, Shaken, Typed
  <2>4. KeptOf(c)'
    BY <2>1 DEF Kept, KeptOf, Shaken, Applying
  <2> QED BY <2>3, <2>4 DEF Kept
<1>8. ASSUME UNCHANGED <<task, senders, protocols, reported, role, inMap>>
      PROVE  Kept'
  BY <1>8 DEF Kept, KeptOf, Shaken, Attached
<1>9. ASSUME NEW w \in Workspaces, ShellExits(w)
      PROVE  Kept'
  BY <1>8, <1>9 DEF ShellExits, registry, sizes
<1>10. CASE UNCHANGED vars
  BY <1>8, <1>10 DEF vars, registry, sizes, world
<1> QED BY <1>1, <1>2, <1>3, <1>4, <1>5, <1>6, <1>7, <1>9, <1>10 DEF Next, Requests, Closing

\* Who is about to set a size, after a step of one task.
LEMMA SettingAfter ==
  ASSUME Typed, NEW c \in Connections, NEW t \in Task, Goes(c, t), NEW w \in Workspaces
  PROVE  /\ Setting(w)' = IF t.at \in Applying /\ t.ws = w THEN Setting(w) \cup {c}
                          ELSE Setting(w) \ {c}
         /\ c \in Setting(w) <=> task[c].at \in Applying /\ task[c].ws = w
         /\ task'[c] = t
         /\ \A d \in Connections \ {c} : task'[d] = task[d]
<1>1. /\ task'[c] = t
      /\ \A d \in Connections \ {c} : task'[d] = task[d]
  BY OnlyOneGoes
<1> QED BY <1>1 DEF Setting

\* The minimum of a pane depends on the reports about it alone (protocol.rs:180-198).
LEMMA MinSizeSame ==
  ASSUME NEW w \in Workspaces,
         NEW rep \in [Connections -> [Workspaces -> Sizes \cup {NoSize}]],
         NEW new \in [Connections -> [Workspaces -> Sizes \cup {NoSize}]],
         \A c \in Connections : new[c][w] = rep[c][w]
  PROVE  MinSize(w, new) = MinSize(w, rep)
<1>1. \A i \in {1, 2} : Axis(w, new, i) = Axis(w, rep, i)
  BY DEF Axis
<1> QED BY <1>1 DEF MinSize

\* Steps that set no size: nobody starts or ends setting one, and what disturbs a pane more is
\* that a report was dropped.
SetsNothing ==
  /\ \A w \in Workspaces : Setting(w)' = Setting(w)
  /\ \A c \in Connections : task[c].at \in Applying \/ task'[c].at \in Applying
                              => task'[c] = task[c]
  /\ UNCHANGED <<pty, recorded>>
  /\ inMap' \subseteq inMap /\ hasPty' \subseteq hasPty
  /\ \A w \in Workspaces :
       \/ /\ disturbed'[w] = disturbed[w]
          /\ \A c \in Connections : reported'[c][w] = reported[c][w]
       \/ disturbed'[w] = disturbed[w] \cup {"dropped"}

\* Handshakes, clean-ups, attachments and the end of a shell set no size; only a clean-up drops
\* reports (server.rs:2817-2920, 1113-1377, 2384-2393).
LEMMA OthersSetNothing ==
  ASSUME Typed,
         \/ \E c \in Connections : Handshake(c) \/ Closing(c)
         \/ \E c \in Connections, w \in Workspaces :
              Attach(c, w) \/ TakeOver(c, w) \/ Detach(c, w) \/ Terminate(c, w)
         \/ \E w \in Workspaces : ShellExits(w)
         \/ UNCHANGED vars
  PROVE  SetsNothing
<1>1. ASSUME NEW c \in Connections, NEW t \in Task, Goes(c, t),
             task[c].at \notin Applying, t.at \notin Applying
      PROVE  /\ \A w \in Workspaces : Setting(w)' = Setting(w)
             /\ \A d \in Connections : task[d].at \in Applying \/ task'[d].at \in Applying
                                         => task'[d] = task[d]
  <2>1. task'[c] = t /\ \A d \in Connections \ {c} : task'[d] = task[d]
    BY <1>1, OnlyOneGoes
  <2>2. ASSUME NEW w \in Workspaces
        PROVE  Setting(w)' = Setting(w)
    BY <1>1, <2>1 DEF Setting
  <2> QED BY <1>1, <2>1, <2>2
<1>2. ASSUME NEW c \in Connections, Handshake(c)
      PROVE  SetsNothing
  <2>1. PICK place \in {"accepted", "rejected", "listed", "ended", "failed", "closing", "greeted",
                        "ready"} : Goes(c, At(place)) /\ task[c].at \notin Applying
    BY <1>2 DEF Handshake, Accept, List, Probe, HandshakeFails, Stranger, Greet, RegisterProtocol,
       Applying
  <2>2. At(place) \in Task /\ At(place).at \notin Applying
    BY TaskTypes DEF Live, Applying
  <2>3. UNCHANGED <<reported, inMap, hasPty, pty, recorded, disturbed>>
    BY <1>2 DEF Handshake, Accept, List, Probe, HandshakeFails, Stranger, Greet, RegisterProtocol,
       sizes, world
  <2> QED BY <1>1, <2>1, <2>2, <2>3 DEF SetsNothing
<1>3. ASSUME NEW c \in Connections, HangUp(c) \/ CleanUp(c) \/ \E w \in Workspaces : Leave(c, w)
      PROVE  SetsNothing
  <2>1. PICK t \in Task : Goes(c, t) /\ t.at \in {"closing", "leaving"}
    BY <1>3, ClosingMoves
  <2>2. /\ task[c].at \notin Applying /\ t.at \notin Applying
        /\ UNCHANGED <<inMap, hasPty>>
    BY <1>3, <2>1, ClosingMoves DEF Applying
  <2>3. UNCHANGED <<pty, recorded>>
    BY <1>3 DEF HangUp, CleanUp, Forget, Leave, sizes
  <2>4. ASSUME NEW w \in Workspaces
        PROVE  \/ /\ disturbed'[w] = disturbed[w]
                  /\ \A d \in Connections : reported'[d][w] = reported[d][w]
               \/ disturbed'[w] = disturbed[w] \cup {"dropped"}
    <3>1. CASE UNCHANGED <<reported, disturbed>>
      BY <3>1
    <3>2. CASE CleanUp(c)
      <4>1. /\ reported' = [reported EXCEPT ![c] = [v \in Workspaces |-> NoSize]]
            /\ disturbed'[w] = disturbed[w] \cup IF reported[c][w] = NoSize THEN {} ELSE {"dropped"}
        BY <3>2 DEF CleanUp, Forget, Typed
      <4>2. \A d \in Connections : reported'[d][w] = IF d = c THEN NoSize ELSE reported[d][w]
        BY <4>1 DEF Typed
      <4> QED BY <4>1, <4>2
    <3> QED BY <1>3, <3>1, <3>2 DEF HangUp, Leave, sizes
  <2> QED BY <1>1, <2>1, <2>2, <2>3, <2>4 DEF SetsNothing
<1>4. ASSUME NEW c \in Connections, End(c)
      PROVE  SetsNothing
  <2>1. /\ Goes(c, At("ended")) /\ task[c].at = "leaving"
        /\ UNCHANGED <<reported, inMap, hasPty, pty, recorded, disturbed>>
    BY <1>4 DEF End, sizes, world
  <2>2. At("ended") \in Task /\ At("ended").at = "ended"
    BY TaskTypes
  <2> QED BY <1>1, <2>1, <2>2 DEF SetsNothing, Applying
<1>5. ASSUME UNCHANGED <<task, reported, pty, recorded, disturbed>>,
             inMap' \subseteq inMap, hasPty' \subseteq hasPty
      PROVE  SetsNothing
  BY <1>5 DEF SetsNothing, Setting
<1>6. ASSUME NEW c \in Connections, NEW w \in Workspaces,
             Attach(c, w) \/ TakeOver(c, w) \/ Detach(c, w) \/ Terminate(c, w)
      PROVE  SetsNothing
  BY <1>5, <1>6 DEF Attach, TakeOver, Detach, Terminate, sizes
<1>7. ASSUME NEW w \in Workspaces, ShellExits(w)
      PROVE  SetsNothing
  BY <1>5, <1>7 DEF ShellExits, sizes
<1>8. CASE UNCHANGED vars
  BY <1>5, <1>8 DEF vars, sizes, world
<1> QED BY <1>2, <1>3, <1>4, <1>6, <1>7, <1>8 DEF Closing

\* A client that starts to set a size is alone, or the pane is disturbed by what crossed
\* (server.rs:1644-1669, 1973-2020).
LEMMA DisturbedBy ==
  ASSUME Typed, NEW w \in Workspaces, NEW why \in SUBSET {"resized"}, Disturb(w, why)
  PROVE  /\ \A v \in Workspaces \ {w} : disturbed'[v] = disturbed[v]
         /\ Setting(w) = {} => disturbed'[w] = why
         /\ Setting(w) # {} => "crossed" \in disturbed'[w]
BY DEF Disturb, Typed

\* A request that starts to set a size, or only reports one.
LEMMA StartsSetting ==
  ASSUME Typed, NEW c \in Connections, NEW w \in Workspaces,
         ReportSize(c, w) \/ AskResize(c, w)
  PROVE  /\ UNCHANGED <<pty, recorded, inMap, hasPty>>
         /\ \A v \in Workspaces \ {w} :
              /\ Setting(v)' = Setting(v) /\ disturbed'[v] = disturbed[v]
              /\ \A d \in Connections : reported'[d][v] = reported[d][v]
         /\ \A d \in Connections \ {c} : task'[d] = task[d]
         /\ \/ /\ Setting(w)' = Setting(w) \cup {c}
               /\ c \notin Setting(w)
               /\ task'[c].at \in {"report", "resize"} /\ task'[c].ws = w
               /\ Setting(w) # {} => "crossed" \in disturbed'[w]
               /\ task'[c].at = "report" => task'[c].size = MinSize(w, reported')
               /\ task'[c].at = "resize" => disturbed'[w] # {}
            \/ /\ UNCHANGED <<task, disturbed>>
               /\ MinSize(w, reported') # NoSize => w \notin hasPty
<1>1. task[c].at = "ready" /\ UNCHANGED <<pty, recorded, inMap, hasPty>>
  BY DEF ReportSize, AskResize, Ready, world
<1>2. \A v \in Workspaces : c \notin Setting(v)
  BY <1>1 DEF Setting, Applying
<1>3. \A v \in Workspaces \ {w}, d \in Connections : reported'[d][v] = reported[d][v]
  <2>1. CASE ReportSize(c, w)
    <3>1. PICK s \in Sizes : reported' = [reported EXCEPT ![c][w] = s]
      BY <2>1 DEF ReportSize
    <3> QED BY <3>1 DEF Typed
  <2>2. CASE AskResize(c, w)
    BY <2>2 DEF AskResize
  <2> QED BY <2>1, <2>2
<1>4. ASSUME NEW t \in Task, Goes(c, t), t.at \in {"report", "resize"}, t.ws = w
      PROVE  /\ \A v \in Workspaces \ {w} : Setting(v)' = Setting(v)
             /\ Setting(w)' = Setting(w) \cup {c}
             /\ task'[c] = t /\ \A d \in Connections \ {c} : task'[d] = task[d]
  <2>1. task'[c] = t /\ \A d \in Connections \ {c} : task'[d] = task[d]
    BY <1>4, OnlyOneGoes
  <2>2. ASSUME NEW v \in Workspaces \ {w}
        PROVE  Setting(v)' = Setting(v)
    BY <1>2, <1>4, <2>1 DEF Setting
  <2>3. Setting(w)' = Setting(w) \cup {c}
    BY <1>4, <2>1 DEF Setting, Applying
  <2> QED BY <2>1, <2>2, <2>3
<1>5. CASE AskResize(c, w)
  <2>1. PICK s \in Sizes : Goes(c, Carrying("resize", w, s)) /\ Disturb(w, {"resized"})
    BY <1>5 DEF AskResize
  <2>2. /\ Carrying("resize", w, s) \in Task
        /\ Carrying("resize", w, s).at = "resize" /\ Carrying("resize", w, s).ws = w
    BY SizeTypes, TaskTypes DEF Live, Applying
  <2>3. /\ \A v \in Workspaces \ {w} : Setting(v)' = Setting(v)
        /\ Setting(w)' = Setting(w) \cup {c}
        /\ task'[c].at = "resize" /\ task'[c].ws = w
        /\ \A d \in Connections \ {c} : task'[d] = task[d]
    BY <2>1, <2>2, <1>4
  <2>4. /\ \A v \in Workspaces \ {w} : disturbed'[v] = disturbed[v]
        /\ Setting(w) # {} => "crossed" \in disturbed'[w]
        /\ disturbed'[w] # {}
    BY <2>1, DisturbedBy
  <2> QED BY <1>1, <1>2, <1>3, <2>3, <2>4
<1>6. CASE ReportSize(c, w) /\ MinSize(w, reported') # NoSize /\ w \in hasPty
  <2> DEFINE t == Carrying("report", w, MinSize(w, reported'))
  <2>1. Goes(c, t) /\ Disturb(w, {})
    BY <1>6 DEF ReportSize
  <2>2. reported' \in [Connections -> [Workspaces -> Sizes \cup {NoSize}]]
    BY <1>6 DEF ReportSize, Typed
  <2>3. MinSize(w, reported') \in Dimensions
    BY <1>6, <2>2, MinSizeType
  <2>4. t \in Task /\ t.at = "report" /\ t.ws = w /\ t.size = MinSize(w, reported')
    BY <2>3, TaskTypes DEF Live, Applying
  <2> HIDE DEF t
  <2>5. /\ \A v \in Workspaces \ {w} : Setting(v)' = Setting(v)
        /\ Setting(w)' = Setting(w) \cup {c}
        /\ task'[c].at = "report" /\ task'[c].ws = w /\ task'[c].size = MinSize(w, reported')
        /\ \A d \in Connections \ {c} : task'[d] = task[d]
    BY <2>1, <2>4, <1>4
  <2>6. /\ \A v \in Workspaces \ {w} : disturbed'[v] = disturbed[v]
        /\ Setting(w) # {} => "crossed" \in disturbed'[w]
    BY <2>1, DisturbedBy
  <2> QED BY <1>1, <1>2, <1>3, <2>5, <2>6
<1>7. CASE ReportSize(c, w) /\ ~ (MinSize(w, reported') # NoSize /\ w \in hasPty)
  <2>1. UNCHANGED <<task, disturbed>>
    BY <1>7 DEF ReportSize
  <2> QED BY <1>1, <1>3, <1>7, <2>1 DEF Setting
<1> QED BY <1>5, <1>6, <1>7

\* First the PTY's size is set (server.rs:1670-1680).
LEMMA SetPtyGoesOn ==
  ASSUME Typed, NEW c \in Connections, SetPty(c)
  PROVE  LET w == task[c].ws
             size == task[c].size
         IN /\ c \in Setting(w) /\ w \in Workspaces
            /\ UNCHANGED <<reported, disturbed, inMap, hasPty, recorded>>
            /\ pty' = [pty EXCEPT ![w] = size]
            /\ \A v \in Workspaces : Setting(v)' = Setting(v)
            /\ \A d \in Connections \ {c} : task'[d] = task[d]
            /\ task'[c].ws = w /\ task'[c].size = size
            /\ \/ task[c].at = "report" /\ task'[c].at = "reporting"
               \/ task[c].at = "resize" /\ task'[c].at = "resizing"
<1> DEFINE w == task[c].ws
           size == task[c].size
<1>1. /\ task[c].at \in Applying /\ w \in Workspaces /\ size \in Dimensions
      /\ c \in Setting(w)
      /\ UNCHANGED <<reported, disturbed, inMap, hasPty, recorded>>
      /\ pty' = [pty EXCEPT ![w] = size]
  BY DEF SetPty, Typed, Applying, Setting, world
<1>2. PICK place \in {"reporting", "resizing"} :
        /\ Goes(c, Carrying(place, w, size))
        /\ \/ task[c].at = "report" /\ place = "reporting"
           \/ task[c].at = "resize" /\ place = "resizing"
  BY DEF SetPty
<1> DEFINE t == Carrying(place, w, size)
<1>3. t \in Task /\ t.at = place /\ t.ws = w /\ t.size = size
  BY <1>1, TaskTypes DEF Live, Applying
<1> HIDE DEF t
<1>4. task'[c] = t /\ \A d \in Connections \ {c} : task'[d] = task[d]
  BY <1>2, <1>3, OnlyOneGoes DEF t
<1>5. ASSUME NEW v \in Workspaces
      PROVE  Setting(v)' = Setting(v)
  BY <1>1, <1>3, <1>4 DEF Setting, Applying
<1> QED BY <1>1, <1>2, <1>3, <1>4, <1>5

\* And then the pane's, if its workspace is there (server.rs:1681-1682, 2022-2042).
LEMMA RecordGoesOn ==
  ASSUME Typed, NEW c \in Connections, Record(c)
  PROVE  LET w == task[c].ws IN
           /\ c \in Setting(w) /\ w \in Workspaces
           /\ task[c].at \in {"reporting", "resizing"} /\ task'[c].at = "ready"
           /\ UNCHANGED <<reported, disturbed, inMap, hasPty, pty>>
           /\ \A v \in Workspaces : Setting(v)' = Setting(v) \ {c}
           /\ \A v \in Workspaces \ {w} : c \notin Setting(v) /\ recorded'[v] = recorded[v]
           /\ \A d \in Connections \ {c} : task'[d] = task[d]
           /\ w \in inMap => recorded'[w] = task[c].size
<1> DEFINE w == task[c].ws
<1>1. /\ task[c].at \in {"reporting", "resizing"} /\ w \in Workspaces
      /\ c \in Setting(w)
      /\ UNCHANGED <<reported, disturbed, inMap, hasPty, pty>>
      /\ \/ recorded' = [recorded EXCEPT ![w] = task[c].size]
         \/ w \notin inMap /\ recorded' = recorded
  BY DEF Record, Typed, Applying, Setting, world
<1>2. Goes(c, At("ready"))
  BY DEF Record
<1> DEFINE t == At("ready")
<1>3. t \in Task /\ t.at = "ready"
  BY TaskTypes DEF Live
<1> HIDE DEF t
<1>4. task'[c] = t /\ \A d \in Connections \ {c} : task'[d] = task[d]
  BY <1>2, <1>3, OnlyOneGoes DEF t
<1>5. ASSUME NEW v \in Workspaces
      PROVE  Setting(v)' = Setting(v) \ {c}
  BY <1>3, <1>4 DEF Setting, Applying
<1>6. ASSUME NEW v \in Workspaces \ {w}
      PROVE  c \notin Setting(v) /\ recorded'[v] = recorded[v]
  BY <1>1, <1>3, <1>4 DEF Setting, Applying, Typed
<1> QED BY <1>1, <1>3, <1>4, <1>5, <1>6 DEF Typed

\* What makes SizesAgree inductive: of a pane that nothing crossed one client at a time sets
\* the size, first the PTY's and then the pane's (server.rs:1670-1682, 2022-2042).
LEMMA UncrossedHolds == Typed /\ Uncrossed /\ [Next]_vars => Uncrossed'
<1> SUFFICES ASSUME Typed, Uncrossed, [Next]_vars,
                    NEW v \in inMap', "crossed" \notin disturbed'[v]
             PROVE  OneSets(v)'
  BY DEF Uncrossed
<1>1. CASE SetsNothing
  <2>1. v \in inMap /\ v \in Workspaces /\ "crossed" \notin disturbed[v]
    BY <1>1 DEF SetsNothing, Typed
  <2>2. OneSets(v) /\ Setting(v)' = Setting(v) /\ UNCHANGED <<pty, recorded>>
    BY <1>1, <2>1 DEF Uncrossed, SetsNothing
  <2>3. \A c \in Setting(v) : task'[c] = task[c]
    BY <1>1 DEF SetsNothing, Setting
  <2> QED BY <2>2, <2>3 DEF OneSets
<1>2. ASSUME NEW c \in Connections, NEW w \in Workspaces, ReportSize(c, w) \/ AskResize(c, w)
      PROVE  OneSets(v)'
  <2>1. v \in inMap /\ v \in Workspaces /\ UNCHANGED <<pty, recorded>>
    BY <1>2, StartsSetting DEF Typed
  <2>2. /\ \A d \in Setting(v) : d \in Connections \ {c}
        /\ \A d \in Connections \ {c} : task'[d] = task[d]
    BY <1>2, StartsSetting DEF ReportSize, AskResize, Ready, Setting, Applying
  <2>3. CASE Setting(v)' = Setting(v) /\ disturbed'[v] = disturbed[v]
    BY <2>1, <2>2, <2>3 DEF Uncrossed, OneSets
  <2>4. CASE v = w /\ ~ UNCHANGED <<task, disturbed>>
    <3>1. /\ Setting(v)' = Setting(v) \cup {c} /\ Setting(v) = {}
          /\ task'[c].at \in {"report", "resize"}
      BY <1>2, <2>4, StartsSetting
    <3> QED BY <3>1 DEF OneSets
  <2>5. v # w => Setting(v)' = Setting(v) /\ disturbed'[v] = disturbed[v]
    BY <1>2, <2>1, StartsSetting
  <2> QED BY <2>3, <2>4, <2>5 DEF Setting
<1>3. ASSUME NEW c \in Connections, SetPty(c)
      PROVE  OneSets(v)'
  <2>1. v \in inMap /\ v \in Workspaces /\ OneSets(v) /\ Setting(v)' = Setting(v)
    BY <1>3, SetPtyGoesOn DEF Typed, Uncrossed
  <2>2. CASE v # task[c].ws
    <3>1. /\ c \notin Setting(v)
          /\ \A d \in Connections \ {c} : task'[d] = task[d]
          /\ pty'[v] = pty[v] /\ recorded'[v] = recorded[v]
      BY <1>3, <2>1, <2>2, SetPtyGoesOn DEF Setting, Typed
    <3> QED BY <2>1, <3>1 DEF OneSets, Setting
  <2>3. CASE v = task[c].ws
    <3>1. Setting(v) = {c}
      BY <1>3, <2>1, <2>3, SetPtyGoesOn DEF OneSets
    <3>2. pty'[v] = task[c].size /\ task'[c].size = task[c].size
      BY <1>3, <2>1, <2>3, SetPtyGoesOn DEF Typed
    <3> QED BY <2>1, <3>1, <3>2 DEF OneSets
  <2> QED BY <2>2, <2>3
<1>4. ASSUME NEW c \in Connections, Record(c)
      PROVE  OneSets(v)'
  <2>1. v \in inMap /\ v \in Workspaces /\ OneSets(v)
    BY <1>4, RecordGoesOn DEF Typed, Uncrossed
  <2>2. CASE v # task[c].ws
    <3>1. /\ Setting(v)' = Setting(v) /\ c \notin Setting(v)
          /\ \A d \in Connections \ {c} : task'[d] = task[d]
          /\ pty'[v] = pty[v] /\ recorded'[v] = recorded[v]
      BY <1>4, <2>1, <2>2, RecordGoesOn DEF Setting
    <3> QED BY <2>1, <3>1 DEF OneSets, Setting
  <2>3. CASE v = task[c].ws
    <3>1. Setting(v) = {c}
      BY <1>4, <2>1, <2>3, RecordGoesOn DEF OneSets
    <3>2. Setting(v)' = {} /\ pty' = pty /\ recorded'[v] = task[c].size
      BY <1>4, <2>1, <2>3, <3>1, RecordGoesOn
    <3>3. pty[v] = task[c].size
      BY <1>4, <2>1, <2>3, <3>1, RecordGoesOn DEF OneSets
    <3> QED BY <3>2, <3>3 DEF OneSets
  <2> QED BY <2>2, <2>3
<1> QED BY <1>1, <1>2, <1>3, <1>4, OthersSetNothing DEF Next, Requests

\* A ResizePane marks its pane until another size is set alone (server.rs:1644-1669).
LEMMA ResizeDisturbsHolds == Typed /\ ResizeDisturbs /\ [Next]_vars => ResizeDisturbs'
<1> SUFFICES ASSUME Typed, ResizeDisturbs, [Next]_vars,
                    NEW d \in Connections, task'[d].at \in {"resize", "resizing"}
             PROVE  disturbed'[task'[d].ws] # {}
  BY DEF ResizeDisturbs
<1>1. CASE SetsNothing
  <2>1. task'[d] = task[d] /\ task[d].ws \in Workspaces /\ disturbed[task[d].ws] # {}
    BY <1>1 DEF SetsNothing, ResizeDisturbs, Typed, Applying
  <2> QED BY <1>1, <2>1 DEF SetsNothing
<1>2. ASSUME NEW c \in Connections, NEW w \in Workspaces, ReportSize(c, w) \/ AskResize(c, w)
      PROVE  disturbed'[task'[d].ws] # {}
  <2>1. CASE UNCHANGED <<task, disturbed>>
    BY <2>1 DEF ResizeDisturbs
  <2>2. CASE d = c /\ ~ UNCHANGED <<task, disturbed>>
    BY <1>2, <2>2, StartsSetting
  <2>3. CASE d # c /\ ~ UNCHANGED <<task, disturbed>>
    <3>1. task'[d] = task[d]
      BY <1>2, <2>3, StartsSetting
    <3>2. task[d].ws \in Workspaces /\ disturbed[task[d].ws] # {} /\ d \in Setting(task[d].ws)
      BY <3>1 DEF ResizeDisturbs, Typed, Setting, Applying
    <3>3. CASE task[d].ws = w
      <4>1. "crossed" \in disturbed'[w]
        BY <1>2, <2>3, <3>2, <3>3, StartsSetting
      <4> QED BY <3>1, <3>3, <4>1
    <3>4. CASE task[d].ws # w
      <4>1. disturbed'[task[d].ws] = disturbed[task[d].ws]
        BY <1>2, <3>2, <3>4, StartsSetting
      <4> QED BY <3>1, <3>2, <4>1
    <3> QED BY <3>3, <3>4
  <2> QED BY <2>1, <2>2, <2>3
<1>3. ASSUME NEW c \in Connections, SetPty(c)
      PROVE  disturbed'[task'[d].ws] # {}
  <2>1. task[d].at \in {"resize", "resizing"} /\ task'[d].ws = task[d].ws /\ disturbed' = disturbed
    BY <1>3, SetPtyGoesOn
  <2> QED BY <2>1 DEF ResizeDisturbs
<1>4. ASSUME NEW c \in Connections, Record(c)
      PROVE  disturbed'[task'[d].ws] # {}
  <2>1. task'[d] = task[d] /\ disturbed' = disturbed
    BY <1>4, RecordGoesOn
  <2> QED BY <2>1 DEF ResizeDisturbs
<1> QED BY <1>1, <1>2, <1>3, <1>4, OthersSetNothing DEF Next, Requests

\* What makes SizeIsMinimum inductive: of a pane that nothing disturbed the minimum of the
\* reports is on its way, or recorded (server.rs:1973-2042, protocol.rs:180-198).
LEMMA UndisturbedHolds ==
  Typed /\ Typed' /\ Uncrossed /\ ResizeDisturbs /\ Undisturbed /\ [Next]_vars => Undisturbed'
<1> SUFFICES ASSUME Typed, Typed', Uncrossed, ResizeDisturbs, Undisturbed, [Next]_vars,
                    NEW v \in (inMap \cap hasPty)', disturbed'[v] = {},
                    MinSize(v, reported') # NoSize
             PROVE  CarriesMinimum(v)'
  BY DEF Undisturbed
<1>1. v \in Workspaces
  BY DEF Typed
<1>2. ASSUME \A d \in Connections : reported'[d][v] = reported[d][v],
             v \in inMap \cap hasPty, disturbed[v] = {}
      PROVE  MinSize(v, reported') = MinSize(v, reported) /\ CarriesMinimum(v)
  <2>1. MinSize(v, reported') = MinSize(v, reported)
    BY <1>1, <1>2, MinSizeSame DEF Typed
  <2> QED BY <1>2, <2>1 DEF Undisturbed
<1>3. CASE SetsNothing
  <2>1. /\ v \in inMap \cap hasPty /\ disturbed[v] = {}
        /\ \A d \in Connections : reported'[d][v] = reported[d][v]
        /\ Setting(v)' = Setting(v) /\ UNCHANGED recorded
        /\ \A c \in Setting(v) : task'[c] = task[c]
    BY <1>1, <1>3 DEF SetsNothing, Setting
  <2>2. MinSize(v, reported') = MinSize(v, reported) /\ CarriesMinimum(v)
    BY <1>2, <2>1
  <2> QED BY <2>1, <2>2 DEF CarriesMinimum
<1>4. ASSUME NEW c \in Connections, NEW w \in Workspaces, ReportSize(c, w) \/ AskResize(c, w)
      PROVE  CarriesMinimum(v)'
  <2>1. v \in inMap \cap hasPty /\ recorded' = recorded
    BY <1>4, StartsSetting
  <2>2. CASE v # w
    <3>1. /\ Setting(v)' = Setting(v) /\ disturbed[v] = {}
          /\ \A d \in Connections : reported'[d][v] = reported[d][v]
          /\ \A d \in Setting(v) : task'[d] = task[d]
      BY <1>1, <1>4, <2>2, StartsSetting
         DEF ReportSize, AskResize, Ready, Setting, Applying
    <3>2. MinSize(v, reported') = MinSize(v, reported) /\ CarriesMinimum(v)
      BY <1>2, <2>1, <3>1
    <3> QED BY <2>1, <3>1, <3>2 DEF CarriesMinimum
  <2>3. CASE v = w
    <3>1. /\ Setting(v)' = {c} /\ task'[c].at = "report"
          /\ task'[c].size = MinSize(v, reported')
      BY <1>4, <2>1, <2>3, StartsSetting
    <3> QED BY <3>1 DEF CarriesMinimum
  <2> QED BY <2>2, <2>3
<1>5. ASSUME NEW c \in Connections, SetPty(c)
      PROVE  CarriesMinimum(v)'
  <2>1. /\ v \in inMap \cap hasPty /\ disturbed[v] = {}
        /\ reported' = reported /\ recorded' = recorded
        /\ Setting(v)' = Setting(v)
        /\ \A d \in Connections : task'[d].size = task[d].size
    BY <1>1, <1>5, SetPtyGoesOn
  <2>2. MinSize(v, reported') = MinSize(v, reported) /\ CarriesMinimum(v)
    BY <1>2, <2>1
  <2> QED BY <2>1, <2>2 DEF CarriesMinimum, Setting
<1>6. ASSUME NEW c \in Connections, Record(c)
      PROVE  CarriesMinimum(v)'
  <2>1. /\ v \in inMap \cap hasPty /\ disturbed[v] = {} /\ reported' = reported
        /\ Setting(v)' = Setting(v) \ {c}
        /\ \A d \in Connections \ {c} : task'[d] = task[d]
    BY <1>1, <1>6, RecordGoesOn
  <2>2. MinSize(v, reported') = MinSize(v, reported) /\ CarriesMinimum(v)
    BY <1>2, <2>1
  <2>3. CASE v # task[c].ws
    <3>1. c \notin Setting(v) /\ recorded'[v] = recorded[v]
      BY <1>1, <1>6, <2>3, RecordGoesOn
    <3> QED BY <2>1, <2>2, <3>1 DEF CarriesMinimum, Setting
  <2>4. CASE v = task[c].ws
    <3>1. c \in Setting(v) /\ recorded'[v] = task[c].size
      BY <1>6, <2>1, <2>4, RecordGoesOn
    <3>2. Setting(v) = {c}
      BY <2>1, <3>1 DEF Uncrossed, OneSets
    <3> QED BY <2>1, <2>2, <3>1, <3>2 DEF CarriesMinimum
  <2> QED BY <2>3, <2>4
<1> QED BY <1>3, <1>4, <1>5, <1>6, OthersSetNothing DEF Next, Requests

\* A daemon that has just started has no connection (Server::new, server.rs:163-180).
LEMMA InitClientsInv == Init => ClientsInv
<1> SUFFICES ASSUME Init PROVE ClientsInv
  OBVIOUS
<1>1. At("out") \in Task /\ At("out").at = "out"
  BY TaskTypes
<1>2. \A c \in Connections : task[c].at = "out"
  BY <1>1 DEF Init
<1>3. Typed
  BY <1>1, SizeTypes DEF Init, Typed, Applying
<1>4. Running = {} /\ Counted = {}
  BY <1>2 DEF Running, Counted, Live, Applying
<1>5. Counts
  BY <1>4, FS_EmptySet, MaxClientsAssumption DEF Counts, Init
<1>6. Kept
  BY <1>2 DEF Init, Kept, KeptOf, Shaken, Attached, Applying
<1>7. \A w \in Workspaces : Setting(w) = {} /\ MinSize(w, reported) = NoSize
  <2> SUFFICES ASSUME NEW w \in Workspaces PROVE Setting(w) = {} /\ MinSize(w, reported) = NoSize
    OBVIOUS
  <2>1. Setting(w) = {}
    BY <1>2 DEF Setting, Applying
  <2>2. Axis(w, reported, 1) = {}
    BY DEF Axis, Init
  <2> QED BY <2>1, <2>2 DEF MinSize
<1>8. Uncrossed
  BY <1>7 DEF Uncrossed, OneSets, Init
<1>9. ResizeDisturbs /\ Undisturbed
  BY <1>2, <1>7 DEF ResizeDisturbs, Undisturbed, Init
<1> QED BY <1>3, <1>5, <1>6, <1>8, <1>9 DEF ClientsInv

\* Every handler keeps the invariant (server.rs:2718-3072, 1644-1682, 1973-2042).
LEMMA ClientsInvHolds == Spec => []ClientsInv
<1>1. ClientsInv /\ [Next]_vars => ClientsInv'
  BY TypedHolds, CountsHold, KeptHolds, UncrossedHolds, ResizeDisturbsHolds, UndisturbedHolds
     DEF ClientsInv
<1> QED BY <1>1, InitClientsInv, PTL DEF Spec

\* The tables are well formed, clients have a protocol only while they have senders, and the
\* permits of MAX_CONCURRENT_CLIENTS are never exceeded, however many clients connect
\* (server.rs:2749-2763).
THEOREM ClientsTypeOK == Spec => []TypeOK
<1>1. ClientsInv => TypeOK
  <2> SUFFICES ASSUME ClientsInv PROVE TypeOK
    OBVIOUS
  <2>1. protocols \subseteq senders
    BY DEF ClientsInv, Kept, KeptOf, Typed
  <2>2. counter \in Nat /\ Cardinality(Running) <= MaxClients
    BY FS_CardinalityType DEF ClientsInv, Counts
  <2> QED BY <2>1, <2>2 DEF ClientsInv, Typed, TypeOK
<1> QED BY <1>1, ClientsInvHolds, PTL

\* A connection that is over has left no lease, no attachment, no protocol and no size, and
\* connected_clients is exact but for failed handshakes (server.rs:2846, 2859, 2885-2920).
THEOREM NothingIsLeft == Spec => []LeavesNoTrace
<1>1. ClientsInv => LeavesNoTrace
  <2> SUFFICES ASSUME ClientsInv PROVE LeavesNoTrace
    OBVIOUS
  <2>1. {c \in Running : task[c].at # "accepted"} \cup {c \in Connections : task[c].at = "failed"}
          = Counted
    <3>1. \A c \in Connections : task[c].at \in Live \cup {"out", "rejected", "failed", "ended"}
      BY DEF ClientsInv, Typed, Task
    <3> QED BY <3>1 DEF Counted, Running, Live, Applying
  <2>2. counter = Cardinality(Counted)
    BY DEF ClientsInv, Counts
  <2>3. ASSUME NEW c \in Connections, task[c].at \in {"ended", "failed"}
        PROVE  /\ \A w \in inMap : c \notin Attached(w)
               /\ \A w \in Workspaces : reported[c][w] = NoSize
               /\ c \notin protocols
               /\ c \in senders => task[c].at = "failed"
    <3>1. ~ Shaken(c) /\ task[c].at \notin {"listed", "greeted", "closing", "leaving"}
      BY <2>3 DEF Shaken, Applying
    <3> QED BY <2>3, <3>1 DEF ClientsInv, Kept, KeptOf
  <2> QED BY <2>1, <2>2, <2>3 DEF LeavesNoTrace
<1> QED BY <1>1, ClientsInvHolds, PTL

\* A pane that nobody is setting has the size of its PTY, unless two clients set it at the same
\* time (server.rs:1670-1682, 2022-2042).
THEOREM SizesAlwaysAgree == Spec => []SizesAgree
<1>1. ClientsInv => SizesAgree
  BY DEF ClientsInv, Uncrossed, OneSets, SizesAgree
<1> QED BY <1>1, ClientsInvHolds, PTL

\* The size of an undisturbed pane is on each axis the least that an attached client reported,
\* for any number of clients (protocol.rs:180-198, server.rs:1973-2042).
THEOREM SizeIsAlwaysMinimum == Spec => []SizeIsMinimum
<1>1. ASSUME ClientsInv, NEW w \in inMap \cap hasPty, Setting(w) = {}, disturbed[w] = {},
             \A c \in Connections \ Attached(w) : reported[c][w] = NoSize,
             NEW e \in Attached(w), reported[e][w] # NoSize, Usable(reported[e][w])
      PROVE  LET clients == {c \in Attached(w) : reported[c][w] # NoSize} IN
             \A i \in {1, 2} :
               /\ \A c \in clients : reported[c][w][i] > 0 => recorded[w][i] <= reported[c][w][i]
               /\ \E c \in clients : recorded[w][i] = reported[c][w][i]
  <2> DEFINE clients == {c \in Attached(w) : reported[c][w] # NoSize}
  <2>1. /\ w \in Workspaces
        /\ reported \in [Connections -> [Workspaces -> Sizes \cup {NoSize}]]
        /\ clients = {c \in Connections : reported[c][w] # NoSize}
    BY <1>1 DEF ClientsInv, Typed, Attached
  <2>2. e \in clients /\ reported[e][w] \in Sizes /\ reported[e][w][1] > 0 /\ reported[e][w][2] > 0
    BY <1>1, <2>1 DEF Usable
  <2>3. \A i \in {1, 2} : reported[e][w][i] \in Axis(w, reported, i)
    BY <2>1, <2>2 DEF Axis
  <2>4. MinSize(w, reported) # NoSize
    <3>1. \A i \in {1, 2} : Axis(w, reported, i) # {} /\ Axis(w, reported, i) \in SUBSET Nat
      BY <2>1, <2>3, AxisType
    <3>2. MinSize(w, reported)
            = <<Least(Axis(w, reported, 1)), Least(Axis(w, reported, 2))>>
      BY <3>1 DEF MinSize
    <3>3. MinSize(w, reported) \in Nat \X Nat
      BY <3>1, <3>2, LeastIsMinimum
    <3> QED BY <3>3, NoneAssumption
  <2>5. recorded[w] = MinSize(w, reported)
    BY <1>1, <2>4 DEF ClientsInv, Undisturbed, CarriesMinimum
  <2> SUFFICES ASSUME NEW i \in {1, 2}
               PROVE  /\ \A c \in clients :
                           reported[c][w][i] > 0 => recorded[w][i] <= reported[c][w][i]
                      /\ \E c \in clients : recorded[w][i] = reported[c][w][i]
    OBVIOUS
  <2>6. /\ recorded[w][i] \in Axis(w, reported, i)
        /\ \A n \in Axis(w, reported, i) : recorded[w][i] <= n
    BY <2>1, <2>4, <2>5, MinSizeType, LeastIsMinimum
  <2>7. ASSUME NEW c \in clients, reported[c][w][i] > 0
        PROVE  reported[c][w][i] \in Axis(w, reported, i)
    BY <2>1, <2>7 DEF Axis
  <2>8. \E c \in clients : recorded[w][i] = reported[c][w][i]
    BY <2>1, <2>6 DEF Axis
  <2> QED BY <2>6, <2>7, <2>8
<1>2. ClientsInv => SizeIsMinimum
  BY <1>1 DEF SizeIsMinimum, Attached
<1> QED BY <1>2, ClientsInvHolds, PTL
=============================================================================
